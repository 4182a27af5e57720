-------------------------- MODULE MCOperationManager --------------------------
(***************************************************************************)
(* Jobs and the records of tool calls (OperationManager) or, apart from    *)
(* them, a write that is sent again with its request_id (ToolCalls), or    *)
(* what the jobs that run scripts do to a program (ScriptRuns).            *)
(***************************************************************************)
EXTENDS OperationManager, ToolCalls, ScriptRuns

CONSTANTS r1, r2, name, prog, fp1, fp2, MaxId, c1, c2, c3

VARIABLE part

MCIds == 1..MaxId
ImportA == [kind |-> "import", key |-> <<"import", name>>, fp |-> fp1]
ImportB == [kind |-> "import", key |-> <<"import", name>>, fp |-> fp2]
Script == [kind |-> "script", key |-> <<"script", prog, fp1>>, fp |-> fp1]

Mixed == {ImportA, ImportB, Script}

\* The run explores tool calls and, apart from them, two jobs.
CallsOnly == \A id \in Ids : records[id].state # "free" => IsCall(id)
TwoJobs ==
  /\ \A id \in Ids : records[id].state # "free" => ~IsCall(id) /\ records[id].size = 0
  /\ \A id \in Ids : id > 2 => records[id].state = "free"

\* Which of the two import requests comes first makes no difference.
FirstImportIsA ==
  \A id \in Ids : records[id].kind = "import" =>
    records[id].fp = fp1 \/ \E first \in 1..(id - 1) : records[first].kind = "import"
Ends(by, ends, changed, told) == [by |-> by, ends |-> ends, changed |-> changed, told |-> told]

\* How a tool ends.  One that may have changed something is taken to have; a command
\* of the core says what it left, and a refusal or a retryable failure of another
\* write changed nothing.
SomeOutcomes ==
  {Ends("core", "value", TRUE, Nothing), Ends("core", "raised", TRUE, Nothing),
   Ends("core", "input", FALSE, Nothing), Ends("core", "failure", FALSE, "absent"),
   Ends("core", "retryable", TRUE, "uncertain"), Ends("core", "failure", TRUE, "uncertain"),
   Ends("service", "refusal", FALSE, Nothing), Ends("service", "retryable", FALSE, Nothing),
   Ends("service", "failure", TRUE, Nothing), Ends("gui", "failure", FALSE, Nothing)}

\* A write, its copy, and another write under the same request_id.
TheSends == {c1, c2, c3}
Arguments == [s \in Sends |-> IF s = c3 THEN fp2 ELSE fp1]

\* A write and its copy are alike: the run explores the first to come.
WriteFirst == part = "tools" => (stage[c1] = "new" => stage[c2] = "new")

\* Only the first script is inline.
FirstInline == job.inline => job.n = 1

Explored == (CallsOnly \/ (TwoJobs /\ FirstImportIsA)) /\ WriteFirst /\ FirstInline

JobsInit == part \in {"jobs", "tools", "scripts"} /\ Init /\ ToolInit /\ ScriptInit

\* No call is on a worker thread here: jobs beside such a call, whose end shutdown
\* awaits, are for MCCalls.
JobsNext == Worker \/ Crash \/ Client \/ Call \/ Shutdown \/ Joined \/ CallsDone
JobsPart == part = "jobs" /\ JobsNext /\ UNCHANGED <<part, toolVars, scriptVars>>
ToolsPart == part = "tools" /\ ToolNext /\ UNCHANGED <<part, vars, scriptVars>>
ScriptsPart == part = "scripts" /\ ScriptNext /\ UNCHANGED <<part, vars, toolVars>>

JobsOnlySpec == JobsInit /\ [][JobsPart \/ ToolsPart \/ ScriptsPart]_<<part, vars, toolVars, scriptVars>>
=============================================================================
