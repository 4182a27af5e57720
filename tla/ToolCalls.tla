------------------------------ MODULE ToolCalls ------------------------------
(***************************************************************************)
(* A write tool called with a request_id and sent again: the call's way     *)
(* through GhidraMCPServer (presentation/mcp_server.py), dispatch_tool and  *)
(* the presentation of its result or error, the record of its outcome, and  *)
(* what a resend is told.  The request handlers run on the event loop, the  *)
(* call and the recording of its outcome on a thread, and other calls that  *)
(* end make the manager drop replies and records at any time.               *)
(***************************************************************************)
EXTENDS Naturals, Sequences

CONSTANTS
  Sends,     \* requests that carry the request_id
  Fingerprint,  \* [Sends -> fingerprint of the arguments]
  ToolOutcomes,  \* how the tool may end: [by, ends, changed, told]
  Nothing

VARIABLES
  stage,    \* [Sends -> where the request is]
  said,     \* the reply given in the last step: [to, answer, of], or Nothing
  holder,   \* the send whose record the request_id names, or Nothing
  entry,    \* [Sends -> the record made for it, or Nothing]
  awaited,  \* [Sends -> the record a resend waits for, or Nothing]
  run,      \* [Sends -> its call: [over, changed, returned], or Nothing if it never ran]
  began     \* the sends that made a record, in order

toolVars == <<stage, said, holder, entry, awaited, run, began>>

ToolInit ==
  /\ stage = [s \in Sends |-> "new"] /\ said = Nothing
  /\ holder = Nothing /\ entry = [s \in Sends |-> Nothing] /\ awaited = [s \in Sends |-> Nothing]
  /\ run = [s \in Sends |-> Nothing] /\ began = <<>>

Answer(is, state) == [is |-> is, state |-> state]
Running == [answer |-> Nothing, kept |-> FALSE, gone |-> FALSE]
EndedWith(answer) == [answer |-> answer, kept |-> TRUE, gone |-> FALSE]
RunsNow == [over |-> FALSE, changed |-> FALSE, returned |-> FALSE]
GoneEntry == [answer |-> Nothing, kept |-> FALSE, gone |-> TRUE]
IsOver(e) == e.answer # Nothing

SendGoes(s, where) == stage' = [stage EXCEPT ![s] = where]
Quiet == said' = Nothing
\* The request ends with an answer about the call that w's record is of.
Tell(s, answer, w) ==
  /\ said' = [to |-> s, answer |-> answer, of |-> w]
  /\ SendGoes(s, "ended")

\* A write turned away before it ran says that it left nothing.
TurnedAway(state) == Answer("error", state)

-----------------------------------------------------------------------------
(* Before the call                                                         *)

\* The arguments, the backend's policy or Ghidra's startup turn the call away.
Admit(s) ==
  /\ stage[s] = "new"
  /\ \/ SendGoes(s, "claim") /\ Quiet
     \/ Tell(s, TurnedAway("absent"), Nothing)
  /\ UNCHANGED <<holder, entry, awaited, run, began>>

\* Mutant: any failed call gives its request_id back.
FailedAtAll(w) == entry[w].answer # Nothing /\ entry[w].answer.is = "error"
\* "A cancellation still does" hold its request_id.
LeftNothing(w) == FailedAtAll(w) /\ entry[w].answer.state = "absent"

\* claim_call: a new record, the first call's, or REQUEST_ID_CONFLICT.
Claim(s) ==
  /\ stage[s] = "claim"
  /\ IF holder = Nothing \/ (holder # Nothing /\ LeftNothing(holder))
     THEN /\ holder' = s /\ entry' = [entry EXCEPT ![s] = Running] /\ began' = Append(began, s)
          /\ SendGoes(s, "slot")
          /\ Quiet /\ UNCHANGED awaited
     ELSE /\ IF Fingerprint[holder] # Fingerprint[s]
             THEN Tell(s, TurnedAway("absent"), Nothing) /\ UNCHANGED awaited
             ELSE /\ awaited' = [awaited EXCEPT ![s] = holder]
                  /\ SendGoes(s, "await") /\ Quiet
          /\ UNCHANGED <<holder, entry, began>>
  /\ UNCHANGED run

\* finish_call closes a record once.
RecordOutcome(s, answer) ==
  entry' = IF entry[s].answer = Nothing THEN [entry EXCEPT ![s] = EndedWith(answer)] ELSE entry

\* No slot came free, or the client left before one did: the record ends, and
\* the tool never runs.
SlotsBusy(s) ==
  /\ stage[s] = "slot"
  /\ RecordOutcome(s, TurnedAway("absent"))
  /\ Tell(s, TurnedAway("absent"), s)
  /\ UNCHANGED <<holder, awaited, run, began>>

CancelBeforeStart(s) ==
  /\ stage[s] = "slot"
  /\ RecordOutcome(s, Answer("cancelled", "absent"))
  /\ SendGoes(s, "ended")
  /\ Quiet /\ UNCHANGED <<holder, awaited, run, began>>

StartTool(s) ==
  /\ stage[s] = "slot"
  /\ run' = [run EXCEPT ![s] = RunsNow]
  /\ SendGoes(s, "wait")
  /\ Quiet /\ UNCHANGED <<holder, entry, awaited, began>>

-----------------------------------------------------------------------------
(* The call, on its thread                                                 *)

\* Mutant: a failure whose code is no refusal is taken to have left nothing.
StateOfAny(o) == IF o.told # Nothing THEN o.told ELSE "absent"
\* _with_output_state: commands of the core say it themselves; for other writes
\* the code tells, and a tool of the GUI changes the view only.
StateOf(o) ==
  IF o.told # Nothing \/ o.by = "core" THEN o.told
  ELSE IF o.by = "gui" \/ o.ends \in {"refusal", "retryable"} THEN "absent" ELSE "uncertain"

\* The tool fails in a way it names, by rules of its input, or with any exception.
ErrorOf(o) ==
  CASE o.ends = "raised" -> Answer("error", Nothing)
    [] o.ends = "input"  -> Answer("error", "absent")
    [] OTHER             -> Answer("error", StateOf(o))

\* A value may fail the output model, or the published schema, or be no result
\* at all.  A failure too large to show is cut, and what it says of the output
\* with it, and one that the schema rejects becomes a plain error.
Presented(o) ==
  LET plain == Answer("error", Nothing)
  IN IF o.ends = "value" THEN {Answer("value", Nothing), Answer("unshown", Nothing), plain}
                         ELSE {ErrorOf(o), plain}

Answers ==
  [is : {"value", "unshown", "error", "cancelled", "deferred", "discarded"},
   state : {Nothing, "absent", "uncertain"} \cup {o.told : o \in ToolOutcomes}]
Entries == [answer : Answers \cup {Nothing}, kept : BOOLEAN, gone : BOOLEAN]
CallRuns == [over : BOOLEAN, changed : BOOLEAN, returned : BOOLEAN]

ASSUME NothingElse == Nothing \notin Sends \cup {"absent", "uncertain"} \cup Answers \cup Entries \cup CallRuns

\* A tool changed nothing when it says so, or when it fails in a way from which
\* _with_output_state concludes it.
ASSUME ToolsAreHonest ==
  \A o \in ToolOutcomes :
    /\ o.changed \in BOOLEAN
    /\ o.changed => /\ o.told # "absent" /\ o.ends # "input"
                    /\ \/ o.ends \in {"value", "raised"} \/ o.told # Nothing \/ o.by = "core"
                       \/ o.by # "gui" /\ o.ends \notin {"refusal", "retryable"}

\* The tool's work, and _record_outcome at its end, on the call's thread.
Execute(s) ==
  /\ run[s] = RunsNow
  /\ \E o \in ToolOutcomes : \E answer \in Presented(o) :
       /\ run' = [run EXCEPT ![s] = [over |-> TRUE, changed |-> o.changed, returned |-> o.ends = "value"]]
       /\ RecordOutcome(s, answer)
  /\ Quiet /\ UNCHANGED <<stage, holder, awaited, began>>

\* The call ends within the wait; the wait ends first; or the client leaves.
Reply(s) ==
  /\ stage[s] = "wait"
  /\ \/ IsOver(entry[s]) /\ Tell(s, entry[s].answer, s)
     \/ Tell(s, Answer("deferred", Nothing), s)
     \/ SendGoes(s, "ended") /\ Quiet
  /\ UNCHANGED <<holder, entry, awaited, run, began>>

-----------------------------------------------------------------------------
(* A resend: _replay reads the record in steps, and other calls end between *)

\* "A resend whose record is gone: the first call may have run".
LostRecord(s) == Tell(s, TurnedAway("uncertain"), awaited[s])

Look(s) ==
  /\ stage[s] = "await"
  /\ LET w == awaited[s] IN
       IF entry[w].gone THEN LostRecord(s)
       ELSE \/ ~IsOver(entry[w]) /\ Tell(s, Answer("deferred", Nothing), w)
            \/ IsOver(entry[w]) /\ SendGoes(s, "fetch") /\ Quiet
  /\ UNCHANGED <<holder, entry, awaited, run, began>>

Fetch(s) ==
  /\ stage[s] = "fetch"
  /\ LET w == awaited[s] IN
       IF ~entry[w].gone /\ entry[w].kept THEN Tell(s, entry[w].answer, w)
                                          ELSE SendGoes(s, "discarded") /\ Quiet
  /\ UNCHANGED <<holder, entry, awaited, run, began>>

\* Mutant: every reply that was dropped is of a call that succeeded.
KeptErrorNever(e) == FALSE
\* A record that failed keeps its error when its reply is dropped.
KeptError(e) == e.answer.is \in {"error", "cancelled"}

\* RESULT_DISCARDED, unless the record still has an error.
Discarded(s) ==
  /\ stage[s] = "discarded"
  /\ LET w == awaited[s] IN
       IF entry[w].gone THEN LostRecord(s)
       ELSE Tell(s, IF KeptError(entry[w]) THEN entry[w].answer
                    ELSE Answer("discarded", "uncertain"), w)
  /\ UNCHANGED <<holder, entry, awaited, run, began>>

-----------------------------------------------------------------------------
(* The manager's memory is bounded                                         *)

DropReply(s) ==
  /\ entry[s] # Nothing /\ IsOver(entry[s]) /\ entry[s].kept
  /\ entry' = [entry EXCEPT ![s].kept = FALSE]
  /\ Quiet /\ UNCHANGED <<stage, holder, awaited, run, began>>

Evict(s) ==
  /\ entry[s] # Nothing /\ IsOver(entry[s]) /\ ~entry[s].gone
  /\ entry' = [entry EXCEPT ![s] = GoneEntry]
  /\ holder' = IF holder = s THEN Nothing ELSE holder
  /\ Quiet /\ UNCHANGED <<stage, awaited, run, began>>

ToolNext == \E s \in Sends :
  \/ Admit(s) \/ Claim(s) \/ SlotsBusy(s) \/ CancelBeforeStart(s) \/ StartTool(s)
  \/ Execute(s) \/ Reply(s)
  \/ Look(s) \/ Fetch(s) \/ Discarded(s)
  \/ DropReply(s) \/ Evict(s)

ToolSpec == ToolInit /\ [][ToolNext]_toolVars

-----------------------------------------------------------------------------
\* A write changes something at most once per request_id: while a call that
\* has not failed without a change, or that the client cancelled, is on record,
\* no other call with the request_id runs (claim_call), however the copies of
\* the request, the call's end and its presentation overlap.
RunsOnce ==
  \A i, j \in DOMAIN began : i < j =>
    LET first == began[i] IN
       \/ entry[first].gone
       \/ run[first] = Nothing /\ entry[first].answer.is # "cancelled"
       \/ run[first] # Nothing /\ IsOver(entry[first]) /\ ~run[first].changed

\* What a client is told is true of the call it asked for: "absent" means that
\* the call changed nothing, a result or RESULT_DISCARDED that it returned; a resend
\* is answered about a call with its own arguments, as that call's client was or
\* would have been.
AnswersAreTrue == said # Nothing =>
  LET a == said.answer
      w == said.of
  IN /\ w = Nothing => a.state = "absent" /\ run[said.to] = Nothing
     /\ w # Nothing =>
          /\ Fingerprint[w] = Fingerprint[said.to]
          /\ a.state = "absent" /\ run[w] # Nothing => run[w].over /\ ~run[w].changed
          /\ a.is \in {"value", "unshown", "discarded"} => run[w] # Nothing /\ run[w].over /\ run[w].returned
          /\ a.is = "cancelled" => run[w] = Nothing
          /\ a.is \notin {"deferred", "discarded"} => a = entry[w].answer \/ entry[w].gone

ToolInvariant == RunsOnce /\ AnswersAreTrue
=============================================================================
