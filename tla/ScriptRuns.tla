----------------------------- MODULE ScriptRuns -----------------------------
(***************************************************************************)
(* A Ghidra script on a target's program: its outer transaction, what the  *)
(* run reports, and the quarantine that keeps a program nobody can vouch   *)
(* for from being saved until close_session(discard_changes=true)          *)
(* (script_service.py, scripts/execution.py, commands/scripts.py,          *)
(* core_runtime.py, session_store.py, target_lifecycle.py).                *)
(*                                                                         *)
(* A script may leave work behind: a Java thread (the scan after the run   *)
(* sees it, and the sentinel sees the transactions it starts), a Python    *)
(* thread (only the scan), a hidden one, of a pool (only the sentinel), a  *)
(* background analysis (isAnalyzing and the sentinel).  Calls of a target  *)
(* exclude each other (TargetLifecycle, ScriptBarrier); such work does not *)
(* wait for any lock.  An edit is a record of its run and its maker:       *)
(* "main" (in the script's transaction), "stray" (left work, which the code*)
(* can know of), "missed" (left work that neither detector could report    *)
(* before the save that wrote it was allowed), "client".                   *)
(***************************************************************************)
EXTENDS Naturals, Sequences, FiniteSets

CONSTANTS MaxRuns, MaxCalls, MaxStrays

VARIABLES
  target,    \* the session, its context and what the session store remembers
  program,   \* the open program: its edits and its transaction
  disk,      \* the edits that were saved
  strays,    \* the work that scripts left running on the open program
  job,       \* the script run, or the last one
  files,     \* the inline source of the run and its source bundle
  calling,      \* another call of the target
  reports,   \* what each finished run reported
  calls      \* calls so far

scriptVars == <<target, program, disk, strays, job, files, calling, reports, calls>>

StrayKinds == {"java", "python", "hidden", "analysis"}
SeenByScan == {"java", "python"}
Runs == 1..MaxRuns
EditOf(r, maker) == [run |-> r, maker |-> maker]

NoTarget == [open |-> FALSE, mark |-> FALSE, threads |-> {}, sentinel |-> FALSE,
             store |-> FALSE, orphan |-> FALSE]
Opened(saved) == [mem |-> saved, tx |-> "none", pending |-> {}, sub |-> FALSE, aborted |-> FALSE]
NoJob == [pc |-> "none", n |-> 0, inline |-> FALSE, status |-> "none", found |-> {}, tx |-> "none", threw |-> FALSE]

ScriptInit ==
  /\ target = [NoTarget EXCEPT !.open = TRUE]
  /\ program = Opened({}) /\ disk = {} /\ strays = {}
  /\ job = NoJob
  /\ files = [dir |-> FALSE, bundle |-> FALSE]
  /\ calling = "none" /\ reports = <<>> /\ calls = 0

\* Both layers: the store's own mark, then the one of the target's context.
Quarantined == target.store \/ target.mark

Marked(t, found) == [t EXCEPT !.mark = TRUE, !.threads = @ \cup found]

JobWorks == job.pc \notin {"none", "staged"}
ScriptGoto(pc) == job' = [job EXCEPT !.pc = pc]

-----------------------------------------------------------------------------
(* The run                                                                 *)

\* An inline source gets a directory of its own before the run waits for locks.
Stage(inline) ==
  /\ job.pc = "none" /\ job.n < MaxRuns
  /\ job' = [NoJob EXCEPT !.pc = "staged", !.n = job.n + 1, !.inline = inline]
  /\ files' = [files EXCEPT !.dir = inline]
  /\ UNCHANGED <<target, program, disk, strays, calling, reports, calls>>

Report(output) ==
  /\ job' = [NoJob EXCEPT !.n = job.n]
  /\ reports' = Append(reports, output)
  /\ files' = [files EXCEPT !.dir = FALSE]

\* The directory of an inline source is a source bundle while the script runs.
RegisterBundle == files' = [files EXCEPT !.bundle = files.dir]
ForgetBundle == files' = [files EXCEPT !.bundle = FALSE]

\* Refused before anything ran: cancelled, locks not granted, no session, quarantine.
RunRefused ==
  /\ job.pc = "staged" /\ calling = "none"
  /\ Report("absent")
  /\ UNCHANGED <<target, program, disk, strays, calling, calls>>

\* The checks inside the handler; every way out of them runs the housekeeping.
BeginRun ==
  /\ job.pc = "staged" /\ calling = "none" /\ target.open /\ ~Quarantined
  /\ RegisterBundle
  /\ IF program.tx # "none" \/ "analysis" \in strays
     THEN job' = [job EXCEPT !.pc = "finish", !.status = "refused"] /\ UNCHANGED program
     ELSE ScriptGoto("running") /\ program' = [program EXCEPT !.tx = "script"]
  /\ UNCHANGED <<target, disk, strays, calling, reports, calls>>

ScriptEdits ==
  /\ job.pc = "running"
  /\ program' = [program EXCEPT !.pending = @ \cup {EditOf(job.n, "main")}]
  /\ UNCHANGED <<target, disk, strays, job, files, calling, reports, calls>>

\* A transaction of its own inside the outer one: left open, or aborted.
ScriptNests(leave) ==
  /\ job.pc = "running"
  /\ program' = IF leave THEN [program EXCEPT !.sub = TRUE] ELSE [program EXCEPT !.aborted = TRUE]
  /\ UNCHANGED <<target, disk, strays, job, files, calling, reports, calls>>

ScriptLeaves(kind) ==
  /\ job.pc = "running" /\ Cardinality(strays) < MaxStrays
  /\ strays' = strays \cup {kind}
  /\ UNCHANGED <<target, program, disk, job, files, calling, reports, calls>>

\* The timer wins over an error, an error over a cancellation: the monitor is
\* read as the script ends.
Status(timedOut, failed, cancelled) ==
  IF timedOut THEN "timeout" ELSE IF failed THEN "error" ELSE IF cancelled THEN "cancelled" ELSE "ok"

Found == strays \cap SeenByScan

\* A failed load ends the run too; the threads are looked for either way.
ScriptEnds(timedOut, failed, cancelled) ==
  /\ job.pc = "running"
  /\ job' = [job EXCEPT !.pc = "ending", !.status = Status(timedOut, failed, cancelled),
                        !.found = Found]
  /\ UNCHANGED <<target, program, disk, strays, files, calling, reports, calls>>

Commits == job.status = "ok"
TxStatus(p) == IF p.sub THEN "NOT_DONE" ELSE IF p.aborted THEN "ABORTED" ELSE "COMMITTED"
Ended(p) ==
  IF p.sub THEN p
  ELSE [Opened(IF p.aborted THEN p.mem ELSE p.mem \cup p.pending) EXCEPT !.tx = "none"]

\* endTransaction may throw, before or after it did its work.
CloseTransaction(throws, works) ==
  /\ job.pc = "ending" /\ (throws \/ works)
  /\ LET p == [program EXCEPT !.aborted = @ \/ ~Commits]
     IN  /\ program' = IF works THEN Ended(p) ELSE program
         /\ job' = [job EXCEPT !.pc = "ended", !.threw = throws,
                               !.tx = IF ~works THEN "NOT_DONE"
                                      ELSE IF TxStatus(p) = "COMMITTED" /\ p.pending = {} THEN "NOTHING"
                                      ELSE TxStatus(p)]
  /\ UNCHANGED <<target, disk, strays, files, calling, reports, calls>>

\* Mutant: a run that asked for the commit got it.
OutcomeAsRequested(tx, commit, leaked) == IF commit THEN "committed" ELSE "rolled_back"

\* classify_transaction: "NOTHING" is a commit that wrote nothing.
ClassifyTransaction(tx, commit, leaked) ==
  IF leaked THEN "unknown"
  ELSE IF tx = "COMMITTED" /\ commit THEN "committed"
  ELSE IF tx = "NOTHING" /\ commit THEN "unchanged"
  ELSE IF tx = "ABORTED" THEN "rolled_back"
  ELSE "unknown"

ScriptOutputState(outcome, invalid) ==
  IF invalid \/ outcome = "unknown" THEN "uncertain"
  ELSE IF outcome = "committed" THEN "created"
  ELSE "absent"

Invalid(outcome, threw) ==
  outcome = "unknown" \/ threw \/ job.found # {} \/ "analysis" \in strays

\* The outcome is read after the transaction ended; an invalid run marks the
\* target's context before its error leaves the handler.
ClassifyRun ==
  /\ job.pc = "ended"
  /\ LET outcome == ClassifyTransaction(job.tx, Commits, program.tx # "none")
         known == IF job.threw THEN "unknown" ELSE outcome
         invalid == Invalid(known, job.threw)
     IN  /\ target' = IF invalid THEN Marked(target, job.found) ELSE target
         /\ job' = [job EXCEPT !.pc = "finish", !.status = ScriptOutputState(known, invalid)]
  /\ UNCHANGED <<program, disk, strays, files, calling, reports, calls>>

\* Whatever happened, the sentinel is armed and the inline bundle forgotten.
FinishRun ==
  /\ job.pc = "finish"
  /\ target' = [target EXCEPT !.sentinel = TRUE]
  /\ ForgetBundle
  /\ ScriptGoto("finished")
  /\ UNCHANGED <<program, disk, strays, calling, reports, calls>>

RunReplies ==
  /\ job.pc = "finished"
  /\ Report(IF job.status = "refused" THEN "absent" ELSE job.status)
  /\ UNCHANGED <<target, program, disk, strays, calling, calls>>

-----------------------------------------------------------------------------
(* What scripts left behind                                                *)

\* A nested start is silent; a top-level one reaches the sentinel, on a thread
\* that Python did not start.
Flagged(kind) == target.sentinel /\ kind # "python"
Checked == calling \in {"saving", "closing", "loading"}
Known(kind) == Flagged(kind) \/ kind \in job.found \cup target.threads \/ Quarantined

StrayStarts(kind) ==
  /\ kind \in strays /\ target.open /\ program.tx = "none"
  /\ program' = [program EXCEPT !.tx = "stray",
       !.pending = {EditOf(job.n, IF Known(kind) /\ ~Checked THEN "stray" ELSE "missed")}]
  /\ target' = IF Flagged(kind) THEN Marked(target, {}) ELSE target
  /\ UNCHANGED <<disk, strays, job, files, calling, reports, calls>>

\* The transaction of left work ends, or the one a script left open.
StrayEnds ==
  /\ program.tx = "stray" \/ (program.sub /\ job.pc \notin {"running", "ending"})
  /\ program' = Ended([program EXCEPT !.sub = FALSE])
  /\ UNCHANGED <<target, disk, strays, job, files, calling, reports, calls>>

StrayDies(kind) ==
  /\ kind \in strays /\ program.tx # "stray"
  /\ strays' = strays \ {kind}
  /\ UNCHANGED <<target, program, disk, job, files, calling, reports, calls>>

-----------------------------------------------------------------------------
(* The other calls of the target                                           *)

Idle == calling = "none" /\ ~JobWorks
Counted == Idle /\ calls < MaxCalls /\ calls' = calls + 1

ClientEdits ==
  /\ Counted /\ target.open /\ ~Quarantined /\ program.tx = "none"
  /\ program' = [program EXCEPT !.mem = @ \cup {EditOf(job.n, "client")}]
  /\ UNCHANGED <<target, disk, strays, job, files, calling, reports>>

\* Save, close, load and create are refused on a quarantined target, and work
\* on it after their check; discarding is what they are refused in favour of.
CallBegins(op) ==
  /\ Counted
  /\ op # "discarding" => ~Quarantined
  /\ op \in {"saving", "closing"} => target.open
  /\ calling' = op
  /\ UNCHANGED <<target, program, disk, strays, job, files, reports>>

CallEnds == calling' = "none" /\ UNCHANGED <<job, files, reports, calls>>

Fails == CallEnds /\ UNCHANGED <<target, program, disk, strays>>

Saves == disk' = program.mem
CanSave == program.tx = "none"

Save ==
  /\ calling = "saving" /\ CanSave /\ Saves /\ CallEnds
  /\ UNCHANGED <<target, program, strays>>

\* The program is released, and what runs on it works on a program nobody has.
Released == [target EXCEPT !.open = FALSE, !.mark = FALSE, !.threads = {}, !.sentinel = FALSE]
ProgramGone == program' = Opened({}) /\ strays' = {}

Close ==
  /\ calling = "closing" /\ CanSave /\ Saves /\ CallEnds
  /\ target' = Released
  /\ ProgramGone

\* A load opens the program; one on an open program saves and closes that first.
Load ==
  /\ calling = "loading" /\ (target.open => CanSave) /\ CallEnds
  /\ disk' = IF target.open THEN program.mem ELSE disk
  /\ target' = [Released EXCEPT !.open = TRUE]
  /\ program' = Opened(disk') /\ strays' = {}

\* An open fails and its program stays held: an open session stays, and the
\* store remembers the target, even one whose binding is rolled back.
LoadLeavesOrphan ==
  /\ calling = "loading" /\ CallEnds
  /\ target' = [target EXCEPT !.store = TRUE, !.orphan = TRUE]
  /\ UNCHANGED <<program, disk, strays>>

\* Mutant: no look at the threads that the run recorded.
NobodyRuns == TRUE

ThreadsGone == target.threads \cap strays = {}

\* discard_changes: the threads a run recorded must have ended, the program is
\* released unsaved, then everything the runtime still holds for the target.
Discard ==
  /\ calling = "discarding" /\ ThreadsGone
  /\ target' = IF target.open THEN Released ELSE target
  /\ ProgramGone
  /\ calling' = "releasing"
  /\ UNCHANGED <<disk, job, files, reports, calls>>

Recover ==
  /\ calling = "releasing" /\ CallEnds
  /\ target' = [target EXCEPT !.store = FALSE, !.orphan = FALSE]
  /\ UNCHANGED <<program, disk, strays>>

\* Shutdown closes what may be closed; a quarantined session is left alone.
CloseAll ==
  /\ Idle /\ target.open
  /\ calling' = "over"
  /\ IF Quarantined \/ ~CanSave
     THEN UNCHANGED <<target, program, disk, strays>>
     ELSE Saves /\ target' = Released /\ ProgramGone
  /\ UNCHANGED <<job, files, reports, calls>>

ScriptNext ==
  \/ \E inline \in BOOLEAN : Stage(inline)
  \/ RunRefused \/ BeginRun \/ ScriptEdits
  \/ \E leave \in BOOLEAN : ScriptNests(leave)
  \/ \E kind \in StrayKinds : ScriptLeaves(kind)
  \/ \E timedOut, failed, cancelled \in BOOLEAN : ScriptEnds(timedOut, failed, cancelled)
  \/ \E throws, works \in BOOLEAN : CloseTransaction(throws, works)
  \/ ClassifyRun \/ FinishRun \/ RunReplies
  \/ \E kind \in StrayKinds : StrayStarts(kind)
  \/ StrayEnds
  \/ \E kind \in StrayKinds : StrayDies(kind)
  \/ ClientEdits
  \/ \E op \in {"saving", "closing", "loading", "discarding"} : CallBegins(op)
  \/ calling \in {"saving", "closing", "loading", "discarding", "releasing"} /\ Fails
  \/ Save \/ Close \/ Load \/ LoadLeavesOrphan \/ Discard \/ Recover
  \/ CloseAll

ScriptSpec == ScriptInit /\ [][ScriptNext]_scriptVars

-----------------------------------------------------------------------------
(* Properties                                                              *)

ScriptTypeOK ==
  /\ DOMAIN target = DOMAIN NoTarget
  /\ target.threads \subseteq StrayKinds /\ strays \subseteq StrayKinds
  /\ program.mem \cup program.pending \cup disk
       \subseteq [run : 0..MaxRuns, maker : {"main", "stray", "missed", "client"}]
  /\ program.tx \in {"none", "script", "stray"}
  /\ job.n \in 0..MaxRuns
  /\ calling \in {"none", "saving", "closing", "loading", "discarding", "releasing", "over"}

ReportOf(r) == IF r <= Len(reports) THEN reports[r] ELSE "none"

\* Only what a run reported as committed, or a client edited, is ever saved: a
\* program a script left in an unknown state, and what its threads write after
\* it, stays in memory until it is discarded (session_store.py:99-108).
OnlyVerifiedIsSaved ==
  \A e \in disk : e.maker # "stray" /\ (e.maker = "main" => ReportOf(e.run) = "created")

\* "absent" stays true: nothing of that run is in the program, now or later.
ReportsAreTrue ==
  \A e \in program.mem \cup program.pending \cup disk : e.maker = "main" => ReportOf(e.run) # "absent"

\* The bundle of an inline source never outlives its directory, and both are
\* gone once the run has replied (commands/scripts.py:92-97).
NothingStaysBehind ==
  /\ files.bundle => files.dir
  /\ job.pc = "none" => ~files.dir

\* A program a failed open left held is always one a discard can reach.
OrphansAreRemembered == target.orphan => target.store

ScriptInvariant ==
  /\ ScriptTypeOK
  /\ OnlyVerifiedIsSaved
  /\ ReportsAreTrue
  /\ NothingStaysBehind
  /\ OrphansAreRemembered

\* A target leaves quarantine by a discard alone, which the threads its runs
\* recorded do not survive; a mark that arrives after a call's check goes with
\* the program that this call closes (target_lifecycle.py:715-726).
QuarantineIsLeftByDiscard ==
  [][Quarantined /\ ~Quarantined' =>
       \/ calling \in {"closing", "loading"} /\ ~target.store
       \/ calling \in {"discarding", "releasing"} /\ ~target'.open /\ ~target'.orphan
          /\ target.threads \cap strays = {}]_scriptVars
=============================================================================
