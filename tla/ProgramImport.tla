--------------------------- MODULE ProgramImport ---------------------------
(***************************************************************************)
(* One import job of the runtime: a file is loaded into the target's        *)
(* project, opened again for its entry point and its analysis, saved, and   *)
(* deleted again when that fails or is cancelled; the job's failure says    *)
(* what it left in the project.  Meanwhile the client may cancel the job,   *)
(* and a peer may add a program of the same name to the project's           *)
(* repository.  Every Ghidra call can fail.  A name that is taken when the  *)
(* loader saves makes it save under another name, or fail.                  *)
(***************************************************************************)
EXTENDS Integers

CONSTANTS
  Imports,  \* the imports explored: what is asked, and the program's address space
  Half,     \* half of the range of a Java long, whose upper half is negative
  None

VARIABLES
  asked,    \* [analyze, entry, min, max, unit]: the request, and the space it is for
  local,    \* the job's program in the project: "none", "loaded", "half" or "processed"
  apart,    \* it was saved under another name than the file's
  remote,   \* a peer's program of the same name: "none", "unseen" or "seen"
  held,     \* who still holds the program open: "loader", "open"
  entry,    \* the offset that was made an entry point, or None
  whole,    \* the processing so far was not cut short
  error,    \* the failure on its way to the client, or None
  hijacked, \* what the rollback's delete saw before it deleted
  cancel,   \* [requested, called, monitor, bound]: the client's cancellation
  job,      \* the step of the job's worker
  reply     \* [state |-> what the job's record says], once it has ended

vars == <<asked, local, apart, remote, held, entry, whole, error, hijacked, cancel, job, reply>>
fileVars == <<local, apart, remote>>
workVars == <<held, entry, whole>>

Init ==
  /\ asked \in Imports
  /\ local = "none" /\ apart = FALSE
  /\ remote \in {"none", "seen"}
  /\ held = {} /\ entry = None /\ whole = TRUE
  /\ error = None /\ hijacked = FALSE
  /\ cancel = [requested |-> FALSE, called |-> FALSE, monitor |-> "live", bound |-> FALSE]
  /\ job = "check"
  /\ reply = None

Begun == job \notin {"check", "begin"}
NameTaken == remote = "seen" \/ (local # "none" /\ ~apart)

\* The project shows a peer's program once its data is refreshed.
Refreshed == IF remote = "unseen" THEN "seen" ELSE remote

----------------------------------------------------------------------------
(***************************************************************************)
(* Addresses.  Offsets in the upper half are negative Java longs.           *)
(***************************************************************************)

Unsigned(offset) == IF offset < 0 THEN offset + 2 * Half ELSE offset

\* _address_from_int_locked, and the address space that refuses what is beyond it.
SignedOffset(bytes) == IF bytes >= Half THEN bytes - 2 * Half ELSE bytes
AddressOf(value, unit, max) ==
  LET bytes == value * unit
  IN  IF bytes > max THEN None ELSE SignedOffset(bytes)

\* Explicit addresses count addressable units, offsets count bytes from the start.
Entry(a) ==
  IF a.entry.by = "address" THEN AddressOf(a.entry.value, a.unit, a.max)
                            ELSE AddressOf(a.min + a.entry.value, 1, a.max)

\* What the request means, without the width of a long.
Meant(a) ==
  IF a.entry.by = "address" THEN a.entry.value * a.unit
                            ELSE Unsigned(a.min) + a.entry.value

----------------------------------------------------------------------------
(***************************************************************************)
(* The client and the repository                                            *)
(***************************************************************************)

\* cancel_operation: a job that has not begun ends at once; the monitor of one
\* that has begun is told after the manager's lock is released.
Cancel ==
  /\ reply = None
  /\ ~cancel.requested
  /\ cancel' = [cancel EXCEPT !.requested = TRUE, !.called = cancel.bound]
  /\ reply' = IF Begun THEN None ELSE [state |-> "absent"]
  /\ UNCHANGED <<asked, fileVars, workVars, error, hijacked, job>>

MonitorCancelled ==
  /\ cancel.called
  /\ cancel' = [cancel EXCEPT !.called = FALSE, !.monitor = "cancelled"]
  /\ UNCHANGED <<asked, fileVars, workVars, error, hijacked, job, reply>>

PeerAdds ==
  /\ remote = "none"
  /\ remote' = "unseen"
  /\ UNCHANGED <<asked, local, apart, workVars, error, hijacked, cancel, job, reply>>

PeerSeen ==
  /\ remote = "unseen"
  /\ remote' = Refreshed
  /\ UNCHANGED <<asked, local, apart, workVars, error, hijacked, cancel, job, reply>>

----------------------------------------------------------------------------
(***************************************************************************)
(* The worker, up to the saved program                                      *)
(***************************************************************************)

Goes(step) == job' = step /\ UNCHANGED <<error, hijacked>>
Fails(kind, step) == job' = step /\ error' = kind /\ UNCHANGED hijacked

\* A failure before the cancel is bound leaves at once.
EndsUnbegun ==
  /\ job' = "done"
  /\ reply' = IF reply = None THEN [state |-> "absent"] ELSE reply
  /\ UNCHANGED <<error, hijacked>>

\* check_active, the target's handle, the name, the input file, and the monitor.
Check ==
  /\ job = "check"
  /\ UNCHANGED <<asked, fileVars, workVars>>
  /\ IF cancel.requested \/ NameTaken
       THEN EndsUnbegun /\ UNCHANGED cancel
       ELSE \/ EndsUnbegun /\ UNCHANGED cancel
            \/ /\ Goes("begin")
               /\ cancel' = [cancel EXCEPT !.bound = TRUE]
               /\ UNCHANGED reply

\* control.begin refuses a job that was ended; otherwise the job is executing.
Begin ==
  /\ job = "begin"
  /\ IF cancel.requested THEN Fails("plain", "map") ELSE Goes("name")
  /\ UNCHANGED <<asked, fileVars, workVars, cancel, reply>>

\* The handle is open, the file exists, and its name is free once more.
LookUp ==
  /\ job = "name"
  /\ \/ ~NameTaken /\ Goes("load")
     \/ Fails("plain", "map")
  /\ UNCHANGED <<asked, fileVars, workVars, cancel, reply>>

\* The loader's options, its load and its primary program.
Load ==
  /\ job = "load"
  /\ \/ held' = {"loader"} /\ Goes("store")
     \/ UNCHANGED held /\ Fails("plain", "map")
  /\ UNCHANGED <<asked, fileVars, entry, whole, cancel, reply>>

\* The loaded program is saved, or has no primary, or its save fails.
Store ==
  /\ job = "store"
  /\ \/ /\ local' = "loaded"
        /\ apart' = (remote = "seen")
        /\ Goes("close")
     \/ UNCHANGED <<local, apart>> /\ Fails("plain", "close")
  /\ UNCHANGED <<asked, remote, workVars, cancel, reply>>

Processes == asked.analyze \/ asked.entry # None

\* load_results.close: a failure is told with the path of the program if that
\* was saved and can be read.
CloseLoader ==
  /\ job = "close"
  /\ \/ /\ held' = {}
        /\ Goes(IF error # None THEN "map" ELSE IF Processes THEN "open" ELSE "kept")
     \/ /\ UNCHANGED held
        /\ \E kind \in {"cleanup"} \union (IF error = None THEN {"partial"} ELSE {}) : Fails(kind, "map")
  /\ UNCHANGED <<asked, fileVars, entry, whole, cancel, reply>>

----------------------------------------------------------------------------
(***************************************************************************)
(* Post-processing and its rollback                                         *)
(***************************************************************************)

OpenAgain ==
  /\ job = "open"
  /\ \/ held' = {"open"} /\ Goes("entry")
     \/ UNCHANGED held /\ Fails("plain", "delete")
  /\ UNCHANGED <<asked, fileVars, entry, whole, cancel, reply>>

\* Disassembly and function creation stop early on a cancelled monitor without
\* failing, and their transaction is committed.
Bootstrap ==
  /\ job = "entry"
  /\ \/ /\ asked.entry = None
        /\ Goes("analyze") /\ UNCHANGED <<entry, whole>>
     \/ /\ asked.entry # None
        /\ Entry(asked) # None
        /\ entry' = Entry(asked)
        /\ whole' = (cancel.monitor = "live")
        /\ Goes("analyze")
     \/ Fails("plain", "release") /\ UNCHANGED <<entry, whole>>
  /\ UNCHANGED <<asked, fileVars, held, cancel, reply>>

\* run_auto_analysis raises when it was cancelled, and rolls its work back.
Analyze ==
  /\ job = "analyze"
  /\ \/ (asked.analyze => cancel.monitor = "live") /\ Goes("verify")
     \/ asked.analyze /\ Fails("plain", "release")
  /\ UNCHANGED <<asked, fileVars, workVars, cancel, reply>>

\* Mutant: what was done is kept, though a cancelled monitor cut it short.
SavesAnything == TRUE
\* "A cancelled bootstrap looks like a success. Never save it".
MaySave == cancel.monitor = "live"

Verify ==
  /\ job = "verify"
  /\ IF MaySave THEN Goes("save") ELSE Fails("plain", "release")
  /\ UNCHANGED <<asked, fileVars, workVars, cancel, reply>>

Save ==
  /\ job = "save"
  /\ \/ /\ local' = IF whole THEN "processed" ELSE "half"
        /\ Goes("release")
     \/ UNCHANGED local /\ Fails("plain", "release")
  /\ UNCHANGED <<asked, apart, remote, workVars, cancel, reply>>

\* The program is closed; one that stays open is kept and reported.
ReleaseProgram ==
  /\ job = "release"
  /\ \/ held' = {} /\ Goes(IF error = None THEN "kept" ELSE "delete")
     \/ UNCHANGED held /\ Fails("partial", "map")
  /\ UNCHANGED <<asked, fileVars, entry, whole, cancel, reply>>

\* _delete_domain_file_locked: the delete, then a refresh and a look at the path.
DeleteFile ==
  /\ job = "delete"
  /\ \/ /\ hijacked' = (remote = "seen" /\ ~apart)
        /\ local' = "none"
        /\ job' = "look"
        /\ UNCHANGED error
     \/ UNCHANGED local /\ Fails("partial", "map")
  /\ UNCHANGED <<asked, apart, remote, workVars, cancel, reply>>

\* Deleting a program that hid a peer's must show the peer's, and any other must
\* leave nothing.
Shown == remote' = "seen" /\ ~apart
LookAfterDelete ==
  /\ job = "look"
  /\ \/ /\ remote' = Refreshed
        /\ Fails(IF Shown = hijacked THEN "rolled_back" ELSE "partial", "map")
     \/ /\ UNCHANGED remote
        /\ Fails("partial", "map")
  /\ UNCHANGED <<asked, local, apart, workVars, cancel, reply>>

----------------------------------------------------------------------------
(***************************************************************************)
(* What the job's record says                                               *)
(***************************************************************************)

\* Mutant: the failure of a loader is taken for evidence that nothing was left.
LooksAbsentAlways == TRUE
\* "Merely seeing a validation/loader exception is not evidence of rollback".
LooksAbsent == ~NameTaken

\* _partial_import_error, the check for absence, and the job's output_state.
OutputStates(kind) ==
  CASE kind = "rolled_back" -> {"absent"}
    [] kind = "partial"     -> {"created"}
    [] kind = "cleanup"     -> {"uncertain"}
    [] kind = "plain"       -> {"uncertain"} \union IF LooksAbsent THEN {"absent"} ELSE {}

Kept ==
  /\ job = "kept"
  /\ Goes("done")
  /\ cancel' = [cancel EXCEPT !.bound = FALSE]
  /\ reply' = [state |-> "succeeded"]
  /\ UNCHANGED <<asked, fileVars, workVars>>

Map ==
  /\ job = "map"
  /\ Goes("done")
  /\ cancel' = [cancel EXCEPT !.bound = FALSE]
  /\ IF reply # None THEN UNCHANGED reply
                     ELSE \E state \in OutputStates(error) : reply' = [state |-> state]
  /\ UNCHANGED <<asked, fileVars, workVars>>

Next ==
  \/ Cancel \/ MonitorCancelled \/ PeerAdds \/ PeerSeen
  \/ Check \/ Begin \/ LookUp \/ Load \/ Store \/ CloseLoader
  \/ OpenAgain \/ Bootstrap \/ Analyze \/ Verify \/ Save \/ ReleaseProgram
  \/ DeleteFile \/ LookAfterDelete \/ Kept \/ Map

Spec == Init /\ [][Next]_vars

----------------------------------------------------------------------------
(***************************************************************************)
(* What an import promises                                                  *)
(***************************************************************************)

Ended(state) == reply # None /\ reply.state = state

\* A program that an import leaves behind is as it was loaded, or processed as
\* far as was asked: one cut short by a cancellation is never saved.
NothingIsHalfDone == local # "half"

\* A job that succeeded has its program, and one that says "absent" left none and
\* holds none (target_lifecycle.import_program, operations._output_state).
OutcomeIsTrue ==
  /\ Ended("succeeded") => held = {} /\ local = IF Processes THEN "processed" ELSE "loaded"
  /\ Ended("absent") => local = "none" /\ held = {}

\* "created | The program exists in the project": a failed job that says so left the
\* program, or one of its name is there.  (docs/usage.md, on output_state.)  Not so:
\* the look after the rollback's delete may fail when the program is deleted.
CreatedMeansItExists == Ended("created") => local # "none" \/ NameTaken

\* The entry point is at the address the client meant, in either half of the
\* address space (_address_from_int_locked).
EntryIsMeant == entry # None => Unsigned(entry) = Meant(asked)

ImportInvariant == NothingIsHalfDone /\ OutcomeIsTrue /\ EntryIsMeant
=============================================================================
