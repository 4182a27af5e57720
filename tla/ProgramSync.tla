------------------------------ MODULE ProgramSync ------------------------------
(***************************************************************************)
(* One program of a shared project: runtime/sync_operations.py and its      *)
(* mixins, save_project_program, the checkout guard of a command and        *)
(* program_lease.py.                                                        *)
(*                                                                         *)
(* The program's file is private, versioned or checked out in the local     *)
(* project; the server may have it open in a session; the repository holds  *)
(* its versions, and peers add and change it there between any two steps of *)
(* a call.  An edit is in the session, the file, a .keep copy or the        *)
(* repository.  The project's lock admits one call at a time.  A step is    *)
(* one call into Ghidra with what the code decides from its result; every   *)
(* one of them may fail, before or after it took effect.                    *)
(*                                                                         *)
(* TargetLifecycle has the locks, the handles and the registry of the same  *)
(* code; here a session is there or not.                                    *)
(***************************************************************************)
EXTENDS Integers

CONSTANTS Edits, None,
          Worlds,       \* what may happen around the server, chosen at the start
          MaxVersion,   \* bound on the versions peers bring about
          MaxFaults     \* bound on the Ghidra calls that fail

FileKinds == {"private", "versioned", "checkedout"}
Paths == {"orig", "keep"}

SessionType == [path : Paths, unsaved : SUBSET Edits, base : Nat, writable : BOOLEAN]

ASSUME WorldsAssumption ==
  /\ Worlds \subseteq [lags : BOOLEAN, closeFails : BOOLEAN, commandsFailLate : BOOLEAN]
  /\ MaxVersion \in Nat /\ MaxFaults \in Nat /\ None \notin SessionType

VARIABLES
  repo,     \* the latest version and the edits in it
  file,     \* the local file: its kind, the version checked out, the saved edits
  kept,     \* the edits in .keep copies of the program
  session,  \* the open program, or None
  marks,    \* the paths in the runtime's dirty and pending_sync sets
  call,     \* the call in progress, or the last one
  faults,   \* Ghidra calls that failed so far
  world     \* what may happen: never changes

vars == <<repo, file, kept, session, marks, call, faults, world>>

\* path: the file a call is about.  how: what it was asked to do with local
\* edits.  auto and out: auto_checkout and keep_checked_out.  made and taken: the
\* AutoCheckout.  work, save, then: the lease, whether it saves first, the step
\* after it.  keeps: a .keep copy is to be made.  done: the work took effect.  active: the lease closed the
\* program.  wraps: its errors are reported as partial success.  error: what the
\* work raised.  seen: the version before a check-in.  after: the reply once a
\* checkout is undone.  before: the state when the call began.
Idle == [op |-> "none", pc |-> "done", path |-> "orig", how |-> "abort", auto |-> FALSE, out |-> FALSE,
         edit |-> None, made |-> FALSE, taken |-> FALSE, work |-> "none", save |-> FALSE, then |-> "done",
         keeps |-> FALSE, done |-> FALSE, active |-> FALSE, wraps |-> FALSE, error |-> "none", seen |-> 0,
         after |-> "none", reply |-> "none", before |-> None]

Init ==
  /\ world \in Worlds
  /\ repo \in {[version |-> 0, edits |-> {}], [version |-> 1, edits |-> {}]}
  /\ file = [kind |-> IF repo.version = 0 THEN "private" ELSE "versioned", base |-> 0, edits |-> {}, lags |-> FALSE]
  /\ kept = {}
  /\ session = None
  /\ marks = [dirty |-> {}, pending |-> {}]
  /\ call = Idle
  /\ faults = 0

-----------------------------------------------------------------------------
(* What the code reads                                                     *)

\* get_sync_status after a refresh.  Edits just saved to an open program may not
\* show as modified_since_checkout yet.
Status ==
  LET out == file.kind = "checkedout" IN
  [versioned |-> file.kind # "private",
   hijacked  |-> file.kind = "private" /\ repo.version > 0,
   canAdd    |-> file.kind = "private" /\ repo.version = 0,
   out       |-> out,
   modified  |-> out /\ file.edits # {} /\ ~file.lags,
   merge     |-> out /\ file.base < repo.version,
   version   |-> IF out THEN file.base ELSE repo.version]

\* A .keep copy is a private file of a project with a repository.
KeepStatus == [Status EXCEPT !.versioned = FALSE, !.hijacked = FALSE, !.canAdd = TRUE, !.out = FALSE,
                             !.modified = FALSE, !.merge = FALSE]
StatusOf(path) == IF path = "orig" THEN Status ELSE KeepStatus

LoadedAt(path) == session # None /\ session.path = path
Loaded == LoadedAt(call.path)
Changed == Loaded /\ (call.path \in marks.dirty \/ session.unsaved # {})

\* Mutant: only the status of the file tells modifications.
ModifiedByStatus(st) == st.modified

\* The session's unsaved edits count as modifications of the checkout.
Modified(st) == st.modified \/ (st.out /\ Changed)
CanCheckIn(st) == st.out /\ (st.modified \/ (Changed /\ ~st.merge))
IsLatest(st) == st.versioned /\ st.version = repo.version

Opened(path) == [path |-> path, unsaved |-> {},
                 base |-> IF path = "orig" /\ file.kind # "private" THEN Status.version ELSE 0,
                 writable |-> path = "keep" \/ file.kind # "versioned"]

Unmarked(paths) == [dirty |-> marks.dirty \ paths, pending |-> marks.pending \ paths]

Fault == faults < MaxFaults /\ faults' = faults + 1
NoFault == UNCHANGED faults
Outside == UNCHANGED <<repo, world>>
AllFiles == UNCHANGED <<repo, file, kept, world>>

-----------------------------------------------------------------------------
(* Replies                                                                 *)

\* refused: a code of REFUSED_BEFORE_ANY_CHANGE.  retry: a retryable error.
\* failed: any other.  partial: an error with partial_success.
SaysNothingChanged(reply) == reply \in {"refused", "retry"}

\* Mutant: once the check-in began, no failure undoes the automatic checkout.
UndoesUntilTaken(c, error) == c.made /\ ~c.taken /\ error # "partial"

\* AutoCheckout.undoes_after.
UndoesAfter(c, error) == c.made /\ (SaysNothingChanged(error) \/ (~c.taken /\ error # "partial"))

Reply(c, reply) == [c EXCEPT !.pc = "done", !.reply = reply, !.error = "none"]
Lease(c, work, save, then) ==
  [c EXCEPT !.pc = "lease", !.work = work, !.save = save, !.then = then,
            !.active = FALSE, !.keeps = FALSE, !.done = FALSE, !.error = "none"]

\* Undoes the automatic checkout, then replies; a failure on the way is partial.
RollBack(c, reply) ==
  Lease([c EXCEPT !.made = FALSE, !.wraps = TRUE, !.after = reply], "rollback", FALSE, "rolledback")

Raise(c, error) ==
  LET raised == IF c.wraps THEN "partial" ELSE IF c.op = "edit" THEN "refused" ELSE error
  IN IF UndoesAfter(c, raised) THEN RollBack(c, raised) ELSE Reply(c, raised)

RollBackFirst(c, reply) == IF c.made THEN RollBack(c, reply) ELSE Reply(c, reply)

Begin(op, path, how, auto, out, e) ==
  /\ call.pc = "done"
  /\ call' = [Idle EXCEPT !.op = op, !.pc = "begin", !.path = path, !.how = how, !.auto = auto, !.out = out,
                          !.edit = e,
                          !.before = [kind |-> file.kind, edits |-> file.edits, kept |-> kept,
                                      repo |-> repo, unsaved |-> IF session = None THEN {} ELSE session.unsaved,
                                      here |-> LoadedAt("orig")]]
  /\ UNCHANGED <<repo, file, kept, session, marks, faults, world>>

\* A read of the refreshed status in the middle of a call fails.
ReadFails(pc, error) ==
  /\ call.pc = pc /\ Fault
  /\ call' = Raise(call, error)
  /\ AllFiles /\ UNCHANGED <<session, marks>>

Goes(c) == call' = c /\ NoFault /\ AllFiles /\ UNCHANGED <<session, marks>>

-----------------------------------------------------------------------------
(* The lease: save, close, work, reopen (_run_sync_operation_for_domain)    *)

\* Saving moves the edits to the file; whether the status shows them at once is
\* the repository's business.
Saves ==
  /\ session.writable
  /\ session' = [session EXCEPT !.unsaved = {}]
  /\ IF session.path = "keep"
     THEN kept' = kept \union session.unsaved /\ UNCHANGED file
     ELSE /\ UNCHANGED kept
          /\ \E lags \in BOOLEAN :
               /\ lags => world.lags /\ file.kind = "checkedout" /\ (file.edits = {} \/ file.lags)
               /\ file' = [file EXCEPT !.edits = @ \union session.unsaved, !.lags = lags]

SaveFails == IF session.writable THEN Fault ELSE NoFault

LeaseSaves ==
  /\ call.pc = "lease" /\ Loaded /\ call.save
  /\ \/ Saves /\ NoFault /\ call' = [call EXCEPT !.pc = "close"]
     \/ SaveFails /\ call' = Raise(call, "failed") /\ UNCHANGED <<session, file, kept>>
  /\ Outside /\ UNCHANGED marks

\* The status of a program that is not open is up to date.
Closes == session' = None /\ file' = [file EXCEPT !.lags = FALSE]

LeaseCloses ==
  /\ call.pc = "close" \/ (call.pc = "lease" /\ Loaded /\ ~call.save)
  /\ \/ /\ Closes /\ NoFault
        /\ call' = [call EXCEPT !.pc = "work", !.active = TRUE]
        /\ UNCHANGED marks
     \/ /\ world.closeFails /\ Fault   \* the program stays open
        /\ call' = Raise(call, "failed")
        /\ UNCHANGED <<session, file, marks>>
     \/ /\ Closes /\ Fault             \* the program is gone, its project failed to close
        /\ call' = Raise(call, "failed")
        /\ marks' = [dirty |-> {}, pending |-> {}]
  /\ Outside /\ UNCHANGED kept

\* undoCheckout(keep): the local copy goes, or becomes a .keep file.
UndoneCheckout == [file EXCEPT !.kind = "versioned", !.base = 0, !.edits = {}, !.lags = FALSE]

\* Whether Ghidra has something to do, and does it, for each kind of work.
CanWork ==
  CASE call.work \in {"undo", "rollback"} -> file.kind = "checkedout"
    [] call.work = "checkin" -> file.kind = "checkedout" /\ file.edits # {} /\ file.base = repo.version
    [] call.work = "add" -> Status.canAdd
    [] call.work = "unhijack" -> Status.hijacked
    [] call.work = "pull" -> ~(Status.modified /\ call.how = "abort")
    [] OTHER -> TRUE

DropsCheckout ==
  \/ call.work \in {"undo", "rollback"}
  \/ call.work = "drop" /\ Status.out
  \/ call.work = "pull" /\ (Status.modified \/ Status.merge)

Works ==
  CASE DropsCheckout ->
         /\ file' = UndoneCheckout
         /\ kept' = IF call.keeps THEN kept \union file.edits ELSE kept
         /\ UNCHANGED repo
    [] call.work \in {"checkin", "add"} ->
         /\ repo' = [version |-> repo.version + 1, edits |-> repo.edits \union file.edits]
         /\ file' = [file EXCEPT !.kind = IF call.out THEN "checkedout" ELSE "versioned",
                                 !.base = IF call.out THEN repo.version + 1 ELSE 0,
                                 !.edits = {}, !.lags = FALSE]
         /\ UNCHANGED kept
    [] call.work = "unhijack" -> file' = UndoneCheckout /\ UNCHANGED <<repo, kept>>
    [] OTHER -> UNCHANGED <<repo, file, kept>>

\* What the code calls the error Ghidra refuses a piece of work with.
Refusal == IF call.work \in {"add", "pull"} THEN "refused" ELSE "failed"
\* The work reads the status again after its effect.
ReadsAfter == call.work \in {"pull", "unhijack"}
\* A reload only finds the project again, and the guard of a command not even that.
DoesSomething == call.work \notin {"reload", "follow"}

Worked(c, error) ==
  IF c.active THEN [c EXCEPT !.pc = "reopen", !.error = error]
  ELSE IF error = "none" THEN [c EXCEPT !.pc = c.then] ELSE Raise(c, error)

\* From here on the check-in may have taken the checkout over.
Started(done) == [call EXCEPT !.taken = @ \/ call.work = "checkin", !.done = done]

LeaseWorks ==
  /\ call.pc = "work" \/ (call.pc = "lease" /\ ~Loaded)
  /\ \/ CanWork /\ Works /\ NoFault /\ call' = Worked(Started(TRUE), "none")
     \/ DoesSomething /\ CanWork /\ Works /\ Fault /\ call' = Worked(Started(TRUE), IF ReadsAfter THEN "partial" ELSE "failed")
     \/ /\ CanWork /\ Fault /\ (~DoesSomething => call.active /\ call.op # "edit")
        /\ \E error \in {"retry", "failed"} : call' = Worked(Started(FALSE), error)
        /\ UNCHANGED <<repo, file, kept>>
     \/ ~CanWork /\ NoFault /\ call' = Worked(Started(FALSE), Refusal) /\ UNCHANGED <<repo, file, kept>>
  /\ UNCHANGED <<session, marks, world>>

\* The .keep copy of an undone checkout is what the session goes on with; without
\* one the program is not reopened.
KeepMissing == call.keeps /\ ~call.done

\* What the error of a failed reopen says of the work before it.
ReopenError ==
  CASE call.error # "none" -> IF call.error = "partial" THEN "partial" ELSE "failed"
    [] call.work = "reload" -> "failed"
    [] OTHER -> "partial"

LeaseReopens ==
  /\ call.pc = "reopen"
  /\ \/ /\ ~KeepMissing /\ NoFault
        /\ session' = Opened(IF call.keeps THEN "keep" ELSE call.path)
        /\ IF call.error = "none"
           THEN marks' = Unmarked({call.path}) /\ call' = [call EXCEPT !.pc = call.then]
           ELSE UNCHANGED marks /\ call' = Raise(call, call.error)
     \/ /\ IF KeepMissing THEN NoFault ELSE Fault
        /\ marks' = [dirty |-> {}, pending |-> {}]
        /\ call' = Raise(call, ReopenError)
        /\ UNCHANGED session
  /\ AllFiles

-----------------------------------------------------------------------------
(* Checkout, add, undo                                                     *)

NotVersioned(st) == ~st.versioned

\* The first step of every synchronisation: refresh and read the status.  A
\* program open since before someone put its file under version control is
\* reopened first, unless that would lose edits.
BeginReads(op) == call.op = op /\ call.pc \in {"begin", "reread"}
MustReread(st) == call.pc = "begin" /\ Loaded /\ NotVersioned(st)
Rereads == IF Changed THEN Raise(call, "refused") ELSE Lease(call, "reload", FALSE, "reread")

\* The checkout itself follows, on a program without unsaved changes.
ChecksOut(c) == IF Changed THEN Raise(c, "refused") ELSE [c EXCEPT !.pc = "checkout"]

BeginCheckout ==
  /\ BeginReads("checkout")
  /\ Goes(CASE MustReread(Status) -> Rereads
            [] ~MustReread(Status) /\ NotVersioned(Status) -> Raise(call, "refused")
            [] Status.out /\ Changed -> Reply(call, "ok")
            [] Status.out /\ ~Changed -> Lease(call, "reload", FALSE, "ok")
            [] OTHER -> ChecksOut(call))

\* The program is reopened on the version checked out; a failure of that leaves
\* the checkout, and says so.
CheckedOut(c) == [Lease(c, "reload", FALSE, "posted") EXCEPT !.made = (c.op = "commit"), !.wraps = TRUE]

Checkout ==
  /\ call.pc = "checkout"
  /\ \/ /\ file' = [file EXCEPT !.kind = "checkedout", !.base = repo.version]
        /\ \/ /\ NoFault /\ call' = CheckedOut(call)
              /\ IF call.op = "checkout" THEN marks' = Unmarked({call.path}) ELSE UNCHANGED marks
           \/ Fault /\ call' = Raise(call, "failed") /\ UNCHANGED marks
     \/ /\ Fault   \* refused by the repository, or the call never got there
        /\ \E error \in {"retry", "failed"} : call' = Raise(call, error)
        /\ UNCHANGED <<file, marks>>
  /\ UNCHANGED <<repo, kept, session, world>>

BeginAdd ==
  /\ BeginReads("add")
  /\ Goes(CASE Status.versioned -> Reply(call, "noop")
            [] ~Status.versioned /\ ~Status.canAdd -> Raise(call, "refused")
            [] OTHER -> Lease(call, "add", TRUE, "posted"))

\* The local copy is preserved only when there is something to preserve.
Undoes(c, keep) == [Lease(c, "undo", keep, "posted") EXCEPT !.keeps = keep]

BeginUndo ==
  /\ BeginReads("undo")
  /\ Goes(CASE NotVersioned(Status) -> Raise(call, "refused")
            [] Status.versioned /\ ~Status.out -> Reply(call, "noop")
            [] OTHER -> Undoes(call, call.how = "keep" /\ Modified(Status)))

-----------------------------------------------------------------------------
(* Pull                                                                    *)

BeginPull ==
  LET st == Status IN
  /\ BeginReads("pull")
  /\ Goes(CASE st.hijacked /\ call.how = "discard" -> Lease(call, "unhijack", FALSE, "posted")
            [] NotVersioned(st) /\ ~(st.hijacked /\ call.how = "discard") -> Raise(call, "refused")
            [] st.versioned /\ (Modified(st) \/ Changed) /\ call.how = "abort" -> Raise(call, "refused")
            [] st.versioned /\ ~((Modified(st) \/ Changed) /\ call.how = "abort") ->
                 IF Modified(st) \/ st.merge THEN Lease(call, "pull", FALSE, "posted")
                 ELSE IF Loaded THEN Lease(call, "follow", FALSE, "posted")
                 ELSE [call EXCEPT !.pc = "posted"])

-----------------------------------------------------------------------------
(* Commit                                                                  *)

\* _handle_commit_conflict_locked, or what follows without a conflict.
Conflict(c, st, next) ==
  LET taken == [c EXCEPT !.taken = TRUE] IN
  CASE ~st.merge -> next
    [] st.merge /\ c.how = "abort" -> RollBackFirst(c, "refused")
    [] st.merge /\ c.how = "keep" -> Undoes(taken, Modified(st))
    [] st.merge /\ c.how = "discard" -> Lease(taken, "drop", FALSE, "posted")

BeginCommit ==
  LET st == Status IN
  /\ BeginReads("commit")
  /\ Goes(CASE MustReread(st) -> Rereads
            [] ~MustReread(st) /\ NotVersioned(st) -> IF st.canAdd THEN Reply(call, "noop") ELSE Raise(call, "refused")
            [] st.versioned /\ ~st.out -> IF call.auto THEN ChecksOut(call) ELSE Raise(call, "refused")
            [] st.out -> Conflict(call, st, [call EXCEPT !.pc = "save"]))

\* Saves the program if it changed; it is reopened then, so that the status shows it.
CommitSaves ==
  /\ call.pc = "save"
  /\ IF Changed
     THEN \/ /\ Saves /\ NoFault /\ marks' = Unmarked({call.path})
             /\ call' = Lease(call, "reload", FALSE, "recheck")
          \/ SaveFails /\ call' = Raise(call, "failed") /\ UNCHANGED <<session, file, kept, marks>>
     ELSE NoFault /\ call' = [call EXCEPT !.pc = "recheck"] /\ UNCHANGED <<session, file, kept, marks>>
  /\ Outside

\* The check-in of a program that can be checked in.
ChecksIn(c, st) == [Lease(c, "checkin", TRUE, "posted") EXCEPT !.seen = repo.version]

CommitRechecks ==
  LET st == Status IN
  /\ call.pc = "recheck"
  /\ Goes(Conflict(call, st,
            IF CanCheckIn(st) THEN ChecksIn(call, st)
            ELSE RollBackFirst(call, IF Modified(st) THEN "refused" ELSE "noop")))

-----------------------------------------------------------------------------
(* Postconditions                                                          *)

\* What a call verifies before it reports success, by what it did last.
Verified(st) ==
  CASE call.work = "reload" -> st.out
    [] call.work = "add" -> st.versioned
    [] call.work = "checkin" -> st.version > call.seen
    [] call.work = "rollback" -> ~st.out
    [] call.work = "undo" /\ call.op = "undo" -> ~st.out
    [] call.work \in {"undo", "drop"} /\ call.op = "commit" -> ~st.out /\ ~st.merge /\ IsLatest(st)
    [] OTHER -> IsLatest(st)

\* A pull that had nothing to do completed nothing.
PostError == IF call.op = "pull" /\ call.work = "none" THEN "retry" ELSE "partial"
PostFails == ReadFails("posted", PostError) \/ ReadFails("rolledback", "partial")

\* The automatic checkout of a commit is followed by the commit.
Posted ==
  /\ call.pc = "posted"
  /\ LET checked == [call EXCEPT !.made = @ /\ call.work = "reload", !.wraps = FALSE]
     IN Goes(CASE ~Verified(Status) -> Raise(checked, PostError)
               [] call.op = "commit" /\ call.work = "reload" /\ Verified(Status) ->
                    Conflict(checked, Status, [checked EXCEPT !.pc = "save"])
               [] OTHER -> Reply(checked, "ok"))

RolledBack ==
  /\ call.pc = "rolledback"
  /\ Goes(IF Verified(Status) THEN Reply(call, call.after) ELSE Reply(call, "partial"))

AlreadyCheckedOut == call.pc = "ok" /\ Goes(Reply(call, "ok"))

-----------------------------------------------------------------------------
(* Commands, save, load and close                                          *)

MayEdit(st) == ~st.hijacked /\ (st.versioned => st.out)
Guarded(st) == IF MayEdit(st) THEN [call EXCEPT !.pc = "edit"] ELSE Raise(call, "refused")

\* _ensure_checkout_for_mutating_command_locked: a clean private program is
\* reopened, to see whether someone put its file under version control.
BeginEdit ==
  LET st == StatusOf(call.path) IN
  /\ BeginReads("edit")
  /\ Goes(CASE call.pc = "begin" /\ st.canAdd /\ call.path \notin marks.dirty ->
                 IF Changed THEN Raise(call, "refused") ELSE Lease(call, "reload", FALSE, "reread")
            [] OTHER -> Guarded(st))

\* update_unsaved_program: a command that left the program unchanged unmarks it,
\* unless a save still waits for its status.
MarksAfter(path, changed) ==
  IF changed THEN [marks EXCEPT !.dirty = @ \union {path}]
  ELSE IF path \in marks.pending THEN marks ELSE Unmarked({path})

\* The command runs on what the guard read, whatever became of the check-out since.
Edit ==
  LET edited == [session EXCEPT !.unsaved = @ \union {call.edit}]
  IN /\ call.pc = "edit"
     /\ \/ call' = Reply(call, "ok") /\ session' = edited /\ marks' = MarksAfter(call.path, TRUE)
        \/ /\ call' = Reply(call, "ok") /\ UNCHANGED session
           /\ marks' = MarksAfter(call.path, session.unsaved # {})
        \/ /\ world.commandsFailLate   \* after its transaction committed
           /\ session' = edited /\ call' = Reply(call, "failed") /\ UNCHANGED marks
     /\ NoFault /\ AllFiles

\* Mutant: a saved program is clean.
SaveAlwaysUnmarks(st) == TRUE

\* _save_cleared_runtime_dirty_locked: a marked program stays marked until the
\* status shows what was saved.
SaveUnmarks(st) == ~st.versioned \/ ~st.out \/ st.modified

SaveProgram ==
  LET path == call.path
      marked == path \in marks.dirty
      st == [StatusOf(path) EXCEPT !.modified = @ \/ (file'.kind = "checkedout" /\ file'.edits # {} /\ ~file'.lags)]
  IN /\ call.op = "save" /\ call.pc = "begin"
     /\ \/ /\ ~marked /\ session.unsaved = {} /\ NoFault
           /\ call' = Reply(call, "ok")
           /\ marks' = Unmarked({path})
           /\ UNCHANGED <<session, file, kept>>
        \/ /\ marked \/ session.unsaved # {}
           /\ Saves
           /\ call' = Reply(call, "ok")
           /\ \/ NoFault /\ marks' = IF ~marked \/ SaveUnmarks(st) THEN Unmarked({path})
                                     ELSE [marks EXCEPT !.pending = @ \union {path}]
              \/ /\ Fault   \* the status cannot be read
                 /\ marks' = IF ~marked THEN Unmarked({path}) ELSE [marks EXCEPT !.pending = @ \union {path}]
        \/ /\ marked \/ session.unsaved # {}
           /\ SaveFails /\ call' = Reply(call, "failed")
           /\ UNCHANGED <<session, file, kept, marks>>
     /\ Outside

\* The program is loaded again after a call gave it up or a client closed it.
LoadProgram ==
  /\ call.op = "load" /\ call.pc = "begin" /\ session = None
  /\ session' = Opened(call.path)
  /\ call' = Reply(call, "ok")
  /\ NoFault /\ AllFiles /\ UNCHANGED marks

\* close_session saves an unsaved program unless it was told to discard.
CloseSession ==
  LET path == session.path
      saves == call.how # "discard" /\ session.unsaved # {}
      saved == IF saves THEN session.unsaved ELSE {}
  IN /\ call.op = "close" /\ call.pc = "begin"
     /\ IF saves /\ ~session.writable
        THEN call' = Reply(call, "failed") /\ UNCHANGED <<session, file, kept, marks>>
        ELSE /\ session' = None
             /\ file' = [file EXCEPT !.edits = IF path = "orig" THEN @ \union saved ELSE @, !.lags = FALSE]
             /\ kept' = IF path = "keep" THEN kept \union saved ELSE kept
             /\ marks' = Unmarked({path})
             /\ call' = Reply(call, "ok")
     /\ NoFault /\ Outside

-----------------------------------------------------------------------------
(* Clients and peers                                                       *)

Unused(e) ==
  /\ e \notin repo.edits \union file.edits \union kept
  /\ session # None => e \notin session.unsaved

Requests ==
  \/ \E e \in Edits : session # None /\ Unused(e) /\ Begin("edit", session.path, "abort", FALSE, FALSE, e)
  \/ session # None /\ Begin("save", session.path, "abort", FALSE, FALSE, None)
  \/ session # None /\ \E how \in {"save", "discard"} : Begin("close", session.path, how, FALSE, FALSE, None)
  \/ session = None /\ Begin("load", "orig", "abort", FALSE, FALSE, None)
  \/ session = None /\ kept # {} /\ Begin("load", "keep", "abort", FALSE, FALSE, None)
  \/ Begin("checkout", "orig", "abort", FALSE, FALSE, None)
  \/ \E out \in BOOLEAN : Begin("add", "orig", "abort", FALSE, out, None)
  \/ \E how \in {"keep", "discard"} : Begin("undo", "orig", how, FALSE, FALSE, None)
  \/ \E how \in {"abort", "discard"} : Begin("pull", "orig", how, FALSE, FALSE, None)
  \/ \E how \in {"abort", "keep", "discard"}, auto, out \in BOOLEAN : Begin("commit", "orig", how, auto, out, None)

BeginFails ==
  /\ call.op \notin {"save", "load", "close"}
  /\ ReadFails("begin", "retry")
RereadFails == ReadFails("reread", "failed")
RecheckFails == ReadFails("recheck", "retry")

\* A peer adds a program of the same path, or checks a version in.
PeerCommits ==
  /\ repo.version < MaxVersion
  /\ repo' = [repo EXCEPT !.version = @ + 1]
  /\ UNCHANGED <<file, kept, session, marks, call, faults, world>>

\* An administrator terminates the checkout: the local copy becomes a hijack.
PeerTerminates ==
  /\ file.kind = "checkedout"
  /\ file' = [file EXCEPT !.kind = "private", !.base = 0, !.lags = FALSE]
  /\ UNCHANGED <<repo, kept, session, marks, call, faults, world>>

Next ==
  \/ Requests \/ BeginFails \/ RereadFails \/ RecheckFails \/ PostFails
  \/ LeaseSaves \/ LeaseCloses \/ LeaseWorks \/ LeaseReopens
  \/ BeginCheckout \/ Checkout \/ BeginAdd \/ BeginUndo \/ BeginPull
  \/ BeginCommit \/ CommitSaves \/ CommitRechecks
  \/ Posted \/ RolledBack \/ AlreadyCheckedOut
  \/ BeginEdit \/ Edit \/ SaveProgram \/ LoadProgram \/ CloseSession
  \/ PeerCommits \/ PeerTerminates

Spec == Init /\ [][Next]_vars

-----------------------------------------------------------------------------
(* Properties                                                              *)

Errors == {"none", "refused", "retry", "failed", "partial"}
Replies == Errors \union {"ok", "noop"}

RepoType == [version : Nat, edits : SUBSET Edits]
FileType == [kind : FileKinds, base : Nat, edits : SUBSET Edits, lags : BOOLEAN]
BeforeType == [kind : FileKinds, edits : SUBSET Edits, kept : SUBSET Edits, repo : RepoType,
               unsaved : SUBSET Edits, here : BOOLEAN]
Ops == {"none", "checkout", "add", "undo", "pull", "commit", "edit", "save", "load", "close"}
Pcs == {"done", "begin", "reread", "checkout", "lease", "close", "work", "reopen", "posted", "rolledback",
        "ok", "save", "recheck", "edit"}
Hows == {"abort", "keep", "discard", "save"}
WorkKinds == {"none", "reload", "add", "undo", "unhijack", "pull", "follow", "drop", "checkin", "rollback"}
Thens == {"done", "reread", "ok", "posted", "recheck", "rolledback"}
CallType ==
  [op : Ops, pc : Pcs, path : Paths, how : Hows, auto : BOOLEAN, out : BOOLEAN, edit : Edits \union {None},
   made : BOOLEAN, taken : BOOLEAN, work : WorkKinds, save : BOOLEAN, then : Thens, keeps : BOOLEAN,
   done : BOOLEAN, active : BOOLEAN, wraps : BOOLEAN, error : Errors, seen : Nat, after : Replies,
   reply : Replies, before : BeforeType \union {None}]

\* Every variable has its type; only the status of an open check-out lags.
SyncTypeOK ==
  /\ world \in Worlds /\ repo \in RepoType /\ file \in FileType /\ kept \in SUBSET Edits
  /\ session \in SessionType \union {None}
  /\ marks \in [dirty : SUBSET Paths, pending : SUBSET Paths] /\ marks.pending \subseteq marks.dirty
  /\ call \in CallType /\ faults \in 0..MaxFaults
  /\ file.lags => world.lags /\ file.kind = "checkedout" /\ LoadedAt("orig")

Everywhere == repo.edits \union file.edits \union kept \union (IF session = None THEN {} ELSE session.unsaved)

\* An edit is given up only by a call that was told to discard local edits:
\* whatever fails, and whatever peers do meanwhile, the others leave it in the
\* session, the file, a .keep copy or the repository.
OnlyDiscardLoses == [][Everywhere \subseteq Everywhere' \/ call'.how = "discard"]_vars

\* A call that replies that nothing changed, or that there was nothing to do,
\* leaves the checkout as it found it (an automatic one is undone first) and the
\* repository, the saved edits and the .keep copies too.
QuietRepliesLeaveNothing ==
  call.pc = "done" /\ call.reply \in {"refused", "retry", "noop"} =>
    /\ file.kind \in {call.before.kind, "private"}
    /\ repo.edits = call.before.repo.edits
    /\ kept = call.before.kept
    /\ call.before.edits \subseteq file.edits

LocalBefore == call.before.edits \union (IF call.before.here THEN call.before.unsaved ELSE {})

\* What a commit reports happened: the local edits are in the repository, or in a
\* .keep copy when it resolved a conflict that way, or there were none.
CommitReportsTruly ==
  call.pc = "done" /\ call.op = "commit" =>
    /\ call.reply = "ok" /\ call.work = "checkin" => LocalBefore \subseteq repo.edits
    /\ call.reply = "ok" /\ call.work = "undo" => LocalBefore \subseteq kept
    /\ call.reply = "noop" /\ file.kind # "private" => LocalBefore = {}

\* Between calls, saved edits of an open program that its check-out does not show
\* as modified yet still hold the runtime's mark, or new unsaved edits: the guards
\* of undo, pull and commit read nothing else.
EditsAreVisible ==
  call.pc = "done" /\ LoadedAt("orig") /\ file.kind = "checkedout" /\ file.edits # {} =>
    \/ Status.modified
    \/ session.unsaved # {}
    \/ "orig" \in marks.dirty

\* A pull that succeeded leaves the program no older than the repository was when
\* the call began, the open program included.
PullFollowsLatest ==
  call.pc = "done" /\ call.op = "pull" /\ call.reply = "ok" =>
    /\ LoadedAt("orig") => session.base >= call.before.repo.version
    /\ file.kind # "private" => Status.version >= call.before.repo.version

\* The three promises of a reply.
RepliesAreTrue == QuietRepliesLeaveNothing /\ CommitReportsTruly /\ PullFollowsLatest

\* Types, and the visibility of edits every guard rests on.
SyncInvariant == SyncTypeOK /\ EditsAreVisible

\* A reply that says nothing changed leaves every edit the program had when the
\* call began where a later call finds it.
AbsentMeansUnchanged ==
  call.pc = "done" /\ SaysNothingChanged(call.reply) =>
    call.before.edits \union call.before.unsaved \subseteq Everywhere
=============================================================================
