--------------------------- MODULE ProjectHandle ---------------------------
(***************************************************************************)
(* One ghidra_headless ProjectHandle and the ProgramSessions opened         *)
(* through it.  Every method of the handle runs under its re-entrant lock,  *)
(* and ProgramSession.close under the session's own lock as well, so a      *)
(* method is one step.  What Ghidra answers to a call (a program that will  *)
(* not open, a save, a release, a delete or a project close that fails) is  *)
(* a choice of the step.                                                    *)
(***************************************************************************)
EXTENDS Naturals, FiniteSets

CONSTANTS ProgramKeys,  \* keys of _open_programs: a program, or one version of it
          ReadOnly,     \* the keys that name a past version
          Sessions,     \* places for ProgramSession objects
          NoKey,
          MaxPins,      \* bound on retain() pins held at once
          MaxOrphans    \* bound on programs kept from failed opens

ASSUME HandleAssumption ==
    /\ ReadOnly \subseteq ProgramKeys
    /\ NoKey \notin ProgramKeys
    /\ IsFiniteSet(ProgramKeys)
    /\ MaxPins \in Nat
    /\ MaxOrphans \in Nat

VARIABLES
    handle,    \* [open, orphans, refs, closed]: the fields of the handle
    session,   \* what each ProgramSession object holds
    pins,      \* pins taken with retain() and not given back
    result     \* how the last call ended: "ok", "failed", or "forced"

handleVars == <<handle, session, pins, result>>

Closed == [key |-> NoKey, changed |-> FALSE]
SessionLive(s) == session[s].key # NoKey
LiveSessions == {s \in Sessions : SessionLive(s)}

\* The project is opened by the constructor, with nothing counted.
HandleInit ==
    /\ handle = [open |-> {}, orphans |-> 0, refs |-> 0, closed |-> FALSE]
    /\ session = [s \in Sessions |-> Closed]
    /\ pins = 0
    /\ result = "ok"

(***************************************************************************)
(* _close_project_locked: closing the project forgets the open programs.    *)
(***************************************************************************)
ProjectClosed(h) == [h EXCEPT !.open = {}, !.closed = TRUE]

\* max(0, n - m)
Less(n, m) == IF n < m THEN 0 ELSE n - m

\* Mutant: a program that could not be released is remembered but not counted.
OrphanedUncounted(h) == [h EXCEPT !.orphans = @ + 1]
\* Keep owning the program that a failed open could not release.
Orphaned(h) == [h EXCEPT !.orphans = @ + 1, !.refs = @ + 1]

----------------------------------------------------------------------------
(***************************************************************************)
(* open_program                                                             *)
(***************************************************************************)

MayOpen(k) == ~handle.closed /\ k \notin handle.open

OpenProgram(s, k) ==
    /\ ~SessionLive(s)
    /\ MayOpen(k)
    /\ handle' = [handle EXCEPT !.open = @ \cup {k}, !.refs = @ + 1]
    /\ session' = [session EXCEPT ![s] = [key |-> k, changed |-> FALSE]]
    /\ result' = "ok"
    /\ UNCHANGED pins

\* FlatProgramAPI failed, and so did the release of the program.
OpenKeepsOrphan(k) ==
    /\ MayOpen(k)
    /\ k \notin ReadOnly
    /\ handle.orphans < MaxOrphans
    /\ handle' = Orphaned(handle)
    /\ result' = "failed"
    /\ UNCHANGED <<session, pins>>

----------------------------------------------------------------------------
(***************************************************************************)
(* Work on an open session                                                  *)
(***************************************************************************)

EditProgram(s) ==
    /\ SessionLive(s)
    /\ ~handle.closed
    /\ session[s].key \notin ReadOnly
    /\ session' = [session EXCEPT ![s].changed = TRUE]
    /\ result' = "ok"
    /\ UNCHANGED <<handle, pins>>

SaveProgram(s) ==
    /\ SessionLive(s)
    /\ ~handle.closed
    /\ \/ /\ session' = [session EXCEPT ![s].changed = FALSE]
          /\ result' = "ok"
       \/ /\ UNCHANGED session
          /\ result' = "failed"
    /\ UNCHANGED <<handle, pins>>

----------------------------------------------------------------------------
(***************************************************************************)
(* ProgramSession.close -> release_program                                  *)
(***************************************************************************)

\* Mutant: a project that is gone lets the session close as if all were well.
GoneAnswerSilent == "ok"

\* "Never a silent success: the project is gone, so nothing can be saved".
GoneAnswer == "failed"

CloseOnClosedProject(s) ==
    /\ SessionLive(s)
    /\ handle.closed
    /\ session' = [session EXCEPT ![s] = Closed]
    /\ result' = GoneAnswer
    /\ UNCHANGED <<handle, pins>>

\* The close stopped at the save, at the release of the program, or at the
\* removal of a read-only version: the session stays as it is, saved or not.
CloseRefused(s, save) ==
    /\ SessionLive(s)
    /\ ~handle.closed
    /\ \/ UNCHANGED session
       \/ /\ save
          /\ session[s].key \notin ReadOnly
          /\ session' = [session EXCEPT ![s].changed = FALSE]
    /\ result' = "failed"
    /\ UNCHANGED <<handle, pins>>

\* The program's key and its count go together.
Dropped(h, k) == [h EXCEPT !.open = @ \ {k}, !.refs = Less(@, 1)]

\* Mutant: a session that still counts others closes the project under them.
ReleasedAndCloses(h) == {ProjectClosed(h)}

\* The program is released; its project closes when it was the last user.
AfterRelease(h) == IF h.refs = 0 THEN {ProjectClosed(h), h} ELSE {h}

\* A close without saving is the caller's wish (save=False); after the program
\* is gone, a delete or a project close that fails is reported, and the session
\* object is closed all the same.
CloseSession(s, save, remove) ==
    LET k == session[s].key
        dropped == Dropped(handle, k)
    IN  /\ SessionLive(s)
        /\ ~handle.closed
        /\ ~(remove /\ k \in ReadOnly)
        /\ session' = [session EXCEPT ![s] = Closed]
        /\ \/ /\ remove
              /\ handle' = dropped
              /\ result' = "failed"
           \/ /\ handle' \in AfterRelease(dropped)
              /\ result' = IF dropped.refs = 0 /\ ~handle'.closed
                              THEN "failed"
                              ELSE IF save THEN "ok" ELSE "discarded"
        /\ UNCHANGED pins

----------------------------------------------------------------------------
(***************************************************************************)
(* Pins, recovery of orphans, and closing the project                       *)
(***************************************************************************)

Retain ==
    /\ ~handle.closed
    /\ pins < MaxPins
    /\ pins' = pins + 1
    /\ handle' = [handle EXCEPT !.refs = @ + 1]
    /\ result' = "ok"
    /\ UNCHANGED session

ReleasePin ==
    /\ pins > 0
    /\ pins' = pins - 1
    /\ IF handle.closed
          THEN /\ UNCHANGED handle
               /\ result' = "ok"
          ELSE LET h == [handle EXCEPT !.refs = Less(@, 1)]
               IN  /\ handle' \in AfterRelease(h)
                   /\ result' = IF h.refs = 0 /\ ~handle'.closed THEN "failed" ELSE "ok"
    /\ UNCHANGED session

\* The project closes only when the recovery left nothing behind.
Recovered(n) ==
    [handle EXCEPT !.orphans = n, !.refs = Less(@, handle.orphans - n)]

ReleaseOrphans(n) ==
    LET h == Recovered(n)
    IN  /\ n <= handle.orphans
        /\ IF h.refs = 0 /\ ~h.closed /\ n = 0
              THEN /\ handle' \in {ProjectClosed(h), h}
                   /\ result' = IF handle'.closed THEN "ok" ELSE "failed"
              ELSE /\ handle' = h
                   /\ result' = "ok"
        /\ UNCHANGED <<session, pins>>

\* close(): refused while anything is counted, unless the caller forces it.
MayClose(force) == handle.refs = 0 \/ force

CloseHandle(force) ==
    /\ ~handle.closed
    /\ MayClose(force)
    /\ \/ /\ handle' = ProjectClosed(handle)
          /\ result' = IF force THEN "forced" ELSE "ok"
       \/ /\ UNCHANGED handle
          /\ result' = "failed"
    /\ UNCHANGED <<session, pins>>

HandleNext ==
    \/ \E s \in Sessions, k \in ProgramKeys : OpenProgram(s, k)
    \/ \E k \in ProgramKeys : OpenKeepsOrphan(k)
    \/ \E s \in Sessions : EditProgram(s) \/ SaveProgram(s) \/ CloseOnClosedProject(s)
    \/ \E s \in Sessions, save \in BOOLEAN : CloseRefused(s, save)
    \/ \E s \in Sessions, save, remove \in BOOLEAN : CloseSession(s, save, remove)
    \/ Retain
    \/ ReleasePin
    \/ \E n \in 0 .. MaxOrphans : ReleaseOrphans(n)
    \/ \E force \in BOOLEAN : CloseHandle(force)

HandleSpec == HandleInit /\ [][HandleNext]_handleVars

----------------------------------------------------------------------------
(***************************************************************************)
(* What a handle promises                                                   *)
(***************************************************************************)

\* Every variable keeps to its type: the one type invariant of the module.
HandleTypeOK ==
    /\ handle \in [open : SUBSET ProgramKeys, orphans : 0 .. MaxOrphans, refs : Nat, closed : BOOLEAN]
    /\ session \in [Sessions -> [key : ProgramKeys \cup {NoKey}, changed : BOOLEAN]]
    /\ pins \in 0 .. MaxPins
    /\ result \in {"ok", "failed", "forced", "discarded"}

\* While the project is open, the count that decides when it closes is exactly
\* the open programs, the programs a failed open could not release, and the
\* pins: a failed step of an open, a close or a recovery never counts twice or
\* not at all (_refcount through open_program, release_program and release_*).
RefsAreCounted ==
    ~handle.closed =>
        handle.refs = Cardinality(handle.open) + handle.orphans + pins

\* An open project has exactly one live session for each open key, so a program
\* is never opened twice and a session is never cut off from an open project.
OneSessionPerKey ==
    /\ \A s, t \in LiveSessions : session[s].key = session[t].key => s = t
    /\ ~handle.closed => handle.open = {session[s].key : s \in LiveSessions}

\* What holds in every state of a handle.
HandleInvariant == HandleTypeOK /\ RefsAreCounted /\ OneSessionPerKey

\* Nothing but a forced close takes the project away from a live session, an
\* unreleased program or a pin: the last of them to go closes it.
ClosesOnlyUnused ==
    [][handle'.closed /\ ~handle.closed
         => result' = "forced" \/ (LiveSessions' = {} /\ handle'.orphans = 0 /\ pins' = 0)]_handleVars

\* A close that reports success found the project open, so it could save: edits
\* lost because the project was already gone are always reported.
SuccessMeansSaved ==
    [][\A s \in Sessions :
         session[s].changed /\ ~SessionLive(s)' /\ result' = "ok" => ~handle.closed]_handleVars

============================================================================
