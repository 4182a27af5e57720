------------------------ MODULE ProjectHandleProofs ------------------------
(***************************************************************************)
(* Proofs about ProjectHandle, for any set of keys and sessions: the count  *)
(* of a handle is right, a program has one session, and only a forced close *)
(* takes the project from somebody who uses it.                             *)
(*                                                                          *)
(* The three invariants are proved together: the count is a cardinality of  *)
(* the open keys, and that releasing a session takes exactly one key away   *)
(* needs OneSessionPerKey.                                                  *)
(*                                                                         *)
(* The second half is about ScriptRuns, for any number of runs, calls and   *)
(* threads: the two modules meet in the program that a handle keeps open,   *)
(* and share no variable.                                                   *)
(***************************************************************************)
EXTENDS ProjectHandle, ScriptRuns, FiniteSetTheorems, TLAPS

IInv == HandleTypeOK /\ OneSessionPerKey /\ RefsAreCounted

\* Opening a key that is not open adds one to the number of open programs.
LEMMA AddKey ==
    ASSUME NEW S \in SUBSET ProgramKeys, NEW k \in ProgramKeys, k \notin S
    PROVE  Cardinality(S \cup {k}) = Cardinality(S) + 1
<1>1. IsFiniteSet(S)
  BY FS_Subset, HandleAssumption
<1> QED
  BY <1>1, FS_AddElement

\* Dropping an open key takes one away, and there was one to take.
LEMMA DropKey ==
    ASSUME NEW S \in SUBSET ProgramKeys, NEW k \in S
    PROVE  /\ Cardinality(S) \in Nat
           /\ Cardinality(S) > 0
           /\ Cardinality(S \ {k}) = Cardinality(S) - 1
<1>1. IsFiniteSet(S)
  BY FS_Subset, HandleAssumption
<1>2. Cardinality(S) \in Nat /\ Cardinality(S \ {k}) = Cardinality(S) - 1
  BY <1>1, FS_RemoveElement, FS_CardinalityType
<1>3. IsFiniteSet(S \ {k}) /\ Cardinality(S \ {k}) \in Nat
  BY <1>1, FS_RemoveElement, FS_CardinalityType, FS_Subset
<1> QED
  BY <1>2, <1>3

\* The number of open programs is a natural number, and none are open at zero.
LEMMA CountIsNat ==
    ASSUME NEW S \in SUBSET ProgramKeys
    PROVE  Cardinality(S) \in Nat /\ (Cardinality(S) = 0 <=> S = {})
<1>1. IsFiniteSet(S)
  BY FS_Subset, HandleAssumption
<1> QED
  BY <1>1, FS_CardinalityType, FS_EmptySet

HandleType == [open : SUBSET ProgramKeys, orphans : 0 .. MaxOrphans, refs : Nat, closed : BOOLEAN]

\* Closing the project leaves a handle that is closed.
LEMMA HandleClosed ==
    ASSUME NEW h \in HandleType
    PROVE  ProjectClosed(h) \in HandleType /\ ProjectClosed(h).closed
BY DEF HandleType, ProjectClosed

LEMMA InitIInv == HandleInit => IInv
<1> SUFFICES ASSUME HandleInit PROVE IInv
  OBVIOUS
<1>1. HandleTypeOK
  BY HandleAssumption DEF HandleInit, HandleTypeOK, Closed
<1>2. OneSessionPerKey
  BY DEF HandleInit, OneSessionPerKey, LiveSessions, SessionLive, Closed
<1>3. RefsAreCounted
  BY FS_EmptySet DEF HandleInit, RefsAreCounted
<1> QED
  BY <1>1, <1>2, <1>3 DEF IInv

----------------------------------------------------------------------------
(***************************************************************************)
(* One lemma for each kind of step                                          *)
(***************************************************************************)

\* Steps that touch neither the handle, nor the pins, nor which key a session
\* holds: an edit, a save, a close that was refused.
LEMMA QuietStep ==
    ASSUME IInv, HandleTypeOK', UNCHANGED <<handle, pins>>,
           \A s \in Sessions : session'[s].key = session[s].key
    PROVE  IInv'
<1>1. RefsAreCounted'
  BY DEF IInv, RefsAreCounted
<1>2. LiveSessions' = LiveSessions
  BY DEF LiveSessions, SessionLive
<1>3. OneSessionPerKey'
  BY <1>2 DEF IInv, OneSessionPerKey, LiveSessions
<1> QED
  BY <1>1, <1>3 DEF IInv

\* Steps of the counts alone: the open programs and the sessions stay, and
\* either the project is closed now or the count is still right.
LEMMA CountingStep ==
    ASSUME IInv, HandleTypeOK', UNCHANGED session, handle'.open = handle.open,
           handle'.closed = handle.closed, RefsAreCounted'
    PROVE  IInv'
BY DEF IInv, OneSessionPerKey, LiveSessions, SessionLive

\* Steps that close the project and leave the sessions alone.
LEMMA ClosingStep ==
    ASSUME IInv, HandleTypeOK', UNCHANGED session, handle'.closed
    PROVE  IInv'
BY DEF IInv, OneSessionPerKey, LiveSessions, SessionLive, RefsAreCounted

LEMMA OpenProgramStep ==
    ASSUME IInv, NEW s \in Sessions, NEW k \in ProgramKeys, OpenProgram(s, k)
    PROVE  IInv'
<1> USE DEF IInv
<1>1. /\ ~SessionLive(s) /\ ~handle.closed /\ k \notin handle.open
      /\ handle' = [handle EXCEPT !.open = @ \cup {k}, !.refs = @ + 1]
      /\ session' = [session EXCEPT ![s] = [key |-> k, changed |-> FALSE]]
      /\ result' = "ok" /\ pins' = pins
  BY DEF OpenProgram, MayOpen
<1>2. /\ handle'.open = handle.open \cup {k} /\ handle'.refs = handle.refs + 1
      /\ handle'.orphans = handle.orphans /\ handle'.closed = handle.closed
      /\ handle' \in HandleType
  <2> DEFINE S == handle.open \cup {k}
             n == handle.refs + 1
  <2>1. handle \in HandleType /\ S \in SUBSET ProgramKeys /\ n \in Nat
    BY DEF HandleTypeOK, HandleType
  <2>2. handle' = [handle EXCEPT !.open = S, !.refs = n]
    BY <1>1
  <2> HIDE DEF S, n
  <2>3. /\ handle' \in HandleType /\ handle'.open = S /\ handle'.refs = n
        /\ handle'.orphans = handle.orphans /\ handle'.closed = handle.closed
    BY <2>1, <2>2 DEF HandleType
  <2> QED
    BY <2>3 DEF S, n
<1>3. HandleTypeOK'
  <2>1. session' \in [Sessions -> [key : ProgramKeys \cup {NoKey}, changed : BOOLEAN]]
    BY <1>1 DEF HandleTypeOK
  <2> QED
    BY <1>1, <1>2, <2>1 DEF HandleTypeOK, HandleType
<1>4. RefsAreCounted'
  <2>1. Cardinality(handle'.open) = Cardinality(handle.open) + 1
    BY <1>1, <1>2, AddKey DEF HandleTypeOK
  <2>2. Cardinality(handle.open) \in Nat
    BY CountIsNat DEF HandleTypeOK
  <2> QED
    BY <1>1, <1>2, <2>1, <2>2, HandleAssumption DEF RefsAreCounted, HandleTypeOK
<1>5. OneSessionPerKey'
  <2>1. LiveSessions' = LiveSessions \cup {s}
    BY <1>1, HandleAssumption DEF LiveSessions, SessionLive, HandleTypeOK
  <2>2. session'[s].key = k
    BY <1>1 DEF HandleTypeOK
  <2>3. \A t \in LiveSessions : session'[t].key = session[t].key /\ t # s
    BY <1>1 DEF HandleTypeOK, LiveSessions, SessionLive
  <2>4. handle.open = {session[t].key : t \in LiveSessions}
    BY <1>1 DEF OneSessionPerKey
  <2>5. \A t \in LiveSessions : session[t].key # k
    BY <1>1, <2>4
  <2>6. handle'.open = {session'[t].key : t \in LiveSessions'}
    BY <1>2, <2>1, <2>2, <2>3, <2>4
  <2>7. \A t, u \in LiveSessions' : session'[t].key = session'[u].key => t = u
    BY <2>1, <2>2, <2>3, <2>5 DEF OneSessionPerKey
  <2> QED
    BY <2>6, <2>7 DEF OneSessionPerKey
<1> QED
  BY <1>3, <1>4, <1>5

\* Closing a session drops its key from a handle whose count stays right; the
\* project closes only if that count is zero.
LEMMA CloseSessionFacts ==
    ASSUME IInv, NEW s \in Sessions, NEW save \in BOOLEAN, NEW remove \in BOOLEAN,
           CloseSession(s, save, remove)
    PROVE  LET d == Dropped(handle, session[s].key)
           IN  /\ HandleTypeOK' /\ ~handle.closed
               /\ handle' = d \/ (handle' = ProjectClosed(d) /\ d.refs = 0)
               /\ d \in HandleType /\ ~d.closed /\ ProjectClosed(d).closed
               /\ ProjectClosed(d).orphans = d.orphans
               /\ d.refs = Cardinality(d.open) + d.orphans + pins'
               /\ d.open = {session'[t].key : t \in LiveSessions'}
               /\ \A t, u \in LiveSessions' : session'[t].key = session'[u].key => t = u
<1> USE DEF IInv
<1> DEFINE k == session[s].key
           d == Dropped(handle, k)
<1>1. /\ SessionLive(s) /\ ~handle.closed /\ pins' = pins
      /\ session' = [session EXCEPT ![s] = Closed]
      /\ handle' = d \/ (handle' = ProjectClosed(d) /\ d.refs = 0)
      /\ result' \in {"ok", "failed", "discarded"}
  <2> HIDE DEF d, k
  <2>1. AfterRelease(d) \subseteq {ProjectClosed(d), d} /\ (AfterRelease(d) = {d} \/ d.refs = 0)
    BY DEF AfterRelease
  <2>2. \/ handle' = d /\ result' = "failed"
        \/ handle' \in AfterRelease(d) /\ result' \in {"ok", "failed", "discarded"}
    BY DEF CloseSession, d, k
  <2> QED
    BY <2>1, <2>2 DEF CloseSession
<1>2. s \in LiveSessions /\ k \in ProgramKeys /\ k \in handle.open
  BY <1>1 DEF LiveSessions, SessionLive, OneSessionPerKey, HandleTypeOK
<1>3. /\ Cardinality(handle.open) \in Nat /\ Cardinality(handle.open) > 0
      /\ Cardinality(handle.open \ {k}) = Cardinality(handle.open) - 1
  BY <1>2, DropKey DEF HandleTypeOK
<1>4. handle.refs > 0
  BY <1>1, <1>3, HandleAssumption DEF RefsAreCounted, HandleTypeOK
<1>5. /\ d.open = handle.open \ {k} /\ d.refs = handle.refs - 1
      /\ d.orphans = handle.orphans /\ d.closed = handle.closed
      /\ d \in HandleType
  <2> DEFINE S == handle.open \ {k}
             n == handle.refs - 1
  <2>1. handle \in HandleType /\ S \in SUBSET ProgramKeys /\ n \in Nat
    BY <1>4 DEF HandleTypeOK, HandleType
  <2>2. d = [handle EXCEPT !.open = S, !.refs = n]
    <3>1. Less(handle.refs, 1) = n
      BY <1>4 DEF Less, HandleTypeOK
    <3> QED
      BY <3>1 DEF Dropped
  <2> HIDE DEF S, n, d
  <2>3. /\ d \in HandleType /\ d.open = S /\ d.refs = n
        /\ d.orphans = handle.orphans /\ d.closed = handle.closed
    BY <2>1, <2>2 DEF HandleType
  <2> QED
    BY <2>3 DEF S, n
<1>6. HandleTypeOK'
  <2>1. handle' \in HandleType
    BY <1>1, <1>5, HandleClosed
  <2>2. session' \in [Sessions -> [key : ProgramKeys \cup {NoKey}, changed : BOOLEAN]]
    BY <1>1 DEF HandleTypeOK, Closed
  <2> QED
    BY <1>1, <2>1, <2>2 DEF HandleTypeOK, HandleType
<1>7. LiveSessions' = LiveSessions \ {s} /\ \A t \in LiveSessions' : session'[t] = session[t]
  BY <1>1 DEF LiveSessions, SessionLive, HandleTypeOK, Closed
<1>8. d.refs = Cardinality(d.open) + d.orphans + pins'
  BY <1>1, <1>3, <1>5, HandleAssumption DEF RefsAreCounted, HandleTypeOK
<1>9. \A t, u \in LiveSessions' : session'[t].key = session'[u].key => t = u
  BY <1>7 DEF OneSessionPerKey
<1>10. d.open = {session'[t].key : t \in LiveSessions'}
  <2>1. handle.open = {session[t].key : t \in LiveSessions}
    BY <1>1 DEF OneSessionPerKey
  <2> QED
    BY <1>2, <1>5, <1>7, <2>1 DEF OneSessionPerKey
<1>11. ProjectClosed(d).orphans = d.orphans /\ ProjectClosed(d).closed
  BY <1>5 DEF ProjectClosed, HandleType
<1> QED
  BY <1>1, <1>5, <1>6, <1>8, <1>9, <1>10, <1>11

LEMMA CloseSessionStep ==
    ASSUME IInv, NEW s \in Sessions, NEW save \in BOOLEAN, NEW remove \in BOOLEAN,
           CloseSession(s, save, remove)
    PROVE  IInv'
<1> DEFINE d == Dropped(handle, session[s].key)
<1>1. /\ HandleTypeOK'
      /\ handle' = d \/ handle'.closed
      /\ d.refs = Cardinality(d.open) + d.orphans + pins'
      /\ d.open = {session'[t].key : t \in LiveSessions'}
      /\ \A t, u \in LiveSessions' : session'[t].key = session'[u].key => t = u
  BY CloseSessionFacts
<1> HIDE DEF d
<1> QED
  BY <1>1 DEF IInv, RefsAreCounted, OneSessionPerKey

LEMMA CloseOnClosedStep ==
    ASSUME IInv, NEW s \in Sessions, CloseOnClosedProject(s)
    PROVE  IInv'
<1> USE DEF IInv
<1>1. /\ handle.closed /\ UNCHANGED <<handle, pins>> /\ result' = "failed"
      /\ session' = [session EXCEPT ![s] = Closed]
  BY DEF CloseOnClosedProject, GoneAnswer
<1>2. HandleTypeOK'
  BY <1>1 DEF HandleTypeOK, Closed
<1>3. LiveSessions' \subseteq LiveSessions /\ \A t \in LiveSessions' : session'[t] = session[t]
  BY <1>1 DEF LiveSessions, SessionLive, HandleTypeOK, Closed
<1>4. OneSessionPerKey'
  BY <1>1, <1>3 DEF OneSessionPerKey
<1> QED
  BY <1>1, <1>2, <1>4 DEF RefsAreCounted

\* Retain, Release, ReleaseOrphans and OpenKeepsOrphan move the counts together.
LEMMA OpenKeepsOrphanStep ==
    ASSUME IInv, NEW k \in ProgramKeys, OpenKeepsOrphan(k)
    PROVE  IInv'
<1> USE DEF IInv
<1>1. /\ ~handle.closed /\ handle.orphans < MaxOrphans /\ result' = "failed"
      /\ handle' = [handle EXCEPT !.orphans = handle.orphans + 1, !.refs = handle.refs + 1]
      /\ UNCHANGED <<session, pins>>
  BY DEF OpenKeepsOrphan, MayOpen, Orphaned
<1>2. /\ handle \in HandleType /\ handle.orphans + 1 \in 0 .. MaxOrphans
      /\ handle.refs + 1 \in Nat
  BY <1>1, HandleAssumption DEF HandleTypeOK, HandleType
<1>3. /\ handle' \in HandleType /\ handle'.open = handle.open /\ handle'.closed = handle.closed
      /\ handle'.orphans = handle.orphans + 1 /\ handle'.refs = handle.refs + 1
  BY <1>1, <1>2 DEF HandleType
<1>4. HandleTypeOK'
  BY <1>1, <1>3 DEF HandleTypeOK, HandleType
<1>5. Cardinality(handle.open) \in Nat
  BY CountIsNat DEF HandleTypeOK
<1>6. RefsAreCounted'
  BY <1>1, <1>2, <1>3, <1>5, HandleAssumption DEF RefsAreCounted, HandleTypeOK
<1> QED
  BY <1>1, <1>3, <1>4, <1>6, CountingStep

LEMMA RetainStep ==
    ASSUME IInv, Retain
    PROVE  IInv'
<1> USE DEF IInv
<1>1. /\ ~handle.closed /\ pins < MaxPins /\ pins' = pins + 1 /\ result' = "ok"
      /\ handle' = [handle EXCEPT !.refs = @ + 1] /\ UNCHANGED session
  BY DEF Retain
<1>2. /\ handle' \in HandleType /\ handle'.open = handle.open /\ handle'.closed = handle.closed
      /\ handle'.orphans = handle.orphans /\ handle'.refs = handle.refs + 1
  BY <1>1 DEF HandleTypeOK, HandleType
<1>3. HandleTypeOK'
  BY <1>1, <1>2, HandleAssumption DEF HandleTypeOK, HandleType
<1>4. Cardinality(handle.open) \in Nat
  BY CountIsNat DEF HandleTypeOK
<1>5. RefsAreCounted'
  BY <1>1, <1>2, <1>4, HandleAssumption DEF RefsAreCounted, HandleTypeOK
<1> QED
  BY <1>1, <1>2, <1>3, <1>5, CountingStep

\* What is left to show once the new handle is h or h with its project closed.
LEMMA CountedOrClosed ==
    ASSUME IInv, NEW h \in HandleType, UNCHANGED session,
           pins' \in 0 .. MaxPins, result' \in {"ok", "failed"},
           handle' = h \/ handle' = ProjectClosed(h),
           h.open = handle.open, h.closed = handle.closed,
           ~h.closed => h.refs = Cardinality(h.open) + h.orphans + pins'
    PROVE  IInv'
<1> USE DEF IInv
<1>1. HandleTypeOK'
  BY HandleClosed DEF HandleTypeOK, HandleType
<1>2. CASE handle' = h
  <2>1. RefsAreCounted'
    BY <1>2 DEF RefsAreCounted
  <2> QED
    BY <1>1, <1>2, <2>1, CountingStep
<1>3. CASE handle' = ProjectClosed(h)
  BY <1>1, <1>3, HandleClosed, ClosingStep
<1> QED
  BY <1>2, <1>3

LEMMA ReleaseStep ==
    ASSUME IInv, ReleasePin
    PROVE  IInv'
<1> USE DEF IInv
<1> DEFINE h == [handle EXCEPT !.refs = Less(@, 1)]
<1>1. /\ pins > 0 /\ pins' = pins - 1 /\ result' \in {"ok", "failed"} /\ UNCHANGED session
      /\ IF handle.closed THEN handle' = handle ELSE handle' = h \/ handle' = ProjectClosed(h)
  BY DEF ReleasePin, AfterRelease
<1>2. Cardinality(handle.open) \in Nat
  BY CountIsNat DEF HandleTypeOK
<1>3. pins' \in 0 .. MaxPins
  BY <1>1, HandleAssumption DEF HandleTypeOK
<1>4. CASE handle.closed
  BY <1>1, <1>3, <1>4, CountedOrClosed DEF HandleTypeOK, HandleType
<1>5. CASE ~handle.closed
  <2>1. Less(handle.refs, 1) = handle.refs - 1 /\ handle.refs - 1 \in Nat
    BY <1>1, <1>2, <1>5, HandleAssumption DEF RefsAreCounted, Less, HandleTypeOK
  <2>2. /\ h.open = handle.open /\ h.closed = handle.closed /\ h.orphans = handle.orphans
        /\ h.refs = handle.refs - 1 /\ h \in HandleType
    BY <2>1 DEF HandleTypeOK, HandleType
  <2>3. h.refs = Cardinality(h.open) + h.orphans + pins'
    BY <1>1, <1>2, <1>5, <2>2, HandleAssumption DEF RefsAreCounted, HandleTypeOK
  <2> HIDE DEF h
  <2> QED
    BY <1>1, <1>3, <1>5, <2>2, <2>3, CountedOrClosed
<1> QED
  BY <1>4, <1>5

LEMMA ReleaseOrphansStep ==
    ASSUME IInv, NEW n \in 0 .. MaxOrphans, ReleaseOrphans(n)
    PROVE  IInv'
<1> USE DEF IInv
<1> DEFINE m == Less(handle.refs, handle.orphans - n)
           h == Recovered(n)
<1>1. /\ n <= handle.orphans /\ result' \in {"ok", "failed"} /\ UNCHANGED <<session, pins>>
      /\ handle' = h \/ handle' = ProjectClosed(h)
  BY DEF ReleaseOrphans
<1>2. Cardinality(handle.open) \in Nat
  BY CountIsNat DEF HandleTypeOK
<1>3. m \in Nat /\ handle \in HandleType
  BY <1>1, HandleAssumption DEF Less, HandleTypeOK, HandleType
<1>4. h = [handle EXCEPT !.orphans = n, !.refs = m]
  BY DEF Recovered
<1>5. ~handle.closed => m = handle.refs - (handle.orphans - n)
  BY <1>1, <1>2, HandleAssumption DEF RefsAreCounted, Less, HandleTypeOK
<1> HIDE DEF m, h
<1>6. /\ h \in HandleType /\ h.open = handle.open /\ h.closed = handle.closed
      /\ h.orphans = n /\ h.refs = m
  BY <1>3, <1>4 DEF HandleType
<1>7. ~h.closed => h.refs = Cardinality(h.open) + h.orphans + pins'
  BY <1>1, <1>2, <1>5, <1>6, HandleAssumption DEF RefsAreCounted, HandleTypeOK
<1>8. pins' \in 0 .. MaxPins
  BY <1>1 DEF HandleTypeOK
<1> QED
  BY <1>1, <1>6, <1>7, <1>8, CountedOrClosed

LEMMA CloseHandleStep ==
    ASSUME IInv, NEW force \in BOOLEAN, CloseHandle(force)
    PROVE  IInv'
<1> USE DEF IInv
<1>1. /\ UNCHANGED <<session, pins>> /\ result' \in {"ok", "failed", "forced"}
      /\ handle' = handle \/ handle' = ProjectClosed(handle)
  BY DEF CloseHandle
<1>2. handle \in HandleType
  BY DEF HandleTypeOK, HandleType
<1>3. HandleTypeOK'
  BY <1>1, <1>2, HandleClosed DEF HandleTypeOK, HandleType
<1>4. CASE handle' = handle
  BY <1>1, <1>3, <1>4, QuietStep
<1>5. CASE handle' = ProjectClosed(handle)
  BY <1>1, <1>2, <1>3, <1>5, HandleClosed, ClosingStep
<1> QED
  BY <1>1, <1>4, <1>5

LEMMA EditStep ==
    ASSUME IInv, NEW s \in Sessions, EditProgram(s) \/ SaveProgram(s)
    PROVE  IInv'
<1> USE DEF IInv
<1>1. /\ UNCHANGED <<handle, pins>> /\ result' \in {"ok", "failed"}
      /\ \/ session' = session
         \/ \E e \in BOOLEAN : session' = [session EXCEPT ![s].changed = e]
  BY DEF EditProgram, SaveProgram
<1>2. /\ session' \in [Sessions -> [key : ProgramKeys \cup {NoKey}, changed : BOOLEAN]]
      /\ \A t \in Sessions : session'[t].key = session[t].key
  <2>1. CASE session' = session
    BY <2>1 DEF HandleTypeOK
  <2>2. ASSUME NEW e \in BOOLEAN, session' = [session EXCEPT ![s].changed = e]
        PROVE  <1>2!1 /\ <1>2!2
    BY <2>2 DEF HandleTypeOK
  <2> QED
    BY <1>1, <2>1, <2>2
<1>3. HandleTypeOK'
  BY <1>1, <1>2 DEF HandleTypeOK
<1> QED
  BY <1>1, <1>2, <1>3, QuietStep

LEMMA CloseRefusedStep ==
    ASSUME IInv, NEW s \in Sessions, NEW save \in BOOLEAN, CloseRefused(s, save)
    PROVE  IInv'
<1> USE DEF IInv
<1>1. /\ UNCHANGED <<handle, pins>> /\ result' = "failed"
      /\ \/ session' = session
         \/ session' = [session EXCEPT ![s].changed = FALSE]
  BY DEF CloseRefused
<1>2. /\ session' \in [Sessions -> [key : ProgramKeys \cup {NoKey}, changed : BOOLEAN]]
      /\ \A t \in Sessions : session'[t].key = session[t].key
  <2>1. CASE session' = session
    BY <2>1 DEF HandleTypeOK
  <2>2. CASE session' = [session EXCEPT ![s].changed = FALSE]
    BY <2>2 DEF HandleTypeOK
  <2> QED
    BY <1>1, <2>1, <2>2
<1>3. HandleTypeOK'
  BY <1>1, <1>2 DEF HandleTypeOK
<1> QED
  BY <1>1, <1>2, <1>3, QuietStep

\* Every step keeps the invariant.
LEMMA NextIInv == IInv /\ [HandleNext]_handleVars => IInv'
<1> SUFFICES ASSUME IInv, [HandleNext]_handleVars PROVE IInv'
  OBVIOUS
<1>1. CASE \E s \in Sessions, k \in ProgramKeys : OpenProgram(s, k)
  BY <1>1, OpenProgramStep
<1>2. CASE \E k \in ProgramKeys : OpenKeepsOrphan(k)
  BY <1>2, OpenKeepsOrphanStep
<1>3. CASE \E s \in Sessions : EditProgram(s) \/ SaveProgram(s) \/ CloseOnClosedProject(s)
  BY <1>3, EditStep, CloseOnClosedStep
<1>4. CASE \E s \in Sessions, save \in BOOLEAN : CloseRefused(s, save)
  BY <1>4, CloseRefusedStep
<1>5. CASE \E s \in Sessions, save, remove \in BOOLEAN : CloseSession(s, save, remove)
  BY <1>5, CloseSessionStep
<1>6. CASE Retain \/ ReleasePin
  BY <1>6, RetainStep, ReleaseStep
<1>7. CASE \E n \in 0 .. MaxOrphans : ReleaseOrphans(n)
  BY <1>7, ReleaseOrphansStep
<1>8. CASE \E force \in BOOLEAN : CloseHandle(force)
  BY <1>8, CloseHandleStep
<1>9. CASE UNCHANGED handleVars
  BY <1>9 DEF handleVars, IInv, HandleTypeOK, OneSessionPerKey, RefsAreCounted, LiveSessions, SessionLive
<1> QED
  BY <1>1, <1>2, <1>3, <1>4, <1>5, <1>6, <1>7, <1>8, <1>9 DEF HandleNext

----------------------------------------------------------------------------
(***************************************************************************)
(* The theorems                                                             *)
(***************************************************************************)

\* The inductive invariant holds in every reachable state.
LEMMA SpecIInv == HandleSpec => []IInv
BY InitIInv, NextIInv, PTL DEF HandleSpec

\* The count that decides when a project closes is exact, a program or a version
\* of it never has two live sessions on one handle, and the handle keeps its type.
THEOREM HandleHolds == HandleSpec => []HandleInvariant
BY SpecIInv, PTL DEF IInv, HandleInvariant

\* Nobody is left who uses the project.
Unused == LiveSessions = {} /\ handle.orphans = 0 /\ pins = 0

\* A count of zero means nobody is counted.
LEMMA ZeroIsUnused ==
    ASSUME NEW S \in SUBSET ProgramKeys, NEW o \in Nat, NEW p \in Nat, Cardinality(S) + o + p = 0
    PROVE  S = {} /\ o = 0 /\ p = 0
BY CountIsNat

LEMMA CloseSessionUnused ==
    ASSUME IInv, NEW s \in Sessions, NEW save \in BOOLEAN, NEW remove \in BOOLEAN,
           CloseSession(s, save, remove), handle'.closed
    PROVE  Unused'
<1> DEFINE d == Dropped(handle, session[s].key)
<1>1. /\ HandleTypeOK'
      /\ handle' = d \/ (handle' = ProjectClosed(d) /\ d.refs = 0)
      /\ d \in HandleType /\ ~d.closed /\ ProjectClosed(d).orphans = d.orphans
      /\ d.refs = Cardinality(d.open) + d.orphans + pins'
      /\ d.open = {session'[t].key : t \in LiveSessions'}
  BY CloseSessionFacts
<1> HIDE DEF d
<1>2. d.refs = 0 /\ handle'.orphans = d.orphans
  BY <1>1
<1>3. d.open \in SUBSET ProgramKeys /\ d.orphans \in Nat /\ pins' \in Nat
  <2>1. d \in HandleType /\ pins' \in 0 .. MaxPins
    BY <1>1 DEF HandleTypeOK
  <2>2. d.open \in SUBSET ProgramKeys /\ d.orphans \in 0 .. MaxOrphans
    BY <2>1 DEF HandleType
  <2>3. d.orphans \in Nat
    BY <2>2, HandleAssumption
  <2>4. pins' \in Nat
    BY <2>1, HandleAssumption
  <2> QED
    BY <2>2, <2>3, <2>4
<1>4. d.open = {} /\ d.orphans = 0 /\ pins' = 0
  <2>1. Cardinality(d.open) + d.orphans + pins' = 0
    BY <1>1, <1>2 DEF HandleTypeOK
  <2>2. Cardinality(d.open) \in Nat /\ (Cardinality(d.open) = 0 <=> d.open = {})
    BY <1>3, CountIsNat
  <2> DEFINE o == d.orphans
             c == Cardinality(d.open)
  <2>3. o \in Nat /\ c \in Nat /\ c + o + pins' = 0
    BY <1>3, <2>1, <2>2
  <2> HIDE DEF o, c
  <2>4. c = 0 /\ o = 0 /\ pins' = 0
    BY <1>3, <2>3
  <2> QED
    BY <2>2, <2>4 DEF o, c
<1> QED
  BY <1>1, <1>2, <1>4 DEF Unused

\* The steps that leave the sessions alone: nobody is counted at zero, so
\* nobody is open, and then no session is live.
LEMMA CountUnused ==
    ASSUME IInv, ~handle.closed, UNCHANGED session, pins' \in Nat, handle'.orphans \in Nat,
           Cardinality(handle.open) + handle'.orphans + pins' = 0
    PROVE  Unused'
<1>1. handle.open = {} /\ handle'.orphans = 0 /\ pins' = 0
  BY ZeroIsUnused DEF IInv, HandleTypeOK
<1> QED
  BY <1>1 DEF IInv, OneSessionPerKey, LiveSessions, SessionLive, Unused

LEMMA ReleaseUnused ==
    ASSUME IInv, ReleasePin, ~handle.closed, handle'.closed
    PROVE  Unused'
<1> USE DEF IInv
<1> DEFINE h == [handle EXCEPT !.refs = Less(@, 1)]
<1>1. /\ pins > 0 /\ pins' = pins - 1 /\ UNCHANGED session
      /\ handle' = h \/ (handle' = ProjectClosed(h) /\ h.refs = 0)
  BY DEF ReleasePin, AfterRelease
<1>2. Cardinality(handle.open) \in Nat
  BY CountIsNat DEF HandleTypeOK
<1>3. Less(handle.refs, 1) = handle.refs - 1 /\ handle.refs - 1 \in Nat
  BY <1>1, <1>2, HandleAssumption DEF RefsAreCounted, Less, HandleTypeOK
<1>4. h \in HandleType /\ ~h.closed /\ h.orphans = handle.orphans /\ h.refs = handle.refs - 1
  BY <1>3 DEF HandleTypeOK, HandleType
<1>5. handle'.orphans = handle.orphans /\ h.refs = 0
  BY <1>1, <1>4 DEF ProjectClosed, HandleType
<1>6. Cardinality(handle.open) + handle'.orphans + pins' = 0
  BY <1>1, <1>2, <1>4, <1>5, HandleAssumption DEF RefsAreCounted, HandleTypeOK
<1>7. pins' \in Nat /\ handle'.orphans \in Nat
  BY <1>1, <1>5, HandleAssumption DEF HandleTypeOK
<1> QED
  BY <1>1, <1>6, <1>7, CountUnused

LEMMA ReleaseOrphansUnused ==
    ASSUME IInv, NEW n \in 0 .. MaxOrphans, ReleaseOrphans(n), ~handle.closed, handle'.closed
    PROVE  Unused'
<1> USE DEF IInv
<1> DEFINE m == Less(handle.refs, handle.orphans - n)
           h == [handle EXCEPT !.orphans = n, !.refs = m]
<1>1. /\ n <= handle.orphans /\ UNCHANGED <<session, pins>>
      /\ handle' = h \/ (handle' = ProjectClosed(h) /\ h.refs = 0 /\ n = 0)
  BY DEF ReleaseOrphans, Recovered
<1>2. Cardinality(handle.open) \in Nat
  BY CountIsNat DEF HandleTypeOK
<1>3. m \in Nat /\ m = handle.refs - (handle.orphans - n)
  BY <1>1, <1>2, HandleAssumption DEF RefsAreCounted, Less, HandleTypeOK
<1> HIDE DEF m
<1>4. h \in HandleType /\ ~h.closed /\ h.orphans = n /\ h.refs = m
  BY <1>3 DEF HandleTypeOK, HandleType
<1>5. handle'.orphans = n /\ m = 0
  BY <1>1, <1>4 DEF ProjectClosed, HandleType
<1>6. Cardinality(handle.open) + handle'.orphans + pins' = 0
  BY <1>1, <1>2, <1>3, <1>5, HandleAssumption DEF RefsAreCounted, HandleTypeOK
<1>7. pins' \in Nat /\ handle'.orphans \in Nat
  BY <1>1, <1>5, HandleAssumption DEF HandleTypeOK
<1> QED
  BY <1>1, <1>6, <1>7, CountUnused

LEMMA CloseHandleUnused ==
    ASSUME IInv, NEW force \in BOOLEAN, CloseHandle(force), handle'.closed, result' # "forced"
    PROVE  Unused'
<1> USE DEF IInv
<1>1. /\ ~handle.closed /\ UNCHANGED <<session, pins>> /\ handle' = ProjectClosed(handle)
      /\ handle.refs = 0
  BY DEF CloseHandle, MayClose
<1>2. handle'.orphans = handle.orphans
  BY <1>1 DEF ProjectClosed, HandleTypeOK
<1>3. Cardinality(handle.open) + handle'.orphans + pins' = 0
  BY <1>1, <1>2 DEF RefsAreCounted
<1>4. pins' \in Nat /\ handle'.orphans \in Nat
  BY <1>1, <1>2, HandleAssumption DEF HandleTypeOK
<1> QED
  BY <1>1, <1>3, <1>4, CountUnused

\* Only close(force=True) takes an open project from a session, an unreleased
\* program or a pin.
THEOREM ProjectOutlivesItsUsers == HandleSpec => ClosesOnlyUnused
<1>1. ASSUME IInv, [HandleNext]_handleVars, handle'.closed, ~handle.closed, result' # "forced"
      PROVE  Unused'
  <2> USE <1>1
  <2>1. CASE \E s \in Sessions, k \in ProgramKeys : OpenProgram(s, k)
    BY <2>1 DEF OpenProgram, MayOpen, IInv, HandleTypeOK
  <2>2. CASE \E k \in ProgramKeys : OpenKeepsOrphan(k)
    BY <2>2 DEF OpenKeepsOrphan, MayOpen, Orphaned, IInv, HandleTypeOK
  <2>3. CASE \E s \in Sessions : EditProgram(s) \/ SaveProgram(s) \/ CloseOnClosedProject(s)
    BY <2>3 DEF EditProgram, SaveProgram, CloseOnClosedProject
  <2>4. CASE \E s \in Sessions, save \in BOOLEAN : CloseRefused(s, save)
    BY <2>4 DEF CloseRefused
  <2>5. CASE \E s \in Sessions, save, remove \in BOOLEAN : CloseSession(s, save, remove)
    BY <2>5, CloseSessionUnused
  <2>6. CASE Retain
    BY <2>6 DEF Retain, IInv, HandleTypeOK
  <2>7. CASE ReleasePin
    BY <2>7, ReleaseUnused
  <2>8. CASE \E n \in 0 .. MaxOrphans : ReleaseOrphans(n)
    BY <2>8, ReleaseOrphansUnused
  <2>9. CASE \E force \in BOOLEAN : CloseHandle(force)
    BY <2>9, CloseHandleUnused
  <2>10. CASE UNCHANGED handleVars
    BY <2>10 DEF handleVars
  <2> QED
    BY <2>1, <2>2, <2>3, <2>4, <2>5, <2>6, <2>7, <2>8, <2>9, <2>10 DEF HandleNext
<1>2. IInv /\ [HandleNext]_handleVars
        => [handle'.closed /\ ~handle.closed
              => result' = "forced" \/ (LiveSessions' = {} /\ handle'.orphans = 0 /\ pins' = 0)]_handleVars
  BY <1>1 DEF Unused
<1> QED
  BY <1>2, SpecIInv, PTL DEF HandleSpec, ClosesOnlyUnused

\* A session that is over has nothing that was not saved.
OverIsClean == \A s \in Sessions : ~SessionLive(s) => ~session[s].changed

\* A step from a clean state is clean, and an "ok" that ends a session with edits
\* found the project open.
LEMMA CleanStep ==
    ASSUME HandleTypeOK, OverIsClean, [HandleNext]_handleVars
    PROVE  /\ OverIsClean'
           /\ \A s \in Sessions : session[s].changed /\ ~SessionLive(s)' /\ result' = "ok" => ~handle.closed
<1> USE HandleAssumption DEF OverIsClean, HandleTypeOK, SessionLive
<1>1. CASE \E s \in Sessions, k \in ProgramKeys : OpenProgram(s, k)
  BY <1>1 DEF OpenProgram, MayOpen
<1>2. CASE \E k \in ProgramKeys : OpenKeepsOrphan(k)
  BY <1>2 DEF OpenKeepsOrphan, MayOpen
<1>3. CASE \E s \in Sessions : EditProgram(s) \/ SaveProgram(s)
  BY <1>3 DEF EditProgram, SaveProgram
<1>4. CASE \E s \in Sessions : CloseOnClosedProject(s)
  BY <1>4 DEF CloseOnClosedProject, GoneAnswer, Closed
<1>5. CASE \E s \in Sessions, save \in BOOLEAN : CloseRefused(s, save)
  BY <1>5 DEF CloseRefused
<1>6. CASE \E s \in Sessions, save, remove \in BOOLEAN : CloseSession(s, save, remove)
  BY <1>6 DEF CloseSession, Closed
<1>7. CASE UNCHANGED session
  BY <1>7
<1> QED
  BY <1>1, <1>2, <1>3, <1>4, <1>5, <1>6, <1>7
  DEF HandleNext, handleVars, Retain, ReleasePin, ReleaseOrphans, CloseHandle

\* A close that answers "ok" found the project open, so what it says is saved was.
THEOREM ClosesSaySo == HandleSpec => SuccessMeansSaved
<1>1. HandleInit => OverIsClean
  BY DEF HandleInit, OverIsClean, Closed
<1>2. IInv => HandleTypeOK
  BY DEF IInv
<1>3. HandleTypeOK /\ OverIsClean /\ [HandleNext]_handleVars => OverIsClean'
  BY CleanStep
<1>4. HandleTypeOK /\ OverIsClean /\ [HandleNext]_handleVars
        => [\A s \in Sessions : session[s].changed /\ ~SessionLive(s)' /\ result' = "ok" => ~handle.closed]_handleVars
  BY CleanStep
<1> QED
  BY <1>1, <1>2, <1>3, <1>4, SpecIInv, PTL DEF HandleSpec, SuccessMeansSaved

\* Scripts on a program (ScriptRuns).
Makers == {"main", "stray", "missed", "client"}
EditType == [run : 0..MaxRuns, maker : Makers]
TargetType == [open : BOOLEAN, mark : BOOLEAN, threads : SUBSET StrayKinds, sentinel : BOOLEAN,
               store : BOOLEAN, orphan : BOOLEAN]
ProgramType == [mem : SUBSET EditType, tx : {"none", "script", "stray"}, pending : SUBSET EditType,
                sub : BOOLEAN, aborted : BOOLEAN]
JobPcs == {"none", "staged", "running", "ending", "ended", "finish", "finished"}
ReportsOf == {"absent", "created", "uncertain"}
JobType == [pc : JobPcs, n : 0..MaxRuns, inline : BOOLEAN,
            status : ReportsOf \cup {"none", "refused", "ok", "timeout", "error", "cancelled"}, found : SUBSET StrayKinds,
            tx : {"none", "NOT_DONE", "ABORTED", "COMMITTED", "NOTHING"}, threw : BOOLEAN]

ScriptTyped ==
  /\ target \in TargetType /\ program \in ProgramType /\ disk \in SUBSET EditType
  /\ strays \in SUBSET StrayKinds /\ job \in JobType
  /\ files \in [dir : BOOLEAN, bundle : BOOLEAN]
  /\ calling \in {"none", "saving", "closing", "loading", "discarding", "releasing", "over"}
  /\ reports \in Seq(ReportsOf)
  /\ Len(reports) = IF job.pc = "none" THEN job.n ELSE job.n - 1

\* Where a run is: alone on an open program, with its transaction.
JobProgress ==
  /\ job.pc # "none" => job.n > 0
  /\ JobWorks => calling = "none" /\ target.open
  /\ job.pc \in {"none", "staged", "running"} => job.found = {}
  /\ job.pc \in {"finish", "finished"} /\ job.found # {} => target.mark
  /\ job.pc \in {"running", "ending"} => program.tx = "script"
  /\ job.pc \in {"none", "staged", "running"} => job.tx = "none" /\ job.status = "none"
  /\ job.pc = "ended" => job.tx # "none" /\ (job.tx \in {"COMMITTED", "NOTHING"} => job.status = "ok")
  /\ job.pc \in {"finish", "finished"} => job.status \in ReportsOf \cup {"refused"}
  /\ files.bundle => files.dir /\ job.pc \in {"running", "ending", "ended", "finish"}
  /\ job.pc = "none" => ~files.dir

\* A program nobody has open is gone, and so is what ran on it.
Gone == program = Opened({}) /\ strays = {}
ClosedIsGone ==
  /\ ~target.open => Gone
  /\ calling = "releasing" => ~target.open
  /\ target.orphan => target.store
  /\ target.threads # {} => target.mark
  /\ program.tx = "none" => program.pending = {} /\ ~program.aborted /\ ~program.sub

Unsaved == program.mem \cup program.pending

\* What is in the program of a run that ended is what it reported, unless the
\* target is in quarantine, and nothing else gets past a call's check.
RunIsKnown(e) ==
  /\ e.run <= job.n
  /\ e.maker = "main" /\ job.pc # "none" /\ e.run = job.n =>
       \/ job.pc \in {"running", "ending"} /\ e \notin program.mem
       \/ job.pc = "ended" /\ job.tx \in {"NOT_DONE", "COMMITTED"}
       \/ job.pc \in {"finish", "finished"} /\ job.status = "created"
       \/ job.pc \in {"finish", "finished"} /\ job.status = "uncertain" /\ target.mark
  /\ e.maker = "main" /\ e.run <= Len(reports) =>
       \/ reports[e.run] = "created"
       \/ reports[e.run] = "uncertain" /\ Quarantined /\ ~Checked
  /\ e.maker = "main" => e.run > 0
  /\ e.maker = "stray" =>
       /\ ~Checked
       /\ Quarantined \/ (job.pc \in {"ending", "ended"} /\ job.found # {})
RunsAreKnown == \A e \in Unsaved : RunIsKnown(e)

\* What a save may write.
Verified(e) ==
  /\ e.run <= job.n /\ e.maker # "stray"
  /\ e.maker = "main" => e.run \in 1..Len(reports) /\ reports[e.run] = "created"
SavedIsKnown == \A e \in disk : Verified(e)

ScriptIInv == ScriptTyped /\ JobProgress /\ ClosedIsGone /\ RunsAreKnown /\ SavedIsKnown

\* What the records become.
LEMMA EndedEffect ==
  ASSUME NEW p \in ProgramType
  PROVE  /\ Ended(p) \in ProgramType
         /\ p.sub => Ended(p) = p
         /\ ~p.sub => /\ Ended(p).mem = (IF p.aborted THEN p.mem ELSE p.mem \cup p.pending)
                      /\ Ended(p).tx = "none" /\ Ended(p).pending = {} /\ ~Ended(p).sub /\ ~Ended(p).aborted
<1>1. CASE p.sub
  BY <1>1 DEF Ended
<1>2. CASE ~p.sub
  <2> DEFINE m == IF p.aborted THEN p.mem ELSE p.mem \cup p.pending
  <2>1. m \in SUBSET EditType
    BY DEF ProgramType
  <2>2. Ended(p) = [mem |-> m, tx |-> "none", pending |-> {}, sub |-> FALSE, aborted |-> FALSE]
    BY <1>2 DEF Ended, Opened
  <2> HIDE DEF m
  <2>3. Ended(p) \in ProgramType
    BY <2>1, <2>2 DEF ProgramType
  <2>4. Ended(p).mem = m /\ Ended(p).tx = "none" /\ Ended(p).pending = {} /\ ~Ended(p).sub /\ ~Ended(p).aborted
    BY <2>2
  <2> QED
    BY <1>2, <2>3, <2>4 DEF m
<1> QED
  BY <1>1, <1>2

LEMMA OpenedEffect ==
  ASSUME NEW saved \in SUBSET EditType
  PROVE  /\ Opened(saved) \in ProgramType /\ Opened(saved).mem = saved /\ Opened(saved).tx = "none"
         /\ Opened(saved).pending = {} /\ ~Opened(saved).sub /\ ~Opened(saved).aborted
BY DEF Opened, ProgramType

LEMMA ReleasedEffect ==
  ASSUME target \in TargetType
  PROVE  /\ Released \in TargetType /\ ~Released.open /\ ~Released.mark /\ Released.threads = {} /\ ~Released.sentinel
         /\ (Released.store <=> target.store) /\ (Released.orphan <=> target.orphan)
BY DEF Released, TargetType

LEMMA MarkedEffect ==
  ASSUME target \in TargetType, NEW found \in SUBSET StrayKinds
  PROVE  /\ Marked(target, found) \in TargetType /\ Marked(target, found).mark
         /\ (Marked(target, found).open <=> target.open) /\ (Marked(target, found).store <=> target.store)
         /\ (Marked(target, found).orphan <=> target.orphan)
BY DEF Marked, TargetType

LEMMA GotoEffect ==
  ASSUME job \in JobType, NEW pc \in JobPcs, ScriptGoto(pc)
  PROVE  /\ job' \in JobType /\ job'.pc = pc /\ job'.n = job.n /\ job'.status = job.status /\ job'.found = job.found
         /\ job'.tx = job.tx /\ (job'.threw <=> job.threw)
BY DEF ScriptGoto, JobType

LEMMA NoJobEffect ==
  ASSUME MaxRuns \in Nat, NEW n \in 0..MaxRuns
  PROVE  LET j == [NoJob EXCEPT !.n = n]
         IN  j \in JobType /\ j.pc = "none" /\ j.n = n /\ j.found = {} /\ j.tx = "none" /\ j.status = "none"
BY DEF NoJob, JobType, JobPcs, ReportsOf

\* A reply: the run gets its report, which nothing changes.
LEMMA ReportEffect ==
  ASSUME MaxRuns \in Nat, job \in JobType, job.pc # "none", reports \in Seq(ReportsOf), NEW output \in ReportsOf,
         Len(reports) = job.n - 1, files \in [dir : BOOLEAN, bundle : BOOLEAN], Report(output)
  PROVE  /\ job' \in JobType /\ job'.pc = "none" /\ job'.n = job.n /\ job'.found = {} /\ job'.tx = "none" /\ job'.status = "none"
         /\ reports' \in Seq(ReportsOf) /\ Len(reports') = job.n /\ reports'[job.n] = output
         /\ \A r \in 1..Len(reports) : reports'[r] = reports[r]
         /\ files' \in [dir : BOOLEAN, bundle : BOOLEAN] /\ ~files'.dir /\ (files'.bundle <=> files.bundle)
<1>1. job' = [NoJob EXCEPT !.n = job.n] /\ job.n \in 0..MaxRuns
  BY DEF Report, JobType
<1>2. reports' = Append(reports, output) /\ files' = [files EXCEPT !.dir = FALSE]
  BY DEF Report
<1>3. job.n = Len(reports) + 1
  BY <1>1
<1>4. /\ reports' \in Seq(ReportsOf) /\ Len(reports') = job.n /\ reports'[job.n] = output
      /\ \A r \in 1..Len(reports) : reports'[r] = reports[r]
  BY <1>2, <1>3
<1>5. files' \in [dir : BOOLEAN, bundle : BOOLEAN] /\ ~files'.dir /\ (files'.bundle <=> files.bundle)
  BY <1>2
<1> QED
  BY <1>1, <1>4, <1>5, NoJobEffect

\* Where the session begins.
LEMMA ScriptInitially == ASSUME MaxRuns \in Nat, ScriptInit PROVE ScriptIInv
<1>1. target \in TargetType /\ target.open /\ target.threads = {} /\ ~target.orphan
  BY DEF ScriptInit, NoTarget, TargetType
<1>2. program \in ProgramType /\ Unsaved = {} /\ program.tx = "none" /\ program.pending = {} /\ ~program.sub /\ ~program.aborted
  BY OpenedEffect DEF ScriptInit, Unsaved
<1>3. job \in JobType /\ job.pc = "none" /\ job.n = 0 /\ job.found = {} /\ job.tx = "none" /\ job.status = "none"
  BY DEF ScriptInit, NoJob, JobType, JobPcs, ReportsOf
<1>4. files \in [dir : BOOLEAN, bundle : BOOLEAN] /\ ~files.dir /\ ~files.bundle
  BY DEF ScriptInit
<1>5. disk = {} /\ strays = {} /\ calling = "none" /\ reports = <<>>
  BY DEF ScriptInit
<1>6. ScriptTyped
  BY <1>1, <1>2, <1>3, <1>4, <1>5 DEF ScriptTyped
<1>7. JobProgress
  BY <1>1, <1>2, <1>3, <1>4, <1>5 DEF JobProgress, JobWorks
<1>8. ClosedIsGone
  BY <1>1, <1>2, <1>5 DEF ClosedIsGone
<1> QED
  BY <1>2, <1>5, <1>6, <1>7, <1>8 DEF ScriptIInv, RunsAreKnown, SavedIsKnown, Verified

\* What a save may write: once a call passed its check, and before one begins
\* on a target that is not in quarantine.
LEMMA NothingUnknown ==
  ASSUME MaxRuns \in Nat, ScriptIInv, ~JobWorks, Checked \/ ~Quarantined, NEW e \in Unsaved
  PROVE  Verified(e)
<1>1. RunIsKnown(e) /\ job \in JobType /\ program \in ProgramType /\ reports \in Seq(ReportsOf)
      /\ Len(reports) = IF job.pc = "none" THEN job.n ELSE job.n - 1
  BY DEF ScriptIInv, RunsAreKnown, ScriptTyped
<1>2. job.pc \in {"none", "staged"} /\ job.n \in 0..MaxRuns
  BY <1>1 DEF JobWorks, JobType
<1>3. e.run \in 0..MaxRuns
  BY <1>1 DEF Unsaved, ProgramType, EditType
<1>4. e.maker = "main" => e.run <= Len(reports)
  BY <1>1, <1>2, <1>3 DEF RunIsKnown
<1> QED
  BY <1>1, <1>2, <1>3, <1>4 DEF RunIsKnown, Verified

\* A step of the run.
LEMMA RunStep ==
  ASSUME MaxRuns \in Nat, ScriptIInv,
         \/ \E inline \in BOOLEAN : Stage(inline)
         \/ RunRefused \/ BeginRun \/ ScriptEdits
         \/ \E leave \in BOOLEAN : ScriptNests(leave)
         \/ \E kind \in StrayKinds : ScriptLeaves(kind)
         \/ \E timedOut, failed, cancelled \in BOOLEAN : ScriptEnds(timedOut, failed, cancelled)
         \/ \E throws, works \in BOOLEAN : CloseTransaction(throws, works)
         \/ ClassifyRun \/ FinishRun \/ RunReplies
  PROVE  ScriptIInv'
<1>1. /\ target \in TargetType /\ program \in ProgramType /\ disk \in SUBSET EditType /\ strays \in SUBSET StrayKinds
      /\ job \in JobType /\ files \in [dir : BOOLEAN, bundle : BOOLEAN] /\ reports \in Seq(ReportsOf)
      /\ Len(reports) = IF job.pc = "none" THEN job.n ELSE job.n - 1
  BY DEF ScriptIInv, ScriptTyped
<1>2. JobProgress /\ ClosedIsGone /\ RunsAreKnown /\ SavedIsKnown /\ ScriptTyped
  BY DEF ScriptIInv
<1>3. job.n \in 0..MaxRuns /\ \A e \in Unsaved : e.run \in 0..MaxRuns
  BY <1>1 DEF JobType, ProgramType, EditType, Unsaved
<1>4. ASSUME NEW inline \in BOOLEAN, Stage(inline)
      PROVE  ScriptIInv'
  <2>1. job.pc = "none" /\ job.n + 1 \in 0..MaxRuns /\ UNCHANGED <<target, program, disk, strays, calling, reports>>
    <3>1. job.pc = "none" /\ job.n < MaxRuns /\ UNCHANGED <<target, program, disk, strays, calling, reports>>
      BY <1>4 DEF Stage
    <3> QED
      BY <1>3, <3>1
  <2>2. job' = [pc |-> "staged", n |-> job.n + 1, inline |-> inline, status |-> "none", found |-> {}, tx |-> "none", threw |-> FALSE]
    BY <1>4 DEF Stage, NoJob
  <2>3. /\ job' \in JobType /\ job'.pc = "staged" /\ job'.n = job.n + 1 /\ job'.found = {} /\ job'.tx = "none"
        /\ job'.status = "none"
    BY <2>1, <2>2 DEF JobType, JobPcs, ReportsOf
  <2>4. files' \in [dir : BOOLEAN, bundle : BOOLEAN] /\ (files'.bundle <=> files.bundle)
    BY <1>1, <1>4 DEF Stage
  <2>5. ScriptTyped'
    BY <1>1, <1>2, <2>1, <2>3, <2>4 DEF ScriptTyped
  <2>6. JobProgress'
    BY <1>2, <1>3, <2>1, <2>3, <2>4 DEF JobProgress, JobWorks
  <2>7. ClosedIsGone'
    BY <1>2, <2>1 DEF ClosedIsGone, Gone
  <2>8. ASSUME NEW e \in Unsaved' PROVE RunIsKnown(e)'
    <3>1. e \in Unsaved /\ RunIsKnown(e) /\ e.run \in 0..MaxRuns
      BY <1>2, <1>3, <2>1, <2>8 DEF Unsaved, RunsAreKnown
    <3> QED
      BY <1>3, <2>1, <2>3, <3>1 DEF RunIsKnown, Quarantined, Checked
  <2>9. SavedIsKnown'
    <3>1. \A e \in disk : e.run \in 0..MaxRuns
      BY <1>1 DEF EditType
    <3> QED
      BY <1>2, <1>3, <2>1, <2>3, <3>1 DEF SavedIsKnown, Verified
  <2> QED
    BY <2>5, <2>6, <2>7, <2>8, <2>9 DEF ScriptIInv, RunsAreKnown
<1>5. CASE RunRefused
  <2>1. job.pc = "staged" /\ "absent" \in ReportsOf /\ Report("absent")
    BY <1>5 DEF RunRefused, ReportsOf
  <2>2. /\ job' \in JobType /\ job'.pc = "none" /\ job'.n = job.n /\ job'.found = {} /\ job'.tx = "none" /\ job'.status = "none"
        /\ reports' \in Seq(ReportsOf) /\ Len(reports') = job.n /\ reports'[job.n] = "absent"
        /\ \A r \in 1..Len(reports) : reports'[r] = reports[r]
        /\ files' \in [dir : BOOLEAN, bundle : BOOLEAN] /\ ~files'.dir /\ (files'.bundle <=> files.bundle)
    BY <1>1, <2>1, ReportEffect
  <2>3. UNCHANGED <<target, program, disk, strays, calling>>
    BY <1>5 DEF RunRefused
  <2>4. \A e \in disk : e.maker = "main" => e.run \in 1..Len(reports)
    BY <1>2 DEF SavedIsKnown, Verified
  <2>5. \A e \in Unsaved : e.maker = "main" => e.run \in 1..Len(reports)
    BY <1>1, <1>2, <1>3, <2>1 DEF RunsAreKnown, RunIsKnown
  <2>6. ScriptTyped'
    BY <1>2, <1>1, <1>3, <1>5, <2>1, <2>2, <2>3, <2>4, <2>5 DEF RunRefused, ScriptTyped
  <2>7. JobProgress'
    BY <1>2, <1>1, <1>3, <1>5, <2>1, <2>2, <2>3, <2>4, <2>5 DEF RunRefused, JobProgress, JobWorks
  <2>8. ClosedIsGone'
    BY <1>2, <1>1, <1>3, <1>5, <2>1, <2>2, <2>3, <2>4, <2>5
       DEF RunRefused, ClosedIsGone, JobProgress, JobWorks, Gone
  <2>9. ASSUME NEW e \in Unsaved' PROVE RunIsKnown(e)'
    <3>1. e \in Unsaved /\ RunIsKnown(e)
      BY <1>2, <2>3, <2>9 DEF Unsaved, RunsAreKnown
    <3> QED
      BY <1>1, <1>3, <2>1, <2>2, <2>3, <2>5, <3>1 DEF RunIsKnown, Quarantined, Checked
  <2>10. SavedIsKnown'
    BY <1>2, <1>1, <1>3, <1>5, <2>1, <2>2, <2>3, <2>4, <2>5 DEF RunRefused, SavedIsKnown, Verified
  <2> QED
    BY <2>6, <2>7, <2>8, <2>9, <2>10 DEF ScriptIInv, RunsAreKnown
<1>6. CASE BeginRun
  <2>1. job.pc = "staged" /\ target.open /\ calling = "none" /\ ~Quarantined /\ UNCHANGED <<target, disk, strays, calling, reports>>
    BY <1>6 DEF BeginRun
  <2>2. files' \in [dir : BOOLEAN, bundle : BOOLEAN] /\ (files'.dir <=> files.dir) /\ (files'.bundle => files.dir)
    BY <1>1, <1>6 DEF BeginRun, RegisterBundle
  <2>3. \/ /\ job' \in JobType /\ job'.pc = "finish" /\ job'.status = "refused" /\ job'.n = job.n /\ job'.found = job.found
           /\ job'.tx = job.tx /\ program' = program
        \/ /\ job' \in JobType /\ job'.pc = "running" /\ job'.status = job.status /\ job'.n = job.n /\ job'.found = job.found
           /\ job'.tx = job.tx /\ program.tx = "none" /\ program' \in ProgramType /\ program' = [program EXCEPT !.tx = "script"]
    <3>1. CASE program.tx # "none" \/ "analysis" \in strays
      <4>1. job' = [job EXCEPT !.pc = "finish", !.status = "refused"] /\ program' = program
        BY <1>6, <3>1 DEF BeginRun
      <4> QED
        BY <1>1, <4>1 DEF JobType, JobPcs
    <3>2. CASE ~(program.tx # "none" \/ "analysis" \in strays)
      <4>1. ScriptGoto("running") /\ program' = [program EXCEPT !.tx = "script"]
        BY <1>6, <3>2 DEF BeginRun
      <4>2. program' \in ProgramType
        BY <1>1, <4>1 DEF ProgramType
      <4>3. "running" \in JobPcs
        BY DEF JobPcs
      <4> QED
        BY <1>1, <3>2, <4>1, <4>2, <4>3, GotoEffect
    <3> QED
      BY <3>1, <3>2
  <2>4. program'.mem = program.mem /\ program'.pending = program.pending /\ program'.tx \in {program.tx, "script"}
    BY <1>1, <2>3 DEF ProgramType
  <2>5. ScriptTyped'
    BY <1>1, <1>2, <2>1, <2>2, <2>3 DEF ScriptTyped
  <2>6. JobProgress'
    BY <1>1, <1>2, <2>1, <2>2, <2>3 DEF JobProgress, JobWorks, ProgramType
  <2>7. ClosedIsGone'
    <3>1. program'.tx = "none" => program' = program
      BY <1>1, <2>3 DEF ProgramType
    <3> QED
      BY <1>2, <2>1, <3>1 DEF ClosedIsGone
  <2>8. ASSUME NEW e \in Unsaved' PROVE RunIsKnown(e)'
    <3>1. e \in Unsaved /\ RunIsKnown(e)
      BY <1>2, <2>4, <2>8 DEF Unsaved, RunsAreKnown
    <3> QED
      BY <1>2, <1>3, <2>1, <2>3, <3>1 DEF RunIsKnown, Quarantined, Checked
  <2>9. SavedIsKnown'
    BY <1>2, <2>1, <2>3 DEF SavedIsKnown, Verified
  <2> QED
    BY <2>5, <2>6, <2>7, <2>8, <2>9 DEF ScriptIInv, RunsAreKnown
<1>7. CASE ScriptEdits
  <2>1. EditOf(job.n, "main") \in EditType /\ EditOf(job.n, "main").run = job.n /\ EditOf(job.n, "main").maker = "main"
    BY <1>3 DEF EditOf, EditType, Makers
  <2>2. program' \in ProgramType /\ program'.tx = program.tx /\ program'.mem = program.mem /\ program'.pending = program.pending \cup {EditOf(job.n, "main")}
    BY <1>1, <1>7, <2>1 DEF ScriptEdits, ProgramType
  <2>3. job.n > 0 /\ job.pc = "running" /\ program.tx = "script"
    BY <1>2, <1>7 DEF ScriptEdits, JobProgress
  <2>4. ScriptTyped'
    BY <1>2, <1>1, <1>3, <1>7, <2>1, <2>2, <2>3 DEF ScriptEdits, ScriptTyped
  <2>5. JobProgress'
    BY <1>2, <1>1, <1>3, <1>7, <2>1, <2>2, <2>3 DEF ScriptEdits, JobProgress, JobWorks
  <2>6. ClosedIsGone'
    BY <1>2, <1>1, <1>3, <1>7, <2>1, <2>2, <2>3 DEF ScriptEdits, ClosedIsGone, JobProgress, JobWorks, Gone
  <2>7. ASSUME NEW e \in Unsaved' PROVE RunIsKnown(e)'
    BY <1>2, <1>1, <1>3, <1>7, <2>1, <2>2, <2>3, <2>7 DEF ScriptEdits, RunsAreKnown, RunIsKnown, Unsaved,
           Quarantined, Checked, JobProgress, JobWorks, ClosedIsGone
  <2>8. SavedIsKnown'
    BY <1>2, <1>1, <1>3, <1>7, <2>1, <2>2, <2>3 DEF ScriptEdits, SavedIsKnown, Verified
  <2> QED
    BY <2>4, <2>5, <2>6, <2>7, <2>8 DEF ScriptIInv, RunsAreKnown
<1>8. ASSUME NEW leave \in BOOLEAN, ScriptNests(leave)
      PROVE  ScriptIInv'
  <2>1. program' \in ProgramType /\ program'.tx = program.tx /\ program'.mem = program.mem /\ program'.pending = program.pending
    BY <1>1, <1>8 DEF ScriptNests, ProgramType
  <2>2. job.pc = "running" /\ program.tx = "script"
    BY <1>2, <1>8 DEF ScriptNests, JobProgress
  <2>3. ScriptTyped'
    BY <1>2, <1>1, <1>3, <1>8, <2>1, <2>2 DEF ScriptNests, ScriptTyped
  <2>4. JobProgress'
    BY <1>2, <1>1, <1>3, <1>8, <2>1, <2>2 DEF ScriptNests, JobProgress, JobWorks
  <2>5. ClosedIsGone'
    BY <1>2, <1>1, <1>3, <1>8, <2>1, <2>2 DEF ScriptNests, ClosedIsGone, JobProgress, JobWorks, Gone
  <2>6. ASSUME NEW e \in Unsaved' PROVE RunIsKnown(e)'
    BY <1>2, <1>1, <1>3, <1>8, <2>1, <2>2, <2>6 DEF ScriptNests, RunsAreKnown, RunIsKnown, Unsaved,
           Quarantined, Checked, JobProgress, JobWorks, ClosedIsGone
  <2>7. SavedIsKnown'
    BY <1>2, <1>1, <1>3, <1>8, <2>1, <2>2 DEF ScriptNests, SavedIsKnown, Verified
  <2> QED
    BY <2>3, <2>4, <2>5, <2>6, <2>7 DEF ScriptIInv, RunsAreKnown
<1>9. ASSUME NEW kind \in StrayKinds, ScriptLeaves(kind)
      PROVE  ScriptIInv'
  <2>1. job.pc = "running" /\ target.open
    BY <1>2, <1>9 DEF ScriptLeaves, JobProgress, JobWorks
  <2>2. ScriptTyped'
    BY <1>2, <1>1, <1>3, <1>9, <2>1 DEF ScriptLeaves, ScriptTyped
  <2>3. JobProgress'
    BY <1>2, <1>1, <1>3, <1>9, <2>1 DEF ScriptLeaves, JobProgress, JobWorks
  <2>4. ClosedIsGone'
    BY <1>2, <1>1, <1>3, <1>9, <2>1 DEF ScriptLeaves, ClosedIsGone, JobProgress, JobWorks, Gone
  <2>5. ASSUME NEW e \in Unsaved' PROVE RunIsKnown(e)'
    BY <1>2, <1>1, <1>3, <1>9, <2>1, <2>5 DEF ScriptLeaves, RunsAreKnown, RunIsKnown, Unsaved, Quarantined,
           Checked, JobProgress, JobWorks, ClosedIsGone
  <2>6. SavedIsKnown'
    BY <1>2, <1>1, <1>3, <1>9, <2>1 DEF ScriptLeaves, SavedIsKnown, Verified
  <2> QED
    BY <2>2, <2>3, <2>4, <2>5, <2>6 DEF ScriptIInv, RunsAreKnown
<1>10. ASSUME NEW timedOut \in BOOLEAN, NEW failed \in BOOLEAN, NEW cancelled \in BOOLEAN, ScriptEnds(timedOut, failed, cancelled)
      PROVE  ScriptIInv'
  <2>1. Status(timedOut, failed, cancelled) \in {"timeout", "error", "cancelled", "ok"} /\ Found \in SUBSET StrayKinds
    BY <1>1 DEF Status, Found
  <2>2. /\ job' \in JobType /\ job'.pc = "ending" /\ job'.n = job.n /\ job'.tx = job.tx /\ job.pc = "running"
    BY <1>1, <1>10, <2>1 DEF ScriptEnds, JobType, JobPcs
  <2>3. ScriptTyped'
    BY <1>2, <1>1, <1>3, <1>10, <2>1, <2>2 DEF ScriptEnds, ScriptTyped
  <2>4. JobProgress'
    BY <1>2, <1>1, <1>3, <1>10, <2>1, <2>2 DEF ScriptEnds, JobProgress, JobWorks
  <2>5. ClosedIsGone'
    BY <1>2, <1>1, <1>3, <1>10, <2>1, <2>2 DEF ScriptEnds, ClosedIsGone, JobProgress, JobWorks, Gone
  <2>6. ASSUME NEW e \in Unsaved' PROVE RunIsKnown(e)'
    BY <1>2, <1>1, <1>3, <1>10, <2>1, <2>2, <2>6 DEF ScriptEnds, RunsAreKnown, RunIsKnown, Unsaved,
           Quarantined, Checked, JobProgress, JobWorks, ClosedIsGone
  <2>7. SavedIsKnown'
    BY <1>2, <1>1, <1>3, <1>10, <2>1, <2>2 DEF ScriptEnds, SavedIsKnown, Verified
  <2> QED
    BY <2>3, <2>4, <2>5, <2>6, <2>7 DEF ScriptIInv, RunsAreKnown
<1>11. ASSUME NEW throws \in BOOLEAN, NEW works \in BOOLEAN, CloseTransaction(throws, works)
      PROVE  ScriptIInv'
  <2> DEFINE p == [program EXCEPT !.aborted = @ \/ ~Commits]
             tx == IF ~works THEN "NOT_DONE"
                   ELSE IF TxStatus(p) = "COMMITTED" /\ p.pending = {} THEN "NOTHING"
                   ELSE TxStatus(p)
  <2>1. /\ job.pc = "ending" /\ program' = (IF works THEN Ended(p) ELSE program)
        /\ job' = [job EXCEPT !.pc = "ended", !.threw = throws, !.tx = tx]
        /\ UNCHANGED <<target, disk, strays, files, calling, reports>>
    BY <1>11 DEF CloseTransaction
  <2>2. /\ p \in ProgramType /\ p.mem = program.mem /\ p.pending = program.pending /\ p.tx = program.tx
        /\ (p.sub <=> program.sub) /\ (p.aborted <=> program.aborted \/ ~Commits)
    BY <1>1 DEF ProgramType
  <2>3. tx \in {"NOT_DONE", "ABORTED", "COMMITTED", "NOTHING"} /\ (tx \in {"COMMITTED", "NOTHING"} => ~p.sub /\ ~p.aborted)
    BY DEF TxStatus
  <2>4. works => (tx = "NOTHING" => p.pending = {}) /\ (tx = "ABORTED" => p.aborted /\ ~p.sub)
    BY DEF TxStatus
  <2>5. ~works => tx = "NOT_DONE"
    OBVIOUS
  <2> HIDE DEF tx, p
  <2>6. /\ job' \in JobType /\ job'.pc = "ended" /\ job'.n = job.n /\ job'.found = job.found /\ job'.tx = tx
        /\ job'.status = job.status
    BY <1>1, <2>1, <2>3 DEF JobType, JobPcs
  <2>7. program' \in ProgramType
    BY <1>1, <2>1, <2>2, EndedEffect
  <2>8. /\ p.sub => program'.mem = program.mem /\ program'.pending = program.pending /\ program'.tx = program.tx
        /\ ~works => program' = program
        /\ works /\ ~p.sub => /\ program'.mem = (IF p.aborted THEN program.mem ELSE program.mem \cup program.pending)
                             /\ program'.tx = "none" /\ program'.pending = {} /\ ~program'.sub /\ ~program'.aborted
    BY <2>1, <2>2, EndedEffect
  <2>9. ScriptTyped'
    BY <1>1, <1>2, <2>1, <2>6, <2>7 DEF ScriptTyped
  <2>10. JobProgress'
    BY <1>2, <2>1, <2>2, <2>3, <2>6 DEF JobProgress, JobWorks, Commits
  <2>11. ClosedIsGone'
    BY <1>2, <2>1, <2>2, <2>8 DEF ClosedIsGone, JobProgress, JobWorks
  <2>12. ASSUME NEW e \in Unsaved' PROVE RunIsKnown(e)'
    <3>1. e \in Unsaved /\ RunIsKnown(e)
      BY <1>2, <2>2, <2>8, <2>12 DEF Unsaved, RunsAreKnown
    <3>2. e.maker = "main" /\ e.run = job.n => tx \in {"NOT_DONE", "COMMITTED"}
      <4> SUFFICES ASSUME e.maker = "main", e.run = job.n PROVE tx \in {"NOT_DONE", "COMMITTED"}
        OBVIOUS
      <4>1. e \notin program.mem /\ e \in program.pending
        BY <2>1, <3>1 DEF RunIsKnown, Unsaved
      <4> QED
        BY <2>2, <2>3, <2>4, <2>5, <2>8, <2>12, <4>1 DEF Unsaved
    <3> QED
      BY <1>3, <2>1, <2>6, <3>1, <3>2 DEF RunIsKnown, Quarantined, Checked
  <2>13. SavedIsKnown'
    BY <1>2, <2>1, <2>6 DEF SavedIsKnown, Verified
  <2> QED
    BY <2>9, <2>10, <2>11, <2>12, <2>13 DEF ScriptIInv, RunsAreKnown
<1>12. CASE ClassifyRun
  <2> DEFINE outcome == ClassifyTransaction(job.tx, Commits, program.tx # "none")
             known == IF job.threw THEN "unknown" ELSE outcome
             invalid == Invalid(known, job.threw)
  <2>1. /\ job.pc = "ended" /\ UNCHANGED <<program, disk, strays, files, calling, reports>>
        /\ target' = (IF invalid THEN Marked(target, job.found) ELSE target)
        /\ job' = [job EXCEPT !.pc = "finish", !.status = ScriptOutputState(known, invalid)]
    BY <1>12 DEF ClassifyRun
  <2>2. ScriptOutputState(known, invalid) \in ReportsOf /\ (ScriptOutputState(known, invalid) = "uncertain" => invalid)
    BY DEF ScriptOutputState, ReportsOf, Invalid
  <2>3. job.found # {} => invalid
    BY DEF Invalid
  <2>4. ~invalid /\ job.tx \in {"NOT_DONE", "COMMITTED"} => ScriptOutputState(known, invalid) = "created"
    BY DEF ScriptOutputState, Invalid, ClassifyTransaction
  <2>5. invalid => ScriptOutputState(known, invalid) = "uncertain"
    BY DEF ScriptOutputState
  <2> HIDE DEF known, invalid
  <2>6. /\ job' \in JobType /\ job'.pc = "finish" /\ job'.n = job.n /\ job'.found = job.found
        /\ job'.status = ScriptOutputState(known, invalid)
    BY <1>1, <2>1, <2>2 DEF JobType, JobPcs
  <2>7. /\ target' \in TargetType /\ (invalid => target'.mark) /\ (target.mark => target'.mark) /\ (target'.open <=> target.open)
        /\ (target'.store <=> target.store) /\ (target'.orphan <=> target.orphan) /\ (~invalid => target' = target)
    BY <1>1, <2>1, MarkedEffect DEF JobType
  <2>8. ScriptTyped'
    BY <1>1, <1>2, <2>1, <2>6, <2>7 DEF ScriptTyped
  <2>9. JobProgress'
    BY <1>2, <2>1, <2>2, <2>3, <2>6, <2>7 DEF JobProgress, JobWorks
  <2>10. ClosedIsGone'
    BY <1>2, <2>1, <2>7 DEF ClosedIsGone, Gone
  <2>11. ASSUME NEW e \in Unsaved' PROVE RunIsKnown(e)'
    <3>1. e \in Unsaved /\ RunIsKnown(e)
      BY <1>2, <2>1, <2>11 DEF Unsaved, RunsAreKnown
    <3> QED
      BY <1>3, <2>1, <2>3, <2>4, <2>5, <2>6, <2>7, <3>1 DEF RunIsKnown, Quarantined, Checked
  <2>12. SavedIsKnown'
    BY <1>2, <2>1, <2>6 DEF SavedIsKnown, Verified
  <2> QED
    BY <2>8, <2>9, <2>10, <2>11, <2>12 DEF ScriptIInv, RunsAreKnown
<1>13. CASE FinishRun
  <2>1. /\ job' \in JobType /\ job'.pc = "finished" /\ job'.n = job.n /\ job'.status = job.status /\ job'.found = job.found /\ job'.tx = job.tx
        /\ job.pc = "finish"
    BY <1>1, <1>13, GotoEffect DEF FinishRun, JobPcs
  <2>2. /\ target' \in TargetType /\ (target'.mark <=> target.mark) /\ (target'.open <=> target.open) /\ target'.threads = target.threads
        /\ (target'.store <=> target.store) /\ (target'.orphan <=> target.orphan)
    BY <1>1, <1>13 DEF FinishRun, TargetType
  <2>3. files' \in [dir : BOOLEAN, bundle : BOOLEAN] /\ ~files'.bundle
    BY <1>1, <1>13 DEF FinishRun, ForgetBundle
  <2>4. ScriptTyped'
    BY <1>2, <1>1, <1>3, <1>13, <2>1, <2>2, <2>3 DEF FinishRun, ScriptTyped
  <2>5. JobProgress'
    BY <1>2, <1>1, <1>3, <1>13, <2>1, <2>2, <2>3 DEF FinishRun, JobProgress, JobWorks
  <2>6. ClosedIsGone'
    BY <1>2, <1>1, <1>3, <1>13, <2>1, <2>2, <2>3 DEF FinishRun, ClosedIsGone, JobProgress, JobWorks, Gone
  <2>7. ASSUME NEW e \in Unsaved' PROVE RunIsKnown(e)'
    BY <1>2, <1>1, <1>3, <1>13, <2>1, <2>2, <2>3, <2>7 DEF FinishRun, RunsAreKnown, RunIsKnown, Unsaved,
           Quarantined, Checked, JobProgress, JobWorks, ClosedIsGone
  <2>8. SavedIsKnown'
    BY <1>2, <1>1, <1>3, <1>13, <2>1, <2>2, <2>3 DEF FinishRun, SavedIsKnown, Verified
  <2> QED
    BY <2>4, <2>5, <2>6, <2>7, <2>8 DEF ScriptIInv, RunsAreKnown
<1>14. CASE RunReplies
  <2>1. job.pc = "finished" /\ UNCHANGED <<target, program, disk, strays, calling>>
    BY <1>14 DEF RunReplies
  <2>2. (IF job.status = "refused" THEN "absent" ELSE job.status) \in ReportsOf
    BY <1>2, <2>1 DEF JobProgress, ReportsOf
  <2>3. /\ job' \in JobType /\ job'.pc = "none" /\ job'.n = job.n /\ job'.found = {} /\ job'.tx = "none" /\ job'.status = "none"
        /\ reports' \in Seq(ReportsOf) /\ Len(reports') = job.n /\ reports'[job.n] = (IF job.status = "refused" THEN "absent" ELSE job.status)
        /\ \A r \in 1..Len(reports) : reports'[r] = reports[r]
        /\ files' \in [dir : BOOLEAN, bundle : BOOLEAN] /\ ~files'.dir /\ (files'.bundle <=> files.bundle)
    BY <1>1, <1>14, <2>1, <2>2, ReportEffect DEF RunReplies
  <2>4. \A e \in disk : e.maker = "main" => e.run \in 1..Len(reports)
    BY <1>2 DEF SavedIsKnown, Verified
  <2>5. ScriptTyped'
    BY <1>2, <1>1, <1>3, <1>14, <2>1, <2>2, <2>3, <2>4 DEF RunReplies, ScriptTyped
  <2>6. JobProgress'
    BY <1>2, <1>1, <1>3, <1>14, <2>1, <2>2, <2>3, <2>4 DEF RunReplies, JobProgress, JobWorks
  <2>7. ClosedIsGone'
    BY <1>2, <1>1, <1>3, <1>14, <2>1, <2>2, <2>3, <2>4
       DEF RunReplies, ClosedIsGone, JobProgress, JobWorks, Gone
  <2>8. ASSUME NEW e \in Unsaved' PROVE RunIsKnown(e)'
    <3>1. e \in Unsaved /\ RunIsKnown(e) /\ e.run \in 0..MaxRuns
      BY <1>2, <1>3, <2>1, <2>8 DEF Unsaved, RunsAreKnown
    <3>2. calling = "none"
      BY <1>2, <2>1 DEF JobProgress, JobWorks
    <3> QED
      BY <1>1, <1>3, <2>1, <2>3, <3>1, <3>2 DEF RunIsKnown, Quarantined, Checked
  <2>9. SavedIsKnown'
    BY <1>2, <1>1, <1>3, <1>14, <2>1, <2>2, <2>3, <2>4 DEF RunReplies, SavedIsKnown, Verified
  <2> QED
    BY <2>5, <2>6, <2>7, <2>8, <2>9 DEF ScriptIInv, RunsAreKnown
<1> QED
  BY <1>4, <1>5, <1>6, <1>7, <1>8, <1>9, <1>10, <1>11, <1>12, <1>13, <1>14

\* A step of what scripts left behind.
LEMMA StrayStep ==
  ASSUME MaxRuns \in Nat, ScriptIInv,
         \/ \E kind \in StrayKinds : StrayStarts(kind) \/ StrayDies(kind)
         \/ StrayEnds
  PROVE  ScriptIInv'
<1>1. /\ target \in TargetType /\ program \in ProgramType /\ disk \in SUBSET EditType /\ strays \in SUBSET StrayKinds
      /\ job \in JobType /\ files \in [dir : BOOLEAN, bundle : BOOLEAN] /\ reports \in Seq(ReportsOf)
      /\ Len(reports) = IF job.pc = "none" THEN job.n ELSE job.n - 1
  BY DEF ScriptIInv, ScriptTyped
<1>2. JobProgress /\ ClosedIsGone /\ RunsAreKnown /\ SavedIsKnown /\ ScriptTyped
  BY DEF ScriptIInv
<1>3. job.n \in 0..MaxRuns /\ \A e \in Unsaved : e.run \in 0..MaxRuns
  BY <1>1 DEF JobType, ProgramType, EditType, Unsaved
<1>4. ASSUME NEW kind \in StrayKinds, StrayStarts(kind)
      PROVE  ScriptIInv'
  <2> DEFINE maker == IF Known(kind) /\ ~Checked THEN "stray" ELSE "missed"
             new == EditOf(job.n, maker)
  <2>1. /\ target.open /\ program.tx = "none" /\ program' = [program EXCEPT !.tx = "stray", !.pending = {new}]
        /\ target' = (IF Flagged(kind) THEN Marked(target, {}) ELSE target)
        /\ UNCHANGED <<disk, strays, job, files, calling, reports>>
    BY <1>4 DEF StrayStarts
  <2>2. new \in EditType /\ new.run = job.n /\ new.maker = maker
    BY <1>3 DEF EditOf, EditType, Makers
  <2>3. maker # "main" /\ (maker = "stray" => ~Checked /\ Known(kind))
    OBVIOUS
  <2> HIDE DEF new, maker
  <2>4. program' \in ProgramType /\ program'.mem = program.mem /\ program'.pending = {new} /\ program'.tx = "stray"
    BY <1>1, <2>1, <2>2 DEF ProgramType
  <2>5. /\ target' \in TargetType /\ (target.mark => target'.mark) /\ (target'.open <=> target.open)
        /\ (target'.store <=> target.store) /\ (target'.orphan <=> target.orphan) /\ (Flagged(kind) => target'.mark)
        /\ (target'.mark \/ target'.threads = target.threads)
    BY <1>1, <2>1, MarkedEffect
  <2>6. job.pc \notin {"running", "ending"}
    BY <1>2, <2>1 DEF JobProgress
  <2>7. Known(kind) => target'.mark \/ target'.store \/ (job.pc = "ended" /\ job.found # {})
    <3>1. job.found # {} => job.pc = "ended" \/ target.mark
      BY <1>1, <1>2, <2>6 DEF JobProgress, JobType, JobPcs
    <3>2. target.threads # {} => target.mark
      BY <1>2 DEF ClosedIsGone
    <3> QED
      BY <2>5, <3>1, <3>2 DEF Known, Quarantined
  <2>8. ScriptTyped'
    BY <1>1, <1>2, <2>1, <2>4, <2>5 DEF ScriptTyped
  <2>9. JobProgress'
    BY <1>2, <2>1, <2>5, <2>6 DEF JobProgress, JobWorks
  <2>10. ClosedIsGone'
    BY <1>2, <2>1, <2>4, <2>5 DEF ClosedIsGone
  <2>11. ASSUME NEW e \in Unsaved' PROVE RunIsKnown(e)'
    <3>1. CASE e = new
      BY <1>3, <2>1, <2>2, <2>3, <2>7, <3>1 DEF RunIsKnown, Quarantined, Checked
    <3>2. CASE e \in program.mem
      <4>1. RunIsKnown(e)
        BY <1>2, <3>2 DEF RunsAreKnown, Unsaved
      <4> QED
        BY <1>3, <2>1, <2>4, <2>5, <2>6, <4>1 DEF RunIsKnown, Quarantined, Checked
    <3> QED
      BY <2>4, <2>11, <3>1, <3>2 DEF Unsaved
  <2>12. SavedIsKnown'
    BY <1>2, <2>1 DEF SavedIsKnown, Verified
  <2> QED
    BY <2>8, <2>9, <2>10, <2>11, <2>12 DEF ScriptIInv, RunsAreKnown
<1>5. CASE StrayEnds
  <2> DEFINE p == [program EXCEPT !.sub = FALSE]
  <2>1. program' = Ended(p) /\ UNCHANGED <<target, disk, strays, job, files, calling, reports>>
    BY <1>5 DEF StrayEnds
  <2>2. p \in ProgramType /\ p.mem = program.mem /\ p.pending = program.pending /\ ~p.sub
    BY <1>1 DEF ProgramType
  <2>3. job.pc \notin {"running", "ending"}
    BY <1>2, <1>5 DEF StrayEnds, JobProgress
  <2> HIDE DEF p
  <2>4. /\ program' \in ProgramType /\ program'.mem \subseteq program.mem \cup program.pending
        /\ program'.tx = "none" /\ program'.pending = {} /\ ~program'.sub /\ ~program'.aborted
    BY <2>1, <2>2, EndedEffect
  <2>5. ScriptTyped'
    BY <1>2, <2>1, <2>4 DEF ScriptTyped
  <2>6. JobProgress'
    BY <1>2, <2>1, <2>3 DEF JobProgress, JobWorks
  <2>7. ClosedIsGone'
    <3>1. ~target.open => program' = Opened({})
      <4> SUFFICES ASSUME ~target.open PROVE program' = Opened({})
        OBVIOUS
      <4>1. program = Opened({})
        BY <1>2 DEF ClosedIsGone, Gone
      <4>2. program.tx = "none" /\ ~program.sub
        BY <4>1, OpenedEffect
      <4> QED
        BY <1>5, <4>2 DEF StrayEnds
    <3> QED
      BY <1>2, <2>1, <2>4, <3>1 DEF ClosedIsGone, Gone
  <2>8. ASSUME NEW e \in Unsaved' PROVE RunIsKnown(e)'
    <3>1. e \in Unsaved /\ RunIsKnown(e)
      BY <1>2, <2>4, <2>8 DEF Unsaved, RunsAreKnown
    <3> QED
      BY <2>1, <2>3, <3>1 DEF RunIsKnown, Quarantined, Checked
  <2>9. SavedIsKnown'
    BY <1>2, <2>1 DEF SavedIsKnown, Verified
  <2> QED
    BY <2>5, <2>6, <2>7, <2>8, <2>9 DEF ScriptIInv, RunsAreKnown
<1>6. ASSUME NEW kind \in StrayKinds, StrayDies(kind)
      PROVE  ScriptIInv'
  <2>1. strays' \in SUBSET StrayKinds /\ (strays = {} => strays' = {})
    BY <1>1, <1>6 DEF StrayDies
  <2>2. ScriptTyped'
    BY <1>2, <1>1, <1>3, <1>6, <2>1 DEF StrayDies, ScriptTyped
  <2>3. JobProgress'
    BY <1>2, <1>1, <1>3, <1>6, <2>1 DEF StrayDies, JobProgress, JobWorks
  <2>4. ClosedIsGone'
    BY <1>2, <1>1, <1>3, <1>6, <2>1 DEF StrayDies, ClosedIsGone, JobProgress, JobWorks, Gone
  <2>5. ASSUME NEW e \in Unsaved' PROVE RunIsKnown(e)'
    BY <1>2, <1>1, <1>3, <1>6, <2>1, <2>5 DEF StrayDies, RunsAreKnown, RunIsKnown, Unsaved, Quarantined,
           Checked, JobProgress, JobWorks, ClosedIsGone
  <2>6. SavedIsKnown'
    BY <1>2, <1>1, <1>3, <1>6, <2>1 DEF StrayDies, SavedIsKnown, Verified
  <2> QED
    BY <2>2, <2>3, <2>4, <2>5, <2>6 DEF ScriptIInv, RunsAreKnown
<1> QED
  BY <1>4, <1>5, <1>6

\* A step of another call of the target.
LEMMA CallStep ==
  ASSUME MaxRuns \in Nat, ScriptIInv,
         \/ ClientEdits
         \/ \E op \in {"saving", "closing", "loading", "discarding"} : CallBegins(op)
         \/ calling \in {"saving", "closing", "loading", "discarding", "releasing"} /\ Fails
         \/ Save \/ Close \/ Load \/ LoadLeavesOrphan \/ Discard \/ Recover
         \/ CloseAll
  PROVE  ScriptIInv'
<1>1. /\ target \in TargetType /\ program \in ProgramType /\ disk \in SUBSET EditType /\ strays \in SUBSET StrayKinds
      /\ job \in JobType /\ files \in [dir : BOOLEAN, bundle : BOOLEAN] /\ reports \in Seq(ReportsOf)
      /\ Len(reports) = IF job.pc = "none" THEN job.n ELSE job.n - 1
  BY DEF ScriptIInv, ScriptTyped
<1>2. JobProgress /\ ClosedIsGone /\ RunsAreKnown /\ SavedIsKnown /\ ScriptTyped
  BY DEF ScriptIInv
<1>3. job.n \in 0..MaxRuns /\ \A e \in Unsaved : e.run \in 0..MaxRuns
  BY <1>1 DEF JobType, ProgramType, EditType, Unsaved
<1>4. CASE ClientEdits
  <2>1. EditOf(job.n, "client") \in EditType /\ EditOf(job.n, "client").run = job.n /\ EditOf(job.n, "client").maker = "client"
    BY <1>3 DEF EditOf, EditType, Makers
  <2>2. program' \in ProgramType /\ program'.tx = program.tx /\ program'.pending = program.pending
        /\ program'.mem = program.mem \cup {EditOf(job.n, "client")} /\ (program'.sub <=> program.sub) /\ (program'.aborted <=> program.aborted)
    BY <1>1, <1>4, <2>1 DEF ClientEdits, ProgramType
  <2>3. job.pc \in {"none", "staged"} /\ target.open
    BY <1>1, <1>4 DEF ClientEdits, Counted, Idle, JobWorks
  <2>4. ScriptTyped'
    BY <1>2, <1>1, <1>3, <1>4, <2>1, <2>2, <2>3 DEF ClientEdits, Counted, Idle, ScriptTyped
  <2>5. JobProgress'
    BY <1>2, <1>1, <1>3, <1>4, <2>1, <2>2, <2>3 DEF ClientEdits, Counted, Idle, JobProgress, JobWorks
  <2>6. ClosedIsGone'
    BY <1>2, <1>1, <1>3, <1>4, <2>1, <2>2, <2>3
       DEF ClientEdits, Counted, Idle, ClosedIsGone, JobProgress, JobWorks, Gone
  <2>7. ASSUME NEW e \in Unsaved' PROVE RunIsKnown(e)'
    BY <1>2, <1>1, <1>3, <1>4, <2>1, <2>2, <2>3, <2>7 DEF ClientEdits, Counted, Idle, RunsAreKnown, RunIsKnown,
           Unsaved, Quarantined, Checked, JobProgress, JobWorks, ClosedIsGone
  <2>8. SavedIsKnown'
    BY <1>2, <1>1, <1>3, <1>4, <2>1, <2>2, <2>3 DEF ClientEdits, Counted, Idle, SavedIsKnown, Verified
  <2> QED
    BY <2>4, <2>5, <2>6, <2>7, <2>8 DEF ScriptIInv, RunsAreKnown
<1>5. ASSUME NEW op \in {"saving", "closing", "loading", "discarding"}, CallBegins(op)
      PROVE  ScriptIInv'
  <2>1. job.pc \in {"none", "staged"}
    BY <1>1, <1>5 DEF CallBegins, Counted, Idle, JobWorks
  <2>2. ScriptTyped'
    BY <1>2, <1>1, <1>3, <1>5, <2>1 DEF CallBegins, Counted, Idle, ScriptTyped
  <2>3. JobProgress'
    BY <1>2, <1>1, <1>3, <1>5, <2>1 DEF CallBegins, Counted, Idle, JobProgress, JobWorks
  <2>4. ClosedIsGone'
    BY <1>2, <1>1, <1>3, <1>5, <2>1 DEF CallBegins, Counted, Idle, ClosedIsGone, JobProgress, JobWorks, Gone
  <2>5. ASSUME NEW e \in Unsaved' PROVE RunIsKnown(e)'
    BY <1>2, <1>1, <1>3, <1>5, <2>1, <2>5 DEF CallBegins, Counted, Idle, RunsAreKnown, RunIsKnown, Unsaved,
           Quarantined, Checked, JobProgress, JobWorks, ClosedIsGone
  <2>6. SavedIsKnown'
    BY <1>2, <1>1, <1>3, <1>5, <2>1 DEF CallBegins, Counted, Idle, SavedIsKnown, Verified
  <2> QED
    BY <2>2, <2>3, <2>4, <2>5, <2>6 DEF ScriptIInv, RunsAreKnown
<1>6. CASE calling \in {"saving", "closing", "loading", "discarding", "releasing"} /\ Fails
  <2>2. ScriptTyped'
    BY <1>2, <1>1, <1>3, <1>6 DEF Fails, CallEnds, ScriptTyped
  <2>3. JobProgress'
    BY <1>2, <1>1, <1>3, <1>6 DEF Fails, CallEnds, JobProgress, JobWorks
  <2>4. ClosedIsGone'
    BY <1>2, <1>1, <1>3, <1>6 DEF Fails, CallEnds, ClosedIsGone, JobProgress, JobWorks, Gone
  <2>5. ASSUME NEW e \in Unsaved' PROVE RunIsKnown(e)'
    BY <1>2, <1>1, <1>3, <1>6, <2>5 DEF Fails, CallEnds, RunsAreKnown, RunIsKnown, Unsaved, Quarantined, Checked,
           JobProgress, JobWorks, ClosedIsGone
  <2>6. SavedIsKnown'
    BY <1>2, <1>1, <1>3, <1>6 DEF Fails, CallEnds, SavedIsKnown, Verified
  <2> QED
    BY <2>2, <2>3, <2>4, <2>5, <2>6 DEF ScriptIInv, RunsAreKnown
<1>7. CASE Save
  <2>1. job.pc \in {"none", "staged"}
    BY <1>1, <1>2, <1>7 DEF Save, JobProgress, JobWorks
  <2>2. \A e \in Unsaved : Verified(e)
    BY <1>7, <2>1, NothingUnknown DEF Save, Checked, JobWorks
  <2>3. program.mem \in SUBSET EditType /\ program.mem \subseteq Unsaved
    BY <1>1 DEF ProgramType, Unsaved
  <2>4. ScriptTyped'
    BY <1>2, <1>1, <1>3, <1>7, <2>1, <2>2, <2>3 DEF Save, Saves, CallEnds, ScriptTyped
  <2>5. JobProgress'
    BY <1>2, <1>1, <1>3, <1>7, <2>1, <2>2, <2>3 DEF Save, Saves, CallEnds, JobProgress, JobWorks
  <2>6. ClosedIsGone'
    BY <1>2, <1>1, <1>3, <1>7, <2>1, <2>2, <2>3
       DEF Save, Saves, CallEnds, ClosedIsGone, JobProgress, JobWorks, Gone
  <2>7. ASSUME NEW e \in Unsaved' PROVE RunIsKnown(e)'
    BY <1>2, <1>1, <1>3, <1>7, <2>1, <2>2, <2>3, <2>7 DEF Save, Saves, CallEnds, RunsAreKnown, RunIsKnown,
           Unsaved, Quarantined, Checked, JobProgress, JobWorks, ClosedIsGone
  <2>8. SavedIsKnown'
    BY <1>2, <1>1, <1>3, <1>7, <2>1, <2>2, <2>3 DEF Save, Saves, CallEnds, SavedIsKnown, Verified
  <2> QED
    BY <2>4, <2>5, <2>6, <2>7, <2>8 DEF ScriptIInv, RunsAreKnown
<1>8. CASE Close
  <2>1. job.pc \in {"none", "staged"}
    BY <1>1, <1>2, <1>8 DEF Close, JobProgress, JobWorks
  <2>2. \A e \in Unsaved : Verified(e)
    BY <1>8, <2>1, NothingUnknown DEF Close, Checked, JobWorks
  <2>3. program.mem \in SUBSET EditType /\ program.mem \subseteq Unsaved
    BY <1>1 DEF ProgramType, Unsaved
  <2>4. /\ Released \in TargetType /\ ~Released.open /\ ~Released.mark /\ Released.threads = {}
        /\ (Released.store <=> target.store) /\ (Released.orphan <=> target.orphan)
    BY <1>1, ReleasedEffect
  <2>5. /\ Opened({}) \in ProgramType /\ Opened({}).mem = {} /\ Opened({}).tx = "none" /\ Opened({}).pending = {}
        /\ ~Opened({}).sub /\ ~Opened({}).aborted
    BY OpenedEffect
  <2>6. target' = Released /\ program' = Opened({}) /\ strays' = {}
    BY <1>8 DEF Close, ProgramGone
  <2>7. ScriptTyped'
    BY <1>2, <1>1, <1>3, <1>8, <2>1, <2>2, <2>3, <2>4, <2>5, <2>6 DEF Close, Saves, CallEnds, ScriptTyped
  <2>8. JobProgress'
    BY <1>2, <1>1, <1>3, <1>8, <2>1, <2>2, <2>3, <2>4, <2>5, <2>6
       DEF Close, Saves, CallEnds, JobProgress, JobWorks
  <2>9. ClosedIsGone'
    BY <1>2, <1>1, <1>3, <1>8, <2>1, <2>2, <2>3, <2>4, <2>5, <2>6
       DEF Close, Saves, CallEnds, ClosedIsGone, JobProgress, JobWorks, Gone
  <2>10. ASSUME NEW e \in Unsaved' PROVE RunIsKnown(e)'
    BY <1>2, <1>1, <1>3, <1>8, <2>1, <2>2, <2>3, <2>4, <2>5, <2>6, <2>10 DEF Close, Saves, CallEnds,
           RunsAreKnown, RunIsKnown, Unsaved, Quarantined, Checked, JobProgress, JobWorks, ClosedIsGone
  <2>11. SavedIsKnown'
    BY <1>2, <1>1, <1>3, <1>8, <2>1, <2>2, <2>3, <2>4, <2>5, <2>6
       DEF Close, Saves, CallEnds, SavedIsKnown, Verified
  <2> QED
    BY <2>7, <2>8, <2>9, <2>10, <2>11 DEF ScriptIInv, RunsAreKnown
<1>9. CASE Load
  <2>1. job.pc \in {"none", "staged"}
    BY <1>1, <1>2, <1>9 DEF Load, JobProgress, JobWorks
  <2>2. \A e \in Unsaved : Verified(e)
    BY <1>9, <2>1, NothingUnknown DEF Load, Checked, JobWorks
  <2>3. program.mem \in SUBSET EditType /\ program.mem \subseteq Unsaved
    BY <1>1 DEF ProgramType, Unsaved
  <2>4. /\ Released \in TargetType /\ ~Released.open /\ ~Released.mark /\ Released.threads = {}
        /\ (Released.store <=> target.store) /\ (Released.orphan <=> target.orphan)
    BY <1>1, ReleasedEffect
  <2>5. /\ target' \in TargetType /\ target'.open /\ ~target'.mark /\ target'.threads = {}
        /\ (target'.store <=> target.store) /\ (target'.orphan <=> target.orphan)
    BY <1>9, <2>4 DEF Load, TargetType
  <2>6. disk' \in SUBSET EditType /\ \A e \in disk' : Verified(e)
    BY <1>1, <1>2, <1>9, <2>2, <2>3 DEF Load, SavedIsKnown, Verified
  <2>7. /\ program' \in ProgramType /\ program'.mem = disk' /\ program'.tx = "none" /\ program'.pending = {}
        /\ ~program'.sub /\ ~program'.aborted /\ strays' = {}
    BY <1>9, <2>6, OpenedEffect DEF Load
  <2>8. calling' = "none" /\ UNCHANGED <<job, files, reports>>
    BY <1>9 DEF Load, CallEnds
  <2>9. ScriptTyped'
    BY <1>2, <1>1, <1>3, <1>9, <2>1, <2>2, <2>3, <2>4, <2>5, <2>6, <2>7, <2>8 DEF Load, ScriptTyped
  <2>10. JobProgress'
    BY <1>2, <1>1, <1>3, <1>9, <2>1, <2>2, <2>3, <2>4, <2>5, <2>6, <2>7, <2>8 DEF Load, JobProgress, JobWorks
  <2>11. ClosedIsGone'
    BY <1>2, <1>1, <1>3, <1>9, <2>1, <2>2, <2>3, <2>4, <2>5, <2>6, <2>7, <2>8
       DEF Load, ClosedIsGone, JobProgress, JobWorks, Gone
  <2>12. ASSUME NEW e \in Unsaved' PROVE RunIsKnown(e)'
    BY <1>2, <1>1, <1>3, <1>9, <2>1, <2>2, <2>3, <2>4, <2>5, <2>6, <2>7, <2>8, <2>12 DEF Load, RunsAreKnown,
           RunIsKnown, Unsaved, Quarantined, Checked, JobProgress, JobWorks, ClosedIsGone, Verified
  <2>13. SavedIsKnown'
    BY <1>2, <1>1, <1>3, <1>9, <2>1, <2>2, <2>3, <2>4, <2>5, <2>6, <2>7, <2>8 DEF Load, SavedIsKnown, Verified
  <2> QED
    BY <2>9, <2>10, <2>11, <2>12, <2>13 DEF ScriptIInv, RunsAreKnown
<1>10. CASE LoadLeavesOrphan
  <2>1. /\ target' \in TargetType /\ (target'.open <=> target.open) /\ (target'.mark <=> target.mark) /\ target'.threads = target.threads
        /\ target'.store /\ target'.orphan
    BY <1>1, <1>10 DEF LoadLeavesOrphan, TargetType
  <2>2. ScriptTyped'
    BY <1>2, <1>1, <1>3, <1>10, <2>1 DEF LoadLeavesOrphan, CallEnds, ScriptTyped
  <2>3. JobProgress'
    BY <1>2, <1>1, <1>3, <1>10, <2>1 DEF LoadLeavesOrphan, CallEnds, JobProgress, JobWorks
  <2>4. ClosedIsGone'
    BY <1>2, <1>1, <1>3, <1>10, <2>1 DEF LoadLeavesOrphan, CallEnds, ClosedIsGone, JobProgress, JobWorks, Gone
  <2>5. ASSUME NEW e \in Unsaved' PROVE RunIsKnown(e)'
    BY <1>2, <1>1, <1>3, <1>10, <2>1, <2>5 DEF LoadLeavesOrphan, CallEnds, RunsAreKnown, RunIsKnown, Unsaved,
           Quarantined, Checked, JobProgress, JobWorks, ClosedIsGone
  <2>6. SavedIsKnown'
    BY <1>2, <1>1, <1>3, <1>10, <2>1 DEF LoadLeavesOrphan, CallEnds, SavedIsKnown, Verified
  <2> QED
    BY <2>2, <2>3, <2>4, <2>5, <2>6 DEF ScriptIInv, RunsAreKnown
<1>11. CASE Discard
  <2>1. /\ Released \in TargetType /\ ~Released.open /\ ~Released.mark /\ Released.threads = {}
        /\ (Released.store <=> target.store) /\ (Released.orphan <=> target.orphan)
    BY <1>1, ReleasedEffect
  <2>2. /\ Opened({}) \in ProgramType /\ Opened({}).mem = {} /\ Opened({}).tx = "none" /\ Opened({}).pending = {}
        /\ ~Opened({}).sub /\ ~Opened({}).aborted
    BY OpenedEffect
  <2>3. program' = Opened({}) /\ strays' = {} /\ target' = (IF target.open THEN Released ELSE target) /\ calling' = "releasing"
        /\ calling = "discarding" /\ UNCHANGED <<disk, job, files, reports>>
    BY <1>11 DEF Discard, ProgramGone
  <2>4. target' \in TargetType /\ ~target'.open /\ (target'.store <=> target.store) /\ (target'.orphan <=> target.orphan)
        /\ (target'.threads # {} => target'.mark)
    BY <1>1, <1>2, <2>1, <2>3 DEF ClosedIsGone
  <2>5. job.pc \in {"none", "staged"}
    BY <1>1, <1>2, <2>3 DEF JobProgress, JobWorks
  <2>6. ScriptTyped'
    BY <1>2, <1>1, <1>3, <1>11, <2>1, <2>2, <2>3, <2>4, <2>5 DEF Discard, ScriptTyped
  <2>7. JobProgress'
    BY <1>2, <1>1, <1>3, <1>11, <2>1, <2>2, <2>3, <2>4, <2>5 DEF Discard, JobProgress, JobWorks
  <2>8. ClosedIsGone'
    BY <1>2, <1>1, <1>3, <1>11, <2>1, <2>2, <2>3, <2>4, <2>5
       DEF Discard, ClosedIsGone, JobProgress, JobWorks, Gone
  <2>9. ASSUME NEW e \in Unsaved' PROVE RunIsKnown(e)'
    BY <1>2, <1>1, <1>3, <1>11, <2>1, <2>2, <2>3, <2>4, <2>5, <2>9 DEF Discard, RunsAreKnown, RunIsKnown,
           Unsaved, Quarantined, Checked, JobProgress, JobWorks, ClosedIsGone
  <2>10. SavedIsKnown'
    BY <1>2, <1>1, <1>3, <1>11, <2>1, <2>2, <2>3, <2>4, <2>5 DEF Discard, SavedIsKnown, Verified
  <2> QED
    BY <2>6, <2>7, <2>8, <2>9, <2>10 DEF ScriptIInv, RunsAreKnown
<1>12. CASE Recover
  <2>1. /\ target' \in TargetType /\ (target'.open <=> target.open) /\ (target'.mark <=> target.mark) /\ target'.threads = target.threads
        /\ ~target'.store /\ ~target'.orphan
    BY <1>1, <1>12 DEF Recover, TargetType
  <2>2. /\ Opened({}) \in ProgramType /\ Opened({}).mem = {} /\ Opened({}).tx = "none" /\ Opened({}).pending = {}
        /\ ~Opened({}).sub /\ ~Opened({}).aborted
    BY OpenedEffect
  <2>3. ~target.open /\ program = Opened({}) /\ calling = "releasing"
    BY <1>2, <1>12 DEF Recover, ClosedIsGone, Gone
  <2>4. job.pc \in {"none", "staged"}
    BY <1>1, <1>2, <2>3 DEF JobProgress, JobWorks
  <2>5. ScriptTyped'
    BY <1>2, <1>1, <1>3, <1>12, <2>1, <2>2, <2>3, <2>4 DEF Recover, CallEnds, ScriptTyped
  <2>6. JobProgress'
    BY <1>2, <1>1, <1>3, <1>12, <2>1, <2>2, <2>3, <2>4 DEF Recover, CallEnds, JobProgress, JobWorks
  <2>7. ClosedIsGone'
    BY <1>2, <1>1, <1>3, <1>12, <2>1, <2>2, <2>3, <2>4
       DEF Recover, CallEnds, ClosedIsGone, JobProgress, JobWorks, Gone
  <2>8. ASSUME NEW e \in Unsaved' PROVE RunIsKnown(e)'
    BY <1>2, <1>1, <1>3, <1>12, <2>1, <2>2, <2>3, <2>4, <2>8 DEF Recover, CallEnds, RunsAreKnown, RunIsKnown,
           Unsaved, Quarantined, Checked, JobProgress, JobWorks, ClosedIsGone
  <2>9. SavedIsKnown'
    BY <1>2, <1>1, <1>3, <1>12, <2>1, <2>2, <2>3, <2>4 DEF Recover, CallEnds, SavedIsKnown, Verified
  <2> QED
    BY <2>5, <2>6, <2>7, <2>8, <2>9 DEF ScriptIInv, RunsAreKnown
<1>13. CASE CloseAll
  <2>1. job.pc \in {"none", "staged"} /\ calling = "none" /\ calling' = "over" /\ target.open /\ UNCHANGED <<job, files, reports>>
    BY <1>1, <1>13 DEF CloseAll, Idle, JobWorks
  <2>2. CASE Quarantined \/ ~CanSave
    <3>1. UNCHANGED <<target, program, disk, strays>>
      BY <1>13, <2>2 DEF CloseAll
    <3>2. ScriptTyped'
      BY <1>2, <1>1, <1>3, <2>1, <3>1 DEF ScriptTyped
    <3>3. JobProgress'
      BY <1>2, <1>1, <1>3, <2>1, <3>1 DEF JobProgress, JobWorks
    <3>4. ClosedIsGone'
      BY <1>2, <1>1, <1>3, <2>1, <3>1 DEF ClosedIsGone, JobProgress, JobWorks, Gone
    <3>5. ASSUME NEW e \in Unsaved' PROVE RunIsKnown(e)'
      BY <1>2, <1>1, <1>3, <2>1, <3>1, <3>5 DEF RunsAreKnown, RunIsKnown, Unsaved, Quarantined, Checked
    <3>6. SavedIsKnown'
      BY <1>2, <1>1, <1>3, <2>1, <3>1 DEF SavedIsKnown, Verified
    <3> QED
      BY <3>2, <3>3, <3>4, <3>5, <3>6 DEF ScriptIInv, RunsAreKnown
  <2>3. CASE ~Quarantined /\ CanSave
    <3>1. disk' = program.mem /\ target' = Released /\ program' = Opened({}) /\ strays' = {} /\ program.tx = "none"
      BY <1>13, <2>3 DEF CloseAll, Saves, ProgramGone, CanSave
    <3>2. \A e \in Unsaved : Verified(e)
      BY <2>1, <2>3, NothingUnknown DEF JobWorks
    <3>3. program.mem \in SUBSET EditType /\ program.mem \subseteq Unsaved
      BY <1>1 DEF ProgramType, Unsaved
    <3>4. /\ Released \in TargetType /\ ~Released.open /\ ~Released.mark /\ Released.threads = {}
          /\ (Released.store <=> target.store) /\ (Released.orphan <=> target.orphan)
      BY <1>1, ReleasedEffect
    <3>5. /\ Opened({}) \in ProgramType /\ Opened({}).mem = {} /\ Opened({}).tx = "none" /\ Opened({}).pending = {}
          /\ ~Opened({}).sub /\ ~Opened({}).aborted
      BY OpenedEffect
    <3>6. ScriptTyped'
      BY <1>2, <1>1, <1>3, <2>1, <3>1, <3>2, <3>3, <3>4, <3>5 DEF ScriptTyped
    <3>7. JobProgress'
      BY <1>2, <1>1, <1>3, <2>1, <3>1, <3>2, <3>3, <3>4, <3>5 DEF JobProgress, JobWorks
    <3>8. ClosedIsGone'
      BY <1>2, <1>1, <1>3, <2>1, <3>1, <3>2, <3>3, <3>4, <3>5 DEF ClosedIsGone, JobProgress, JobWorks, Gone
    <3>9. ASSUME NEW e \in Unsaved' PROVE RunIsKnown(e)'
      BY <1>2, <1>1, <1>3, <2>1, <3>1, <3>2, <3>3, <3>4, <3>5, <3>9
         DEF RunsAreKnown, RunIsKnown, Unsaved, Quarantined, Checked
    <3>10. SavedIsKnown'
      BY <1>2, <1>1, <1>3, <2>1, <3>1, <3>2, <3>3, <3>4, <3>5 DEF SavedIsKnown, Verified
    <3> QED
      BY <3>6, <3>7, <3>8, <3>9, <3>10 DEF ScriptIInv, RunsAreKnown
  <2> QED
    BY <2>2, <2>3
<1> QED
  BY <1>4, <1>5, <1>6, <1>7, <1>8, <1>9, <1>10, <1>11, <1>12, <1>13

\* The scripts' invariant is inductive.
LEMMA ScriptStep ==
  ASSUME MaxRuns \in Nat, ScriptIInv, [ScriptNext]_scriptVars
  PROVE  ScriptIInv'
<1>1. CASE UNCHANGED scriptVars
  BY <1>1 DEF scriptVars, ScriptIInv, ScriptTyped, JobProgress, ClosedIsGone, RunsAreKnown, RunIsKnown,
         SavedIsKnown, Verified,
     JobWorks, Gone, Unsaved, Quarantined, Checked
<1>2. CASE ScriptNext
  BY <1>2, RunStep, StrayStep, CallStep DEF ScriptNext
<1> QED
  BY <1>1, <1>2

\* What is proved of a run's reports and of what is saved follows.
LEMMA ScriptsAreTrue == MaxRuns \in Nat /\ ScriptIInv => ScriptInvariant
<1> SUFFICES ASSUME MaxRuns \in Nat, ScriptIInv PROVE ScriptInvariant
  OBVIOUS
<1>1. /\ target \in TargetType /\ program \in ProgramType /\ disk \in SUBSET EditType /\ job \in JobType
      /\ reports \in Seq(ReportsOf) /\ Len(reports) = IF job.pc = "none" THEN job.n ELSE job.n - 1
  BY DEF ScriptIInv, ScriptTyped
<1>2. ScriptTypeOK
  <2>1. DOMAIN target = DOMAIN NoTarget /\ target.threads \subseteq StrayKinds
    BY <1>1 DEF TargetType, NoTarget
  <2>2. strays \subseteq StrayKinds
    BY DEF ScriptIInv, ScriptTyped
  <2>3. program.mem \cup program.pending \cup disk \subseteq EditType /\ program.tx \in {"none", "script", "stray"}
    BY <1>1 DEF ProgramType
  <2>4. EditType = [run : 0..MaxRuns, maker : {"main", "stray", "missed", "client"}]
    BY DEF EditType, Makers
  <2>5. job.n \in 0..MaxRuns
    BY <1>1 DEF JobType
  <2>6. calling \in {"none", "saving", "closing", "loading", "discarding", "releasing", "over"}
    BY DEF ScriptIInv, ScriptTyped
  <2> QED
    BY <2>1, <2>2, <2>3, <2>4, <2>5, <2>6 DEF ScriptTypeOK
<1>3. OnlyVerifiedIsSaved
  BY <1>1 DEF OnlyVerifiedIsSaved, ReportOf, ScriptIInv, SavedIsKnown, Verified
<1>4. ReportsAreTrue
  <2>1. ASSUME NEW e \in Unsaved, e.maker = "main" PROVE ReportOf(e.run) # "absent"
    BY <2>1 DEF ScriptIInv, RunsAreKnown, RunIsKnown, ReportOf
  <2>2. ASSUME NEW e \in disk, e.maker = "main" PROVE ReportOf(e.run) # "absent"
    BY <1>3, <2>2 DEF OnlyVerifiedIsSaved
  <2> QED
    BY <2>1, <2>2 DEF ReportsAreTrue, Unsaved
<1>5. NothingStaysBehind
  BY DEF NothingStaysBehind, ScriptIInv, JobProgress
<1>6. OrphansAreRemembered
  BY DEF OrphansAreRemembered, ScriptIInv, ClosedIsGone
<1> QED
  BY <1>2, <1>3, <1>4, <1>5, <1>6 DEF ScriptInvariant

\* However many runs, calls and threads that scripts leave: only what a run
\* reported as committed, or a client edited, is saved; "absent" stays true; the
\* bundle of an inline source does not outlive its directory; and a program that a
\* failed open left held is remembered (script_service.py, session_store.py).
THEOREM ScriptsHold == ASSUME MaxRuns \in Nat PROVE ScriptSpec => []ScriptInvariant
<1>1. ScriptInit => ScriptIInv
  BY ScriptInitially
<1>2. ScriptIInv /\ [ScriptNext]_scriptVars => ScriptIInv'
  BY ScriptStep
<1>3. ScriptIInv => ScriptInvariant
  BY ScriptsAreTrue
<1> QED
  BY <1>1, <1>2, <1>3, PTL DEF ScriptSpec

\* What a step does to a quarantine.
LeavesByDiscard ==
  Quarantined /\ ~Quarantined' =>
    \/ calling \in {"closing", "loading"} /\ ~target.store
    \/ calling \in {"discarding", "releasing"} /\ ~target'.open /\ ~target'.orphan /\ target.threads \cap strays = {}

LEMMA LeavingStep ==
  ASSUME MaxRuns \in Nat, ScriptIInv, [ScriptNext]_scriptVars
  PROVE  LeavesByDiscard
<1> SUFFICES ASSUME Quarantined, ~Quarantined' PROVE LeavesByDiscard
  BY DEF LeavesByDiscard
<1> USE DEF Quarantined
<1>1. target \in TargetType /\ job \in JobType
  BY DEF ScriptIInv, ScriptTyped
<1>2. /\ Released \in TargetType /\ ~Released.open /\ ~Released.mark /\ (Released.store <=> target.store)
      /\ (Released.orphan <=> target.orphan)
  BY <1>1, ReleasedEffect
<1>3. target' # target
  OBVIOUS
<1>4. CASE ClassifyRun
  <2>1. target' \in {target, Marked(target, job.found)}
    BY <1>4 DEF ClassifyRun
  <2> QED
    BY <1>1, <1>3, <2>1, MarkedEffect DEF JobType
<1>5. CASE FinishRun
  BY <1>1, <1>5 DEF FinishRun, TargetType
<1>6. ASSUME NEW kind \in StrayKinds, StrayStarts(kind) PROVE LeavesByDiscard
  <2>1. target' \in {target, Marked(target, {})}
    BY <1>6 DEF StrayStarts
  <2> QED
    BY <1>1, <1>3, <2>1, MarkedEffect
<1>7. CASE Close
  BY <1>2, <1>7 DEF Close, LeavesByDiscard
<1>8. CASE Load
  <2>1. target'.store <=> target.store
    BY <1>2, <1>8 DEF Load, TargetType
  <2> QED
    BY <1>8, <2>1 DEF Load, LeavesByDiscard
<1>9. CASE LoadLeavesOrphan
  BY <1>1, <1>9 DEF LoadLeavesOrphan, TargetType
<1>10. CASE Discard
  <2>1. target' = (IF target.open THEN Released ELSE target) /\ calling = "discarding" /\ target.threads \cap strays = {}
    BY <1>10 DEF Discard, ThreadsGone
  <2>2. ~target'.open /\ ~target'.store /\ (target'.orphan <=> target.orphan) /\ (target'.store <=> target.store)
    BY <1>2, <1>3, <2>1
  <2>3. ~target.orphan
    BY <2>2 DEF ScriptIInv, ClosedIsGone
  <2> QED
    BY <2>1, <2>2, <2>3 DEF LeavesByDiscard
<1>11. CASE Recover
  <2>1. calling = "releasing" /\ ~target.open /\ strays = {}
    BY <1>11 DEF Recover, ScriptIInv, ClosedIsGone, Gone
  <2>2. ~target'.open /\ ~target'.orphan
    BY <1>1, <1>11, <2>1 DEF Recover, TargetType
  <2> QED
    BY <2>1, <2>2 DEF LeavesByDiscard
<1>12. CASE CloseAll
  BY <1>3, <1>12 DEF CloseAll
<1>13. CASE \/ \E inline \in BOOLEAN : Stage(inline)
            \/ RunRefused \/ BeginRun \/ ScriptEdits
            \/ \E leave \in BOOLEAN : ScriptNests(leave)
            \/ \E kind \in StrayKinds : ScriptLeaves(kind)
            \/ \E timedOut, failed, cancelled \in BOOLEAN : ScriptEnds(timedOut, failed, cancelled)
            \/ \E throws, works \in BOOLEAN : CloseTransaction(throws, works)
            \/ RunReplies
  BY <1>3, <1>13 DEF Stage, RunRefused, BeginRun, ScriptEdits, ScriptNests, ScriptLeaves, ScriptEnds,
         CloseTransaction, RunReplies
<1>14. CASE \/ StrayEnds \/ \E kind \in StrayKinds : StrayDies(kind)
            \/ ClientEdits \/ \E op \in {"saving", "closing", "loading", "discarding"} : CallBegins(op)
            \/ Fails \/ Save
  BY <1>3, <1>14 DEF StrayEnds, StrayDies, ClientEdits, CallBegins, Fails, Save
<1>15. CASE UNCHANGED scriptVars
  BY <1>3, <1>15 DEF scriptVars
<1> QED
  BY <1>4, <1>5, <1>6, <1>7, <1>8, <1>9, <1>10, <1>11, <1>12, <1>13, <1>14, <1>15 DEF ScriptNext

\* In the same generality: a target leaves quarantine by a discard alone, once the
\* threads its runs recorded have ended and nothing of the target is open or held;
\* a mark that arrives after a call's check goes with the program that this call
\* closes (RuntimeTargetLifecycle.close_session).
THEOREM QuarantineHolds == ASSUME MaxRuns \in Nat PROVE ScriptSpec => QuarantineIsLeftByDiscard
<1>1. ScriptInit => ScriptIInv
  BY ScriptInitially
<1>2. ScriptIInv /\ [ScriptNext]_scriptVars => ScriptIInv'
  BY ScriptStep
<1>3. ScriptIInv /\ [ScriptNext]_scriptVars => LeavesByDiscard
  BY LeavingStep
<1>4. ScriptIInv /\ [ScriptNext]_scriptVars => [LeavesByDiscard]_scriptVars
  BY <1>3
<1> QED
  BY <1>1, <1>2, <1>4, PTL DEF ScriptSpec, QuarantineIsLeftByDiscard, LeavesByDiscard

=============================================================================
