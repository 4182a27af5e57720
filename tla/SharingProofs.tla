---------------------------- MODULE SharingProofs ----------------------------
(***************************************************************************)
(* Proofs about who may use a project, for any number of threads and of    *)
(* processes: the threads of one process, by the script barrier            *)
(* (ScriptBarrier), and the processes of one user, by the lock files of    *)
(* the GUI runtime (GuiRelay); and about a program that Mecha writes while *)
(* a human and other threads do (ProgramWrites).                           *)
(*                                                                         *)
(* The barrier's inductive invariant is the conjunction of the four        *)
(* invariants of its module: each is inductive relative to those before    *)
(* it.  That a project has one runtime needs who holds the launch lock     *)
(* (LaunchesAreLocked), which runtime the holder is starting, and that     *)
(* none is there while it is about to start one (StartsAreWatched).        *)
(* That the reply to a write is true needs whose transaction is open and   *)
(* who has the EDT (Brackets), whose edits are in it (Authorship), what    *)
(* the command's record says of it (RecordIsTrue), and of each item        *)
(* whether its transaction is over or will decide it (ResultsAreTrue).     *)
(***************************************************************************)
EXTENDS ScriptBarrier, GuiRelay, ProgramWrites, QueueLemmas, FiniteSetTheorems

-----------------------------------------------------------------------------
(* The barrier                                                             *)

\* The head of a queue of threads is a queued thread.
LEMMA HeadIsQueued ==
  ASSUME TypeOK, pending # <<>>
  PROVE  Head(pending) \in Threads /\ Head(pending) = pending[1] /\ 1 \in DOMAIN pending
<1>1. pending \in Seq(Threads)
  BY DEF TypeOK
<1>2. Len(pending) \in Nat \ {0} /\ DOMAIN pending = 1..Len(pending)
  BY <1>1, EmptySeq, LenProperties
<1>3. QED
  BY <1>1, <1>2, HeadTailProperties

\* Only threads are queued.
LEMMA QueuedAreThreads ==
  ASSUME TypeOK
  PROVE  Queued \subseteq Threads
BY ElementOfSeq, LenProperties DEF TypeOK, Queued

\* Leaving the queue keeps it a queue of threads, and removes exactly the
\* ticket of the thread that leaves.
LEMMA LeaveQueueRemoves ==
  ASSUME TypeOK, NEW t \in Threads, t \in Queued, LeaveQueue(t)
  PROVE  /\ pending' \in Seq(Threads)
         /\ (\A i, j \in DOMAIN pending : pending[i] = pending[j] => i = j) =>
              /\ \A i, j \in DOMAIN pending' : pending'[i] = pending'[j] => i = j
              /\ Queued' = Queued \ {t}
<1> DEFINE k == CHOOSE i \in DOMAIN pending : pending[i] = t
<1>1. pending \in Seq(Threads)
  BY DEF TypeOK
<1>2. k \in DOMAIN pending /\ pending[k] = t
  BY DEF Queued
<1>3. pending' = RemoveAt(pending, k)
  BY DEF LeaveQueue
<1> HIDE DEF k
<1>4. pending' \in Seq(Threads)
  BY <1>1, <1>2, <1>3, RemoveAtProperties
<1>5. ASSUME \A i, j \in DOMAIN pending : pending[i] = pending[j] => i = j
      PROVE  /\ \A i, j \in DOMAIN pending' : pending'[i] = pending'[j] => i = j
             /\ Queued' = Queued \ {t}
  <2>1. /\ \A i, j \in DOMAIN RemoveAt(pending, k) :
             RemoveAt(pending, k)[i] = RemoveAt(pending, k)[j] => i = j
        /\ {RemoveAt(pending, k)[i] : i \in DOMAIN RemoveAt(pending, k)}
             = {pending[i] : i \in DOMAIN pending} \ {pending[k]}
    BY <1>1, <1>2, <1>5, RemoveAtDistinct
  <2> QED
    BY <1>2, <1>3, <2>1 DEF Queued
<1>6. QED
  BY <1>4, <1>5

\* Evaluating a reader's predicate keeps the tickets and the gate well-typed.
LEMMA RegeneratedType ==
  ASSUME TypeOK
  PROVE  Regenerated \in [Threads -> Tickets] /\ GateCheck \in NoGate..Grace + 1
<1>1. Regenerated \in [Threads -> Tickets]
  <2>1. CASE writer = None /\ GenerationOver
    <3>1. Head(pending) \in Threads
      BY <2>1, HeadIsQueued DEF GenerationOver
    <3>2. [elders |-> Present, age |-> 0] \in Tickets
      BY BoundsAssumption DEF Tickets, Present
    <3> QED
      BY <2>1, <3>1, <3>2 DEF Regenerated, TypeOK
  <2>2. CASE ~(writer = None /\ GenerationOver)
    BY <2>2 DEF Regenerated, TypeOK
  <2> QED
    BY <2>1, <2>2
<1>2. GateCheck \in NoGate..Grace + 1
  <2>1. CASE writer = None /\ pending # <<>>
    <3>1. Head(pending) \in Threads
      BY <2>1, HeadIsQueued
    <3>2. Regenerated[Head(pending)].age \in 0..Grace + 1
      BY <1>1, <3>1 DEF Tickets
    <3> HIDE DEF Regenerated
    <3> QED
      BY <2>1, <3>2, BoundsAssumption DEF GateCheck, NoGate
  <2>2. CASE ~(writer = None /\ pending # <<>>)
    BY <2>2, BoundsAssumption DEF GateCheck, NoGate
  <2> QED
    BY <2>1, <2>2
<1>3. QED
  BY <1>1, <1>2

-----------------------------------------------------------------------------
(* Type correctness                                                        *)

\* Every step of a thread, and the passing of time, keeps the types.
LEMMA TypeStep ==
  ASSUME TypeOK, Exclusion, [Next]_vars
  PROVE  TypeOK'
<1>1. CASE UNCHANGED vars
  BY <1>1 DEF TypeOK, vars
<1>2. CASE Tick
  <2>1. ticket' \in [Threads -> Tickets]
    <3>1. ASSUME NEW t \in Threads, ticket[t].age <= Grace
          PROVE  [ticket[t] EXCEPT !.age = @ + 1] \in Tickets
      <4>1. ticket[t] \in [elders : SUBSET Threads, age : 0..Grace + 1]
        BY DEF TypeOK, Tickets
      <4>2. ticket[t].age + 1 \in 0..Grace + 1
        BY <3>1, <4>1, BoundsAssumption
      <4> QED
        BY <4>1, <4>2 DEF Tickets
    <3>2. \A t \in Threads : ticket[t] \in Tickets
      BY DEF TypeOK
    <3> QED
      BY <1>2, <3>1, <3>2 DEF Tick
  <2>2. gate' \in [Threads -> NoGate..Grace + 1]
    BY <1>2, BoundsAssumption DEF TypeOK, Tick, NoGate
  <2> QED
    BY <1>2, <2>1, <2>2 DEF TypeOK, Tick
<1>3. ASSUME NEW t \in Threads, EnterRead(t)
      PROVE  TypeOK'
  <2>1. gate' \in [Threads -> NoGate..Grace + 1] /\ readers' \in [Threads -> Nat]
    BY <1>3, BoundsAssumption DEF TypeOK, EnterRead, NoGate
  <2> QED
    BY <1>3, <2>1 DEF TypeOK, EnterRead
<1>4. ASSUME NEW t \in Threads, Read(t)
      PROVE  TypeOK'
  <2>1. CASE ReaderMayEnter(t)
    BY <1>3, <1>4, <2>1 DEF Read
  <2>2. CASE ~ReaderMayEnter(t)
    <3>1. gate' \in [Threads -> NoGate..Grace + 1] /\ ticket' \in [Threads -> Tickets]
      BY <1>4, <2>2, RegeneratedType DEF TypeOK, Read
    <3> QED
      BY <1>4, <2>2, <3>1 DEF TypeOK, Read
  <2> QED
    BY <2>1, <2>2
<1>5. ASSUME NEW t \in Threads, ReadWake(t)
      PROVE  TypeOK'
  <2>1. CASE ReaderMayEnter(t)
    BY <1>3, <1>5, <2>1 DEF ReadWake
  <2>2. CASE ~ReaderMayEnter(t)
    <3>1. gate' \in [Threads -> NoGate..Grace + 1] /\ ticket' \in [Threads -> Tickets]
      BY <1>5, <2>2, RegeneratedType DEF TypeOK, ReadWake
    <3> QED
      BY <1>5, <2>2, <3>1 DEF TypeOK, ReadWake
  <2> QED
    BY <2>1, <2>2
<1>6. ASSUME NEW t \in Threads, ReadDeadline(t)
      PROVE  TypeOK'
  <2>1. CASE ReaderMayEnter(t)
    BY <1>3, <1>6, <2>1 DEF ReadDeadline
  <2>2. CASE ~ReaderMayEnter(t)
    <3>1. gate' \in [Threads -> NoGate..Grace + 1] /\ ticket' \in [Threads -> Tickets]
      BY <1>6, <2>2, RegeneratedType, BoundsAssumption DEF TypeOK, ReadDeadline, NoGate
    <3> QED
      BY <1>6, <2>2, <3>1 DEF TypeOK, ReadDeadline
  <2> QED
    BY <2>1, <2>2
<1>7. ASSUME NEW t \in Threads, ReadExit(t)
      PROVE  TypeOK'
  <2>1. Queued \subseteq Threads
    BY QueuedAreThreads
  <2> QED
    BY <1>7, <2>1 DEF TypeOK, ReadExit
<1>8. ASSUME NEW t \in Threads, Write(t)
      PROVE  TypeOK'
  <2>1. Queued \subseteq Threads
    BY QueuedAreThreads
  <2>2. CASE t \in stop \/ (writer = None /\ Present = {} /\ pending = <<>>)
    BY <1>8, <2>1, <2>2 DEF TypeOK, Write
  <2>3. CASE ~(t \in stop \/ (writer = None /\ Present = {} /\ pending = <<>>))
    <3>1. Append(pending, t) \in Seq(Threads)
      BY AppendProperties DEF TypeOK
    <3>2. [elders |-> Present, age |-> 0] \in Tickets
      BY BoundsAssumption DEF Tickets, Present
    <3> QED
      BY <1>8, <2>3, <3>1, <3>2 DEF TypeOK, Write
  <2> QED
    BY <2>2, <2>3
<1>9. ASSUME NEW t \in Threads, t \in Queued, EndWriteWait(t)
      PROVE  TypeOK'
  <2>1. Queued \subseteq Threads
    BY QueuedAreThreads
  <2>2. pending' \in Seq(Threads)
    BY <1>9, LeaveQueueRemoves DEF EndWriteWait
  <2>3. NoTicket \in Tickets
    BY BoundsAssumption DEF NoTicket, Tickets
  <2>4. writer' \in Threads \union {None} /\ depth' \in Nat
    BY <1>9 DEF TypeOK, EndWriteWait
  <2> QED
    BY <1>9, <2>1, <2>2, <2>3, <2>4 DEF TypeOK, EndWriteWait, LeaveQueue
<1>10. ASSUME NEW t \in Threads, WriteWake(t)
       PROVE  TypeOK'
  BY <1>9, <1>10 DEF TypeOK, WriteWake
<1>11. ASSUME NEW t \in Threads, WriteExit(t)
       PROVE  TypeOK'
  <2>1. Queued \subseteq Threads
    BY QueuedAreThreads
  <2>2. depth' \in Nat
    <3>1. depth \in Nat /\ depth # 0
      BY <1>11, NoneAssumption DEF TypeOK, Exclusion, WriteExit
    <3> QED
      BY <1>11, <3>1 DEF WriteExit
  <2> QED
    BY <1>11, <2>1, <2>2 DEF TypeOK, WriteExit
<1>12. ASSUME NEW t \in Threads, WriteAgain(t) \/ SetStop(t) \/ NotifyStop(t)
       PROVE  TypeOK'
  <2>1. Queued \subseteq Threads
    BY QueuedAreThreads
  <2> QED
    BY <1>12, <2>1 DEF TypeOK, WriteAgain, SetStop, NotifyStop
<1>13. QED
  BY <1>1, <1>2, <1>4, <1>5, <1>6, <1>7, <1>8, <1>9, <1>10, <1>11, <1>12
  DEF Next, Reader, Writer, Interrupt, WriteDeadline

-----------------------------------------------------------------------------
(* Exclusion                                                               *)

\* Nobody enters beside a writer, and a writer enters alone.
LEMMA ExclusionStep ==
  ASSUME TypeOK, Exclusion, [Next]_vars
  PROVE  Exclusion'
<1>1. CASE UNCHANGED vars
  BY <1>1 DEF Exclusion, Present, vars
<1>2. CASE Tick
  BY <1>2 DEF Exclusion, Present, Tick
<1>3. ASSUME NEW t \in Threads, ReaderMayEnter(t), EnterRead(t)
      PROVE  Exclusion'
  <2>1. writer \in {None, t}
    BY <1>3 DEF ReaderMayEnter
  <2>2. Present' \subseteq Present \union {t}
    BY <1>3 DEF EnterRead, Present, TypeOK
  <2> QED
    BY <1>3, <2>1, <2>2 DEF Exclusion, EnterRead
<1>4. ASSUME NEW t \in Threads, Read(t) \/ ReadWake(t) \/ ReadDeadline(t)
      PROVE  Exclusion'
  <2>1. CASE ReaderMayEnter(t)
    BY <1>3, <1>4, <2>1 DEF Read, ReadWake, ReadDeadline
  <2>2. CASE ~ReaderMayEnter(t)
    BY <1>4, <2>2 DEF Read, ReadWake, ReadDeadline, Exclusion, Present
  <2> QED
    BY <2>1, <2>2
<1>5. ASSUME NEW t \in Threads, ReadExit(t)
      PROVE  Exclusion'
  <2>1. Present' \subseteq Present
    BY <1>5 DEF ReadExit, Present, TypeOK
  <2> QED
    BY <1>5, <2>1 DEF Exclusion, ReadExit
<1>6. ASSUME NEW t \in Threads, Write(t)
      PROVE  Exclusion'
  BY <1>6, NoneAssumption DEF Exclusion, Write, Present
<1>7. ASSUME NEW t \in Threads, EndWriteWait(t)
      PROVE  Exclusion'
  BY <1>7, NoneAssumption DEF Exclusion, EndWriteWait, LeaveQueue, MyTurn, Present
<1>8. ASSUME NEW t \in Threads, WriteWake(t) \/ WriteDeadline(t)
      PROVE  Exclusion'
  BY <1>7, <1>8 DEF WriteWake, WriteDeadline, Exclusion, Present
<1>9. ASSUME NEW t \in Threads, WriteAgain(t)
      PROVE  Exclusion'
  BY <1>9, NoneAssumption DEF WriteAgain, Exclusion, Present, TypeOK
<1>10. ASSUME NEW t \in Threads, WriteExit(t)
       PROVE  Exclusion'
  BY <1>10, NoneAssumption DEF WriteExit, Exclusion, Present, TypeOK
<1>11. ASSUME NEW t \in Threads, SetStop(t) \/ NotifyStop(t)
       PROVE  Exclusion'
  BY <1>11 DEF SetStop, NotifyStop, Exclusion, Present
<1>12. QED
  BY <1>1, <1>2, <1>4, <1>5, <1>6, <1>8, <1>9, <1>10, <1>11
  DEF Next, Reader, Writer, Interrupt

-----------------------------------------------------------------------------
(* Tickets                                                                 *)

\* A wait starts with one fresh ticket or none, and ends with none.
LEMMA TicketStep ==
  ASSUME TypeOK, Exclusion, OneTicketPerWaiter, [Next]_vars
  PROVE  OneTicketPerWaiter'
<1>1. CASE UNCHANGED vars
  BY <1>1 DEF OneTicketPerWaiter, Queued, vars
<1>2. CASE Tick
  BY <1>2 DEF OneTicketPerWaiter, Queued, Tick
<1>3. ASSUME NEW t \in Threads, EnterRead(t), t \notin Queued
      PROVE  OneTicketPerWaiter'
  <2>1. \A u \in Threads : u # t => readers'[u] = readers[u]
    BY <1>3 DEF EnterRead, TypeOK
  <2>2. Queued \subseteq Threads
    BY QueuedAreThreads
  <2> QED
    BY <1>3, <2>1, <2>2 DEF OneTicketPerWaiter, Queued, EnterRead, TypeOK
<1>4. ASSUME NEW t \in Threads, Read(t)
      PROVE  OneTicketPerWaiter'
  <2>1. CASE ReaderMayEnter(t)
    BY <1>3, <1>4, <2>1 DEF Read, Running
  <2>2. CASE ~ReaderMayEnter(t)
    <3>1. readers[t] = 0 /\ writer # t
      <4>1. CASE writer = None
        BY <2>2, <4>1, NoneAssumption DEF ReaderMayEnter, TypeOK
      <4>2. CASE writer # None
        BY <2>2, <4>2 DEF ReaderMayEnter, Exclusion, Present, TypeOK
      <4> QED
        BY <4>1, <4>2
    <3> QED
      BY <1>4, <2>2, <3>1 DEF Read, Running, OneTicketPerWaiter, Queued
  <2> QED
    BY <2>1, <2>2
<1>5. ASSUME NEW t \in Threads, ReadWake(t) \/ ReadDeadline(t)
      PROVE  OneTicketPerWaiter'
  <2>1. t \in waiting /\ t \notin Queued
    BY <1>5 DEF ReadWake, ReadDeadline, OneTicketPerWaiter
  <2>2. CASE ReaderMayEnter(t)
    BY <1>3, <1>5, <2>1, <2>2 DEF ReadWake, ReadDeadline
  <2>3. CASE ~ReaderMayEnter(t)
    BY <1>5, <2>3 DEF ReadWake, ReadDeadline, OneTicketPerWaiter, Queued
  <2> QED
    BY <2>2, <2>3
<1>6. ASSUME NEW t \in Threads, ReadExit(t)
      PROVE  OneTicketPerWaiter'
  <2>1. \A u \in Threads : u # t => readers'[u] = readers[u]
    BY <1>6 DEF ReadExit, TypeOK
  <2>2. Queued \subseteq Threads
    BY QueuedAreThreads
  <2> QED
    BY <1>6, <2>1, <2>2 DEF ReadExit, Running, OneTicketPerWaiter, Queued, TypeOK
<1>7. ASSUME NEW t \in Threads, Write(t)
      PROVE  OneTicketPerWaiter'
  <2>1. CASE t \in stop \/ (writer = None /\ Present = {} /\ pending = <<>>)
    BY <1>7, <2>1 DEF Write, Running, OneTicketPerWaiter, Queued
  <2>2. CASE ~(t \in stop \/ (writer = None /\ Present = {} /\ pending = <<>>))
    <3>1. pending \in Seq(Threads) /\ t \notin {pending[i] : i \in DOMAIN pending}
      BY <1>7 DEF Write, Running, Queued, TypeOK
    <3>2. pending' = Append(pending, t)
      BY <1>7, <2>2 DEF Write
    <3>3. /\ \A i, j \in DOMAIN pending' : pending'[i] = pending'[j] => i = j
          /\ Queued' = Queued \union {t}
      BY <3>1, <3>2, AppendDistinct DEF OneTicketPerWaiter, Queued
    <3> QED
      BY <1>7, <2>2, <3>3 DEF Write, Running, OneTicketPerWaiter
  <2> QED
    BY <2>1, <2>2
<1>8. ASSUME NEW t \in Threads, t \in Queued, EndWriteWait(t)
      PROVE  OneTicketPerWaiter'
  <2>1. /\ \A i, j \in DOMAIN pending' : pending'[i] = pending'[j] => i = j
        /\ Queued' = Queued \ {t}
    BY <1>8, LeaveQueueRemoves DEF EndWriteWait, OneTicketPerWaiter
  <2>2. writer' \in {writer, t} /\ readers' = readers /\ waiting' = waiting
    BY <1>8 DEF EndWriteWait, LeaveQueue
  <2> QED
    BY <1>8, <2>1, <2>2 DEF OneTicketPerWaiter
<1>9. ASSUME NEW t \in Threads, WriteWake(t) \/ WriteDeadline(t)
      PROVE  OneTicketPerWaiter'
  BY <1>8, <1>9 DEF WriteWake, WriteDeadline, OneTicketPerWaiter, Queued
<1>10. ASSUME NEW t \in Threads, WriteAgain(t) \/ SetStop(t) \/ NotifyStop(t)
       PROVE  OneTicketPerWaiter'
  BY <1>10 DEF WriteAgain, SetStop, NotifyStop, OneTicketPerWaiter, Queued
<1>11. ASSUME NEW t \in Threads, WriteExit(t)
       PROVE  OneTicketPerWaiter'
  <2>1. Queued \subseteq Threads
    BY QueuedAreThreads
  <2> QED
    BY <1>11, <2>1, NoneAssumption
    DEF WriteExit, Running, OneTicketPerWaiter, Queued, TypeOK
<1>12. QED
  BY <1>1, <1>2, <1>4, <1>5, <1>6, <1>7, <1>9, <1>10, <1>11
  DEF Next, Reader, Writer, Interrupt

-----------------------------------------------------------------------------
(* Wake-ups                                                                *)

\* A step that notifies all waiters, and lets nobody start to wait, loses no
\* wake-up.
LEMMA NotifyAllWakes ==
  ASSUME TypeOK, signalled' = waiting' \union Queued'
  PROVE  NoLostWakeup'
BY DEF NoLostWakeup

\* Whatever ends somebody's wait notifies the waiters in the same section, and
\* a waiter goes back to sleep only after finding that its wait is not over.
LEMMA WakeupStep ==
  ASSUME TypeOK, Exclusion, OneTicketPerWaiter, NoLostWakeup, [Next]_vars
  PROVE  NoLostWakeup'
<1>1. CASE UNCHANGED vars
  BY <1>1 DEF NoLostWakeup, MyTurn, Queued, Present, vars
<1>2. CASE Tick
  BY <1>2 DEF NoLostWakeup, MyTurn, Queued, Present, Tick
<1>3. ASSUME NEW t \in Threads, ReaderMayEnter(t), EnterRead(t), t \notin Queued
      PROVE  NoLostWakeup'
  <2>1. readers'[t] > 0 /\ Present \subseteq Present'
    BY <1>3 DEF EnterRead, TypeOK, Present
  <2>2. t \in Present'
    BY <2>1 DEF Present
  <2> QED
    BY <1>3, <2>2 DEF NoLostWakeup, EnterRead, MyTurn, Queued
<1>4. ASSUME NEW t \in Threads, Read(t)
      PROVE  NoLostWakeup'
  <2>1. CASE ReaderMayEnter(t)
    BY <1>3, <1>4, <2>1 DEF Read, Running
  <2>2. CASE ~ReaderMayEnter(t)
    <3>1. ~(writer = None /\ pending = <<>>)
      BY <2>2 DEF ReaderMayEnter
    <3> QED
      BY <1>4, <2>2, <3>1 DEF Read, NoLostWakeup, MyTurn, Queued, Present
  <2> QED
    BY <2>1, <2>2
<1>5. ASSUME NEW t \in Threads, ReadWake(t) \/ ReadDeadline(t)
      PROVE  NoLostWakeup'
  <2>1. t \in waiting /\ t \notin Queued
    BY <1>5 DEF ReadWake, ReadDeadline, OneTicketPerWaiter
  <2>2. CASE ReaderMayEnter(t)
    BY <1>3, <1>5, <2>1, <2>2 DEF ReadWake, ReadDeadline
  <2>3. CASE ~ReaderMayEnter(t)
    <3>1. ~(writer = None /\ pending = <<>>)
      BY <2>3 DEF ReaderMayEnter
    <3> QED
      BY <1>5, <2>1, <2>3, <3>1
      DEF ReadWake, ReadDeadline, NoLostWakeup, MyTurn, Queued, Present
  <2> QED
    BY <2>2, <2>3
<1>6. ASSUME NEW t \in Threads, ReadExit(t) \/ WriteExit(t) \/ NotifyStop(t)
      PROVE  NoLostWakeup'
  <2>1. signalled' = waiting' \union Queued'
    BY <1>6 DEF ReadExit, WriteExit, NotifyStop, Queued
  <2> QED
    BY <2>1, NotifyAllWakes
<1>7. ASSUME NEW t \in Threads, Write(t)
      PROVE  NoLostWakeup'
  <2>1. CASE t \in stop \/ (writer = None /\ Present = {} /\ pending = <<>>)
    <3>1. signalled' = waiting' \union Queued'
      BY <1>7, <2>1 DEF Write, Queued
    <3> QED
      BY <3>1, NotifyAllWakes
  <2>2. CASE ~(t \in stop \/ (writer = None /\ Present = {} /\ pending = <<>>))
    <3>1. pending \in Seq(Threads) /\ t \notin {pending[i] : i \in DOMAIN pending}
      BY <1>7 DEF Write, Running, Queued, TypeOK
    <3>2. pending' = Append(pending, t)
      BY <1>7, <2>2 DEF Write
    <3>3. pending' # <<>> /\ Queued' = Queued \union {t}
      BY <3>1, <3>2, AppendDistinct, AppendProperties DEF OneTicketPerWaiter, Queued
    <3>4. Head(pending') = IF pending = <<>> THEN t ELSE Head(pending)
      BY <3>1, <3>2, HeadTailAppend
    <3>5. /\ readers' = readers /\ writer' = writer /\ signalled' = signalled
          /\ stop' = stop /\ interrupting' = interrupting /\ waiting' = waiting
      BY <1>7, <2>2 DEF Write
    <3>6. Present' = Present
      BY <3>5 DEF Present
    <3>7. ASSUME NEW u \in Queued', MyTurn(u)'
          PROVE  u \in signalled'
      <4>1. writer = None /\ Present = {} /\ Head(pending') = u
        BY <3>5, <3>6, <3>7 DEF MyTurn
      <4>2. pending # <<>>
        BY <2>2, <4>1
      <4>3. MyTurn(u) /\ u \in Queued
        BY <3>4, <4>1, <4>2, HeadIsQueued DEF MyTurn, Queued
      <4> QED
        BY <3>5, <4>3 DEF NoLostWakeup
    <3>8. \A u \in Queued' : u \in stop' => u \in signalled' \/ u \in interrupting'
      BY <2>2, <3>3, <3>5 DEF NoLostWakeup
    <3> QED
      BY <3>3, <3>7, <3>8 DEF NoLostWakeup
  <2> QED
    BY <2>1, <2>2
<1>8. ASSUME NEW t \in Threads, t \in Queued, EndWriteWait(t)
      PROVE  NoLostWakeup'
  <2>1. Queued' = Queued \ {t}
    BY <1>8, LeaveQueueRemoves DEF EndWriteWait, OneTicketPerWaiter
  <2>2. signalled' = waiting' \union Queued'
    BY <1>8, <2>1 DEF EndWriteWait, LeaveQueue
  <2> QED
    BY <2>2, NotifyAllWakes
<1>9. ASSUME NEW t \in Threads, WriteWake(t)
      PROVE  NoLostWakeup'
  <2>1. CASE WriterWaitOver(t)
    BY <1>8, <1>9, <2>1 DEF WriteWake
  <2>2. CASE ~WriterWaitOver(t)
    <3>1. t \notin waiting /\ t \notin stop /\ ~MyTurn(t)
      BY <1>9, <2>2 DEF WriteWake, WriterWaitOver, OneTicketPerWaiter
    <3> QED
      BY <1>9, <2>2, <3>1 DEF WriteWake, NoLostWakeup, MyTurn, Queued, Present
  <2> QED
    BY <2>1, <2>2
<1>10. ASSUME NEW t \in Threads, WriteDeadline(t)
       PROVE  NoLostWakeup'
  BY <1>8, <1>10 DEF WriteDeadline
<1>11. ASSUME NEW t \in Threads, WriteAgain(t)
       PROVE  NoLostWakeup'
  BY <1>11 DEF WriteAgain, NoLostWakeup, MyTurn, Queued, Present
<1>12. ASSUME NEW t \in Threads, SetStop(t)
       PROVE  NoLostWakeup'
  BY <1>12 DEF SetStop, NoLostWakeup, MyTurn, Queued, Present
<1>13. QED
  BY <1>1, <1>2, <1>4, <1>5, <1>6, <1>7, <1>9, <1>10, <1>11, <1>12
  DEF Next, Reader, Writer, Interrupt

-----------------------------------------------------------------------------
(* The theorems                                                            *)

Inv == TypeOK /\ Exclusion /\ OneTicketPerWaiter /\ NoLostWakeup

\* The inductive invariant holds in every reachable state.
LEMMA Invariance == Spec => []Inv
<1>1. Init => Inv
  <2>1. NoTicket \in Tickets
    BY BoundsAssumption DEF NoTicket, Tickets
  <2>2. NoGate \in NoGate..Grace + 1 /\ <<>> \in Seq(Threads)
    BY BoundsAssumption, EmptySeq DEF NoGate
  <2>3. Init => TypeOK
    BY <2>1, <2>2 DEF Init, TypeOK
  <2>4. Init => Queued = {} /\ Present = {}
    BY DEF Init, Queued, Present
  <2>5. Init => Exclusion /\ OneTicketPerWaiter /\ NoLostWakeup
    BY <2>4 DEF Init, Exclusion, OneTicketPerWaiter, NoLostWakeup
  <2> QED
    BY <2>3, <2>5 DEF Inv
<1>2. Inv /\ [Next]_vars => Inv'
  BY TypeStep, ExclusionStep, TicketStep, WakeupStep DEF Inv
<1>3. QED
  BY <1>1, <1>2, PTL DEF Spec

\* In every state a writer is alone, no wait leaves a ticket behind, no waiter
\* holds the barrier and the variables keep their types, for any number of threads.
THEOREM BarrierHolds == Spec => []BarrierInvariant
BY Invariance, PTL DEF Inv, BarrierInvariant

\* Every waiter whose wait is over has been notified: no notification is
\* missing, for any number of readers, writers and interrupts.
THEOREM WaitersAreWoken == Spec => []NoLostWakeup
BY Invariance, PTL DEF Inv

\* Waiting writers acquire in the order in which they queued.
THEOREM WritersAreFifo == Spec => FifoWriters
<1> DEFINE Fifo ==
      \A t \in Threads : writer # t /\ writer' = t =>
        \A i \in DOMAIN pending : pending[i] # t =>
          \E j \in DOMAIN pending : pending[j] = t /\ j < i
<1>1. ASSUME Inv, [Next]_vars
      PROVE  [Fifo]_vars
  <2>1. ASSUME NEW t \in Threads, writer # t, writer' = t,
               NEW i \in DOMAIN pending, pending[i] # t
        PROVE  \E j \in DOMAIN pending : pending[j] = t /\ j < i
    <3>1. PICK u \in Threads : Write(u) \/ (u \in Queued /\ EndWriteWait(u))
      BY <1>1, <2>1, NoneAssumption
      DEF Next, Reader, Writer, Interrupt, Tick, Read, ReadWake, ReadDeadline, ReadExit, EnterRead,
          WriteAgain, WriteWake, WriteDeadline, WriteExit, SetStop, NotifyStop, vars
    <3>2. CASE Write(u)
      <4>1. pending = <<>>
        BY <2>1, <3>2 DEF Write
      <4> QED
        BY <2>1, <4>1
    <3>3. CASE u \in Queued /\ EndWriteWait(u)
      <4>1. MyTurn(t)
        BY <2>1, <3>3 DEF EndWriteWait
      <4>2. pending[1] = t /\ 1 \in DOMAIN pending
        BY <1>1, <4>1, HeadIsQueued DEF MyTurn, Inv
      <4>3. DOMAIN pending = 1..Len(pending) /\ Len(pending) \in Nat
        BY <1>1, LenProperties DEF Inv, TypeOK
      <4> QED
        BY <2>1, <4>2, <4>3
    <3> QED
      BY <3>1, <3>2, <3>3
  <2> QED
    BY <2>1
<1>2. QED
  BY <1>1, Invariance, PTL DEF Spec, FifoWriters

\* The barrier implements a plain reader/writer lock: each of its steps is a
\* step of ReadWriteLock or changes neither who reads nor who writes.
THEOREM ImplementsLock == Spec => LockSpec
<1>1. Init => Lock!Init
  BY DEF Init, Lock!Init, Present
<1>2. ASSUME Inv, [Next]_vars
      PROVE  [Lock!Next]_Lock!vars
  <2>1. CASE UNCHANGED <<readers, writer>>
    BY <2>1 DEF Lock!vars, Present
  <2>2. ASSUME NEW t \in Threads, ReaderMayEnter(t), EnterRead(t)
        PROVE  Lock!BeginRead(t)
    <3>1. writer \in {None, t}
      BY <2>2 DEF ReaderMayEnter
    <3>2. Present' = Present \union {t}
      BY <1>2, <2>2 DEF EnterRead, Present, Inv, TypeOK
    <3> QED
      BY <2>2, <3>1, <3>2 DEF EnterRead, Lock!BeginRead
  <2>3. ASSUME NEW t \in Threads, Reader(t)
        PROVE  Lock!Next \/ UNCHANGED Lock!vars
    <3>1. CASE ReadExit(t)
      <4>1. t \in Present /\ Present' \in {Present, Present \ {t}}
        BY <1>2, <3>1 DEF ReadExit, Present, Inv, TypeOK
      <4> QED
        BY <3>1, <4>1 DEF ReadExit, Lock!EndRead, Lock!Next, Lock!vars
    <3>2. CASE ~ReadExit(t)
      BY <2>1, <2>2, <2>3, <3>2 DEF Reader, Read, ReadWake, ReadDeadline, Lock!Next
    <3> QED
      BY <3>1, <3>2
  <2>4. ASSUME NEW t \in Threads, Writer(t)
        PROVE  Lock!Next \/ UNCHANGED Lock!vars
    <3>1. readers' = readers /\ Present' = Present
      BY <2>4 DEF Writer, Write, WriteAgain, WriteWake, WriteDeadline, EndWriteWait, LeaveQueue,
        WriteExit, Present
    <3>2. CASE WriteExit(t)
      <4>1. CASE depth = 1
        <5>1. Present = {}
          BY <1>2, <3>2, <4>1, NoneAssumption DEF WriteExit, Inv, Exclusion, Present
        <5> QED
          BY <3>1, <3>2, <4>1, <5>1 DEF WriteExit, Lock!EndWrite, Lock!Next
      <4>2. CASE depth # 1
        BY <3>1, <3>2, <4>2 DEF WriteExit, Lock!vars
      <4> QED
        BY <4>1, <4>2
    <3>3. CASE writer' = writer
      BY <3>1, <3>3 DEF Lock!vars
    <3>4. CASE ~WriteExit(t) /\ writer' # writer
      <4>1. writer = None /\ Present = {} /\ writer' = t
        BY <2>4, <3>4 DEF Writer, Write, WriteAgain, WriteWake, WriteDeadline, EndWriteWait, MyTurn
      <4> QED
        BY <3>1, <4>1 DEF Lock!BeginWrite, Lock!Next
    <3> QED
      BY <3>2, <3>3, <3>4
  <2> QED
    BY <1>2, <2>1, <2>3, <2>4 DEF Next, Tick, Interrupt, SetStop, NotifyStop, vars
<1>3. QED
  BY <1>1, <1>2, Invariance, PTL DEF Spec, LockSpec, Lock!Spec
-----------------------------------------------------------------------------
(* The runtimes of a project and their relays                              *)

\* Who has the launch lock, and which runtime its holder is about to start.
Holding == {"claiming", "probing", "probed", "alive", "removing", "launching", "waiting"}
Unpublished == {"born", "claimed"}
Gone == {"unborn", "plain", "dead"}

LaunchesAreLocked ==
  /\ \A c \in Clients : client[c].pc \in Holding => launchLock = c
  /\ \A c \in Clients : client[c].pc = "runtime" => c \in Foreground
  /\ \A c \in Foreground :
       /\ runtime[c].pc # "unborn" => client[c].pc = "runtime"
       /\ runtime[c].pc \in Unpublished => launchLock = c /\ runtime[c].pc = "claimed"
  /\ \A c \in Clients : client[c].pc = "probed" => runtimeLock = "probe"
  /\ \A c \in Clients :
       client[c].pc = "waiting" => client[c].child \in Detached /\ runtime[client[c].child].pc # "unborn"

\* While no relay has left a runtime that it was starting.
StartsAreWatched ==
  ~interrupted =>
    /\ \A r \in Detached : runtime[r].pc \in Unpublished =>
         launchLock \in Clients /\ client[launchLock].pc = "waiting" /\ client[launchLock].child = r
    /\ \A c \in Clients : client[c].pc \in {"removing", "launching"} =>
         \A r \in Runtimes : runtime[r].pc \in Gone
    /\ \A r \in Runtimes : runtimeLock = r /\ runtime[r].pc \in Published => Registered(r)
    /\ \A r, s \in Runtimes : runtime[r].pc \notin Gone /\ runtime[s].pc \notin Gone => r = s

\* Who has a record has published it.
RecordsArePublished == record # Nobody => runtime[record.of].pc \notin {"unborn", "born", "claimed"}

RegistryIInv ==
  /\ RelayTypeOK /\ LaunchesAreLocked /\ HoldersOnly /\ RecordsArePublished /\ RecordIsTheHolders
  /\ StartsAreWatched

LEMMA RegistryStarts == RelayInit => RegistryIInv
<1> SUFFICES ASSUME RelayInit PROVE RegistryIInv
  OBVIOUS
<1> USE ProcessesAssumption DEF RelayInit, Clients, Runtimes
<1>1. RelayTypeOK
  <2>1. PICK group \in Groups : client = [c \in Clients |->
         [pc |-> IF c \notin group THEN "ended" ELSE IF c \in Relays THEN "locate" ELSE "claim",
          child |-> Nobody, to |-> Nobody, refusal |-> "none"]]
    BY DEF RelayInit
  <2>2. client \in [Clients -> ClientType]
    BY <2>1 DEF ClientType, ClientPcs, Refusals
  <2>3. runtime \in [Runtimes -> RuntimeType] /\ forwarded \in [Forwarded -> ForwardedType]
    BY DEF RuntimeType, RuntimePcs, ForwardedType, Replies
  <2> QED
    BY <2>2, <2>3 DEF RelayTypeOK
<1>2. LaunchesAreLocked
  BY DEF LaunchesAreLocked, Holding, Unpublished
<1>3. HoldersOnly /\ RecordsArePublished /\ RecordIsTheHolders /\ StartsAreWatched
  BY DEF HoldersOnly, RecordsArePublished, RecordIsTheHolders, StartsAreWatched, Unpublished, Gone, Published
<1> QED
  BY <1>1, <1>2, <1>3 DEF RegistryIInv

\* A look at the lock of a runtime that is there never finds it free.
LEMMA OneLooks ==
  ASSUME RegistryIInv, NEW c \in Clients, client[c].pc = "probed"
  PROVE  /\ runtimeLock = "probe"
         /\ \A d \in Clients : client[d].pc \in Holding => d = c
         /\ \A r \in Runtimes : runtime[r].pc \notin {"claimed", "unregistered"} \cup Published
<1> USE ProcessesAssumption
<1>1. runtimeLock = "probe" /\ launchLock = c
  BY DEF RegistryIInv, LaunchesAreLocked, Holding
<1>2. \A d \in Clients : client[d].pc \in Holding => d = c
  BY <1>1 DEF RegistryIInv, LaunchesAreLocked
<1> QED
  BY <1>1, <1>2 DEF RegistryIInv, HoldersOnly, Clients

\* The tables keep their types, one kind of update at a time.
LEMMA ClientUpdates ==
  ASSUME client \in [Clients -> ClientType], NEW c \in Clients, NEW pc \in ClientPcs
  PROVE  /\ [client EXCEPT ![c].pc = pc] \in [Clients -> ClientType]
         /\ \A d \in Detached : [client EXCEPT ![c].pc = pc, ![c].child = d] \in [Clients -> ClientType]
         /\ \A why \in Refusals :
              /\ [client EXCEPT ![c].refusal = why] \in [Clients -> ClientType]
              /\ [client EXCEPT ![c].pc = pc, ![c].refusal = why] \in [Clients -> ClientType]
              /\ \A r \in Runtimes \cup {Nobody} :
                   [client EXCEPT ![c].pc = pc, ![c].to = r, ![c].refusal = why] \in [Clients -> ClientType]
<1>1. client[c] \in ClientType
  OBVIOUS
<1>2. /\ [client[c] EXCEPT !.pc = pc] \in ClientType
      /\ \A d \in Detached : [client[c] EXCEPT !.pc = pc, !.child = d] \in ClientType
  BY <1>1 DEF ClientType
<1>3. \A why \in Refusals :
        /\ [client[c] EXCEPT !.refusal = why] \in ClientType
        /\ [client[c] EXCEPT !.pc = pc, !.refusal = why] \in ClientType
  BY <1>1 DEF ClientType
<1>4. \A why \in Refusals, r \in Runtimes \cup {Nobody} :
        [client[c] EXCEPT !.pc = pc, !.to = r, !.refusal = why] \in ClientType
  BY <1>1 DEF ClientType
<1>5. \A v \in ClientType : [client EXCEPT ![c] = v] \in [Clients -> ClientType]
  OBVIOUS
<1> QED
  BY <1>2, <1>3, <1>4, <1>5

LEMMA ClientTypes ==
  ASSUME RelayTypeOK, RelayNext
  PROVE  client' \in [Clients -> ClientType]
<1> USE ProcessesAssumption
<1> DEFINE T == client' \in [Clients -> ClientType]
<1>0. client \in [Clients -> ClientType] /\ (record = Nobody \/ record.of \in Runtimes)
  BY DEF RelayTypeOK, Records
<1>a. \A c \in Clients, pc \in ClientPcs : [client EXCEPT ![c].pc = pc] \in [Clients -> ClientType]
  BY <1>0, ClientUpdates
<1>b. \A c \in Clients, d \in Detached :
        [client EXCEPT ![c].pc = "waiting", ![c].child = d] \in [Clients -> ClientType]
  BY <1>0, ClientUpdates DEF ClientPcs
<1>c. \A c \in Clients, why \in Refusals : [client EXCEPT ![c].refusal = why] \in [Clients -> ClientType]
  BY <1>0, ClientUpdates DEF ClientPcs
<1>d. \A c \in Clients, r \in Runtimes \cup {Nobody}, why \in Refusals :
        [client EXCEPT ![c].pc = "serving", ![c].to = r, ![c].refusal = why] \in [Clients -> ClientType]
  BY <1>0, ClientUpdates DEF ClientPcs
<1>1. ASSUME NEW c \in Clients, NEW r \in Runtimes \cup {Nobody},
             NEW why \in Refusals, Located(c, r, why)
      PROVE  T
  BY <1>1, <1>d DEF Located
<1>2. ASSUME NEW c \in Clients, Locate(c) PROVE T
  <2>1. CASE TakeLaunchLock(c)
    <3>1. \E pc \in ClientPcs : client' = [client EXCEPT ![c].pc = pc]
      BY <2>1 DEF TakeLaunchLock, NextStep, Goes, ClientPcs
    <3> QED
      BY <1>a, <3>1
  <2>2. CASE LaunchLockTimesOut(c)
    <3>1. PICK pc \in {"ended", "serving"} : client' = [client EXCEPT ![c].pc = pc, ![c].refusal = "unavailable"]
      BY <2>2 DEF LaunchLockTimesOut
    <3> QED
      BY <1>0, <3>1, ClientUpdates, ZenonT(60) DEF ClientPcs, Refusals
  <2>3. CASE Probe(c) \/ EndProbe(c) \/ RemoveStale(c)
    <3>1. \E pc \in ClientPcs : client' = [client EXCEPT ![c].pc = pc]
      BY <2>3 DEF Probe, EndProbe, RemoveStale, Goes, ClientPcs
    <3> QED
      BY <1>a, <3>1
  <2>5. CASE ReadRecord(c)
    BY <1>0, <1>1, <2>5 DEF ReadRecord, Refusals
  <2>7. CASE Launch(c)
    <3>1. CASE Located(c, Nobody, "unavailable")
      BY <1>1, <3>1 DEF Refusals
    <3>2. CASE \E d \in Detached : client' = [client EXCEPT ![c].pc = "waiting", ![c].child = d]
      BY <1>b, <3>2
    <3> QED
      BY <2>7, <3>1, <3>2 DEF Launch
  <2>8. CASE SeeRegistration(c)
    <3>1. client[c].child \in Runtimes \cup {Nobody}
      BY <1>0 DEF ClientType, Runtimes
    <3> QED
      BY <1>1, <2>8, <3>1 DEF SeeRegistration, Refusals
  <2>9. CASE SeeEnd(c) \/ WaitTimesOut(c)
    BY <1>1, <2>9 DEF SeeEnd, WaitTimesOut, Refusals
  <2> QED
    BY <1>2, <2>1, <2>2, <2>3, <2>5, <2>7, <2>8, <2>9 DEF Locate
<1>3. ASSUME NEW c \in Clients, RelayDies(c) PROVE T
  BY <1>a, <1>3 DEF RelayDies, Goes, ClientPcs
<1>4. ASSUME NEW c \in Foreground, ClaimInForeground(c) PROVE T
  <2>1. \E pc \in ClientPcs : client' = [client EXCEPT ![c].pc = pc]
    BY <1>4 DEF ClaimInForeground, Goes, ClientPcs
  <2> QED
    BY <1>a, <2>1 DEF Clients
<1>5. ASSUME NEW r \in Runtimes, Serving(r) \/ RuntimeDies(r) PROVE T
  <2>1. client' = client
    BY <1>5 DEF Serving, ClaimDetached, Publish, Listen, StartupEnds, ProjectCloses, RemoveRecord, ReleaseLock, RuntimeDies
  <2> QED
    BY <1>0, <2>1
<1>6. ASSUME NEW k \in Forwarded, Exchange(k) PROVE T
  <2>1. \/ client' = client
        \/ \E c \in Clients : client' = [client EXCEPT ![c].refusal = Refusal(c)]
    <3>1. ASSUME forwarded[k].pc = "sent" \/ Waits(k), forwarded[k].by \notin Clients,
                 NEW v
          PROVE  [client EXCEPT ![forwarded[k].by].refusal = v] = client
      BY <1>0, <3>1
    <3> QED
      BY <1>6, <3>1 DEF Exchange, Send, Arrive, Run, Reply, NotReached, Broken, RuntimeGone
  <2>2. CASE \E c \in Clients : client' = [client EXCEPT ![c].refusal = Refusal(c)]
    BY <1>c, <2>2, ZenonT(60) DEF Refusal, Refusals
  <2> QED
    BY <1>0, <2>1, <2>2
<1> QED
  BY <1>2, <1>3, <1>4, <1>5, <1>6 DEF RelayNext

LEMMA RuntimeTypes ==
  ASSUME RelayTypeOK, RelayNext
  PROVE  runtime' \in [Runtimes -> RuntimeType]
<1> USE ProcessesAssumption
<1> DEFINE T == runtime' \in [Runtimes -> RuntimeType]
<1>0. runtime \in [Runtimes -> RuntimeType]
  BY DEF RelayTypeOK
<1>a. \A r \in Runtimes, pc \in RuntimePcs : [runtime EXCEPT ![r].pc = pc] \in [Runtimes -> RuntimeType]
  BY <1>0 DEF RuntimeType
<1>b. \A r \in Runtimes : [runtime EXCEPT ![r].listens = TRUE] \in [Runtimes -> RuntimeType]
  BY <1>0 DEF RuntimeType
<1>c. \A r \in Runtimes, v \in RuntimeType : [runtime EXCEPT ![r] = v] \in [Runtimes -> RuntimeType]
  BY <1>0
<1>d. \A r \in Runtimes : [runtime EXCEPT ![r].pc = "dead", ![r].listens = FALSE] \in [Runtimes -> RuntimeType]
  BY <1>0 DEF RuntimeType, RuntimePcs
<1>1. ASSUME NEW r \in Runtimes, NEW pc \in RuntimePcs, Becomes(r, pc) PROVE T
  BY <1>a, <1>1 DEF Becomes
<1>2. CASE \E c \in Clients : Locate(c) \/ RelayDies(c)
  <2>1. runtime' = runtime \/ \E r \in Detached : Becomes(r, "born")
    BY <1>2 DEF Locate, TakeLaunchLock, LaunchLockTimesOut, Probe, EndProbe, ReadRecord, RemoveStale, Launch,
                SeeRegistration, SeeEnd, WaitTimesOut, RelayDies
  <2> QED
    BY <1>0, <1>1, <2>1 DEF RuntimePcs, Runtimes
<1>3. CASE \E c \in Foreground : ClaimInForeground(c)
  BY <1>0, <1>1, <1>3 DEF ClaimInForeground, RuntimePcs, Runtimes
<1>4. ASSUME NEW r \in Runtimes, Serving(r) PROVE T
  <2>1. CASE Publish(r)
    <3>1. PICK port \in Ports : runtime' = [runtime EXCEPT ![r] =
                                  [pc |-> "starting", port |-> port, listens |-> r \in Detached]]
      BY <2>1 DEF Publish
    <3>2. [pc |-> "starting", port |-> port, listens |-> r \in Detached] \in RuntimeType
      BY DEF RuntimeType, RuntimePcs, Published
    <3> QED
      BY <1>c, <3>1, <3>2
  <2>2. CASE Listen(r)
    BY <1>b, <2>2 DEF Listen
  <2>3. CASE ~Publish(r) /\ ~Listen(r)
    <3>1. \E pc \in {"claimed", "dead", "ready", "failed", "closed", "unregistered", "plain"} : Becomes(r, pc)
      BY <1>4, <2>3 DEF Serving, ClaimDetached, StartupEnds, ProjectCloses, RemoveRecord, ReleaseLock
    <3> QED
      BY <1>1, <3>1 DEF RuntimePcs, Published
  <2> QED
    BY <2>1, <2>2, <2>3
<1>5. ASSUME NEW r \in Runtimes, RuntimeDies(r) PROVE T
  BY <1>d, <1>5 DEF RuntimeDies
<1>6. ASSUME NEW k \in Forwarded, Exchange(k) PROVE T
  BY <1>0, <1>6 DEF Exchange, Send, Arrive, Run, Reply, NotReached, Broken
<1> QED
  BY <1>2, <1>3, <1>4, <1>5, <1>6 DEF RelayNext

LEMMA ForwardedTypes ==
  ASSUME RelayTypeOK, RelayNext
  PROVE  forwarded' \in [Forwarded -> ForwardedType]
<1> USE ProcessesAssumption
<1>0. forwarded \in [Forwarded -> ForwardedType]
  BY DEF RelayTypeOK
<1>1. CASE \E k \in Forwarded : Exchange(k)
  <2> PICK k \in Forwarded : Exchange(k)
    BY <1>1
  <2>0. forwarded[k] \in ForwardedType
    BY <1>0
  <2>a. \A v \in ForwardedType : [forwarded EXCEPT ![k] = v] \in [Forwarded -> ForwardedType]
    BY <1>0
  <2>1. CASE \E c \in Clients : Send(k, c)
    <3>1. PICK c \in Clients : Send(k, c)
      BY <2>1
    <3>2. /\ [forwarded[k] EXCEPT !.pc = "sent", !.by = c] \in ForwardedType
          /\ [forwarded[k] EXCEPT !.pc = "ended", !.by = c, !.reply = "refused"] \in ForwardedType
      BY <2>0 DEF ForwardedType, Replies
    <3> QED
      BY <2>a, <3>1, <3>2 DEF Send
  <2>2. ASSUME NEW pc \in {"sent", "accepted", "ran", "ended"}, NEW reply \in Replies, Answer(k, pc, reply)
        PROVE  forwarded' \in [Forwarded -> ForwardedType]
    <3>1. [forwarded[k] EXCEPT !.pc = pc, !.reply = reply] \in ForwardedType
      BY <2>0 DEF ForwardedType
    <3> QED
      BY <2>2, <2>a, <3>1 DEF Answer
  <2>3. CASE Arrive(k)
    <3>1. PICK r \in Runtimes : \/ forwarded' = [forwarded EXCEPT ![k].pc = "accepted", ![k].at = r]
                                \/ Answer(k, "ended", IF Waits(k) THEN "refused" ELSE forwarded[k].reply)
      BY <2>3 DEF Arrive, Behind
    <3>2. CASE Answer(k, "ended", IF Waits(k) THEN "refused" ELSE forwarded[k].reply)
      <4>1. (IF Waits(k) THEN "refused" ELSE forwarded[k].reply) \in Replies
        BY <2>0 DEF ForwardedType, Replies
      <4> QED
        BY <2>2, <3>2, <4>1
    <3>3. CASE forwarded' = [forwarded EXCEPT ![k].pc = "accepted", ![k].at = r]
      <4>1. [forwarded[k] EXCEPT !.pc = "accepted", !.at = r] \in ForwardedType
        BY <2>0 DEF ForwardedType
      <4> QED
        BY <2>a, <3>3, <4>1
    <3> QED
      BY <3>1, <3>2, <3>3
  <2>4. CASE Run(k)
    <3>1. PICK ran \in Runtimes \cup {Nobody} : forwarded' = [forwarded EXCEPT ![k].pc = "ran", ![k].ran = ran]
      <4>1. forwarded[k].at \in Runtimes \cup {Nobody}
        BY <2>0 DEF ForwardedType
      <4> QED
        BY <2>4, <4>1 DEF Run
    <3>2. [forwarded[k] EXCEPT !.pc = "ran", !.ran = ran] \in ForwardedType
      BY <2>0 DEF ForwardedType
    <3> QED
      BY <2>a, <3>1, <3>2
  <2>5. CASE Reply(k)
    BY <2>2, <2>5 DEF Reply, Replies
  <2>6. CASE NotReached(k)
    BY <2>2, <2>6 DEF NotReached, Replies
  <2>7. CASE Broken(k)
    BY <2>2, <2>7 DEF Broken, Replies
  <2> QED
    BY <2>1, <2>3, <2>4, <2>5, <2>6, <2>7 DEF Exchange
<1>2. CASE ~\E k \in Forwarded : Exchange(k)
  <2>1. forwarded' = forwarded
    BY <1>2 DEF RelayNext, Locate, TakeLaunchLock, LaunchLockTimesOut, Probe, EndProbe, ReadRecord, RemoveStale,
         Launch, SeeRegistration, SeeEnd, WaitTimesOut, RelayDies, ClaimInForeground, Serving, ClaimDetached,
         Publish, Listen, StartupEnds, ProjectCloses, RemoveRecord, ReleaseLock, RuntimeDies
  <2> QED
    BY <1>0, <2>1
<1> QED
  BY <1>1, <1>2

LEMMA RelayTypes ==
  ASSUME RelayTypeOK, [RelayNext]_relayVars
  PROVE  RelayTypeOK'
<1> USE ProcessesAssumption
<1>1. CASE RelayNext
  <2>1. launchLock' \in Clients \cup {Nobody}
    BY <1>1, ZenonT(60) DEF RelayTypeOK, Clients, RelayNext, Locate, TakeLaunchLock, LaunchLockTimesOut, Probe, EndProbe,
         ReadRecord, RemoveStale, Launch, SeeRegistration, SeeEnd, WaitTimesOut, RelayDies, ClaimInForeground,
         Serving, ClaimDetached, Publish, Listen, StartupEnds, ProjectCloses, RemoveRecord, ReleaseLock,
         RuntimeDies, Exchange, Send, Arrive, Run, Reply, NotReached, Broken, Located, Without
  <2>2. runtimeLock' \in Runtimes \cup {Nobody, "probe"}
    BY <1>1 DEF RelayTypeOK, Runtimes, RelayNext, Locate, TakeLaunchLock, LaunchLockTimesOut, Probe, EndProbe,
         ReadRecord, RemoveStale, Launch, SeeRegistration, SeeEnd, WaitTimesOut, RelayDies, ClaimInForeground,
         Serving, ClaimDetached, Publish, Listen, StartupEnds, ProjectCloses, RemoveRecord, ReleaseLock,
         RuntimeDies, Exchange, Send, Arrive, Run, Reply, NotReached, Broken, Without
  <2>3. record' \in Records \cup {Nobody}
    <3>1. record \in Records \cup {Nobody}
      BY DEF RelayTypeOK
    <3>2. record' \in {record, Nobody} \/ \E r \in Runtimes : Publish(r) \/ StartupEnds(r)
      BY <1>1 DEF RelayNext, Locate, TakeLaunchLock, LaunchLockTimesOut, Probe, EndProbe,
           ReadRecord, RemoveStale, Launch, SeeRegistration, SeeEnd, WaitTimesOut, RelayDies, ClaimInForeground,
           Serving, ClaimDetached, Listen, ProjectCloses, RemoveRecord, ReleaseLock,
           RuntimeDies, Exchange, Send, Arrive, Run, Reply, NotReached, Broken
    <3>3. ASSUME NEW r \in Runtimes, Publish(r) \/ StartupEnds(r) PROVE record' \in Records
      BY <3>3 DEF Publish, StartupEnds, Records
    <3> QED
      BY <3>1, <3>2, <3>3
  <2>4. interrupted' \in BOOLEAN
    BY <1>1 DEF RelayTypeOK, RelayNext, Locate, TakeLaunchLock, LaunchLockTimesOut, Probe, EndProbe,
         ReadRecord, RemoveStale, Launch, SeeRegistration, SeeEnd, WaitTimesOut, RelayDies, ClaimInForeground,
         Serving, ClaimDetached, Publish, Listen, StartupEnds, ProjectCloses, RemoveRecord, ReleaseLock,
         RuntimeDies, Exchange, Send, Arrive, Run, Reply, NotReached, Broken
  <2> QED
    BY <1>1, <2>1, <2>2, <2>3, <2>4, ClientTypes, RuntimeTypes, ForwardedTypes DEF RelayTypeOK
<1>2. CASE UNCHANGED relayVars
  BY <1>2 DEF relayVars, RelayTypeOK
<1> QED
  BY <1>1, <1>2

\* Steps of a call on its way leave the processes as they are.
Processes == <<launchLock, runtimeLock, record, runtime, interrupted>>

LEMMA ExchangesChangeNoProcess ==
  ASSUME RelayTypeOK, NEW k \in Forwarded, Exchange(k)
  PROVE  /\ UNCHANGED Processes
         /\ \A c \in Clients : client'[c].pc = client[c].pc /\ client'[c].child = client[c].child
                               /\ client'[c].to = client[c].to
<1>1. UNCHANGED Processes
  BY DEF Exchange, Send, Arrive, Run, Reply, NotReached, Broken, Processes
<1>2. client \in [Clients -> ClientType]
  BY DEF RelayTypeOK
<1>3. \/ client' = client
      \/ \E c, why : client' = [client EXCEPT ![c].refusal = why]
  BY DEF Exchange, Send, Arrive, Run, Reply, NotReached, Broken, RuntimeGone
<1>4. ASSUME NEW c, NEW why, client' = [client EXCEPT ![c].refusal = why], NEW d \in Clients
      PROVE  client'[d].pc = client[d].pc /\ client'[d].child = client[d].child /\ client'[d].to = client[d].to
  BY <1>2, <1>4 DEF ClientType
<1> QED
  BY <1>1, <1>3, <1>4

LEMMA LaunchLockIsKept ==
  ASSUME RegistryIInv, RelayNext
  PROVE  LaunchesAreLocked'
<1> USE ProcessesAssumption
<1> USE DEF Clients, Runtimes, Holding, Unpublished, Goes, Becomes
<1>0. /\ LaunchesAreLocked /\ client \in [Clients -> ClientType] /\ runtime \in [Runtimes -> RuntimeType]
      /\ launchLock \in Clients \cup {Nobody}
  BY DEF RegistryIInv, RelayTypeOK
<1>1. ASSUME NEW c \in Clients, TakeLaunchLock(c) PROVE LaunchesAreLocked'
  BY <1>0, <1>1 DEF TakeLaunchLock, NextStep, LaunchesAreLocked, ClientType
<1>2. ASSUME NEW c \in Clients, LaunchLockTimesOut(c) PROVE LaunchesAreLocked'
  BY <1>0, <1>2 DEF LaunchLockTimesOut, LaunchesAreLocked, ClientType
<1>3. ASSUME NEW c \in Clients, Probe(c) PROVE LaunchesAreLocked'
  BY <1>0, <1>3 DEF Probe, LaunchesAreLocked, ClientType
<1>4. ASSUME NEW c \in Clients, EndProbe(c) PROVE LaunchesAreLocked'
  BY <1>0, <1>4 DEF EndProbe, LaunchesAreLocked, ClientType
<1>5. ASSUME NEW c \in Clients, NEW r, NEW why, Located(c, r, why), client[c].pc \in Holding, UNCHANGED runtime,
             UNCHANGED runtimeLock
      PROVE  LaunchesAreLocked'
  BY <1>0, <1>5 DEF Located, LaunchesAreLocked, ClientType
<1>6. ASSUME NEW c \in Clients, ReadRecord(c) \/ SeeRegistration(c) \/ SeeEnd(c) \/ WaitTimesOut(c)
      PROVE  LaunchesAreLocked'
  BY <1>5, <1>6 DEF ReadRecord, SeeRegistration, SeeEnd, WaitTimesOut
<1>7. ASSUME NEW c \in Clients, RemoveStale(c) PROVE LaunchesAreLocked'
  BY <1>0, <1>7 DEF RemoveStale, LaunchesAreLocked, ClientType
<1>8. ASSUME NEW c \in Clients, Launch(c) PROVE LaunchesAreLocked'
  <2>1. CASE Located(c, Nobody, "unavailable") /\ UNCHANGED runtime
    BY <1>5, <1>8, <2>1 DEF Launch
  <2>2. CASE ~(Located(c, Nobody, "unavailable") /\ UNCHANGED runtime)
    <3>1. PICK r \in Detached :
            /\ Becomes(r, "born") /\ client' = [client EXCEPT ![c].pc = "waiting", ![c].child = r]
      BY <1>8, <2>2 DEF Launch
    <3>2. launchLock = c /\ UNCHANGED <<launchLock, runtimeLock>> /\ client[c].pc = "launching"
      BY <1>0, <1>8, <2>2 DEF Launch, LaunchesAreLocked
    <3>3. /\ client'[c].pc = "waiting" /\ client'[c].child = r /\ runtime'[r].pc = "born"
          /\ \A d \in Clients : d # c => client'[d] = client[d]
          /\ \A s \in Runtimes : s # r => runtime'[s] = runtime[s]
      BY <1>0, <3>1 DEF ClientType, RuntimeType
    <3> QED
      BY <1>0, <3>2, <3>3 DEF LaunchesAreLocked
  <2> QED
    BY <2>1, <2>2
<1>9. ASSUME NEW c \in Clients, RelayDies(c) PROVE LaunchesAreLocked'
  BY <1>0, <1>9 DEF RelayDies, LaunchesAreLocked, ClientType, Without
<1>10. ASSUME NEW c \in Foreground, ClaimInForeground(c) PROVE LaunchesAreLocked'
  BY <1>0, <1>10, SMTT(60) DEF ClaimInForeground, LaunchesAreLocked, ClientType, RuntimeType
<1>11. ASSUME NEW r \in Runtimes, Serving(r) PROVE LaunchesAreLocked'
  <2>1. CASE Publish(r)
    BY <1>0, <2>1 DEF Publish, Without, LaunchesAreLocked, RuntimeType
  <2>2. CASE ~Publish(r)
    BY <1>0, <1>11, <2>2 DEF Serving, ClaimDetached, Listen, StartupEnds, ProjectCloses, RemoveRecord, ReleaseLock,
      Without, LaunchesAreLocked, RuntimeType
  <2> QED
    BY <2>1, <2>2
<1>12. ASSUME NEW r \in Runtimes, RuntimeDies(r) PROVE LaunchesAreLocked'
  BY <1>0, <1>12 DEF RuntimeDies, Alive, Without, LaunchesAreLocked, RuntimeType
<1>13. ASSUME NEW k \in Forwarded, Exchange(k) PROVE LaunchesAreLocked'
  <2>1. RelayTypeOK
    BY DEF RegistryIInv
  <2> QED
    BY <1>0, <1>13, <2>1, ExchangesChangeNoProcess DEF Processes, LaunchesAreLocked
<1> QED
  BY <1>1, <1>2, <1>3, <1>4, <1>6, <1>7, <1>8, <1>9, <1>10, <1>11, <1>12, <1>13 DEF RelayNext, Locate

LEMMA RuntimeLockIsKept ==
  ASSUME RegistryIInv, RelayNext
  PROVE  HoldersOnly'
<1> USE ProcessesAssumption
<1> USE DEF Clients, Runtimes, Holding, Published, Goes, Becomes
<1>0. /\ HoldersOnly /\ client \in [Clients -> ClientType] /\ runtime \in [Runtimes -> RuntimeType]
      /\ LaunchesAreLocked
  BY DEF RegistryIInv, RelayTypeOK
<1>1. ASSUME UNCHANGED <<runtimeLock, runtime>> PROVE HoldersOnly'
  BY <1>0, <1>1 DEF HoldersOnly
<1>2. ASSUME NEW c \in Clients, Probe(c) PROVE HoldersOnly'
  BY <1>0, <1>2 DEF Probe, HoldersOnly
<1>3. ASSUME NEW c \in Clients, client[c].pc = "probed", UNCHANGED runtime PROVE HoldersOnly'
  BY <1>0, <1>3, OneLooks DEF HoldersOnly
<1>4. ASSUME NEW c \in Clients, Launch(c) PROVE HoldersOnly'
  BY <1>0, <1>4 DEF Launch, HoldersOnly, RuntimeType
<1>5. ASSUME NEW c \in Clients, Locate(c) PROVE HoldersOnly'
  BY <1>1, <1>2, <1>3, <1>4, <1>5 DEF Locate, TakeLaunchLock, LaunchLockTimesOut, EndProbe, ReadRecord,
    RemoveStale, SeeRegistration, SeeEnd, WaitTimesOut
<1>6. ASSUME NEW c \in Clients, RelayDies(c) PROVE HoldersOnly'
  BY <1>1, <1>3, <1>6 DEF RelayDies
<1>7. ASSUME NEW c \in Foreground, ClaimInForeground(c) PROVE HoldersOnly'
  BY <1>0, <1>7 DEF ClaimInForeground, HoldersOnly, RuntimeType
<1>8. ASSUME NEW r \in Runtimes, Serving(r) PROVE HoldersOnly'
  <2>1. CASE Publish(r)
    BY <1>0, <2>1 DEF Publish, HoldersOnly, RuntimeType
  <2>2. CASE ~Publish(r)
    BY <1>0, <1>8, <2>2 DEF Serving, ClaimDetached, Listen, StartupEnds, ProjectCloses, RemoveRecord, ReleaseLock,
      Without, HoldersOnly, RuntimeType
  <2> QED
    BY <2>1, <2>2
<1>9. ASSUME NEW r \in Runtimes, RuntimeDies(r) PROVE HoldersOnly'
  BY <1>0, <1>9 DEF RuntimeDies, Without, HoldersOnly, RuntimeType
<1>10. ASSUME NEW k \in Forwarded, Exchange(k) PROVE HoldersOnly'
  BY <1>1, <1>10 DEF Exchange, Send, Arrive, Run, Reply, NotReached, Broken
<1> QED
  BY <1>5, <1>6, <1>7, <1>8, <1>9, <1>10 DEF RelayNext

\* Who writes the record holds the runtime lock, and no one else's record stands then.
LEMMA RecordIsKept ==
  ASSUME RegistryIInv, RelayNext
  PROVE  RecordsArePublished' /\ RecordIsTheHolders'
<1> USE ProcessesAssumption
<1> USE DEF Runtimes, Published, Goes, Becomes, Registered
<1>0. /\ HoldersOnly /\ RecordsArePublished /\ RecordIsTheHolders
      /\ runtime \in [Runtimes -> RuntimeType] /\ record \in Records \cup {Nobody}
  BY DEF RegistryIInv, RelayTypeOK
<1> DEFINE Kept == RecordsArePublished' /\ RecordIsTheHolders'
<1>1. ASSUME UNCHANGED <<runtimeLock, runtime, record>> PROVE Kept
  BY <1>0, <1>1 DEF RecordsArePublished, RecordIsTheHolders
<1>2. ASSUME NEW c \in Clients, RemoveStale(c) PROVE Kept
  BY <1>0, <1>2 DEF RemoveStale, RecordsArePublished, RecordIsTheHolders
<1>3. ASSUME NEW c \in Clients, Launch(c) PROVE Kept
  BY <1>0, <1>3 DEF Launch, RecordsArePublished, RecordIsTheHolders, RuntimeType, Records
<1>4. ASSUME UNCHANGED <<runtime, record>>, runtimeLock' \notin Runtimes PROVE Kept
  BY <1>0, <1>4 DEF RecordsArePublished, RecordIsTheHolders
<1>5. ASSUME NEW c \in Clients, Locate(c) PROVE Kept
  BY <1>1, <1>2, <1>3, <1>4, <1>5 DEF Locate, TakeLaunchLock, LaunchLockTimesOut, Probe, EndProbe, ReadRecord,
    SeeRegistration, SeeEnd, WaitTimesOut, Clients
<1>6. ASSUME NEW c \in Clients, RelayDies(c) PROVE Kept
  BY <1>1, <1>4, <1>6 DEF RelayDies, Clients
<1>7. ASSUME NEW c \in Foreground, ClaimInForeground(c) PROVE Kept
  <2>1. RegistryIInv /\ c \in Clients
    BY DEF Clients
  <2>2. runtime[c].pc = "unborn" \/ client[c].pc = "runtime"
    BY <2>1 DEF RegistryIInv, LaunchesAreLocked
  <2> QED
    BY <1>0, <1>1, <1>7, <2>2 DEF ClaimInForeground, RecordsArePublished, RecordIsTheHolders, RuntimeType, Records
<1>8. ASSUME NEW r \in Runtimes, Serving(r) PROVE Kept
  <2>1. CASE Publish(r)
    BY <1>0, <2>1 DEF Publish, RecordsArePublished, RecordIsTheHolders, RuntimeType, Records, HoldersOnly
  <2>2. CASE StartupEnds(r)
    BY <1>0, <2>2 DEF StartupEnds, RecordsArePublished, RecordIsTheHolders, RuntimeType, Records, HoldersOnly
  <2>3. CASE RemoveRecord(r)
    BY <1>0, <2>3 DEF RemoveRecord, RecordsArePublished, RecordIsTheHolders, RuntimeType, Records
  <2>4. CASE ClaimDetached(r)
    BY <1>0, <2>4 DEF ClaimDetached, RecordsArePublished, RecordIsTheHolders, RuntimeType, Records
  <2>5. CASE Listen(r) \/ ProjectCloses(r) \/ ReleaseLock(r)
    BY <1>0, <2>5 DEF Listen, ProjectCloses, ReleaseLock, Without, RecordsArePublished, RecordIsTheHolders,
      RuntimeType, Records
  <2> QED
    BY <1>8, <2>1, <2>2, <2>3, <2>4, <2>5 DEF Serving
<1>9. ASSUME NEW r \in Runtimes, RuntimeDies(r) PROVE Kept
  BY <1>0, <1>9 DEF RuntimeDies, Without, RecordsArePublished, RecordIsTheHolders, RuntimeType, Records
<1>10. ASSUME NEW k \in Forwarded, Exchange(k) PROVE Kept
  BY <1>1, <1>10 DEF Exchange, Send, Arrive, Run, Reply, NotReached, Broken
<1> QED
  BY <1>5, <1>6, <1>7, <1>8, <1>9, <1>10 DEF RelayNext

LEMMA StartsStayWatched ==
  ASSUME RegistryIInv, RelayNext
  PROVE  StartsAreWatched'
<1> USE ProcessesAssumption
<1> USE DEF Clients, Runtimes, Published, Goes, Becomes, Registered, Unpublished, Gone, Holding
<1>0. /\ HoldersOnly /\ RecordsArePublished /\ RecordIsTheHolders /\ LaunchesAreLocked /\ StartsAreWatched
      /\ client \in [Clients -> ClientType] /\ runtime \in [Runtimes -> RuntimeType]
      /\ launchLock \in Clients \cup {Nobody} /\ interrupted \in BOOLEAN
  BY DEF RegistryIInv, RelayTypeOK
<1> DEFINE Kept == StartsAreWatched'
<1>1. ASSUME NEW c \in Clients, TakeLaunchLock(c) PROVE Kept
  BY <1>0, <1>1 DEF TakeLaunchLock, NextStep, StartsAreWatched, ClientType
<1>2. ASSUME NEW c \in Clients, LaunchLockTimesOut(c) PROVE Kept
  BY <1>0, <1>2 DEF LaunchLockTimesOut, StartsAreWatched, ClientType
<1>3. ASSUME NEW c \in Clients, Probe(c) PROVE Kept
  BY <1>0, <1>3 DEF Probe, StartsAreWatched, ClientType
<1>4. ASSUME NEW c \in Clients, EndProbe(c) PROVE Kept
  <2>1. \A r \in Runtimes : runtime[r].pc \notin {"claimed", "unregistered"} \cup Published
    BY <1>4, OneLooks DEF EndProbe
  <2>2. launchLock = c /\ client[c].pc = "probed"
    BY <1>0, <1>4 DEF EndProbe, LaunchesAreLocked
  <2>3. ~interrupted => \A r \in Runtimes : runtime[r].pc \in Gone
    BY <1>0, <2>1, <2>2 DEF StartsAreWatched, LaunchesAreLocked, RuntimeType, RuntimePcs
  <2> QED
    BY <1>0, <1>4, <2>3 DEF EndProbe, StartsAreWatched, ClientType
<1>5. ASSUME NEW c \in Clients, NEW r, NEW why, Located(c, r, why), client[c].pc \in Holding,
             UNCHANGED <<runtime, runtimeLock, record, interrupted>>,
             client[c].pc = "waiting" => runtime[client[c].child].pc \notin Unpublished
      PROVE  Kept
  <2>1. launchLock = c
    BY <1>0, <1>5 DEF LaunchesAreLocked
  <2>2. ~interrupted => \A s \in Detached : runtime[s].pc \notin Unpublished
    BY <1>0, <1>5, <2>1 DEF StartsAreWatched
  <2> QED
    BY <1>0, <1>5, <2>2 DEF Located, StartsAreWatched, ClientType
<1>6. ASSUME NEW c \in Clients, ReadRecord(c) \/ SeeRegistration(c) \/ SeeEnd(c) PROVE Kept
  <2>1. client[c].pc = "waiting" => runtime[client[c].child].pc \notin Unpublished
    BY <1>0, <1>6 DEF ReadRecord, SeeRegistration, SeeEnd, Alive, RecordsArePublished, LaunchesAreLocked
  <2> QED
    BY <1>5, <1>6, <2>1 DEF ReadRecord, SeeRegistration, SeeEnd
<1>7. ASSUME NEW c \in Clients, RemoveStale(c) PROVE Kept
  BY <1>0, <1>7 DEF RemoveStale, StartsAreWatched, ClientType
<1>8. ASSUME NEW c \in Clients, Launch(c) PROVE Kept
  <2>1. CASE Located(c, Nobody, "unavailable") /\ UNCHANGED runtime
    BY <1>5, <1>8, <2>1 DEF Launch
  <2>2. CASE ~(Located(c, Nobody, "unavailable") /\ UNCHANGED runtime)
    <3>1. PICK r \in Detached :
            /\ runtime[r].pc = "unborn" /\ Becomes(r, "born")
            /\ client' = [client EXCEPT ![c].pc = "waiting", ![c].child = r] /\ UNCHANGED launchLock
      BY <1>8, <2>2 DEF Launch
    <3>2. launchLock = c /\ UNCHANGED <<runtimeLock, record, interrupted>> /\ client[c].pc = "launching"
      BY <1>0, <1>8 DEF Launch, LaunchesAreLocked
    <3>3. ~interrupted => \A s \in Runtimes : runtime[s].pc \in Gone
      BY <1>0, <3>2 DEF StartsAreWatched
    <3> QED
      BY <1>0, <3>1, <3>2, <3>3 DEF StartsAreWatched, LaunchesAreLocked, ClientType, RuntimeType
  <2> QED
    BY <2>1, <2>2
<1>9. ASSUME NEW c \in Clients, WaitTimesOut(c) PROVE Kept
  BY <1>9 DEF WaitTimesOut, StartsAreWatched
<1>10. ASSUME NEW c \in Clients, RelayDies(c) PROVE Kept
  <2>1. CASE client[c].pc = "waiting"
    BY <1>10, <2>1 DEF RelayDies, StartsAreWatched
  <2>2. CASE client[c].pc # "waiting"
    BY <1>0, <1>10, <2>2 DEF RelayDies, StartsAreWatched, LaunchesAreLocked, ClientType, Without
  <2> QED
    BY <2>1, <2>2
<1>11. ASSUME NEW c \in Foreground, ClaimInForeground(c) PROVE Kept
  <2>1. launchLock = c /\ client[c].pc = "claiming"
    BY <1>0, <1>11 DEF ClaimInForeground, LaunchesAreLocked
  <2>2. CASE runtimeLock = Nobody
    <3>1. ~interrupted => \A r \in Runtimes : runtime[r].pc \in Gone
      BY <1>0, <2>1, <2>2 DEF StartsAreWatched, HoldersOnly, LaunchesAreLocked, RuntimeType, RuntimePcs
    <3> QED
      BY <1>0, <1>11, <2>1, <2>2, <3>1 DEF ClaimInForeground, StartsAreWatched, LaunchesAreLocked, ClientType, RuntimeType
  <2>3. CASE runtimeLock # Nobody
    BY <1>0, <1>11, <2>1, <2>3 DEF ClaimInForeground, StartsAreWatched, ClientType
  <2> QED
    BY <2>2, <2>3
<1>12. ASSUME NEW r \in Runtimes, Serving(r) PROVE Kept
  <2>1. CASE Publish(r)
    <3>1. /\ runtime[r].pc = "claimed" /\ runtimeLock = r /\ UNCHANGED <<runtimeLock, client, interrupted>>
          /\ runtime'[r].pc = "starting" /\ \A s \in Runtimes : s # r => runtime'[s] = runtime[s]
          /\ record'.of = r /\ launchLock' = Without(launchLock, r)
      BY <1>0, <2>1 DEF Publish, HoldersOnly
    <3>2. ~interrupted => \A s \in Runtimes : s # r => runtime[s].pc \in Gone
      BY <1>0, <3>1 DEF StartsAreWatched
    <3>3. record' # Nobody
      BY <2>1 DEF Publish, Records
    <3> QED
      BY <1>0, <3>1, <3>2, <3>3 DEF StartsAreWatched, Without
  <2>2. CASE StartupEnds(r)
    <3>1. /\ runtime[r].pc = "starting" /\ runtimeLock = r
          /\ UNCHANGED <<launchLock, runtimeLock, client, interrupted>>
          /\ runtime'[r].pc \in {"ready", "failed"} /\ \A s \in Runtimes : s # r => runtime'[s] = runtime[s]
          /\ record'.of = r /\ record' # Nobody
      BY <1>0, <2>2 DEF StartupEnds, HoldersOnly, RuntimeType, Records
    <3> QED
      BY <1>0, <3>1 DEF StartsAreWatched
  <2>3. CASE RemoveRecord(r)
    BY <1>0, <2>3 DEF RemoveRecord, StartsAreWatched, HoldersOnly, RuntimeType
  <2>4. CASE ClaimDetached(r)
    BY <1>0, <2>4 DEF ClaimDetached, StartsAreWatched, RuntimeType
  <2>5. CASE Listen(r) \/ ProjectCloses(r) \/ ReleaseLock(r)
    BY <1>0, <2>5 DEF Listen, ProjectCloses, ReleaseLock, Without, StartsAreWatched, RuntimeType
  <2> QED
    BY <1>12, <2>1, <2>2, <2>3, <2>4, <2>5 DEF Serving
<1>13. ASSUME NEW r \in Runtimes, RuntimeDies(r) PROVE Kept
  BY <1>0, <1>13 DEF RuntimeDies, Without, StartsAreWatched, LaunchesAreLocked, RuntimeType, Alive
<1>14. ASSUME NEW k \in Forwarded, Exchange(k) PROVE Kept
  <2>1. RelayTypeOK
    BY DEF RegistryIInv
  <2> QED
    BY <1>0, <1>14, <2>1, ExchangesChangeNoProcess DEF Processes, StartsAreWatched
<1> QED
  BY <1>1, <1>2, <1>3, <1>4, <1>6, <1>7, <1>8, <1>9, <1>10, <1>11, <1>12, <1>13, <1>14 DEF RelayNext, Locate

LEMMA RegistryStays == RegistryIInv /\ [RelayNext]_relayVars => RegistryIInv'
<1> SUFFICES ASSUME RegistryIInv, [RelayNext]_relayVars PROVE RegistryIInv'
  OBVIOUS
<1>1. RelayTypeOK'
  BY RelayTypes DEF RegistryIInv
<1>2. CASE RelayNext
  BY <1>1, <1>2, LaunchLockIsKept, RuntimeLockIsKept, RecordIsKept, StartsStayWatched DEF RegistryIInv
<1>3. CASE UNCHANGED relayVars
  BY <1>3 DEF relayVars, RegistryIInv, RelayTypeOK, LaunchesAreLocked, HoldersOnly, RecordsArePublished,
    RecordIsTheHolders, StartsAreWatched, Registered
<1> QED
  BY <1>2, <1>3

LEMMA RegistryImplied == RegistryIInv => RegistryInvariant
<1> SUFFICES ASSUME RegistryIInv PROVE StartsAreSafe
  BY DEF RegistryIInv, RegistryInvariant
<1> SUFFICES ASSUME ~interrupted PROVE StartsAreSafe
  BY DEF StartsAreSafe
<1> USE ProcessesAssumption DEF Runtimes, Clients
<1>1. \A r \in Runtimes : runtimeLock = r /\ runtime[r].pc \in Published => Registered(r)
  BY DEF RegistryIInv, StartsAreWatched
<1>2. launchLock = Nobody => \A r \in Runtimes : runtime[r].pc \notin {"born", "claimed"}
  BY DEF RegistryIInv, StartsAreWatched, LaunchesAreLocked, Unpublished
<1>3. Cardinality({r \in Runtimes : Alive(r) /\ runtime[r].pc # "plain"}) <= 1
  <2> DEFINE Living == {r \in Runtimes : Alive(r) /\ runtime[r].pc # "plain"}
  <2>1. \A r, s \in Living : r = s
    BY DEF RegistryIInv, StartsAreWatched, Alive, Gone
  <2> HIDE DEF Living
  <2>2. CASE Living = {}
    BY <2>2, FS_EmptySet DEF Living
  <2>3. CASE Living # {}
    <3>1. PICK r : Living = {r}
      BY <2>1, <2>3
    <3> QED
      BY <3>1, FS_Singleton DEF Living
  <2> QED
    BY <2>2, <2>3
<1> QED
  BY <1>1, <1>2, <1>3 DEF StartsAreSafe

\* However relays and runtimes start, end and die: a runtime keeps its lock from
\* the claim until its project is closed, the record beside a published runtime
\* is its own, and while no relay has left a runtime it was starting, one
\* runtime at most is there, and who takes the launch lock finds its record.
THEOREM RegistryHolds == RelaySpec => []RegistryInvariant
<1>1. RelayInit => RegistryIInv
  BY RegistryStarts
<1>2. RegistryIInv /\ [RelayNext]_relayVars => RegistryIInv'
  BY RegistryStays
<1>3. RegistryIInv => RegistryInvariant
  BY RegistryImplied
<1> QED
  BY <1>1, <1>2, <1>3, PTL DEF RelaySpec

-----------------------------------------------------------------------------
(* What relays tell of calls                                               *)

Ended == {"failed", "dead"}

\* How far a call is, on which runtime, and what its relay heard of it.
CallsAreTold ==
  \A k \in Forwarded :
    LET f == forwarded[k]
    IN /\ f.pc \in {"sent", "accepted", "ran"} => f.by \in Clients /\ f.reply \in {"none", "unknown"}
       /\ f.by \in Clients => client[f.by].pc = "serving"
       /\ f.pc \in {"accepted", "ran"} => f.at \in Runtimes /\ f.at = client[f.by].to
       /\ f.pc \in {"new", "sent", "accepted"} => f.ran = Nobody
       /\ f.ran # Nobody => f.by \in Clients /\ f.ran = client[f.by].to
       /\ f.pc = "new" => f.reply = "none"
       /\ f.reply = "ok" => f.ran # Nobody
       /\ f.reply \in {"refused", "error"} => f.pc = "ended" /\ f.ran = Nobody

\* A failure that is told, or recorded, is one; a relay that refuses serves.
FailuresAreTrue ==
  /\ record # Nobody /\ record.state = "failed" => runtime[record.of].pc \in Ended
  /\ \A c \in Clients : client[c].refusal = "failed" =>
       /\ client[c].pc = "serving"
       /\ \E r \in {client[c].to, client[c].child} \cap Runtimes : runtime[r].pc \in Ended

ForwardIInv == RegistryIInv /\ CallsAreTold /\ FailuresAreTrue

LEMMA ForwardStarts == RelayInit => ForwardIInv
<1> SUFFICES ASSUME RelayInit PROVE CallsAreTold /\ FailuresAreTrue
  BY RegistryStarts DEF ForwardIInv
<1> USE ProcessesAssumption
<1>1. CallsAreTold
  BY DEF RelayInit, CallsAreTold
<1>2. FailuresAreTrue
  BY DEF RelayInit, FailuresAreTrue
<1> QED
  BY <1>1, <1>2

\* A client that serves goes on serving the runtime it found.
LEMMA ServingIsFinal ==
  ASSUME RelayTypeOK, LaunchesAreLocked, RelayNext, NEW c \in Clients, client[c].pc = "serving"
  PROVE  client'[c].pc = "serving" /\ client'[c].to = client[c].to /\ client'[c].child = client[c].child
<1> USE DEF Goes, Located, Clients
<1>0. client \in [Clients -> ClientType]
  BY DEF RelayTypeOK
<1>1. ASSUME NEW d \in Clients, Locate(d) \/ RelayDies(d) PROVE client'[c] = client[c]
  <2>1. client[d].pc # "serving"
    BY <1>1 DEF Locate, TakeLaunchLock, LaunchLockTimesOut, Probe, EndProbe, ReadRecord, RemoveStale, Launch,
      SeeRegistration, SeeEnd, WaitTimesOut, RelayDies
  <2>2. c # d
    BY <2>1
  <2>3. CASE TakeLaunchLock(d) \/ LaunchLockTimesOut(d)
    BY <1>0, <2>2, <2>3 DEF TakeLaunchLock, LaunchLockTimesOut, NextStep
  <2>4. CASE ~(TakeLaunchLock(d) \/ LaunchLockTimesOut(d))
    BY <1>0, <1>1, <2>2, <2>4 DEF Locate, Probe, EndProbe, ReadRecord, RemoveStale, Launch,
      SeeRegistration, SeeEnd, WaitTimesOut, RelayDies
  <2> QED
    BY <2>3, <2>4
<1>2. ASSUME NEW d \in Foreground, ClaimInForeground(d) PROVE client'[c] = client[c]
  BY <1>0, <1>2 DEF ClaimInForeground
<1>3. ASSUME NEW r \in Runtimes, Serving(r) \/ RuntimeDies(r) PROVE client' = client
  BY <1>3 DEF Serving, ClaimDetached, Publish, Listen, StartupEnds, ProjectCloses, RemoveRecord, ReleaseLock, RuntimeDies
<1>4. ASSUME NEW k \in Forwarded, Exchange(k)
      PROVE  client'[c].pc = "serving" /\ client'[c].to = client[c].to /\ client'[c].child = client[c].child
  BY <1>4, ExchangesChangeNoProcess
<1> QED
  BY <1>1, <1>2, <1>3, <1>4 DEF RelayNext

LEMMA CallsStayTold ==
  ASSUME ForwardIInv, RelayNext
  PROVE  CallsAreTold'
<1> USE ProcessesAssumption
<1>0. RelayTypeOK /\ LaunchesAreLocked /\ CallsAreTold /\ forwarded \in [Forwarded -> ForwardedType]
      /\ client \in [Clients -> ClientType]
  BY DEF ForwardIInv, RegistryIInv, RelayTypeOK
<1>1. \A c \in Clients : client[c].pc = "serving" => client'[c].pc = "serving" /\ client'[c].to = client[c].to
  BY <1>0, ServingIsFinal
<1>2. ASSUME UNCHANGED forwarded PROVE CallsAreTold'
  BY <1>0, <1>1, <1>2 DEF CallsAreTold
<1>3. ASSUME NEW k \in Forwarded, Exchange(k) PROVE CallsAreTold'
  <2> DEFINE Told(f) ==
        /\ f.pc \in {"sent", "accepted", "ran"} => f.by \in Clients /\ f.reply \in {"none", "unknown"}
        /\ f.by \in Clients => client'[f.by].pc = "serving"
        /\ f.pc \in {"accepted", "ran"} => f.at \in Runtimes /\ f.at = client'[f.by].to
        /\ f.pc \in {"new", "sent", "accepted"} => f.ran = Nobody
        /\ f.ran # Nobody => f.by \in Clients /\ f.ran = client'[f.by].to
        /\ f.pc = "new" => f.reply = "none"
        /\ f.reply = "ok" => f.ran # Nobody
        /\ f.reply \in {"refused", "error"} => f.pc = "ended" /\ f.ran = Nobody
  <2>1. \A j \in Forwarded : Told(forwarded[j])
    BY <1>0, <1>1 DEF CallsAreTold
  <2>2. ASSUME NEW v, forwarded' = [forwarded EXCEPT ![k] = v], Told(v) PROVE CallsAreTold'
    BY <1>0, <2>1, <2>2 DEF CallsAreTold
  <2>3. forwarded[k] \in ForwardedType /\ Told(forwarded[k])
    BY <1>0, <2>1
  <2>4. CASE \E c \in Clients : Send(k, c)
    <3>1. PICK c \in Clients : Send(k, c)
      BY <2>4
    <3>2. client'[c].pc = "serving"
      BY <3>1 DEF Send
    <3>3. Told([forwarded[k] EXCEPT !.pc = "sent", !.by = c])
      BY <2>3, <3>1, <3>2 DEF Send, ForwardedType
    <3>4. Told([forwarded[k] EXCEPT !.pc = "ended", !.by = c, !.reply = "refused"])
      BY <2>3, <3>1, <3>2 DEF Send, ForwardedType
    <3> QED
      BY <2>2, <3>1, <3>3, <3>4 DEF Send
  <2>5. ASSUME NEW pc, NEW reply, Answer(k, pc, reply), Told([forwarded[k] EXCEPT !.pc = pc, !.reply = reply])
        PROVE  CallsAreTold'
    BY <2>2, <2>5 DEF Answer
  <2>6. CASE Arrive(k)
    <3>1. PICK r \in Runtimes :
            \/ r = client[forwarded[k].by].to /\ forwarded' = [forwarded EXCEPT ![k].pc = "accepted", ![k].at = r]
            \/ Answer(k, "ended", IF Waits(k) THEN "refused" ELSE forwarded[k].reply)
      BY <2>6 DEF Arrive, Behind, Authorized
    <3>2. forwarded[k].pc = "sent" /\ forwarded[k].reply \in {"none", "unknown"} /\ forwarded[k].ran = Nobody
      BY <2>3, <2>6 DEF Arrive
    <3>3. Told([forwarded[k] EXCEPT !.pc = "ended", !.reply = IF Waits(k) THEN "refused" ELSE forwarded[k].reply])
      BY <2>3, <3>2 DEF ForwardedType, Waits
    <3>4. r = client[forwarded[k].by].to => Told([forwarded[k] EXCEPT !.pc = "accepted", !.at = r])
      <4>1. forwarded[k].by \in Clients
        BY <2>3, <3>2
      <4>2. client'[forwarded[k].by].to = client[forwarded[k].by].to
        BY <1>0, <1>1, <4>1 DEF CallsAreTold
      <4> QED
        BY <2>3, <3>2, <4>1, <4>2 DEF ForwardedType
    <3>5. CASE r = client[forwarded[k].by].to /\ forwarded' = [forwarded EXCEPT ![k].pc = "accepted", ![k].at = r]
      <4> DEFINE v == [forwarded[k] EXCEPT !.pc = "accepted", !.at = r]
      <4>1. Told(v) /\ forwarded' = [forwarded EXCEPT ![k] = v]
        BY <3>4, <3>5
      <4> HIDE DEF v, Told
      <4> QED
        BY <2>2, <4>1
    <3>6. CASE Answer(k, "ended", IF Waits(k) THEN "refused" ELSE forwarded[k].reply)
      BY <2>5, <3>3, <3>6
    <3> QED
      BY <3>1, <3>5, <3>6
  <2>7. CASE Run(k)
    <3>1. PICK ran \in {forwarded[k].at, Nobody} : forwarded' = [forwarded EXCEPT ![k].pc = "ran", ![k].ran = ran]
      BY <2>7 DEF Run
    <3>2. Told([forwarded[k] EXCEPT !.pc = "ran", !.ran = ran])
      BY <2>3, <2>7 DEF Run, ForwardedType
    <3> QED
      BY <2>2, <3>1, <3>2
  <2>8. CASE Reply(k)
    <3>1. Told([forwarded[k] EXCEPT !.pc = "ended", !.reply = IF forwarded[k].ran = Nobody THEN "error" ELSE "ok"])
      BY <2>3, <2>8 DEF Reply, ForwardedType
    <3> QED
      BY <2>5, <2>8, <3>1 DEF Reply
  <2>9. CASE NotReached(k)
    <3>1. Told([forwarded[k] EXCEPT !.pc = "ended", !.reply = "refused"])
      BY <2>3, <2>9 DEF NotReached, ForwardedType
    <3> QED
      BY <2>5, <2>9, <3>1 DEF NotReached
  <2>10. CASE Broken(k)
    <3>1. Told([forwarded[k] EXCEPT !.pc = forwarded[k].pc, !.reply = "unknown"])
      BY <2>3, <2>10 DEF Broken, ForwardedType
    <3> QED
      BY <2>5, <2>10, <3>1 DEF Broken
  <2> QED
    BY <1>3, <2>4, <2>6, <2>7, <2>8, <2>9, <2>10 DEF Exchange
<1> QED
  BY <1>2, <1>3 DEF RelayNext, Locate, TakeLaunchLock, LaunchLockTimesOut, Probe, EndProbe, ReadRecord, RemoveStale,
    Launch, SeeRegistration, SeeEnd, WaitTimesOut, RelayDies, ClaimInForeground, Serving, ClaimDetached,
    Publish, Listen, StartupEnds, ProjectCloses, RemoveRecord, ReleaseLock, RuntimeDies

\* What has ended stays so.
LEMMA EndsAreFinal ==
  ASSUME RelayTypeOK, LaunchesAreLocked, RelayNext, NEW r \in Runtimes, runtime[r].pc \in Ended
  PROVE  runtime'[r].pc \in Ended
<1> USE DEF Ended, Becomes
<1>0. runtime \in [Runtimes -> RuntimeType]
  BY DEF RelayTypeOK
<1>1. ASSUME NEW c \in Clients, Locate(c) \/ RelayDies(c) PROVE runtime'[r].pc \in Ended
  BY <1>0, <1>1 DEF Locate, TakeLaunchLock, LaunchLockTimesOut, Probe, EndProbe, ReadRecord, RemoveStale, Launch,
      SeeRegistration, SeeEnd, WaitTimesOut, RelayDies
<1>2. ASSUME NEW c \in Foreground, ClaimInForeground(c) PROVE runtime'[r].pc \in Ended
  <2>1. runtime[c].pc = "unborn"
    BY <1>2 DEF ClaimInForeground, LaunchesAreLocked
  <2> QED
    BY <1>0, <1>2, <2>1 DEF ClaimInForeground
<1>3. ASSUME NEW s \in Runtimes, Serving(s) \/ RuntimeDies(s) PROVE runtime'[r].pc \in Ended
  <2>1. CASE Publish(s)
    BY <1>0, <2>1 DEF Publish
  <2>2. CASE ~Publish(s)
    BY <1>0, <1>3, <2>2 DEF Serving, ClaimDetached, Listen, StartupEnds, ProjectCloses, RemoveRecord, ReleaseLock,
      RuntimeDies, RuntimeType, Published
  <2> QED
    BY <2>1, <2>2
<1>4. ASSUME NEW k \in Forwarded, Exchange(k) PROVE runtime'[r].pc \in Ended
  BY <1>4, ExchangesChangeNoProcess DEF Processes
<1> QED
  BY <1>1, <1>2, <1>3, <1>4 DEF RelayNext

LEMMA FailuresStayTrue ==
  ASSUME ForwardIInv, RelayNext
  PROVE  FailuresAreTrue'
<1> USE ProcessesAssumption
<1>0. /\ RelayTypeOK /\ LaunchesAreLocked /\ CallsAreTold /\ FailuresAreTrue
      /\ client \in [Clients -> ClientType] /\ runtime \in [Runtimes -> RuntimeType]
      /\ record \in Records \cup {Nobody}
  BY DEF ForwardIInv, RegistryIInv, RelayTypeOK
<1>1. \A r \in Runtimes : runtime[r].pc \in Ended => runtime'[r].pc \in Ended
  BY <1>0, EndsAreFinal
<1>2. record' # Nobody /\ record'.state = "failed" => runtime'[record'.of].pc \in Ended
  <2>1. CASE record' = record
    BY <1>0, <1>1, <2>1 DEF FailuresAreTrue, Records
  <2>2. CASE record' = Nobody
    BY <2>2
  <2>3. CASE \E r \in Runtimes : Publish(r)
    BY <2>3 DEF Publish
  <2>4. CASE \E r \in Runtimes : StartupEnds(r)
    BY <1>0, <2>4 DEF StartupEnds, Becomes, Ended, RuntimeType
  <2> QED
    BY <2>1, <2>2, <2>3, <2>4 DEF RelayNext, Locate, TakeLaunchLock, LaunchLockTimesOut, Probe, EndProbe,
         ReadRecord, RemoveStale, Launch, SeeRegistration, SeeEnd, WaitTimesOut, RelayDies, ClaimInForeground,
         Serving, ClaimDetached, Listen, ProjectCloses, RemoveRecord, ReleaseLock,
         RuntimeDies, Exchange, Send, Arrive, Run, Reply, NotReached, Broken
<1> DEFINE Fails(c) == client[c].refusal = "failed" =>
      /\ client[c].pc = "serving"
      /\ \E r \in {client[c].to, client[c].child} \cap Runtimes : runtime[r].pc \in Ended
<1>3. \A c \in Clients : Fails(c)
  BY <1>0 DEF FailuresAreTrue
<1>4. ASSUME NEW c \in Clients, client[c].refusal = "failed" PROVE Fails(c)'
  <2>1. PICK r \in {client[c].to, client[c].child} \cap Runtimes : runtime[r].pc \in Ended
    BY <1>3, <1>4
  <2>2. client'[c].pc = "serving" /\ client'[c].to = client[c].to /\ client'[c].child = client[c].child
    BY <1>0, <1>3, <1>4, ServingIsFinal
  <2> QED
    BY <1>1, <2>1, <2>2
<1>5. ASSUME NEW c \in Clients, client[c].refusal # "failed", client'[c].refusal = "failed" PROVE Fails(c)'
  <2>1. CASE \E d \in Clients : Locate(d)
    <3>1. PICK d \in Clients : Locate(d)
      BY <2>1
    <3>2. d = c /\ SeeEnd(c)
      BY <1>0, <1>5, <3>1 DEF Locate, TakeLaunchLock, LaunchLockTimesOut, Probe, EndProbe, ReadRecord,
        RemoveStale, Launch, SeeRegistration, SeeEnd, WaitTimesOut, Located, NextStep, Goes, ClientType
    <3>3. /\ client[c].pc = "waiting" /\ client[c].child \in Detached /\ runtime[client[c].child].pc # "unborn"
          /\ ~Alive(client[c].child)
      BY <1>0, <3>2 DEF SeeEnd, LaunchesAreLocked
    <3>4. /\ client'[c].pc = "serving" /\ client'[c].child = client[c].child /\ UNCHANGED runtime
      BY <1>0, <3>2 DEF SeeEnd, Located, ClientType
    <3> QED
      BY <3>3, <3>4 DEF Alive, Ended, Runtimes
  <2>2. CASE \E k \in Forwarded : Exchange(k)
    <3>1. PICK k \in Forwarded : Exchange(k)
      BY <2>2
    <3>2. forwarded[k].by = c /\ Refusal(c) = "failed" /\ forwarded[k].pc \in {"sent", "accepted", "ran"}
      <4>1. Arrive(k) \/ NotReached(k) \/ Broken(k)
        BY <1>5, <3>1 DEF Exchange, Send, Run, Reply
      <4>2. RuntimeGone(forwarded[k].by) /\ forwarded[k].pc \in {"sent", "accepted", "ran"}
        BY <1>5, <4>1 DEF Arrive, NotReached, Broken
      <4>3. forwarded[k].by \in Clients
        BY <1>0, <4>2 DEF CallsAreTold
      <4>4. client' = [client EXCEPT ![forwarded[k].by].refusal = Refusal(forwarded[k].by)]
        BY <1>5, <4>2 DEF RuntimeGone
      <4> QED
        BY <1>0, <1>5, <4>2, <4>3, <4>4 DEF ClientType
    <3>3. client[c].pc = "serving" /\ record # Nobody /\ record.of = client[c].to /\ record.state = "failed"
      BY <1>0, <3>2 DEF CallsAreTold, Refusal, Registered
    <3>4. client[c].to \in Runtimes /\ runtime[client[c].to].pc \in Ended
      BY <1>0, <3>3 DEF FailuresAreTrue, Records
    <3>5. client'[c].pc = "serving" /\ client'[c].to = client[c].to
      BY <1>0, <3>3, ServingIsFinal
    <3> QED
      BY <1>1, <3>4, <3>5
  <2>3. CASE ~(\E d \in Clients : Locate(d)) /\ ~(\E k \in Forwarded : Exchange(k))
    <3>1. client'[c].refusal = client[c].refusal
      <4>1. client' = client \/ \E d \in Clients : \E pc : client' = [client EXCEPT ![d].pc = pc]
        BY <2>3 DEF RelayNext, RelayDies, ClaimInForeground, Goes, Serving, ClaimDetached, Publish, Listen,
          StartupEnds, ProjectCloses, RemoveRecord, ReleaseLock, RuntimeDies, Clients
      <4> QED
        BY <1>0, <4>1 DEF ClientType
    <3> QED
      BY <1>5, <3>1
  <2> QED
    BY <2>1, <2>2, <2>3
<1>6. \A c \in Clients : Fails(c)'
  BY <1>4, <1>5
<1> QED
  BY <1>2, <1>6 DEF FailuresAreTrue

LEMMA ForwardStays == ForwardIInv /\ [RelayNext]_relayVars => ForwardIInv'
<1> SUFFICES ASSUME ForwardIInv, [RelayNext]_relayVars PROVE ForwardIInv'
  OBVIOUS
<1>1. RegistryIInv'
  BY RegistryStays DEF ForwardIInv
<1>2. CASE RelayNext
  BY <1>1, <1>2, CallsStayTold, FailuresStayTrue DEF ForwardIInv
<1>3. CASE UNCHANGED relayVars
  BY <1>1, <1>3 DEF relayVars, ForwardIInv, CallsAreTold, FailuresAreTrue
<1> QED
  BY <1>2, <1>3

\* However processes end and connections break: a call runs on the runtime its
\* relay located or on none, one that was refused never runs, and a relay tells
\* of a failed startup only where one failed.
THEOREM RefusedHolds == RelaySpec => []RefusedNeverRuns
<1>1. RelayInit => ForwardIInv
  BY ForwardStarts
<1>2. ForwardIInv /\ [RelayNext]_relayVars => ForwardIInv'
  BY ForwardStays
<1>3. ForwardIInv => RefusedNeverRuns
  <2> SUFFICES ASSUME ForwardIInv PROVE RefusedNeverRuns
    OBVIOUS
  <2>1. CallsAreTold /\ FailuresAreTrue
    BY DEF ForwardIInv
  <2> QED
    BY <2>1 DEF RefusedNeverRuns, CallsAreTold, FailuresAreTrue, Ended
<1> QED
  BY <1>1, <1>2, <1>3, PTL DEF RelaySpec
-----------------------------------------------------------------------------
(* Writes to a program                                                     *)

\* The sets the variables are in.
Authors == {"mecha", "human", "thread"}
Tokens == ({"mecha"} \X (1..MaxCommands) \X (1..MaxItems)) \cup ({"human", "thread"} \X Nat \X {0})
StepType == [by : {"none", "Mecha", "Other"}, edits : SUBSET (Authors \X Nat \X Nat)]
ProgType == [own : 0..1, other : BOOLEAN, aborted : BOOLEAN, by : {"none", "Mecha", "Other"},
             pending : SUBSET Tokens, undo : Seq(StepType), redo : Seq(StepType), mod : Nat,
             landed : SUBSET Tokens]
InSection == {"section", "start", "item", "edit", "write", "itemend", "history", "leave"}
WritePcs == {"checks", "decompile", "view", "enter", "wait", "queue", "external", "finish", "done"} \cup InSection
EditOutcomes == {"applied", "same", "skipped", "failed"}
ItemResults == EditOutcomes \cup {"simulated", "rolled_back", "not_attempted"}
CmdType == [n : 0..MaxCommands, kind : WriteKinds \cup {"none"}, pc : WritePcs, atomic : BOOLEAN, dry : BOOLEAN,
            size : 0..MaxItems, view : {"none", "decompiled", "database"}, seen : Nat,
            shown : SUBSET (Authors \X Nat \X Nat), outer : BOOLEAN, results : Seq(ItemResults), steps : Nat,
            outside : BOOLEAN, error : BOOLEAN, late : BOOLEAN, reply : {"none", "ok", "absent", "created", "uncertain"}]
RecType == [listening : BOOLEAN, open : BOOLEAN, ended : SUBSET ({"ABORTED", "COMMITTED"} \X BOOLEAN),
            history : BOOLEAN, external : BOOLEAN]

WritesTyped ==
  /\ backend \in Backends /\ edt \in {"free", "mecha"} /\ foreign \in 0..MaxForeign
  /\ prog \in ProgType /\ cmd \in CmdType /\ rec \in RecType

\* Where a command has the EDT, where it has an entry in the open transaction.
InOwn == (cmd.pc = "item" /\ cmd.outer) \/ cmd.pc \in {"edit", "write", "itemend"}
Brackets ==
  /\ edt = "mecha" <=> backend = "gui" /\ cmd.pc \in InSection
  /\ prog.own = 1 <=> InOwn
  /\ InOwn => rec.open
  /\ ~Open(prog) => prog.pending = {} /\ ~prog.aborted /\ ~rec.open
  /\ backend # "gui" => ~prog.other /\ cmd.pc \notin {"wait", "queue"}
  /\ cmd.pc \in {"edit", "itemend"} => ~cmd.outer
  /\ cmd.pc = "write" => cmd.outer

\* Mecha's edits are those of commands so far; in a section, those of this one,
\* and no human's are in the same transaction.
Authorship ==
  /\ \A e \in prog.pending \cup prog.landed : Author(e) = "mecha" => e[2] <= cmd.n
  /\ cmd.pc \in InSection => \A e \in prog.pending : e \in Written \/ Author(e) = "thread"
  /\ rec.open => \A e \in prog.pending : Author(e) = "mecha" => cmd.pc \in {"checks", "done"} \/ e \in Written

\* The record of a running command tells what its transactions did.
CommitNoted == <<"COMMITTED", TRUE>> \in rec.ended
ForeignOrOurs(e) == e \in Written \/ Author(e) # "mecha"
RecordIsTrue ==
  cmd.pc \notin {"checks", "done"} =>
    /\ \A e \in Written : e \in prog.pending => rec.open
    /\ \A e \in Written : e \in prog.landed => CommitNoted
    /\ CommitNoted => \E e \in prog.landed : ForeignOrOurs(e)
    /\ rec.history <=> cmd.steps > 0
    /\ cmd.outside => rec.external
Refuted == \A e \in Written : e \notin prog.pending /\ e \notin prog.landed
FailureTold ==
  /\ cmd.pc = "done" /\ cmd.error =>
       /\ cmd.reply = "absent" => cmd.steps = 0 /\ ~cmd.outside /\ Refuted
       /\ cmd.reply = "created" => cmd.steps > 0 \/ \E e \in prog.landed : ForeignOrOurs(e)

\* How far a command is.
CommandSoFar ==
  /\ cmd.pc \notin {"leave", "finish", "done"} => ~cmd.error
  /\ cmd.kind # "batch" => cmd.atomic /\ ~cmd.dry
  /\ cmd.dry => backend # "gui"
  /\ cmd.pc \in {"checks", "decompile", "view", "enter", "wait", "queue", "section", "history"} =>
       cmd.results = <<>> /\ ~cmd.outer
  /\ cmd.pc # "done" => cmd.size > 0 /\ cmd.n > 0
  /\ cmd.pc = "start" /\ cmd.outer => cmd.results = <<>>
  /\ cmd.pc = "checks" => cmd.steps = 0 /\ ~cmd.outside
  /\ cmd.pc \in {"start", "item", "edit", "write", "itemend"} => cmd.results \in Seq(EditOutcomes)
  /\ Len(cmd.results) <= cmd.size
  /\ cmd.pc \in {"start", "edit", "write"} => Len(cmd.results) < cmd.size
  /\ cmd.pc = "itemend" => Len(cmd.results) > 0

\* What the results say of the edits: the items that are over, and the one that is
\* not; in an outer transaction, none is over.
IsTrueOf(i) == IF cmd.results[i] = "applied" THEN Mine(i) \in prog.landed
               ELSE Mine(i) \notin prog.landed /\ (Mine(i) \in prog.pending => prog.aborted)
WillBeTrueOf(i) ==
  /\ Mine(i) \notin prog.landed
  /\ cmd.results[i] = "applied" => Mine(i) \in prog.pending
  /\ cmd.results[i] \in {"same", "skipped"} => Mine(i) \notin prog.pending
Over(i) == ~cmd.outer /\ ~(cmd.pc = "itemend" /\ i = Len(cmd.results))
ResultsAreTrue ==
  /\ cmd.pc \notin {"leave", "external", "finish", "done"} =>
       /\ \A i \in 1..MaxItems : i > Len(cmd.results) => Mine(i) \notin prog.pending \cup prog.landed
       /\ \A i \in 1..Len(cmd.results) : IF Over(i) THEN IsTrueOf(i) ELSE WillBeTrueOf(i)
  /\ cmd.pc \in {"leave", "external", "finish", "done"} /\ ~cmd.error => \A i \in 1..Len(cmd.results) : IsTrueOf(i)
  /\ backend # "gui" /\ prog.aborted =>
       \/ cmd.pc \in {"item", "write"} /\ cmd.outer /\ \E i \in 1..Len(cmd.results) : cmd.results[i] = "failed"
       \/ cmd.pc = "itemend" /\ cmd.results[Len(cmd.results)] = "failed"

WritesIInv ==
  /\ WritesTyped /\ Brackets /\ Authorship /\ RecordIsTrue /\ FailureTold /\ CommandSoFar /\ ResultsAreTrue
LEMMA OursAreTokens ==
  ASSUME MaxItems \in Nat, MaxCommands \in Nat, cmd \in CmdType, cmd.n > 0
  PROVE  /\ Written \subseteq Tokens
         /\ \A e \in Written : Author(e) = "mecha" /\ e[2] = cmd.n
         /\ \A i \in 1..MaxItems : Mine(i) \in Written
         /\ \A i, j \in 1..MaxItems : Mine(i) = Mine(j) => i = j
<1>1. cmd.n \in 1..MaxCommands
  BY DEF CmdType
<1> QED
  BY <1>1 DEF Written, Mine, Author, Tokens

\* An entry more in the open transaction, or the first of a new one.
LEMMA StartedEffect ==
  ASSUME NEW p \in ProgType, NEW who \in {"Mecha", "Other"}, who = "Mecha" => p.own = 0
  PROVE  /\ Started(p, who) \in ProgType
         /\ Started(p, who).own = (IF who = "Mecha" THEN 1 ELSE p.own)
         /\ Started(p, who).other <=> (p.other \/ who = "Other")
         /\ Started(p, who).aborted <=> p.aborted
         /\ Started(p, who).pending = p.pending /\ Started(p, who).landed = p.landed
         /\ Started(p, who).undo = p.undo /\ Started(p, who).mod = p.mod
<1> DEFINE q == IF who = "Mecha" THEN [p EXCEPT !.own = @ + 1] ELSE [p EXCEPT !.other = TRUE]
<1>1. /\ q \in ProgType /\ q.own = (IF who = "Mecha" THEN 1 ELSE p.own) /\ (q.other <=> (p.other \/ who = "Other"))
      /\ (q.aborted <=> p.aborted) /\ q.pending = p.pending /\ q.landed = p.landed /\ q.undo = p.undo /\ q.mod = p.mod
  <2>1. CASE who = "Mecha"
    BY <2>1 DEF ProgType
  <2>2. CASE who = "Other"
    BY <2>2 DEF ProgType
  <2> QED
    BY <2>1, <2>2
<1>2. Started(p, who) = (IF Open(p) THEN q ELSE [q EXCEPT !.by = who])
  BY DEF Started
<1> HIDE DEF q
<1>3. [q EXCEPT !.by = who] \in ProgType
  BY <1>1 DEF ProgType
<1> QED
  BY <1>1, <1>2, <1>3 DEF ProgType

LEMMA ChangedEffect ==
  ASSUME NEW p \in ProgType, NEW edits \in SUBSET Tokens
  PROVE  /\ Changed(p, edits) \in ProgType
         /\ Changed(p, edits).own = p.own /\ (Changed(p, edits).other <=> p.other)
         /\ (Changed(p, edits).aborted <=> p.aborted)
         /\ Changed(p, edits).pending = p.pending \cup edits /\ Changed(p, edits).landed = p.landed
         /\ Changed(p, edits).undo = p.undo
<1>1. p.pending \cup edits \in SUBSET Tokens /\ (IF edits = {} THEN p.mod ELSE p.mod + 1) \in Nat
  BY DEF ProgType
<1>2. Changed(p, edits) \in ProgType
  BY <1>1 DEF Changed, ProgType
<1> QED
  BY <1>2 DEF Changed, ProgType

\* The last entry commits or rolls back what every entry did.
LEMMA FinishedEffect ==
  ASSUME NEW p \in ProgType
  PROVE  /\ Finished(p) \in ProgType
         /\ Finished(p).own = p.own /\ (Finished(p).other <=> p.other)
         /\ Finished(p).pending = {} /\ ~Finished(p).aborted
         /\ Finished(p).landed = (IF p.aborted THEN p.landed ELSE p.landed \cup p.pending)
         /\ \/ Finished(p).undo = p.undo /\ (p.aborted \/ p.pending = {})
            \/ Finished(p).undo = Append(p.undo, [by |-> p.by, edits |-> p.pending])
<1>1. p.pending \subseteq Authors \X Nat \X Nat
  BY DEF ProgType, Tokens, Authors
<1>2. [by |-> p.by, edits |-> p.pending] \in StepType
  BY <1>1 DEF ProgType, StepType
<1>3. Append(p.undo, [by |-> p.by, edits |-> p.pending]) \in Seq(StepType)
  BY <1>2 DEF ProgType
<1>4. <<>> \in Seq(StepType)
  BY EmptySeq
<1> HIDE DEF StepType
<1>5. CASE p.aborted
  <2>1. (IF p.pending = {} THEN p.mod ELSE p.mod + 1) \in Nat
    BY DEF ProgType
  <2>2. Finished(p) \in ProgType
    BY <1>5, <2>1 DEF Finished, ProgType
  <2> QED
    BY <1>5, <2>2 DEF Finished, ProgType
<1>6. CASE ~p.aborted /\ p.pending = {}
  BY <1>6 DEF Finished, ProgType
<1>7. CASE ~p.aborted /\ p.pending # {}
  BY <1>3, <1>4, <1>7 DEF Finished, ProgType
<1> QED
  BY <1>5, <1>6, <1>7

LEMMA LeftEffect ==
  ASSUME NEW left \in ProgType, NEW q, q = (IF Open(left) THEN left ELSE Finished(left))
  PROVE  /\ q \in ProgType /\ q.own = left.own /\ (q.other <=> left.other)
         /\ Open(q) => /\ q.pending = left.pending /\ q.landed = left.landed /\ q.undo = left.undo
                       /\ (q.aborted <=> left.aborted)
         /\ ~Open(q) =>
              /\ ~Open(left) /\ q.pending = {} /\ ~q.aborted
              /\ q.landed = (IF left.aborted THEN left.landed ELSE left.landed \cup left.pending)
              /\ \/ q.undo = left.undo /\ (left.aborted \/ left.pending = {})
                 \/ q.undo = Append(left.undo, [by |-> left.by, edits |-> left.pending])
<1>1. CASE Open(left)
  BY <1>1
<1>2. CASE ~Open(left)
  <2> DEFINE f == Finished(left)
  <2>1. /\ f \in ProgType /\ f.own = left.own /\ (f.other <=> left.other) /\ f.pending = {} /\ ~f.aborted
        /\ f.landed = (IF left.aborted THEN left.landed ELSE left.landed \cup left.pending)
        /\ \/ f.undo = left.undo /\ (left.aborted \/ left.pending = {})
           \/ f.undo = Append(left.undo, [by |-> left.by, edits |-> left.pending])
    BY FinishedEffect
  <2>2. q = f
    BY <1>2
  <2> HIDE DEF f
  <2>3. ~Open(q)
    BY <1>2, <2>1, <2>2 DEF Open
  <2> QED
    BY <1>2, <2>1, <2>2, <2>3
<1> QED
  BY <1>1, <1>2

LEMMA MechaLeft ==
  ASSUME NEW p \in ProgType, p.own = 1, NEW commit \in BOOLEAN, NEW q, q = LeftBy(p, "Mecha", commit)
  PROVE  /\ q \in ProgType /\ q.own = 0 /\ (q.other <=> p.other)
         /\ Open(q) => /\ q.pending = p.pending /\ q.landed = p.landed /\ q.undo = p.undo
                       /\ (q.aborted <=> p.aborted \/ ~commit)
         /\ ~Open(q) =>
              /\ q.pending = {} /\ ~q.aborted
              /\ q.landed = (IF p.aborted \/ ~commit THEN p.landed ELSE p.landed \cup p.pending)
              /\ q.undo = p.undo \/ q.undo = Append(p.undo, [by |-> p.by, edits |-> p.pending])
<1>1. PICK left : left = [[p EXCEPT !.own = @ - 1] EXCEPT !.aborted = @ \/ ~commit]
  OBVIOUS
<1>2. p.own - 1 = 0 /\ [p EXCEPT !.own = 0] \in ProgType
  <2>1. p.own - 1 = 0
    OBVIOUS
  <2>2. 0 \in 0..1
    OBVIOUS
  <2>3. [p EXCEPT !.own = 0] \in ProgType
    BY <2>2 DEF ProgType
  <2> QED
    BY <2>1, <2>3
<1>3. left = [[p EXCEPT !.own = 0] EXCEPT !.aborted = @ \/ ~commit]
  BY <1>1, <1>2
<1>4. left \in ProgType
  BY <1>2, <1>3 DEF ProgType
<1>5. left.own = 0 /\ (left.other <=> p.other) /\ (left.aborted <=> p.aborted \/ ~commit)
  BY <1>2, <1>3 DEF ProgType
<1>6. left.pending = p.pending /\ left.landed = p.landed /\ left.undo = p.undo /\ left.by = p.by
  BY <1>2, <1>3 DEF ProgType
<1>7. q = (IF Open(left) THEN left ELSE Finished(left))
  BY <1>1 DEF LeftBy
<1>8. /\ q \in ProgType /\ q.own = left.own /\ (q.other <=> left.other)
      /\ Open(q) => /\ q.pending = left.pending /\ q.landed = left.landed /\ q.undo = left.undo
                    /\ (q.aborted <=> left.aborted)
      /\ ~Open(q) =>
           /\ ~Open(left) /\ q.pending = {} /\ ~q.aborted
           /\ q.landed = (IF left.aborted THEN left.landed ELSE left.landed \cup left.pending)
           /\ \/ q.undo = left.undo /\ (left.aborted \/ left.pending = {})
              \/ q.undo = Append(left.undo, [by |-> left.by, edits |-> left.pending])
  BY <1>4, <1>7, LeftEffect
<1> QED
  BY <1>5, <1>6, <1>8

LEMMA OtherLeft ==
  ASSUME NEW p \in ProgType, NEW commit \in BOOLEAN, NEW q, q = LeftBy(p, "Other", commit)
  PROVE  /\ q \in ProgType /\ q.own = p.own /\ ~q.other
         /\ Open(q) => /\ q.pending = p.pending /\ q.landed = p.landed /\ q.undo = p.undo
                       /\ (q.aborted <=> p.aborted \/ ~commit)
         /\ ~Open(q) =>
              /\ q.pending = {} /\ ~q.aborted
              /\ q.landed = (IF p.aborted \/ ~commit THEN p.landed ELSE p.landed \cup p.pending)
              /\ q.undo = p.undo \/ q.undo = Append(p.undo, [by |-> p.by, edits |-> p.pending])
<1>1. PICK left : left = [[p EXCEPT !.other = FALSE] EXCEPT !.aborted = @ \/ ~commit]
  OBVIOUS
<1>2. left = [p EXCEPT !.other = FALSE, !.aborted = p.aborted \/ ~commit]
  BY <1>1 DEF ProgType
<1>3. left \in ProgType
  BY <1>2 DEF ProgType
<1>4. left.own = p.own /\ ~left.other /\ (left.aborted <=> p.aborted \/ ~commit)
  BY <1>2 DEF ProgType
<1>5. left.pending = p.pending /\ left.landed = p.landed /\ left.undo = p.undo /\ left.by = p.by
  BY <1>2 DEF ProgType
<1>6. q = (IF Open(left) THEN left ELSE Finished(left))
  BY <1>1 DEF LeftBy
<1>7. /\ q \in ProgType /\ q.own = left.own /\ (q.other <=> left.other)
      /\ Open(q) => /\ q.pending = left.pending /\ q.landed = left.landed /\ q.undo = left.undo
                    /\ (q.aborted <=> left.aborted)
      /\ ~Open(q) =>
           /\ ~Open(left) /\ q.pending = {} /\ ~q.aborted
           /\ q.landed = (IF left.aborted THEN left.landed ELSE left.landed \cup left.pending)
           /\ \/ q.undo = left.undo /\ (left.aborted \/ left.pending = {})
              \/ q.undo = Append(left.undo, [by |-> left.by, edits |-> left.pending])
  BY <1>3, <1>6, LeftEffect
<1> QED
  BY <1>4, <1>5, <1>7

\* What the record of a command learns when a transaction is left.
LEMMA InfoEffect ==
  ASSUME NEW r \in RecType, NEW p \in ProgType, NEW who, NEW commit \in BOOLEAN,
         NEW s, s = InfoAfter(r, p, who, commit)
  PROVE  /\ s \in RecType
         /\ (s.history <=> r.history) /\ (s.external <=> r.external) /\ (s.listening <=> r.listening)
         /\ r.open /\ ~Open(LeftBy(p, who, commit)) =>
              ~s.open /\ s.ended = r.ended \cup {<<IF p.aborted \/ ~commit THEN "ABORTED" ELSE "COMMITTED",
                                                   p.pending # {}>>}
         /\ ~(r.open /\ ~Open(LeftBy(p, who, commit))) => s = r
<1> DEFINE entry == <<IF p.aborted \/ ~commit THEN "ABORTED" ELSE "COMMITTED", p.pending # {}>>
<1>1. entry \in {"ABORTED", "COMMITTED"} \X BOOLEAN
  OBVIOUS
<1>2. s = (IF r.open /\ ~Open(LeftBy(p, who, commit))
           THEN [r EXCEPT !.open = FALSE, !.ended = @ \cup {entry}] ELSE r)
  BY DEF InfoAfter
<1> HIDE DEF entry
<1>3. /\ s \in RecType
      /\ (s.history <=> r.history) /\ (s.external <=> r.external) /\ (s.listening <=> r.listening)
      /\ r.open /\ ~Open(LeftBy(p, who, commit)) => ~s.open /\ s.ended = r.ended \cup {entry}
      /\ ~(r.open /\ ~Open(LeftBy(p, who, commit))) => s = r
  <2>1. CASE r.open /\ ~Open(LeftBy(p, who, commit))
    <3>1. r.ended \cup {entry} \in SUBSET ({"ABORTED", "COMMITTED"} \X BOOLEAN)
      BY <1>1 DEF RecType
    <3>2. s = [r EXCEPT !.open = FALSE, !.ended = r.ended \cup {entry}]
      BY <1>2, <2>1
    <3>3. s \in RecType
      BY <3>1, <3>2 DEF RecType
    <3> QED
      BY <2>1, <3>2, <3>3 DEF RecType
  <2>2. CASE ~(r.open /\ ~Open(LeftBy(p, who, commit)))
    BY <1>2, <2>2 DEF RecType
  <2> QED
    BY <2>1, <2>2
<1> QED
  BY <1>3 DEF entry

LEMMA SteppedEffect ==
  ASSUME NEW p \in ProgType, NEW kind, NEW q, q = Stepped(p, kind)
  PROVE  /\ q \in ProgType
         /\ q.own = p.own /\ (q.other <=> p.other) /\ (q.aborted <=> p.aborted)
         /\ q.pending = p.pending /\ q.landed = p.landed
<1>1. ASSUME NEW s \in Seq(StepType), s # <<>>
      PROVE  Last(s) \in StepType /\ Front(s) \in Seq(StepType)
  <2>1. Len(s) \in Nat \ {0} /\ \A i \in 1..Len(s) : s[i] \in StepType
    BY <1>1, EmptySeq, LenProperties, ElementOfSeq
  <2>2. SubSeq(s, 1, Len(s) - 1) \in Seq(StepType)
    BY <2>1, SubSeqProperties
  <2> QED
    BY <2>1, <2>2 DEF Last, Front
<1>2. p.undo \in Seq(StepType) /\ p.redo \in Seq(StepType)
  BY DEF ProgType
<1>3. ASSUME NEW u \in Seq(StepType), NEW d \in Seq(StepType), q = [p EXCEPT !.undo = u, !.redo = d, !.mod = p.mod + 1]
      PROVE  /\ q \in ProgType /\ q.own = p.own /\ (q.other <=> p.other) /\ (q.aborted <=> p.aborted)
             /\ q.pending = p.pending /\ q.landed = p.landed
  <2>1. p.mod + 1 \in Nat
    BY DEF ProgType
  <2>2. q \in ProgType
    BY <1>3, <2>1 DEF ProgType
  <2> QED
    BY <1>3, <2>2 DEF ProgType
<1>4. CASE ~CanStep(p, kind)
  BY <1>4 DEF Stepped
<1>5. CASE CanStep(p, kind) /\ kind = "redo"
  <2>1. Append(p.undo, Last(p.redo)) \in Seq(StepType) /\ Front(p.redo) \in Seq(StepType)
    BY <1>1, <1>2, <1>5 DEF CanStep
  <2>2. q = [p EXCEPT !.undo = Append(p.undo, Last(p.redo)), !.redo = Front(p.redo), !.mod = p.mod + 1]
    BY <1>5 DEF Stepped
  <2> QED
    BY <1>3, <2>1, <2>2
<1>6. CASE CanStep(p, kind) /\ kind # "redo"
  <2>1. Append(p.redo, Last(p.undo)) \in Seq(StepType) /\ Front(p.undo) \in Seq(StepType)
    BY <1>1, <1>2, <1>6 DEF CanStep
  <2>2. q = [p EXCEPT !.undo = Front(p.undo), !.redo = Append(p.redo, Last(p.undo)), !.mod = p.mod + 1]
    BY <1>6 DEF Stepped, ProgType
  <2> QED
    BY <1>3, <2>1, <2>2
<1> QED
  BY <1>4, <1>5, <1>6

SameWork(c, d) ==
  /\ c.n = d.n /\ c.kind = d.kind /\ (c.atomic <=> d.atomic) /\ (c.dry <=> d.dry) /\ c.size = d.size
  /\ c.results = d.results /\ c.steps = d.steps /\ (c.outside <=> d.outside)

\* A command goes on, and the program and its record stay as they are.
LEMMA MoveStep ==
  ASSUME MaxItems \in Nat, MaxCommands \in Nat, MaxForeign \in Nat, WritesIInv,
         UNCHANGED <<backend, prog, rec, foreign>>, edt' \in {"free", "mecha"}, cmd' \in CmdType,
         edt' = "mecha" <=> backend = "gui" /\ cmd'.pc \in InSection,
         cmd'.pc \in {"wait", "queue"} => backend = "gui",
         SameWork(cmd', cmd), ~InOwn, ~InOwn', cmd'.pc # "itemend",
         (cmd'.outer <=> cmd.outer) \/ cmd.results = <<>>,
         cmd'.pc \in InSection => cmd.pc \in InSection \/ ~Open(prog),
         cmd.pc \in {"checks", "done"} => cmd'.pc = "done",
         cmd'.pc \in {"leave", "external", "finish", "done"} /\ ~cmd'.error =>
           cmd.results = <<>> \/ (cmd.pc \in {"leave", "external", "finish", "done"} /\ ~cmd.error),
         cmd.pc \in {"leave", "external", "finish", "done"} =>
           cmd'.pc \in {"leave", "external", "finish", "done"},
         CommandSoFar', FailureTold'
  PROVE  WritesIInv'
<1>1. /\ prog \in ProgType /\ cmd \in CmdType /\ rec \in RecType
      /\ Brackets /\ Authorship /\ RecordIsTrue /\ ResultsAreTrue /\ CommandSoFar
  BY DEF WritesIInv, WritesTyped
<1>2. WritesTyped'
  BY DEF WritesIInv, WritesTyped
<1>3. Written' = Written /\ \A i \in 1..MaxItems : Mine(i)' = Mine(i)
  BY DEF SameWork, Written, Mine
<1>4. Brackets'
  BY <1>1 DEF Brackets, Open, InOwn
<1>5. Authorship'
  BY <1>1, <1>3 DEF Authorship, Brackets, SameWork
<1>6. RecordIsTrue'
  BY <1>1, <1>3 DEF RecordIsTrue, CommitNoted, ForeignOrOurs, SameWork
<1>7. ResultsAreTrue'
  <2>1. cmd'.results = cmd.results /\ cmd.pc # "itemend" /\ Len(cmd.results) \in 0..MaxItems
    BY <1>1 DEF SameWork, InOwn, CommandSoFar, CmdType
  <2>2. ASSUME NEW i \in 1..Len(cmd.results) PROVE (Over(i)' <=> Over(i)) /\ (IsTrueOf(i)' <=> IsTrueOf(i))
                                                  /\ (WillBeTrueOf(i)' <=> WillBeTrueOf(i))
    BY <1>3, <2>1, <2>2 DEF Over, IsTrueOf, WillBeTrueOf
  <2>3. ASSUME cmd'.pc \notin {"leave", "external", "finish", "done"}
        PROVE  /\ \A i \in 1..MaxItems : i > Len(cmd'.results) => Mine(i)' \notin prog'.pending \cup prog'.landed
               /\ \A i \in 1..Len(cmd'.results) : IF Over(i)' THEN IsTrueOf(i)' ELSE WillBeTrueOf(i)'
    BY <1>1, <1>3, <2>1, <2>2, <2>3 DEF ResultsAreTrue
  <2>4. ASSUME cmd'.pc \in {"leave", "external", "finish", "done"}, ~cmd'.error
        PROVE  \A i \in 1..Len(cmd'.results) : IsTrueOf(i)'
    <3>1. CASE cmd.results = <<>>
      BY <2>1, <3>1
    <3>2. CASE cmd.results # <<>>
      BY <1>1, <2>1, <2>2, <2>4, <3>2 DEF ResultsAreTrue
    <3> QED
      BY <3>1, <3>2
  <2>5. backend' # "gui" => ~prog'.aborted
    BY <1>1 DEF ResultsAreTrue, InOwn
  <2> QED
    BY <2>3, <2>4, <2>5 DEF ResultsAreTrue
<1> QED
  BY <1>2, <1>4, <1>5, <1>6, <1>7 DEF WritesIInv

Elsewhere(c, d) == SameWork(c, d) /\ (c.outer <=> d.outer)

LEMMA WriteGotoEffect ==
  ASSUME cmd \in CmdType, NEW pc \in WritePcs, NEW c, c = [cmd EXCEPT !.pc = pc]
  PROVE  c \in CmdType /\ c.pc = pc /\ (c.error <=> cmd.error) /\ Elsewhere(c, cmd)
BY DEF Elsewhere, SameWork, CmdType

LEMMA WriteFailEffect ==
  ASSUME cmd \in CmdType, NEW pc \in WritePcs, NEW c, c = [cmd EXCEPT !.pc = pc, !.error = TRUE]
  PROVE  c \in CmdType /\ c.pc = pc /\ c.error /\ Elsewhere(c, cmd)
BY DEF Elsewhere, SameWork, CmdType

\* What the moves of a command have in common.
LEMMA GoesOn ==
  ASSUME MaxItems \in Nat, MaxCommands \in Nat, MaxForeign \in Nat, WritesIInv,
         UNCHANGED <<backend, prog, rec, foreign>>, edt' \in {"free", "mecha"}, cmd' \in CmdType, Elsewhere(cmd', cmd),
         edt' = "mecha" <=> backend = "gui" /\ cmd'.pc \in InSection,
         cmd'.pc \in {"wait", "queue"} => backend = "gui",
         ~InOwn, cmd'.pc \notin {"edit", "write", "itemend"}, cmd'.pc = "item" => ~cmd.outer,
         cmd'.pc \in InSection => cmd.pc \in InSection \/ ~Open(prog),
         cmd.pc \notin {"checks", "done"}, cmd'.pc # "done", cmd'.pc # "checks",
         cmd'.pc \in {"decompile", "view", "enter", "wait", "queue", "section", "history"} => cmd.results = <<>> /\ ~cmd.outer,
         cmd'.pc = "start" => (cmd.outer => cmd.results = <<>>) /\ Len(cmd.results) < cmd.size,
         cmd'.pc \in {"start", "item"} => cmd.results \in Seq(EditOutcomes),
         cmd'.pc \notin {"leave", "finish", "done"} => ~cmd'.error,
         cmd'.pc \in {"leave", "external", "finish", "done"} /\ ~cmd'.error =>
           cmd.results = <<>> \/ (cmd.pc \in {"leave", "external", "finish", "done"} /\ ~cmd.error),
         cmd.pc \in {"leave", "external", "finish", "done"} =>
           cmd'.pc \in {"leave", "external", "finish", "done"}
  PROVE  WritesIInv'
<1>1. CommandSoFar
  BY DEF WritesIInv
<1>2. CommandSoFar'
  BY <1>1 DEF CommandSoFar, Elsewhere, SameWork
<1>3. FailureTold'
  BY DEF FailureTold
<1>4. ~InOwn'
  BY DEF InOwn, Elsewhere
<1> QED
  BY <1>2, <1>3, <1>4, MoveStep DEF Elsewhere

\* A step before the section, or out of it.
LEMMA MovesStep ==
  ASSUME MaxItems \in Nat, MaxCommands \in Nat, MaxForeign \in Nat, WritesIInv,
         \/ HandlerRefuses \/ EnterBoundary \/ WaitUntilIdle \/ OnEdt \/ EdtTooBusy
         \/ BatchRefuses \/ HistoryCheck \/ HistoryFails \/ LeaveSection \/ ExternalRefused
  PROVE  WritesIInv'
<1>1. /\ prog \in ProgType /\ cmd \in CmdType /\ rec \in RecType
      /\ Brackets /\ Authorship /\ RecordIsTrue /\ ResultsAreTrue /\ CommandSoFar
      /\ edt \in {"free", "mecha"} /\ backend \in Backends
  BY DEF WritesIInv, WritesTyped
<1>2. CASE HandlerRefuses
  <2>1. cmd.pc = "enter" /\ UNCHANGED <<backend, prog, rec, foreign>>
    BY <1>2 DEF HandlerRefuses
  <2>2. \E pc \in {"finish"} : cmd' = [cmd EXCEPT !.pc = pc, !.error = TRUE]
    BY <1>2 DEF HandlerRefuses, Fail
  <2>3. cmd' \in CmdType /\ Elsewhere(cmd', cmd) /\ cmd'.pc \in {"finish"} /\ cmd'.error
    BY <1>1, <2>2, WriteFailEffect DEF WritePcs, InSection
  <2>4. /\ cmd.pc \in {"section", "history", "enter", "wait", "queue"} => cmd.results = <<>> /\ ~cmd.error /\ ~cmd.outer
        /\ ~InOwn /\ (cmd.pc = "external" => ~cmd.error)
    BY <1>1, <2>1 DEF CommandSoFar, InOwn
  <2>5. edt' \in {"free", "mecha"} /\ (edt' = "mecha" <=> backend = "gui" /\ cmd'.pc \in InSection)
    BY <1>1, <1>2, <2>1, <2>3 DEF HandlerRefuses, Goto, Fail, Brackets, InSection, CmdType
  <2>6. cmd'.pc \in InSection => cmd.pc \in InSection \/ ~Open(prog)
    BY <1>1, <1>2, <2>1, <2>3, <2>4 DEF HandlerRefuses, Goto, Fail, Brackets, InSection, Open, ProgType, CmdType
  <2>7. cmd'.pc \in {"wait", "queue"} => backend = "gui"
    BY <1>1, <1>2, <2>1, <2>3 DEF HandlerRefuses, Goto, Brackets, CmdType
  <2> QED
    BY <2>1, <2>3, <2>4, <2>5, <2>6, <2>7, GoesOn DEF InSection
<1>3. CASE EnterBoundary
  <2>1. cmd.pc = "enter" /\ UNCHANGED <<backend, prog, rec, foreign>>
    BY <1>3 DEF EnterBoundary
  <2>2. \E pc \in {"wait", "section"} : cmd' = [cmd EXCEPT !.pc = pc]
    BY <1>3 DEF EnterBoundary, Goto
  <2>3. cmd' \in CmdType /\ Elsewhere(cmd', cmd) /\ cmd'.pc \in {"wait", "section"} /\ (cmd'.error <=> cmd.error)
    BY <1>1, <2>2, WriteGotoEffect DEF WritePcs, InSection
  <2>4. /\ cmd.pc \in {"section", "history", "enter", "wait", "queue"} => cmd.results = <<>> /\ ~cmd.error /\ ~cmd.outer
        /\ ~InOwn /\ (cmd.pc = "external" => ~cmd.error)
    BY <1>1, <2>1 DEF CommandSoFar, InOwn
  <2>5. edt' \in {"free", "mecha"} /\ (edt' = "mecha" <=> backend = "gui" /\ cmd'.pc \in InSection)
    BY <1>1, <1>3, <2>1, <2>3 DEF EnterBoundary, Goto, Fail, Brackets, InSection, CmdType
  <2>6. cmd'.pc \in InSection => cmd.pc \in InSection \/ ~Open(prog)
    BY <1>1, <1>3, <2>1, <2>3, <2>4 DEF EnterBoundary, Goto, Fail, Brackets, InSection, Open, ProgType, CmdType
  <2>7. cmd'.pc \in {"wait", "queue"} => backend = "gui"
    BY <1>1, <1>3, <2>1, <2>3 DEF EnterBoundary, Goto, Brackets, CmdType
  <2> QED
    BY <2>1, <2>3, <2>4, <2>5, <2>6, <2>7, GoesOn DEF InSection
<1>4. CASE WaitUntilIdle
  <2>1. cmd.pc = "wait" /\ UNCHANGED <<backend, prog, rec, foreign>>
    BY <1>4 DEF WaitUntilIdle
  <2>2. \/ \E pc \in {"queue"} : cmd' = [cmd EXCEPT !.pc = pc]
        \/ \E pc \in {"finish"} : cmd' = [cmd EXCEPT !.pc = pc, !.error = TRUE]
    BY <1>4 DEF WaitUntilIdle, Goto, Fail
  <2>3. cmd' \in CmdType /\ Elsewhere(cmd', cmd) /\ cmd'.pc \in {"finish", "queue"} /\ (cmd'.error => cmd.error \/ cmd'.pc \in {"finish"})
    <3>1. CASE \E pc \in {"queue"} : cmd' = [cmd EXCEPT !.pc = pc]
      BY <1>1, <3>1, WriteGotoEffect DEF WritePcs, InSection
    <3>2. CASE \E pc \in {"finish"} : cmd' = [cmd EXCEPT !.pc = pc, !.error = TRUE]
      BY <1>1, <3>2, WriteFailEffect DEF WritePcs, InSection
    <3> QED
      BY <2>2, <3>1, <3>2
  <2>4. /\ cmd.pc \in {"section", "history", "enter", "wait", "queue"} => cmd.results = <<>> /\ ~cmd.error /\ ~cmd.outer
        /\ ~InOwn /\ (cmd.pc = "external" => ~cmd.error)
    BY <1>1, <2>1 DEF CommandSoFar, InOwn
  <2>5. edt' \in {"free", "mecha"} /\ (edt' = "mecha" <=> backend = "gui" /\ cmd'.pc \in InSection)
    BY <1>1, <1>4, <2>1, <2>3 DEF WaitUntilIdle, Goto, Fail, Brackets, InSection, CmdType
  <2>6. cmd'.pc \in InSection => cmd.pc \in InSection \/ ~Open(prog)
    BY <1>1, <1>4, <2>1, <2>3, <2>4 DEF WaitUntilIdle, Goto, Fail, Brackets, InSection, Open, ProgType, CmdType
  <2>7. cmd'.pc \in {"wait", "queue"} => backend = "gui"
    BY <1>1, <1>4, <2>1, <2>3 DEF WaitUntilIdle, Goto, Brackets, CmdType
  <2> QED
    BY <2>1, <2>3, <2>4, <2>5, <2>6, <2>7, GoesOn DEF InSection
<1>5. CASE OnEdt
  <2>1. cmd.pc = "queue" /\ UNCHANGED <<backend, prog, rec, foreign>>
    BY <1>5 DEF OnEdt
  <2>2. \/ \E pc \in {"section", "wait"} : cmd' = [cmd EXCEPT !.pc = pc]
        \/ \E pc \in {"finish"} : cmd' = [cmd EXCEPT !.pc = pc, !.error = TRUE]
    BY <1>5 DEF OnEdt, Goto, Fail
  <2>3. cmd' \in CmdType /\ Elsewhere(cmd', cmd) /\ cmd'.pc \in {"finish", "section", "wait"} /\ (cmd'.error => cmd.error \/ cmd'.pc \in {"finish"})
    <3>1. CASE \E pc \in {"section", "wait"} : cmd' = [cmd EXCEPT !.pc = pc]
      BY <1>1, <3>1, WriteGotoEffect DEF WritePcs, InSection
    <3>2. CASE \E pc \in {"finish"} : cmd' = [cmd EXCEPT !.pc = pc, !.error = TRUE]
      BY <1>1, <3>2, WriteFailEffect DEF WritePcs, InSection
    <3> QED
      BY <2>2, <3>1, <3>2
  <2>4. /\ cmd.pc \in {"section", "history", "enter", "wait", "queue"} => cmd.results = <<>> /\ ~cmd.error /\ ~cmd.outer
        /\ ~InOwn /\ (cmd.pc = "external" => ~cmd.error)
    BY <1>1, <2>1 DEF CommandSoFar, InOwn
  <2>5. edt' \in {"free", "mecha"} /\ (edt' = "mecha" <=> backend = "gui" /\ cmd'.pc \in InSection)
    <3>1. edt = "free"
      BY <1>5 DEF OnEdt
    <3>2. backend = "gui"
      BY <1>1, <2>1 DEF Brackets
    <3>3. CASE Goto("section") /\ edt' = "mecha"
      BY <1>1, <3>2, <3>3 DEF Goto, InSection, CmdType
    <3>4. CASE (Fail("finish") \/ Goto("wait")) /\ UNCHANGED edt
      BY <1>1, <3>1, <3>4 DEF Goto, Fail, InSection, CmdType
    <3> QED
      BY <1>5, <3>3, <3>4 DEF OnEdt
  <2>6. cmd'.pc \in InSection => cmd.pc \in InSection \/ ~Open(prog)
    BY <1>1, <1>5, <2>1, <2>3, <2>4 DEF OnEdt, Goto, Fail, Brackets, InSection, Open, ProgType, CmdType
  <2>7. cmd'.pc \in {"wait", "queue"} => backend = "gui"
    BY <1>1, <1>5, <2>1, <2>3 DEF OnEdt, Goto, Brackets, CmdType
  <2> QED
    BY <2>1, <2>3, <2>4, <2>5, <2>6, <2>7, GoesOn DEF InSection
<1>6. CASE EdtTooBusy
  <2>1. cmd.pc = "queue" /\ UNCHANGED <<backend, prog, rec, foreign>>
    BY <1>6 DEF EdtTooBusy
  <2>2. \E pc \in {"finish"} : cmd' = [cmd EXCEPT !.pc = pc, !.error = TRUE]
    BY <1>6 DEF EdtTooBusy, Fail
  <2>3. cmd' \in CmdType /\ Elsewhere(cmd', cmd) /\ cmd'.pc \in {"finish"} /\ cmd'.error
    BY <1>1, <2>2, WriteFailEffect DEF WritePcs, InSection
  <2>4. /\ cmd.pc \in {"section", "history", "enter", "wait", "queue"} => cmd.results = <<>> /\ ~cmd.error /\ ~cmd.outer
        /\ ~InOwn /\ (cmd.pc = "external" => ~cmd.error)
    BY <1>1, <2>1 DEF CommandSoFar, InOwn
  <2>5. edt' \in {"free", "mecha"} /\ (edt' = "mecha" <=> backend = "gui" /\ cmd'.pc \in InSection)
    BY <1>1, <1>6, <2>1, <2>3 DEF EdtTooBusy, Goto, Fail, Brackets, InSection, CmdType
  <2>6. cmd'.pc \in InSection => cmd.pc \in InSection \/ ~Open(prog)
    BY <1>1, <1>6, <2>1, <2>3, <2>4 DEF EdtTooBusy, Goto, Fail, Brackets, InSection, Open, ProgType, CmdType
  <2>7. cmd'.pc \in {"wait", "queue"} => backend = "gui"
    BY <1>1, <1>6, <2>1, <2>3 DEF EdtTooBusy, Goto, Brackets, CmdType
  <2> QED
    BY <2>1, <2>3, <2>4, <2>5, <2>6, <2>7, GoesOn DEF InSection
<1>7. CASE BatchRefuses
  <2>1. cmd.pc = "section" /\ UNCHANGED <<backend, prog, rec, foreign>>
    BY <1>7 DEF BatchRefuses
  <2>2. \E pc \in {"leave"} : cmd' = [cmd EXCEPT !.pc = pc, !.error = TRUE]
    BY <1>7 DEF BatchRefuses, Fail
  <2>3. cmd' \in CmdType /\ Elsewhere(cmd', cmd) /\ cmd'.pc \in {"leave"} /\ cmd'.error
    BY <1>1, <2>2, WriteFailEffect DEF WritePcs, InSection
  <2>4. /\ cmd.pc \in {"section", "history", "enter", "wait", "queue"} => cmd.results = <<>> /\ ~cmd.error /\ ~cmd.outer
        /\ ~InOwn /\ (cmd.pc = "external" => ~cmd.error)
    BY <1>1, <2>1 DEF CommandSoFar, InOwn
  <2>5. edt' \in {"free", "mecha"} /\ (edt' = "mecha" <=> backend = "gui" /\ cmd'.pc \in InSection)
    BY <1>1, <1>7, <2>1, <2>3 DEF BatchRefuses, Goto, Fail, Brackets, InSection, CmdType
  <2>6. cmd'.pc \in InSection => cmd.pc \in InSection \/ ~Open(prog)
    BY <1>1, <1>7, <2>1, <2>3, <2>4 DEF BatchRefuses, Goto, Fail, Brackets, InSection, Open, ProgType, CmdType
  <2>7. cmd'.pc \in {"wait", "queue"} => backend = "gui"
    BY <1>1, <1>7, <2>1, <2>3 DEF BatchRefuses, Goto, Brackets, CmdType
  <2> QED
    BY <2>1, <2>3, <2>4, <2>5, <2>6, <2>7, GoesOn DEF InSection
<1>8. CASE HistoryCheck
  <2>1. cmd.pc = "section" /\ UNCHANGED <<backend, prog, rec, foreign>>
    BY <1>8 DEF HistoryCheck
  <2>2. \/ \E pc \in {"leave", "history"} : cmd' = [cmd EXCEPT !.pc = pc]
        \/ \E pc \in {"leave"} : cmd' = [cmd EXCEPT !.pc = pc, !.error = TRUE]
    BY <1>8 DEF HistoryCheck, Goto, Fail
  <2>3. cmd' \in CmdType /\ Elsewhere(cmd', cmd) /\ cmd'.pc \in {"history", "leave"} /\ (cmd'.error => cmd.error \/ cmd'.pc \in {"leave"})
    <3>1. CASE \E pc \in {"leave", "history"} : cmd' = [cmd EXCEPT !.pc = pc]
      BY <1>1, <3>1, WriteGotoEffect DEF WritePcs, InSection
    <3>2. CASE \E pc \in {"leave"} : cmd' = [cmd EXCEPT !.pc = pc, !.error = TRUE]
      BY <1>1, <3>2, WriteFailEffect DEF WritePcs, InSection
    <3> QED
      BY <2>2, <3>1, <3>2
  <2>4. /\ cmd.pc \in {"section", "history", "enter", "wait", "queue"} => cmd.results = <<>> /\ ~cmd.error /\ ~cmd.outer
        /\ ~InOwn /\ (cmd.pc = "external" => ~cmd.error)
    BY <1>1, <2>1 DEF CommandSoFar, InOwn
  <2>5. edt' \in {"free", "mecha"} /\ (edt' = "mecha" <=> backend = "gui" /\ cmd'.pc \in InSection)
    BY <1>1, <1>8, <2>1, <2>3 DEF HistoryCheck, Goto, Fail, Brackets, InSection, CmdType
  <2>6. cmd'.pc \in InSection => cmd.pc \in InSection \/ ~Open(prog)
    BY <1>1, <1>8, <2>1, <2>3, <2>4 DEF HistoryCheck, Goto, Fail, Brackets, InSection, Open, ProgType, CmdType
  <2>7. cmd'.pc \in {"wait", "queue"} => backend = "gui"
    BY <1>1, <1>8, <2>1, <2>3 DEF HistoryCheck, Goto, Brackets, CmdType
  <2> QED
    BY <2>1, <2>3, <2>4, <2>5, <2>6, <2>7, GoesOn DEF InSection
<1>9. CASE HistoryFails
  <2>1. cmd.pc = "history" /\ UNCHANGED <<backend, prog, rec, foreign>>
    BY <1>9 DEF HistoryFails
  <2>2. \E pc \in {"leave"} : cmd' = [cmd EXCEPT !.pc = pc, !.error = TRUE]
    BY <1>9 DEF HistoryFails, Fail
  <2>3. cmd' \in CmdType /\ Elsewhere(cmd', cmd) /\ cmd'.pc \in {"leave"} /\ cmd'.error
    BY <1>1, <2>2, WriteFailEffect DEF WritePcs, InSection
  <2>4. /\ cmd.pc \in {"section", "history", "enter", "wait", "queue"} => cmd.results = <<>> /\ ~cmd.error /\ ~cmd.outer
        /\ ~InOwn /\ (cmd.pc = "external" => ~cmd.error)
    BY <1>1, <2>1 DEF CommandSoFar, InOwn
  <2>5. edt' \in {"free", "mecha"} /\ (edt' = "mecha" <=> backend = "gui" /\ cmd'.pc \in InSection)
    BY <1>1, <1>9, <2>1, <2>3 DEF HistoryFails, Goto, Fail, Brackets, InSection, CmdType
  <2>6. cmd'.pc \in InSection => cmd.pc \in InSection \/ ~Open(prog)
    BY <1>1, <1>9, <2>1, <2>3, <2>4 DEF HistoryFails, Goto, Fail, Brackets, InSection, Open, ProgType, CmdType
  <2>7. cmd'.pc \in {"wait", "queue"} => backend = "gui"
    BY <1>1, <1>9, <2>1, <2>3 DEF HistoryFails, Goto, Brackets, CmdType
  <2> QED
    BY <2>1, <2>3, <2>4, <2>5, <2>6, <2>7, GoesOn DEF InSection
<1>10. CASE LeaveSection
  <2>1. cmd.pc = "leave" /\ UNCHANGED <<backend, prog, rec, foreign>>
    BY <1>10 DEF LeaveSection
  <2>2. \E pc \in {"external", "finish"} : cmd' = [cmd EXCEPT !.pc = pc]
    BY <1>10 DEF LeaveSection, Goto
  <2>3. cmd' \in CmdType /\ Elsewhere(cmd', cmd) /\ cmd'.pc \in {"external", "finish"} /\ (cmd'.error <=> cmd.error)
    BY <1>1, <2>2, WriteGotoEffect DEF WritePcs, InSection
  <2>4. /\ cmd.pc \in {"section", "history", "enter", "wait", "queue"} => cmd.results = <<>> /\ ~cmd.error /\ ~cmd.outer
        /\ ~InOwn /\ (cmd.pc = "external" => ~cmd.error)
    BY <1>1, <2>1 DEF CommandSoFar, InOwn
  <2>5. edt' \in {"free", "mecha"} /\ (edt' = "mecha" <=> backend = "gui" /\ cmd'.pc \in InSection)
    BY <1>1, <1>10, <2>1, <2>3 DEF LeaveSection, Goto, Fail, Brackets, InSection, CmdType
  <2>6. cmd'.pc \in InSection => cmd.pc \in InSection \/ ~Open(prog)
    BY <1>1, <1>10, <2>1, <2>3, <2>4 DEF LeaveSection, Goto, Fail, Brackets, InSection, Open, ProgType, CmdType
  <2>7. cmd'.pc \in {"wait", "queue"} => backend = "gui"
    BY <1>1, <1>10, <2>1, <2>3 DEF LeaveSection, Goto, Brackets, CmdType
  <2>8. cmd'.pc = "external" => ~cmd'.error
    BY <1>1, <1>10, <2>1, <2>3 DEF LeaveSection, Goto, CmdType
  <2> QED
    BY <2>1, <2>3, <2>4, <2>5, <2>6, <2>7, <2>8, GoesOn DEF InSection
<1>11. CASE ExternalRefused
  <2>1. cmd.pc = "external" /\ UNCHANGED <<backend, prog, rec, foreign>>
    BY <1>11 DEF ExternalRefused
  <2>2. \E pc \in {"finish"} : cmd' = [cmd EXCEPT !.pc = pc, !.error = TRUE]
    BY <1>11 DEF ExternalRefused, Fail
  <2>3. cmd' \in CmdType /\ Elsewhere(cmd', cmd) /\ cmd'.pc \in {"finish"} /\ cmd'.error
    BY <1>1, <2>2, WriteFailEffect DEF WritePcs, InSection
  <2>4. /\ cmd.pc \in {"section", "history", "enter", "wait", "queue"} => cmd.results = <<>> /\ ~cmd.error /\ ~cmd.outer
        /\ ~InOwn /\ (cmd.pc = "external" => ~cmd.error)
    BY <1>1, <2>1 DEF CommandSoFar, InOwn
  <2>5. edt' \in {"free", "mecha"} /\ (edt' = "mecha" <=> backend = "gui" /\ cmd'.pc \in InSection)
    BY <1>1, <1>11, <2>1, <2>3 DEF ExternalRefused, Goto, Fail, Brackets, InSection, CmdType
  <2>6. cmd'.pc \in InSection => cmd.pc \in InSection \/ ~Open(prog)
    BY <1>1, <1>11, <2>1, <2>3, <2>4 DEF ExternalRefused, Goto, Fail, Brackets, InSection, Open, ProgType, CmdType
  <2>7. cmd'.pc \in {"wait", "queue"} => backend = "gui"
    BY <1>1, <1>11, <2>1, <2>3 DEF ExternalRefused, Goto, Brackets, CmdType
  <2> QED
    BY <2>1, <2>3, <2>4, <2>5, <2>6, <2>7, GoesOn DEF InSection
<1> QED
  BY <1>2, <1>3, <1>4, <1>5, <1>6, <1>7, <1>8, <1>9, <1>10, <1>11

LEMMA HumansTyped ==
  ASSUME NEW p \in ProgType
  PROVE  HumansEdits(p) \in SUBSET (Authors \X Nat \X Nat)
<1>1. p.pending \subseteq Authors \X Nat \X Nat
  BY DEF ProgType, Tokens, Authors
<1>2. ASSUME NEW s \in ToSet(p.undo) PROVE s.edits \subseteq Authors \X Nat \X Nat
  <2>1. p.undo \in Seq(StepType)
    BY DEF ProgType
  <2>2. PICK i \in 1..Len(p.undo) : s = p.undo[i]
    BY <1>2, <2>1, LenProperties DEF ToSet
  <2>3. s \in StepType
    BY <2>1, <2>2, ElementOfSeq
  <2> QED
    BY <2>3 DEF StepType
<1> QED
  BY <1>1, <1>2 DEF HumansEdits, Contents

\* A step of a command that looks at the program, or ends it.
LEMMA LooksStep ==
  ASSUME MaxItems \in Nat, MaxCommands \in Nat, MaxForeign \in Nat, WritesIInv,
         ChecksRefuse \/ ReadModification \/ Decompile \/ DeadlinePasses \/ StartOuter \/ FinishWrite
  PROVE  WritesIInv'
<1>1. /\ prog \in ProgType /\ cmd \in CmdType /\ rec \in RecType
      /\ Brackets /\ Authorship /\ RecordIsTrue /\ ResultsAreTrue /\ CommandSoFar /\ FailureTold
      /\ edt \in {"free", "mecha"} /\ backend \in Backends
  BY DEF WritesIInv, WritesTyped
<1>2. CASE ChecksRefuse
  <2>1. /\ cmd.pc = "checks" /\ cmd' = [cmd EXCEPT !.pc = "done", !.error = TRUE, !.reply = "absent"]
        /\ UNCHANGED <<backend, prog, rec, edt, foreign>>
    BY <1>2 DEF ChecksRefuse
  <2>2. cmd' \in CmdType /\ Elsewhere(cmd', cmd) /\ cmd'.pc = "done" /\ cmd'.error /\ cmd'.reply = "absent"
    BY <1>1, <2>1 DEF Elsewhere, SameWork, CmdType, WritePcs
  <2>3. cmd.results = <<>> /\ cmd.steps = 0 /\ ~cmd.outside
    BY <1>1, <2>1 DEF CommandSoFar
  <2>4. \A i \in 1..MaxItems : Mine(i) \notin prog.pending \cup prog.landed
    BY <1>1, <2>1, <2>3 DEF ResultsAreTrue
  <2>5. Refuted'
    BY <2>1, <2>2, <2>4 DEF Refuted, Written, Mine, Elsewhere, SameWork
  <2>6. FailureTold'
    BY <2>2, <2>3, <2>5 DEF FailureTold, Elsewhere, SameWork
  <2>7. CommandSoFar'
    BY <1>1, <2>1, <2>2 DEF CommandSoFar, Elsewhere, SameWork
  <2>8. edt' = "mecha" <=> backend = "gui" /\ cmd'.pc \in InSection
    BY <1>1, <2>1, <2>2 DEF Brackets, InSection
  <2> QED
    BY <1>1, <2>1, <2>2, <2>3, <2>6, <2>7, <2>8, MoveStep DEF InOwn, InSection, Elsewhere
<1>3. CASE ReadModification \/ Decompile
  <2>1. cmd.pc \in {"decompile", "view"} /\ UNCHANGED <<backend, prog, rec, edt, foreign>>
    BY <1>3 DEF ReadModification, Decompile
  <2>2. cmd' \in CmdType /\ Elsewhere(cmd', cmd) /\ cmd'.pc \in {"view", "enter"} /\ (cmd'.error <=> cmd.error)
    <3>1. prog.mod \in Nat /\ HumansEdits(prog) \in SUBSET (Authors \X Nat \X Nat)
      BY <1>1, HumansTyped DEF ProgType
    <3>2. CASE cmd' = [cmd EXCEPT !.pc = "view", !.seen = prog.mod]
      BY <1>1, <3>1, <3>2 DEF Elsewhere, SameWork, CmdType, WritePcs
    <3>3. ASSUME NEW shown \in SUBSET (Authors \X Nat \X Nat),
                 cmd' = [cmd EXCEPT !.pc = "enter", !.view = "decompiled", !.shown = shown]
          PROVE  cmd' \in CmdType /\ Elsewhere(cmd', cmd) /\ cmd'.pc \in {"view", "enter"} /\ (cmd'.error <=> cmd.error)
      BY <1>1, <3>3 DEF Elsewhere, SameWork, CmdType, WritePcs
    <3>4. CASE cmd' = [cmd EXCEPT !.pc = "enter", !.view = "database"]
      BY <1>1, <3>4 DEF Elsewhere, SameWork, CmdType, WritePcs
    <3> QED
      BY <1>3, <3>1, <3>2, <3>3, <3>4 DEF ReadModification, Decompile
  <2>3. cmd.results = <<>> /\ ~cmd.error /\ ~InOwn /\ ~cmd.outer
    BY <1>1, <2>1 DEF CommandSoFar, InOwn
  <2>4. edt' \in {"free", "mecha"} /\ (edt' = "mecha" <=> backend = "gui" /\ cmd'.pc \in InSection)
    BY <1>1, <2>1, <2>2 DEF Brackets, InSection
  <2> QED
    BY <2>1, <2>2, <2>3, <2>4, GoesOn DEF InSection
<1>4. CASE DeadlinePasses
  <2>1. /\ cmd.pc \in {"wait", "queue"} /\ cmd' = [cmd EXCEPT !.late = TRUE]
        /\ UNCHANGED <<backend, prog, rec, edt, foreign>>
    BY <1>4 DEF DeadlinePasses
  <2>2. cmd' \in CmdType /\ Elsewhere(cmd', cmd) /\ cmd'.pc = cmd.pc /\ (cmd'.error <=> cmd.error)
    BY <1>1, <2>1 DEF Elsewhere, SameWork, CmdType
  <2>3. cmd.results = <<>> /\ ~cmd.error /\ ~InOwn /\ ~cmd.outer
    BY <1>1, <2>1 DEF CommandSoFar, InOwn
  <2>4. /\ edt' \in {"free", "mecha"} /\ (edt' = "mecha" <=> backend = "gui" /\ cmd'.pc \in InSection)
        /\ backend = "gui"
    BY <1>1, <2>1, <2>2 DEF Brackets, InSection
  <2> QED
    BY <2>1, <2>2, <2>3, <2>4, GoesOn DEF InSection
<1>5. CASE StartOuter
  <2>1. /\ cmd.pc = "section" /\ UNCHANGED <<backend, prog, rec, edt, foreign>>
        /\ Fail("leave") \/ cmd' = [cmd EXCEPT !.pc = "start", !.outer = TRUE] \/ Goto("item")
    BY <1>5 DEF StartOuter
  <2>2. cmd.results = <<>> /\ Len(cmd.results) = 0 /\ ~cmd.error /\ ~InOwn /\ ~cmd.outer /\ 0 < cmd.size
    BY <1>1, <2>1 DEF CommandSoFar, InOwn
  <2>3. <<>> \in Seq(EditOutcomes)
    BY EmptySeq
  <2>4. edt' \in {"free", "mecha"} /\ (edt' = "mecha" <=> backend = "gui")
    BY <1>1, <2>1 DEF Brackets, InSection
  <2>5. CASE Fail("leave")
    <3>1. cmd' \in CmdType /\ Elsewhere(cmd', cmd) /\ cmd'.pc = "leave" /\ cmd'.error
      BY <1>1, <2>5, WriteFailEffect DEF Fail, WritePcs, InSection
    <3> QED
      BY <2>1, <2>2, <2>4, <3>1, GoesOn DEF InSection
  <2>6. CASE Goto("item")
    <3>1. cmd' \in CmdType /\ Elsewhere(cmd', cmd) /\ cmd'.pc = "item" /\ (cmd'.error <=> cmd.error)
      BY <1>1, <2>6, WriteGotoEffect DEF Goto, WritePcs, InSection
    <3> QED
      BY <2>1, <2>2, <2>3, <2>4, <3>1, GoesOn DEF InSection
  <2>7. CASE cmd' = [cmd EXCEPT !.pc = "start", !.outer = TRUE]
    <3>1. cmd' \in CmdType /\ SameWork(cmd', cmd) /\ cmd'.pc = "start" /\ cmd'.outer /\ (cmd'.error <=> cmd.error)
      BY <1>1, <2>7 DEF SameWork, CmdType, WritePcs, InSection
    <3>2. CommandSoFar'
      BY <1>1, <2>1, <2>2, <2>3, <3>1 DEF CommandSoFar, SameWork
    <3>3. FailureTold' /\ ~InOwn'
      BY <3>1 DEF FailureTold, InOwn
    <3> QED
      BY <1>1, <2>1, <2>2, <2>4, <3>1, <3>2, <3>3, MoveStep DEF InSection
  <2> QED
    BY <2>1, <2>5, <2>6, <2>7
<1>6. CASE FinishWrite
  <2>1. /\ cmd.pc = "finish" /\ UNCHANGED <<backend, prog, rec, edt, foreign>>
        /\ cmd' = [cmd EXCEPT !.pc = "done", !.reply = IF cmd.error THEN OutputState(Outcome(rec)) ELSE "ok"]
    BY <1>6 DEF FinishWrite
  <2>2. OutputState(Outcome(rec)) \in {"absent", "created", "uncertain"}
    BY DEF OutputState, Outcome
  <2>3. /\ cmd' \in CmdType /\ Elsewhere(cmd', cmd) /\ cmd'.pc = "done" /\ (cmd'.error <=> cmd.error)
        /\ cmd.error => cmd'.reply = OutputState(Outcome(rec))
    <3> DEFINE reply == IF cmd.error THEN OutputState(Outcome(rec)) ELSE "ok"
    <3>1. reply \in {"none", "ok", "absent", "created", "uncertain"} /\ (cmd.error => reply = OutputState(Outcome(rec)))
      BY <2>2
    <3>2. cmd' = [cmd EXCEPT !.pc = "done", !.reply = reply]
      BY <2>1
    <3> HIDE DEF reply
    <3>3. cmd' \in CmdType /\ cmd'.reply = reply
      BY <1>1, <3>1, <3>2 DEF CmdType, WritePcs
    <3>4. cmd'.pc = "done" /\ (cmd'.error <=> cmd.error) /\ Elsewhere(cmd', cmd)
      BY <1>1, <3>2 DEF CmdType, Elsewhere, SameWork
    <3> QED
      BY <3>1, <3>3, <3>4
  <2>4. OutputState(Outcome(rec)) = "absent" => cmd.steps = 0 /\ ~cmd.outside /\ Refuted
    <3>1. OutputState(Outcome(rec)) = "absent" => ~rec.external /\ ~rec.open /\ ~rec.history /\ ~CommitNoted
      BY DEF OutputState, Outcome, CommitNoted
    <3> QED
      BY <1>1, <2>1, <3>1 DEF RecordIsTrue, Refuted, CmdType
  <2>5. OutputState(Outcome(rec)) = "created" => cmd.steps > 0 \/ \E e \in prog.landed : ForeignOrOurs(e)
    <3>1. OutputState(Outcome(rec)) = "created" => rec.history \/ CommitNoted
      BY DEF OutputState, Outcome, CommitNoted
    <3> QED
      BY <1>1, <2>1, <3>1 DEF RecordIsTrue
  <2>6. Written' = Written
    BY <2>3 DEF Written, Mine, Elsewhere, SameWork
  <2>7. FailureTold'
    BY <2>1, <2>3, <2>4, <2>5, <2>6 DEF FailureTold, Refuted, ForeignOrOurs, Elsewhere, SameWork
  <2>8. CommandSoFar'
    BY <1>1, <2>1, <2>3 DEF CommandSoFar, Elsewhere, SameWork
  <2>9. edt' = "mecha" <=> backend = "gui" /\ cmd'.pc \in InSection
    BY <1>1, <2>1, <2>3 DEF Brackets, InSection
  <2> QED
    BY <1>1, <2>1, <2>3, <2>7, <2>8, <2>9, MoveStep DEF InOwn, InSection, Elsewhere
<1> QED
  BY <1>2, <1>3, <1>4, <1>5, <1>6

\* A call arrives, and runs under a new record.
LEMMA CallsStep ==
  ASSUME MaxItems \in Nat, MaxCommands \in Nat, MaxForeign \in Nat, WritesIInv,
         \/ \E kind \in WriteKinds, size \in 1..MaxItems, atomic, dry \in BOOLEAN : CallWrite(kind, size, atomic, dry)
         \/ Execute
  PROVE  WritesIInv'
<1>1. /\ prog \in ProgType /\ cmd \in CmdType /\ rec \in RecType
      /\ Brackets /\ Authorship /\ RecordIsTrue /\ ResultsAreTrue /\ CommandSoFar /\ FailureTold
      /\ edt \in {"free", "mecha"} /\ backend \in Backends /\ foreign \in 0..MaxForeign
  BY DEF WritesIInv, WritesTyped
<1>2. ASSUME NEW kind \in WriteKinds, NEW size \in 1..MaxItems, NEW atomic \in BOOLEAN, NEW dry \in BOOLEAN,
             CallWrite(kind, size, atomic, dry)
      PROVE  WritesIInv'
  <2>1. /\ cmd.pc = "done" /\ cmd.n < MaxCommands /\ (kind = "batch" \/ (atomic /\ ~dry)) /\ (dry => backend # "gui")
        /\ cmd' = [NoCommand EXCEPT !.n = cmd.n + 1, !.kind = kind, !.pc = "checks",
                                    !.size = size, !.atomic = atomic, !.dry = dry]
        /\ UNCHANGED <<backend, prog, rec, edt, foreign>>
    BY <1>2 DEF CallWrite, GuiRefuses
  <2>2. cmd' = [n |-> cmd.n + 1, kind |-> kind, pc |-> "checks", atomic |-> atomic, dry |-> dry, size |-> size,
                view |-> "none", seen |-> 0, shown |-> {}, outer |-> FALSE, results |-> <<>>, steps |-> 0,
                outside |-> FALSE, error |-> FALSE, late |-> FALSE, reply |-> "none"]
    BY <2>1 DEF NoCommand
  <2>3. cmd.n + 1 \in 1..MaxCommands /\ size \in 0..MaxItems /\ <<>> \in Seq(ItemResults)
    BY <1>1, <2>1, EmptySeq DEF CmdType
  <2>4. cmd' \in CmdType
    BY <2>2, <2>3 DEF CmdType, WritePcs
  <2>5. /\ cmd'.pc = "checks" /\ cmd'.n = cmd.n + 1 /\ cmd'.results = <<>> /\ Len(cmd'.results) = 0 /\ cmd'.size = size
        /\ cmd'.kind = kind /\ (cmd'.atomic <=> atomic) /\ (cmd'.dry <=> dry) /\ ~cmd'.outer /\ ~cmd'.error
        /\ cmd'.steps = 0 /\ ~cmd'.outside
    BY <2>2
  <2>6. WritesTyped'
    BY <1>1, <2>1, <2>4 DEF WritesTyped
  <2>7. Brackets'
    BY <1>1, <2>1, <2>5 DEF Brackets, InOwn, InSection, Open
  <2>8. ASSUME NEW e \in prog.pending \cup prog.landed, Author(e) = "mecha" PROVE e[2] < cmd.n + 1
    <3>1. e \in Tokens
      BY <1>1 DEF ProgType
    <3>2. e[2] \in Nat /\ cmd.n \in Nat
      BY <1>1, <3>1 DEF Tokens, CmdType
    <3> QED
      BY <1>1, <2>8, <3>2 DEF Authorship
  <2>9. Authorship'
    <3>1. ASSUME NEW e \in prog.pending \cup prog.landed, Author(e) = "mecha" PROVE e[2] <= cmd'.n
      <4>1. e \in Tokens
        BY <1>1 DEF ProgType
      <4>2. e[2] \in Nat /\ cmd.n \in Nat
        BY <1>1, <4>1 DEF Tokens, CmdType
      <4> QED
        BY <2>5, <2>8, <3>1, <4>2
    <3> QED
      BY <2>1, <2>5, <3>1 DEF Authorship, InSection
  <2>10. \A i \in 1..MaxItems : Mine(i)' \notin prog.pending \cup prog.landed
    <3>1. SUFFICES ASSUME NEW i \in 1..MaxItems, Mine(i)' \in prog.pending \cup prog.landed PROVE FALSE
      OBVIOUS
    <3>2. Author(Mine(i)') = "mecha" /\ Mine(i)'[2] = cmd.n + 1
      BY <2>5 DEF Author, Mine
    <3>3. Mine(i)'[2] < cmd.n + 1
      BY <2>8, <3>1, <3>2
    <3> QED
      BY <2>3, <3>2, <3>3
  <2>11. ResultsAreTrue'
    BY <1>1, <2>1, <2>5, <2>10 DEF ResultsAreTrue
  <2>12. RecordIsTrue' /\ FailureTold'
    BY <2>5 DEF RecordIsTrue, FailureTold
  <2>13. CommandSoFar'
    BY <1>1, <2>1, <2>3, <2>5 DEF CommandSoFar, CmdType
  <2> QED
    BY <2>6, <2>7, <2>9, <2>11, <2>12, <2>13 DEF WritesIInv
<1>3. CASE Execute
  <2>1. cmd.pc = "checks" /\ UNCHANGED <<backend, prog, edt, foreign>>
    BY <1>3 DEF Execute
  <2>2. PICK listening \in BOOLEAN : rec' = NewRecord(listening)
    BY <1>3 DEF Execute
  <2>3. rec' \in RecType /\ ~rec'.open /\ rec'.ended = {} /\ ~rec'.history /\ ~rec'.external
    BY <2>2 DEF NewRecord, RecType
  <2>4. PICK pc \in {"decompile", "external", "enter"} : cmd' = [cmd EXCEPT !.pc = pc]
    BY <1>3 DEF Execute, Goto
  <2>5. cmd' \in CmdType /\ cmd'.pc = pc /\ (cmd'.error <=> cmd.error) /\ Elsewhere(cmd', cmd)
    BY <1>1, <2>4, WriteGotoEffect DEF WritePcs
  <2>6. cmd.results = <<>> /\ ~cmd.outer /\ ~cmd.error /\ cmd.steps = 0 /\ ~cmd.outside /\ cmd.size > 0 /\ cmd.n > 0
    BY <1>1, <2>1 DEF CommandSoFar
  <2>7. \A i \in 1..MaxItems : Mine(i) \notin prog.pending \cup prog.landed
    BY <1>1, <2>1, <2>6 DEF ResultsAreTrue
  <2>8. Written' = Written /\ \A i \in 1..MaxItems : Mine(i)' = Mine(i)
    BY <2>5 DEF Elsewhere, SameWork, Written, Mine
  <2>9. WritesTyped'
    BY <1>1, <2>1, <2>3, <2>5 DEF WritesTyped
  <2>10. Brackets'
    BY <1>1, <2>1, <2>3, <2>4, <2>5 DEF Brackets, InOwn, InSection, Open
  <2>11. Authorship'
    BY <1>1, <2>1, <2>3, <2>4, <2>5 DEF Authorship, InSection, Elsewhere, SameWork
  <2>12. \A e \in Written : e \notin prog.pending \cup prog.landed
    BY <2>7 DEF Written
  <2>13. RecordIsTrue'
    BY <1>1, <2>1, <2>3, <2>5, <2>6, <2>8, <2>12 DEF RecordIsTrue, CommitNoted, Elsewhere, SameWork
  <2>14. FailureTold'
    BY <2>4, <2>5 DEF FailureTold
  <2>15. ResultsAreTrue'
    BY <1>1, <2>1, <2>5, <2>6, <2>7, <2>8 DEF ResultsAreTrue, Elsewhere, SameWork
  <2>16. CommandSoFar'
    BY <1>1, <2>1, <2>4, <2>5, <2>6 DEF CommandSoFar, Elsewhere, SameWork
  <2> QED
    BY <2>9, <2>10, <2>11, <2>13, <2>14, <2>15, <2>16 DEF WritesIInv
<1> QED
  BY <1>2, <1>3

\* Results are compared item by item: an item that is over stays over, and true.
LEMMA AppendResult ==
  ASSUME NEW s \in Seq(ItemResults), NEW r \in ItemResults
  PROVE  /\ Append(s, r) \in Seq(ItemResults) /\ Len(Append(s, r)) = Len(s) + 1
         /\ \A i \in 1..Len(s) : Append(s, r)[i] = s[i]
         /\ Append(s, r)[Len(s) + 1] = r /\ Len(s) \in Nat
         /\ Append(s, r) # <<>> /\ Last(Append(s, r)) = r
         /\ s \in Seq(EditOutcomes) /\ r \in EditOutcomes => Append(s, r) \in Seq(EditOutcomes)
<1>1. /\ Append(s, r) \in Seq(ItemResults) /\ Len(Append(s, r)) = Len(s) + 1 /\ Len(s) \in Nat
      /\ \A i \in 1..Len(s) : Append(s, r)[i] = s[i]
      /\ Append(s, r)[Len(s) + 1] = r
  BY AppendProperties, LenProperties
<1>2. Append(s, r) # <<>> /\ Last(Append(s, r)) = r
  BY <1>1, EmptySeq DEF Last
<1>3. s \in Seq(EditOutcomes) /\ r \in EditOutcomes => Append(s, r) \in Seq(EditOutcomes)
  BY AppendProperties
<1> QED
  BY <1>1, <1>2, <1>3

LEMMA StartItemStep ==
  ASSUME MaxItems \in Nat, MaxCommands \in Nat, MaxForeign \in Nat, WritesIInv, StartItem
  PROVE  WritesIInv'
<1>1. /\ prog \in ProgType /\ cmd \in CmdType /\ rec \in RecType
      /\ Brackets /\ Authorship /\ RecordIsTrue /\ ResultsAreTrue /\ CommandSoFar
      /\ edt \in {"free", "mecha"}
  BY DEF WritesIInv, WritesTyped
<1>2. cmd.pc = "item" /\ MoreItems /\ ~cmd.outer /\ UNCHANGED <<backend, prog, rec, edt, foreign>>
  BY DEF StartItem
<1>3. ~cmd.error /\ ~InOwn /\ cmd.results \in Seq(EditOutcomes) /\ cmd.results \in Seq(ItemResults) /\ cmd.size \in 0..MaxItems
  BY <1>1, <1>2 DEF CommandSoFar, InOwn, CmdType
<1>4. Len(cmd.results) \in Nat /\ Len(cmd.results) < cmd.size /\ Len(cmd.results) + 1 \in 1..MaxItems
  BY <1>2, <1>3, LenProperties DEF MoreItems
<1>5. edt' = "mecha" <=> backend = "gui"
  BY <1>1, <1>2 DEF Brackets, InSection
<1>6. CASE ~ForeignOpen
  <2>1. cmd' \in CmdType /\ Elsewhere(cmd', cmd) /\ cmd'.pc = "start" /\ (cmd'.error <=> cmd.error)
    BY <1>1, <1>6, WriteGotoEffect DEF StartItem, Goto, WritePcs, InSection
  <2> QED
    BY <1>1, <1>2, <1>3, <1>4, <1>5, <2>1, GoesOn DEF InSection
<1>7. CASE ForeignOpen
  <2> DEFINE more == Append(cmd.results, "failed")
  <2>1. cmd' = [cmd EXCEPT !.results = more]
    BY <1>7 DEF StartItem
  <2>2. /\ more \in Seq(ItemResults) /\ Len(more) = Len(cmd.results) + 1
        /\ \A i \in 1..Len(cmd.results) : more[i] = cmd.results[i]
        /\ more[Len(cmd.results) + 1] = "failed" /\ more \in Seq(EditOutcomes) /\ more # <<>>
    BY <1>3, AppendResult DEF ItemResults, EditOutcomes
  <2> HIDE DEF more
  <2>3. /\ cmd' \in CmdType /\ cmd'.pc = "item" /\ cmd'.results = more /\ ~cmd'.outer /\ ~cmd'.error /\ cmd'.n = cmd.n
        /\ cmd'.kind = cmd.kind /\ (cmd'.atomic <=> cmd.atomic) /\ (cmd'.dry <=> cmd.dry) /\ cmd'.size = cmd.size
        /\ cmd'.steps = cmd.steps /\ (cmd'.outside <=> cmd.outside)
    BY <1>1, <1>2, <1>3, <2>1, <2>2 DEF CmdType
  <2>4. Written' = Written /\ \A i \in 1..MaxItems : Mine(i)' = Mine(i)
    BY <2>3 DEF Written, Mine
  <2>5. WritesTyped'
    BY <1>2, <2>3 DEF WritesIInv, WritesTyped
  <2>6. Brackets'
    BY <1>1, <1>2, <1>3, <2>3 DEF Brackets, InOwn, Open
  <2>7. Authorship'
    BY <1>1, <1>2, <2>3, <2>4 DEF Authorship, InSection
  <2>8. RecordIsTrue'
    BY <1>1, <1>2, <2>3, <2>4 DEF RecordIsTrue, CommitNoted, ForeignOrOurs
  <2>9. FailureTold' /\ CommandSoFar'
    BY <1>1, <1>2, <1>3, <1>4, <2>2, <2>3 DEF FailureTold, CommandSoFar
  <2>10. ResultsAreTrue'
    <3>1. \A i \in 1..MaxItems : i > Len(more) => Mine(i) \notin prog.pending \cup prog.landed
      BY <1>1, <1>2, <1>4, <2>2 DEF ResultsAreTrue
    <3>2. ASSUME NEW i \in 1..Len(more) PROVE Over(i)' /\ IsTrueOf(i)'
      <4>1. CASE i = Len(cmd.results) + 1
        BY <1>1, <1>2, <1>4, <2>2, <2>3, <2>4, <4>1 DEF ResultsAreTrue, Over, IsTrueOf
      <4>2. CASE i \in 1..Len(cmd.results)
        BY <1>1, <1>2, <1>4, <2>2, <2>3, <2>4, <4>2 DEF ResultsAreTrue, Over, IsTrueOf
      <4> QED
        BY <1>4, <2>2, <4>1, <4>2
    <3>3. backend # "gui" => ~prog.aborted
      BY <1>1, <1>2 DEF ResultsAreTrue
    <3> QED
      BY <1>2, <1>4, <2>2, <2>3, <2>4, <3>1, <3>2, <3>3 DEF ResultsAreTrue
  <2> QED
    BY <2>5, <2>6, <2>7, <2>8, <2>9, <2>10 DEF WritesIInv
<1> QED
  BY <1>6, <1>7

LEMMA StartTransactionStep ==
  ASSUME MaxItems \in Nat, MaxCommands \in Nat, MaxForeign \in Nat, WritesIInv, StartTransaction
  PROVE  WritesIInv'
<1>1. /\ prog \in ProgType /\ cmd \in CmdType /\ rec \in RecType
      /\ Brackets /\ Authorship /\ RecordIsTrue /\ ResultsAreTrue /\ CommandSoFar
      /\ edt \in {"free", "mecha"}
  BY DEF WritesIInv, WritesTyped
<1>2. cmd.pc = "start" /\ UNCHANGED <<backend, edt, foreign>> /\ prog' = Started(prog, "Mecha")
  BY DEF StartTransaction
<1>3. prog.own = 0 /\ ~InOwn
  BY <1>1, <1>2 DEF Brackets, InOwn, ProgType
<1>4. /\ prog' \in ProgType /\ prog'.own = 1 /\ (prog'.other <=> prog.other) /\ (prog'.aborted <=> prog.aborted)
      /\ prog'.pending = prog.pending /\ prog'.landed = prog.landed
  BY <1>1, <1>2, <1>3, StartedEffect
<1>5. rec' \in RecType /\ rec'.open /\ rec'.ended = rec.ended /\ (rec'.history <=> rec.history) /\ (rec'.external <=> rec.external)
  BY <1>1 DEF StartTransaction, RecType
<1>6. /\ cmd' \in CmdType /\ cmd'.pc = (IF cmd.outer THEN "item" ELSE "edit") /\ (cmd'.error <=> cmd.error)
      /\ Elsewhere(cmd', cmd)
  BY <1>1, WriteGotoEffect DEF StartTransaction, Goto, WritePcs, InSection
<1>7. Written' = Written /\ \A i \in 1..MaxItems : Mine(i)' = Mine(i)
  BY <1>6 DEF Written, Mine, Elsewhere, SameWork
<1>8. cmd'.results = cmd.results /\ Len(cmd.results) \in 0..MaxItems
  BY <1>1, <1>6, LenProperties DEF CommandSoFar, CmdType, Elsewhere, SameWork
<1>9. WritesTyped'
  BY <1>2, <1>4, <1>5, <1>6 DEF WritesIInv, WritesTyped
<1>10. Brackets'
  BY <1>1, <1>2, <1>4, <1>5, <1>6 DEF Brackets, InOwn, InSection, Open, Elsewhere
<1>11. Authorship'
  BY <1>1, <1>2, <1>4, <1>6, <1>7 DEF Authorship, InSection, Elsewhere, SameWork, Author
<1>12. RecordIsTrue'
  BY <1>1, <1>2, <1>4, <1>5, <1>6, <1>7 DEF RecordIsTrue, CommitNoted, ForeignOrOurs, Elsewhere, SameWork
<1>13. FailureTold' /\ CommandSoFar'
  BY <1>1, <1>2, <1>6 DEF FailureTold, CommandSoFar, Elsewhere, SameWork
<1>14. ResultsAreTrue'
  <2>1. ASSUME NEW i \in 1..Len(cmd.results)
        PROVE  (Over(i)' <=> Over(i)) /\ (IsTrueOf(i)' <=> IsTrueOf(i)) /\ (WillBeTrueOf(i)' <=> WillBeTrueOf(i))
    BY <1>2, <1>4, <1>6, <1>7, <1>8, <2>1 DEF Over, IsTrueOf, WillBeTrueOf, Elsewhere
  <2>2. backend # "gui" => ~prog.aborted
    BY <1>1, <1>2 DEF ResultsAreTrue
  <2> QED
    BY <1>1, <1>2, <1>4, <1>6, <1>7, <1>8, <2>1, <2>2 DEF ResultsAreTrue
<1> QED
  BY <1>9, <1>10, <1>11, <1>12, <1>13, <1>14 DEF WritesIInv

LEMMA HistoryStepStep ==
  ASSUME MaxItems \in Nat, MaxCommands \in Nat, MaxForeign \in Nat, WritesIInv, HistoryStep
  PROVE  WritesIInv'
<1>1. /\ prog \in ProgType /\ cmd \in CmdType /\ rec \in RecType
      /\ Brackets /\ Authorship /\ RecordIsTrue /\ ResultsAreTrue /\ CommandSoFar
      /\ edt \in {"free", "mecha"}
  BY DEF WritesIInv, WritesTyped
<1>2. cmd.pc = "history" /\ UNCHANGED <<backend, edt, foreign>> /\ prog' = Stepped(prog, cmd.kind)
  BY DEF HistoryStep
<1>3. /\ prog' \in ProgType /\ prog'.own = prog.own /\ (prog'.other <=> prog.other) /\ (prog'.aborted <=> prog.aborted)
      /\ prog'.pending = prog.pending /\ prog'.landed = prog.landed
  BY <1>1, <1>2, SteppedEffect
<1>4. /\ rec' \in RecType /\ rec'.history /\ (rec'.open <=> rec.open) /\ rec'.ended = rec.ended
      /\ (rec'.external <=> rec.external)
  BY <1>1 DEF HistoryStep, RecType
<1>5. /\ cmd' \in CmdType /\ cmd'.pc = "section" /\ cmd'.steps = cmd.steps + 1 /\ cmd.steps \in Nat
      /\ (cmd'.error <=> cmd.error) /\ cmd'.n = cmd.n /\ cmd'.results = cmd.results /\ (cmd'.outer <=> cmd.outer)
      /\ cmd'.kind = cmd.kind /\ (cmd'.atomic <=> cmd.atomic) /\ (cmd'.dry <=> cmd.dry) /\ cmd'.size = cmd.size
      /\ (cmd'.outside <=> cmd.outside)
  <2>1. cmd.steps + 1 \in Nat /\ cmd' = [cmd EXCEPT !.pc = "section", !.steps = cmd.steps + 1]
    BY <1>1 DEF HistoryStep, CmdType
  <2>2. "section" \in WritePcs /\ cmd.steps \in Nat
    BY <1>1 DEF WritePcs, InSection, CmdType
  <2>3. cmd' \in CmdType
    BY <1>1, <2>1, <2>2 DEF CmdType
  <2>4. /\ cmd'.pc = "section" /\ cmd'.steps = cmd.steps + 1
        /\ (cmd'.error <=> cmd.error) /\ cmd'.n = cmd.n /\ cmd'.results = cmd.results /\ (cmd'.outer <=> cmd.outer)
    BY <1>1, <2>1 DEF CmdType
  <2>5. /\ cmd'.kind = cmd.kind /\ (cmd'.atomic <=> cmd.atomic) /\ (cmd'.dry <=> cmd.dry) /\ cmd'.size = cmd.size
        /\ (cmd'.outside <=> cmd.outside)
    BY <1>1, <2>1 DEF CmdType
  <2> QED
    BY <2>2, <2>3, <2>4, <2>5
<1>6. Written' = Written /\ \A i \in 1..MaxItems : Mine(i)' = Mine(i)
  BY <1>5 DEF Written, Mine
<1>7. cmd.results = <<>> /\ Len(cmd.results) = 0 /\ ~cmd.outer /\ ~cmd.error
  BY <1>1, <1>2 DEF CommandSoFar
<1>8. WritesTyped'
  BY <1>2, <1>3, <1>4, <1>5 DEF WritesIInv, WritesTyped
<1>9. Brackets'
  BY <1>1, <1>2, <1>3, <1>4, <1>5 DEF Brackets, InOwn, InSection, Open
<1>10. Authorship'
  BY <1>1, <1>2, <1>3, <1>4, <1>5, <1>6 DEF Authorship, InSection
<1>11. RecordIsTrue'
  BY <1>1, <1>2, <1>3, <1>4, <1>5, <1>6 DEF RecordIsTrue, CommitNoted, ForeignOrOurs
<1>12. FailureTold' /\ CommandSoFar'
  BY <1>1, <1>2, <1>5, <1>7 DEF FailureTold, CommandSoFar
<1>13. ResultsAreTrue'
  BY <1>1, <1>2, <1>3, <1>5, <1>6, <1>7 DEF ResultsAreTrue
<1> QED
  BY <1>8, <1>9, <1>10, <1>11, <1>12, <1>13 DEF WritesIInv

LEMMA ExternalWriteStep ==
  ASSUME MaxItems \in Nat, MaxCommands \in Nat, MaxForeign \in Nat, WritesIInv, ExternalWrite
  PROVE  WritesIInv'
<1>1. /\ prog \in ProgType /\ cmd \in CmdType /\ rec \in RecType
      /\ Brackets /\ Authorship /\ RecordIsTrue /\ ResultsAreTrue /\ CommandSoFar
      /\ edt \in {"free", "mecha"}
  BY DEF WritesIInv, WritesTyped
<1>2. cmd.pc = "external" /\ UNCHANGED <<backend, prog, edt, foreign>>
  BY DEF ExternalWrite
<1>3. /\ rec' \in RecType /\ rec'.external /\ (rec'.open <=> rec.open) /\ rec'.ended = rec.ended
      /\ (rec'.history <=> rec.history)
  BY <1>1 DEF ExternalWrite, RecType
<1>4. PICK landed \in BOOLEAN, fails \in BOOLEAN :
        cmd' = [cmd EXCEPT !.pc = "finish", !.outside = landed, !.error = fails]
  BY DEF ExternalWrite
<1>5. /\ cmd' \in CmdType /\ cmd'.pc = "finish" /\ cmd'.steps = cmd.steps
      /\ cmd'.n = cmd.n /\ cmd'.results = cmd.results /\ (cmd'.outer <=> cmd.outer)
      /\ cmd'.kind = cmd.kind /\ (cmd'.atomic <=> cmd.atomic) /\ (cmd'.dry <=> cmd.dry) /\ cmd'.size = cmd.size
  BY <1>1, <1>4 DEF CmdType, WritePcs
<1>6. Written' = Written /\ \A i \in 1..MaxItems : Mine(i)' = Mine(i)
  BY <1>5 DEF Written, Mine
<1>7. ~cmd.error /\ Len(cmd.results) \in 0..MaxItems /\ ~InOwn
  BY <1>1, <1>2, LenProperties DEF CommandSoFar, CmdType, InOwn
<1>8. WritesTyped'
  BY <1>2, <1>3, <1>5 DEF WritesIInv, WritesTyped
<1>9. Brackets'
  BY <1>1, <1>2, <1>3, <1>5 DEF Brackets, InOwn, InSection, Open
<1>10. Authorship'
  BY <1>1, <1>2, <1>3, <1>5, <1>6 DEF Authorship, InSection
<1>11. RecordIsTrue'
  BY <1>1, <1>2, <1>3, <1>5, <1>6 DEF RecordIsTrue, CommitNoted, ForeignOrOurs
<1>12. FailureTold' /\ CommandSoFar'
  BY <1>1, <1>2, <1>5, <1>7 DEF FailureTold, CommandSoFar
<1>13. ResultsAreTrue'
  <2>1. ASSUME NEW i \in 1..Len(cmd.results) PROVE IsTrueOf(i)'
    BY <1>1, <1>2, <1>5, <1>6, <1>7, <2>1 DEF IsTrueOf, ResultsAreTrue
  <2>2. backend # "gui" => ~prog.aborted
    BY <1>1, <1>2 DEF ResultsAreTrue
  <2> QED
    BY <1>2, <1>5, <2>1, <2>2 DEF ResultsAreTrue
<1> QED
  BY <1>8, <1>9, <1>10, <1>11, <1>12, <1>13 DEF WritesIInv

LEMMA EditedEffect ==
  ASSUME NEW p \in ProgType, NEW i, Mine(i) \in Tokens, NEW result, NEW q, q = Edited(p, i, result)
  PROVE  /\ q \in ProgType /\ q.own = p.own /\ (q.other <=> p.other) /\ q.landed = p.landed /\ q.undo = p.undo
         /\ (q.aborted <=> p.aborted \/ result = "aborted")
         /\ q.pending = p.pending \cup (IF result \in {"applied", "halfway"} THEN {Mine(i)} ELSE {})
<1> DEFINE edits == IF result \in {"applied", "halfway"} THEN {Mine(i)} ELSE {}
           c == Changed(p, edits)
<1>1. edits \in SUBSET Tokens
  OBVIOUS
<1>2. q = (IF result = "aborted" THEN [c EXCEPT !.aborted = TRUE] ELSE c)
  BY DEF Edited
<1> HIDE DEF edits
<1>3. /\ c \in ProgType /\ c.own = p.own /\ (c.other <=> p.other) /\ (c.aborted <=> p.aborted)
      /\ c.pending = p.pending \cup edits /\ c.landed = p.landed /\ c.undo = p.undo
  BY <1>1, ChangedEffect
<1> HIDE DEF c
<1>4. CASE result = "aborted"
  <2>1. q = [c EXCEPT !.aborted = TRUE]
    BY <1>2, <1>4
  <2>2. q \in ProgType
    BY <1>3, <2>1 DEF ProgType
  <2>3. q.own = c.own /\ (q.other <=> c.other) /\ q.aborted /\ q.pending = c.pending /\ q.landed = c.landed /\ q.undo = c.undo
    BY <1>3, <2>1 DEF ProgType
  <2> QED
    BY <1>3, <1>4, <2>2, <2>3 DEF edits
<1>5. CASE result # "aborted"
  BY <1>2, <1>3, <1>5 DEF edits
<1> QED
  BY <1>4, <1>5

LEMMA EditStep ==
  ASSUME MaxItems \in Nat, MaxCommands \in Nat, MaxForeign \in Nat, WritesIInv, Edit \/ (CheckView /\ Stale)
  PROVE  WritesIInv'
<1>1. /\ prog \in ProgType /\ cmd \in CmdType /\ rec \in RecType
      /\ Brackets /\ Authorship /\ RecordIsTrue /\ ResultsAreTrue /\ CommandSoFar
      /\ edt \in {"free", "mecha"}
  BY DEF WritesIInv, WritesTyped
<1>2. InOwn /\ cmd.pc \in {"item", "edit", "write"} /\ UNCHANGED <<backend, rec, edt, foreign>>
  BY DEF Edit, CheckView, InOwn
<1>3. /\ prog.own = 1 /\ rec.open /\ ~cmd.error /\ cmd.n > 0 /\ (cmd.pc = "edit" => ~cmd.outer)
      /\ (cmd.pc \in {"item", "write"} => cmd.outer)
      /\ cmd.results \in Seq(EditOutcomes) /\ cmd.results \in Seq(ItemResults) /\ cmd.size \in 0..MaxItems
  BY <1>1, <1>2 DEF Brackets, CommandSoFar, CmdType, InOwn
<1>4. Len(cmd.results) \in Nat /\ Len(cmd.results) < cmd.size
  BY <1>1, <1>2, <1>3, LenProperties DEF Edit, CheckView, MoreItems, CommandSoFar
<1>5. PICK L \in Nat : L = Len(cmd.results)
  BY <1>4
<1>6. PICK i \in 1..MaxItems : i = L + 1
  BY <1>3, <1>4, <1>5
<1>7. L = Len(cmd.results) /\ L \in Nat /\ L < cmd.size /\ i = L + 1 /\ i \in 1..MaxItems
  BY <1>4, <1>5, <1>6
<1>8. PICK result \in EditResults, kept \in EditOutcomes :
        /\ (kept = "applied" <=> result = "applied") /\ (result = "aborted" => kept = "failed")
        /\ kept \in {"same", "skipped"} => result \notin {"applied", "halfway"}
        /\ prog' = Edited(prog, i, result)
        /\ cmd' = IF cmd.outer THEN [cmd EXCEPT !.pc = "item", !.results = Append(@, kept)]
                  ELSE [cmd EXCEPT !.pc = "itemend", !.results = Append(@, kept)]
  <2>1. CASE Edit
    <3>1. PICK result \in EditResults :
            LET kept == IF result \in {"applied", "same"} THEN result
                        ELSE IF cmd.kind = "matches" THEN "skipped" ELSE "failed"
            IN  /\ prog' = Edited(prog, i, result)
                /\ cmd' = IF cmd.outer THEN [cmd EXCEPT !.pc = "item", !.results = Append(@, kept)]
                          ELSE [cmd EXCEPT !.pc = "itemend", !.results = Append(@, kept)]
      BY <1>7, <2>1 DEF Edit
    <3> QED
      BY <3>1 DEF EditOutcomes, EditResults
  <2>2. CASE CheckView /\ Stale
    <3>1. /\ cmd.pc = "item" /\ cmd.outer /\ prog' = prog
          /\ cmd' = [cmd EXCEPT !.results = Append(@, "failed")]
      BY <2>2 DEF CheckView
    <3>2. prog = Edited(prog, i, "refused")
      BY <1>1 DEF Edited, Changed, ProgType
    <3>3. cmd' = [cmd EXCEPT !.pc = "item", !.results = Append(@, "failed")]
      BY <1>1, <3>1 DEF CmdType
    <3> QED
      BY <3>1, <3>2, <3>3 DEF EditOutcomes, EditResults
  <2> QED
    BY <2>1, <2>2
<1> DEFINE more == Append(cmd.results, kept)
<1>9. /\ kept \in EditOutcomes /\ (kept = "applied" <=> result = "applied") /\ (result = "aborted" => kept = "failed")
      /\ kept \in {"same", "skipped"} => result \notin {"applied", "halfway"}
  BY <1>8
<1>10. cmd' = IF cmd.outer THEN [cmd EXCEPT !.pc = "item", !.results = more]
              ELSE [cmd EXCEPT !.pc = "itemend", !.results = more]
  BY <1>8
<1>11. /\ more \in Seq(ItemResults) /\ Len(more) = L + 1 /\ more \in Seq(EditOutcomes) /\ more # <<>>
       /\ \A j \in 1..L : more[j] = cmd.results[j]
       /\ more[i] = kept
  BY <1>3, <1>7, <1>9, AppendResult DEF ItemResults
<1> HIDE DEF more
<1>12. /\ cmd' \in CmdType /\ cmd'.pc = (IF cmd.outer THEN "item" ELSE "itemend") /\ cmd'.results = more
       /\ (cmd'.outer <=> cmd.outer) /\ ~cmd'.error /\ cmd'.n = cmd.n
       /\ cmd'.kind = cmd.kind /\ (cmd'.atomic <=> cmd.atomic) /\ (cmd'.dry <=> cmd.dry) /\ cmd'.size = cmd.size
       /\ cmd'.steps = cmd.steps /\ (cmd'.outside <=> cmd.outside)
  <2>1. CASE cmd.outer
    <3>1. cmd' = [cmd EXCEPT !.pc = "item", !.results = more]
      BY <1>10, <2>1
    <3> QED
      BY <1>1, <1>3, <1>11, <2>1, <3>1 DEF CmdType, WritePcs, InSection
  <2>2. CASE ~cmd.outer
    <3>1. cmd' = [cmd EXCEPT !.pc = "itemend", !.results = more]
      BY <1>10, <2>2
    <3> QED
      BY <1>1, <1>3, <1>11, <2>2, <3>1 DEF CmdType, WritePcs, InSection
  <2> QED
    BY <2>1, <2>2
<1>13. Written' = Written /\ \A j \in 1..MaxItems : Mine(j)' = Mine(j)
  BY <1>12 DEF Written, Mine
<1>14. /\ Mine(i) \in Tokens /\ Mine(i) \in Written /\ Author(Mine(i)) = "mecha" /\ Mine(i)[2] = cmd.n
       /\ \A j \in 1..MaxItems : j # i => Mine(j) # Mine(i)
  BY <1>1, <1>3, <1>7, OursAreTokens
<1>15. /\ prog' \in ProgType /\ prog'.own = 1 /\ (prog'.other <=> prog.other) /\ prog'.landed = prog.landed
       /\ (prog'.aborted <=> prog.aborted \/ result = "aborted")
       /\ prog'.pending = prog.pending \cup (IF result \in {"applied", "halfway"} THEN {Mine(i)} ELSE {})
  BY <1>1, <1>3, <1>8, <1>14, EditedEffect
<1>16. WritesTyped'
  BY <1>2, <1>12, <1>15 DEF WritesIInv, WritesTyped
<1>17. Brackets'
  BY <1>1, <1>2, <1>3, <1>12, <1>15 DEF Brackets, InOwn, InSection, Open
<1>18. Authorship'
  <2>1. \A e \in prog'.pending : e \in prog.pending \/ e = Mine(i)
    BY <1>15
  <2>2. \A e \in prog'.pending \cup prog'.landed : Author(e) = "mecha" => e[2] <= cmd'.n
    BY <1>1, <1>12, <1>14, <1>15, <2>1 DEF Authorship, CmdType
  <2> QED
    BY <1>1, <1>2, <1>12, <1>13, <1>14, <1>15, <2>1, <2>2 DEF Authorship, InSection
<1>19. RecordIsTrue'
  BY <1>1, <1>2, <1>3, <1>12, <1>13, <1>15 DEF RecordIsTrue, CommitNoted, ForeignOrOurs
<1>20. FailureTold' /\ CommandSoFar'
  BY <1>1, <1>2, <1>3, <1>7, <1>11, <1>12 DEF FailureTold, CommandSoFar
<1>21. Mine(i) \notin prog.pending \cup prog.landed
  BY <1>1, <1>2, <1>7 DEF ResultsAreTrue
<1>22. ResultsAreTrue'
  <2>1. ASSUME NEW j \in 1..MaxItems, j > i PROVE Mine(j) \notin prog'.pending \cup prog'.landed
    <3>1. Mine(j) \notin prog.pending \cup prog.landed /\ Mine(j) # Mine(i)
      BY <1>1, <1>2, <1>7, <1>14, <2>1 DEF ResultsAreTrue
    <3> QED
      BY <1>15, <3>1
  <2>2. ~Over(i)' /\ WillBeTrueOf(i)'
    <3>1. cmd'.results[i] = kept /\ Len(cmd'.results) = i /\ Mine(i)' = Mine(i)
      BY <1>7, <1>11, <1>12, <1>13
    <3>2. ~Over(i)'
      BY <1>12, <3>1 DEF Over
    <3>3. /\ Mine(i) \notin prog'.landed
          /\ kept = "applied" => Mine(i) \in prog'.pending
          /\ kept \in {"same", "skipped"} => Mine(i) \notin prog'.pending
      BY <1>9, <1>15, <1>21
    <3> QED
      BY <3>1, <3>2, <3>3 DEF WillBeTrueOf
  <2>3. ASSUME NEW j \in 1..L PROVE IF Over(j)' THEN IsTrueOf(j)' ELSE WillBeTrueOf(j)'
    <3>1. /\ Mine(j) # Mine(i) /\ Mine(j)' = Mine(j) /\ more[j] = cmd.results[j]
          /\ IF Over(j) THEN IsTrueOf(j) ELSE WillBeTrueOf(j)
      BY <1>1, <1>2, <1>7, <1>11, <1>13, <1>14, <2>3 DEF ResultsAreTrue
    <3>2. Mine(j) \in prog'.pending <=> Mine(j) \in prog.pending
      BY <1>15, <3>1
    <3> QED
      BY <1>2, <1>3, <1>7, <1>11, <1>12, <1>15, <3>1, <3>2 DEF Over, IsTrueOf, WillBeTrueOf
  <2>4. ASSUME NEW j \in 1..Len(more) PROVE IF Over(j)' THEN IsTrueOf(j)' ELSE WillBeTrueOf(j)'
    BY <1>7, <1>11, <2>2, <2>3
  <2>5. ASSUME backend # "gui", prog'.aborted
        PROVE  \/ cmd'.pc = "item" /\ cmd'.outer /\ \E j \in 1..Len(more) : more[j] = "failed"
               \/ cmd'.pc = "itemend" /\ more[Len(more)] = "failed"
    <3>1. CASE result = "aborted"
      <4>1. i \in 1..Len(more) /\ i = Len(more) /\ more[i] = "failed"
        BY <1>7, <1>9, <1>11, <3>1
      <4> QED
        BY <1>12, <4>1
    <3>2. CASE prog.aborted
      <4>1. cmd.outer /\ \E j \in 1..L : cmd.results[j] = "failed"
        BY <1>1, <1>2, <1>7, <2>5, <3>2 DEF ResultsAreTrue
      <4> QED
        BY <1>7, <1>11, <1>12, <4>1
    <3> QED
      BY <1>15, <2>5, <3>1, <3>2
  <2> QED
    BY <1>2, <1>7, <1>11, <1>12, <1>13, <2>1, <2>4, <2>5 DEF ResultsAreTrue
<1> QED
  BY <1>16, <1>17, <1>18, <1>19, <1>20, <1>22 DEF WritesIInv

LEMMA CheckViewStep ==
  ASSUME MaxItems \in Nat, MaxCommands \in Nat, MaxForeign \in Nat, WritesIInv, CheckView
  PROVE  WritesIInv'
<1>1. /\ prog \in ProgType /\ cmd \in CmdType /\ rec \in RecType
      /\ Brackets /\ Authorship /\ RecordIsTrue /\ ResultsAreTrue /\ CommandSoFar
  BY DEF WritesIInv, WritesTyped
<1>2. cmd.pc = "item" /\ cmd.outer /\ MoreItems /\ InOwn /\ UNCHANGED <<backend, prog, rec, edt, foreign>>
  BY DEF CheckView, InOwn
<1>3. CASE ~Stale
  <2>1. cmd' \in CmdType /\ Elsewhere(cmd', cmd) /\ cmd'.pc = "write" /\ (cmd'.error <=> cmd.error)
    BY <1>1, <1>3, WriteGotoEffect DEF CheckView, Goto, WritePcs, InSection
  <2>2. Written' = Written /\ \A i \in 1..MaxItems : Mine(i)' = Mine(i)
    BY <2>1 DEF Written, Mine, Elsewhere, SameWork
  <2>3. cmd'.results = cmd.results /\ cmd'.outer /\ Len(cmd.results) \in 0..MaxItems
    BY <1>1, <1>2, <2>1, LenProperties DEF CommandSoFar, CmdType, Elsewhere, SameWork
  <2>4. WritesTyped'
    BY <1>2, <2>1 DEF WritesIInv, WritesTyped
  <2>5. Brackets'
    BY <1>1, <1>2, <2>1, <2>3 DEF Brackets, InOwn, InSection, Open
  <2>6. Authorship'
    BY <1>1, <1>2, <2>1, <2>2 DEF Authorship, InSection, Elsewhere, SameWork
  <2>7. RecordIsTrue'
    BY <1>1, <1>2, <2>1, <2>2 DEF RecordIsTrue, CommitNoted, ForeignOrOurs, Elsewhere, SameWork
  <2>8. FailureTold' /\ CommandSoFar'
    BY <1>1, <1>2, <2>1 DEF FailureTold, CommandSoFar, MoreItems, Elsewhere, SameWork
  <2>9. ResultsAreTrue'
    <3>1. ASSUME NEW i \in 1..Len(cmd.results)
          PROVE  (Over(i)' <=> Over(i)) /\ (IsTrueOf(i)' <=> IsTrueOf(i)) /\ (WillBeTrueOf(i)' <=> WillBeTrueOf(i))
      BY <1>2, <2>1, <2>2, <2>3, <3>1 DEF Over, IsTrueOf, WillBeTrueOf
    <3> QED
      BY <1>1, <1>2, <2>1, <2>2, <2>3, <3>1 DEF ResultsAreTrue
  <2> QED
    BY <2>4, <2>5, <2>6, <2>7, <2>8, <2>9 DEF WritesIInv
<1> QED
  BY <1>3, EditStep

\* Mecha's entry is given back: what the program and the record are then.
LEMMA EndTransactionEffect ==
  ASSUME MaxItems \in Nat, MaxCommands \in Nat, MaxForeign \in Nat, WritesIInv, InOwn,
         NEW commit \in BOOLEAN, prog' = LeftBy(prog, "Mecha", commit), rec' = InfoAfter(rec, prog, "Mecha", commit),
         UNCHANGED <<backend, edt, foreign>>,
         cmd' \in CmdType, cmd'.n = cmd.n, cmd'.steps = cmd.steps, cmd'.outside <=> cmd.outside,
         cmd'.pc \in {"item", "leave"}, ~InOwn'
  PROVE  /\ WritesTyped' /\ Brackets' /\ Authorship' /\ RecordIsTrue'
         /\ Open(prog') => /\ prog'.pending = prog.pending /\ prog'.landed = prog.landed /\ backend = "gui"
                           /\ (prog'.aborted <=> prog.aborted \/ ~commit)
         /\ ~Open(prog') => /\ prog'.pending = {} /\ ~prog'.aborted
                            /\ prog'.landed = (IF prog.aborted \/ ~commit THEN prog.landed
                                               ELSE prog.landed \cup prog.pending)
         /\ prog'.own = 0
<1>1. /\ prog \in ProgType /\ cmd \in CmdType /\ rec \in RecType
      /\ Brackets /\ Authorship /\ RecordIsTrue /\ ResultsAreTrue /\ CommandSoFar
      /\ edt \in {"free", "mecha"}
  BY DEF WritesIInv, WritesTyped
<1>2. prog.own = 1 /\ rec.open /\ cmd.pc \in {"item", "edit", "write", "itemend"}
  BY <1>1 DEF Brackets, InOwn
<1>3. /\ prog' \in ProgType /\ prog'.own = 0 /\ (prog'.other <=> prog.other)
      /\ Open(prog') => /\ prog'.pending = prog.pending /\ prog'.landed = prog.landed
                        /\ (prog'.aborted <=> prog.aborted \/ ~commit)
      /\ ~Open(prog') => /\ prog'.pending = {} /\ ~prog'.aborted
                         /\ prog'.landed = (IF prog.aborted \/ ~commit THEN prog.landed
                                            ELSE prog.landed \cup prog.pending)
  <2>1. PICK p : p = LeftBy(prog, "Mecha", commit)
    OBVIOUS
  <2>2. /\ p \in ProgType /\ p.own = 0 /\ (p.other <=> prog.other)
        /\ Open(p) => /\ p.pending = prog.pending /\ p.landed = prog.landed
                      /\ (p.aborted <=> prog.aborted \/ ~commit)
        /\ ~Open(p) => /\ p.pending = {} /\ ~p.aborted
                       /\ p.landed = (IF prog.aborted \/ ~commit THEN prog.landed ELSE prog.landed \cup prog.pending)
    BY <1>1, <1>2, <2>1, MechaLeft
  <2>3. prog' = p
    BY <2>1
  <2> QED
    BY <2>2, <2>3
<1>4. /\ rec' \in RecType /\ (rec'.history <=> rec.history) /\ (rec'.external <=> rec.external)
      /\ ~Open(prog') =>
           ~rec'.open /\ rec'.ended = rec.ended \cup {<<IF prog.aborted \/ ~commit THEN "ABORTED" ELSE "COMMITTED",
                                                       prog.pending # {}>>}
      /\ Open(prog') => rec' = rec
  BY <1>1, <1>2, InfoEffect
<1>5. Written' = Written
  BY DEF Written, Mine
<1>6. Open(prog') => backend = "gui"
  BY <1>1, <1>3 DEF Brackets, Open
<1>7. WritesTyped'
  BY <1>3, <1>4 DEF WritesIInv, WritesTyped
<1>8. Brackets'
  BY <1>1, <1>2, <1>3, <1>4 DEF Brackets, InSection, Open
<1>9. \A e \in Written : e \in prog'.pending \/ e \in prog'.landed => e \in prog.pending \/ e \in prog.landed
  BY <1>3
<1>10. Authorship'
  BY <1>1, <1>2, <1>3, <1>5 DEF Authorship, InSection, Author
<1>11. CommitNoted' <=> CommitNoted \/ (~Open(prog') /\ ~prog.aborted /\ commit /\ prog.pending # {})
  <2>1. CASE Open(prog')
    BY <1>4, <2>1 DEF CommitNoted
  <2>2. CASE ~Open(prog')
    BY <1>4, <2>2 DEF CommitNoted
  <2> QED
    BY <2>1, <2>2
<1>12. RecordIsTrue'
  <2>1. ASSUME NEW e \in Written PROVE (e \in prog'.pending => rec'.open) /\ (e \in prog'.landed => CommitNoted')
    <3>1. e \in prog'.pending => rec'.open
      BY <1>2, <1>3, <1>4
    <3>2. e \in prog'.landed => CommitNoted'
      BY <1>1, <1>2, <1>3, <1>11 DEF RecordIsTrue
    <3> QED
      BY <3>1, <3>2
  <2>2. ASSUME CommitNoted' PROVE \E e \in prog'.landed : ForeignOrOurs(e)
    <3>1. prog.landed \subseteq prog'.landed
      BY <1>3
    <3>2. CASE CommitNoted
      BY <1>1, <1>2, <3>1, <3>2 DEF RecordIsTrue
    <3>3. CASE ~CommitNoted
      <4>1. prog.pending # {} /\ prog.pending \subseteq prog'.landed
        BY <1>3, <1>11, <2>2, <3>3
      <4>2. \A e \in prog.pending : ForeignOrOurs(e)
        BY <1>1, <1>2 DEF Authorship, InSection, ForeignOrOurs
      <4> QED
        BY <4>1, <4>2
    <3> QED
      BY <3>2, <3>3
  <2>3. (rec'.history <=> cmd'.steps > 0) /\ (cmd'.outside => rec'.external)
    BY <1>1, <1>2, <1>4 DEF RecordIsTrue
  <2> QED
    BY <1>5, <2>1, <2>2, <2>3 DEF RecordIsTrue, ForeignOrOurs
<1> QED
  BY <1>3, <1>6, <1>7, <1>8, <1>10, <1>12

LEMMA EndItemStep ==
  ASSUME MaxItems \in Nat, MaxCommands \in Nat, MaxForeign \in Nat, WritesIInv, EndItem
  PROVE  WritesIInv'
<1>1. /\ prog \in ProgType /\ cmd \in CmdType /\ rec \in RecType
      /\ Brackets /\ Authorship /\ RecordIsTrue /\ ResultsAreTrue /\ CommandSoFar
  BY DEF WritesIInv, WritesTyped
<1>2. cmd.pc = "itemend" /\ UNCHANGED <<backend, edt, foreign>> /\ InOwn
  BY DEF EndItem, EndTransaction, InOwn
<1>3. /\ ~cmd.outer /\ ~cmd.error /\ cmd.n > 0 /\ cmd.results \in Seq(EditOutcomes) /\ Len(cmd.results) > 0
      /\ Len(cmd.results) <= cmd.size /\ cmd.size \in 0..MaxItems
  BY <1>1, <1>2 DEF Brackets, CommandSoFar, CmdType
<1>4. Len(cmd.results) \in 1..MaxItems /\ \A i \in 1..Len(cmd.results) : cmd.results[i] \in EditOutcomes
  BY <1>3, LenProperties, ElementOfSeq
<1>5. PICK commit \in BOOLEAN : commit <=> cmd.results[Len(cmd.results)] # "failed"
  OBVIOUS
<1>6. /\ prog' = LeftBy(prog, "Mecha", commit) /\ rec' = InfoAfter(rec, prog, "Mecha", commit)
      /\ cmd' = IF backend = "gui" /\ commit /\ prog'.own = 0 /\ ~(commit /\ ~prog.aborted /\ ~Open(prog'))
                THEN [[cmd EXCEPT !.pc = "item"] EXCEPT !.pc = "leave", !.error = TRUE]
                ELSE [cmd EXCEPT !.pc = "item"]
  BY <1>5 DEF EndItem, EndTransaction, Last
<1>7. /\ cmd' \in CmdType /\ Elsewhere(cmd', cmd)
      /\ \/ cmd'.pc = "leave" /\ cmd'.error /\ backend = "gui"
         \/ /\ cmd'.pc = "item" /\ ~cmd'.error
            /\ backend = "gui" /\ commit /\ prog'.own = 0 => ~prog.aborted /\ ~Open(prog')
  <2>1. CASE cmd' = [cmd EXCEPT !.pc = "item"]
    BY <1>1, <1>3, <1>6, <2>1, WriteGotoEffect DEF WritePcs, InSection
  <2>2. CASE cmd' # [cmd EXCEPT !.pc = "item"]
    <3>1. backend = "gui" /\ cmd' = [[cmd EXCEPT !.pc = "item"] EXCEPT !.pc = "leave", !.error = TRUE]
      BY <1>6, <2>2
    <3>2. cmd' = [cmd EXCEPT !.pc = "leave", !.error = TRUE]
      BY <1>1, <3>1 DEF CmdType
    <3> QED
      BY <1>1, <3>1, <3>2, WriteFailEffect DEF WritePcs, InSection
  <2> QED
    BY <2>1, <2>2
<1>8. ~InOwn' /\ cmd'.results = cmd.results /\ ~cmd'.outer
  BY <1>3, <1>7 DEF InOwn, Elsewhere, SameWork
<1>9. /\ WritesTyped' /\ Brackets' /\ Authorship' /\ RecordIsTrue' /\ prog'.own = 0
      /\ Open(prog') => /\ prog'.pending = prog.pending /\ prog'.landed = prog.landed /\ backend = "gui"
                        /\ (prog'.aborted <=> prog.aborted \/ ~commit)
      /\ ~Open(prog') => /\ prog'.pending = {} /\ ~prog'.aborted
                         /\ prog'.landed = (IF prog.aborted \/ ~commit THEN prog.landed
                                            ELSE prog.landed \cup prog.pending)
  BY <1>2, <1>6, <1>7, <1>8, EndTransactionEffect DEF Elsewhere, SameWork
<1>10. FailureTold' /\ CommandSoFar'
  BY <1>1, <1>2, <1>3, <1>7, <1>8 DEF FailureTold, CommandSoFar, Elsewhere, SameWork
<1>11. \A i \in 1..MaxItems : Mine(i)' = Mine(i)
  BY <1>7 DEF Mine, Elsewhere, SameWork
<1>12. ResultsAreTrue'
  <2>1. CASE cmd'.pc = "leave" /\ cmd'.error /\ backend = "gui"
    BY <1>2, <2>1 DEF ResultsAreTrue
  <2>2. CASE cmd'.pc = "item" /\ ~cmd'.error /\ (backend = "gui" /\ commit => ~prog.aborted /\ ~Open(prog'))
    <3>1. commit => ~prog.aborted /\ ~Open(prog')
      BY <1>1, <1>2, <1>5, <1>9, <2>2 DEF ResultsAreTrue
    <3>2. ASSUME NEW i \in 1..MaxItems, i > Len(cmd.results) PROVE Mine(i) \notin prog'.pending \cup prog'.landed
      BY <1>1, <1>2, <1>9, <3>2 DEF ResultsAreTrue
    <3>3. ASSUME NEW i \in 1..Len(cmd.results) PROVE Over(i)' /\ IsTrueOf(i)'
      <4>1. Over(i)' /\ Mine(i)' = Mine(i) /\ cmd'.results[i] = cmd.results[i]
        BY <1>4, <1>8, <1>11, <2>2, <3>3 DEF Over
      <4>2. CASE i = Len(cmd.results)
        <5>1. WillBeTrueOf(i) /\ cmd.results[i] \in EditOutcomes /\ (commit <=> cmd.results[i] # "failed")
          BY <1>1, <1>2, <1>4, <1>5, <3>3, <4>2 DEF ResultsAreTrue, Over
        <5>2. CASE commit
          BY <1>9, <3>1, <4>1, <5>1, <5>2 DEF WillBeTrueOf, IsTrueOf, EditOutcomes
        <5>3. CASE ~commit
          BY <1>9, <4>1, <5>1, <5>3 DEF WillBeTrueOf, IsTrueOf
        <5> QED
          BY <5>2, <5>3
      <4>3. CASE i # Len(cmd.results)
        <5>1. IsTrueOf(i)
          BY <1>1, <1>2, <1>3, <1>4, <3>3, <4>3 DEF ResultsAreTrue, Over
        <5>2. CASE commit
          BY <1>9, <3>1, <4>1, <5>1, <5>2 DEF IsTrueOf
        <5>3. CASE ~commit
          BY <1>9, <4>1, <5>1, <5>3 DEF IsTrueOf
        <5> QED
          BY <5>2, <5>3
      <4> QED
        BY <4>2, <4>3
    <3>4. backend # "gui" => ~prog'.aborted
      BY <1>9
    <3> QED
      BY <1>2, <1>8, <1>11, <2>2, <3>2, <3>3, <3>4 DEF ResultsAreTrue
  <2> QED
    BY <1>7, <1>9, <2>1, <2>2
<1> QED
  BY <1>9, <1>10, <1>12 DEF WritesIInv


\* What a batch reports, item by item.
LEMMA ReportedEffect ==
  ASSUME MaxItems \in Nat, cmd \in CmdType, cmd.results \in Seq(EditOutcomes), Len(cmd.results) <= cmd.size,
         NEW told, told = Reported
  PROVE  /\ told \in Seq(ItemResults) /\ Len(told) = cmd.size
         /\ \A i \in 1..cmd.size :
              /\ i > Len(cmd.results) => told[i] = "not_attempted"
              /\ i <= Len(cmd.results) =>
                   IF cmd.outer /\ (cmd.dry \/ ~Completed) THEN told[i] # "applied" ELSE told[i] = cmd.results[i]
<1>1. cmd.size \in Nat /\ Len(cmd.results) \in Nat /\ \A i \in 1..Len(cmd.results) : cmd.results[i] \in EditOutcomes
  BY LenProperties, ElementOfSeq DEF CmdType
<1> DEFINE named(r) == IF cmd.outer /\ (cmd.dry \/ ~Completed) /\ r \in {"applied", "same"}
                       THEN (IF cmd.dry THEN "simulated" ELSE "rolled_back") ELSE r
           at(i) == IF i <= Len(cmd.results) THEN named(cmd.results[i]) ELSE "not_attempted"
<1>2. told = [i \in 1..cmd.size |-> at(i)]
  BY DEF Reported
<1>3. \A i \in 1..cmd.size : at(i) \in ItemResults
  BY <1>1 DEF ItemResults, EditOutcomes
<1>4. \A i \in 1..cmd.size : told[i] = at(i)
  BY <1>2
<1>5. \A i \in 1..cmd.size :
        i <= Len(cmd.results) =>
          IF cmd.outer /\ (cmd.dry \/ ~Completed) THEN at(i) # "applied" ELSE at(i) = cmd.results[i]
  BY <1>1
<1>6. \A i \in 1..cmd.size : i > Len(cmd.results) => at(i) = "not_attempted"
  BY <1>1
<1>7. told \in [1..cmd.size -> ItemResults]
  <2> HIDE DEF at
  <2> QED
    BY <1>2, <1>3
<1> HIDE DEF at
<1>8. told \in Seq(ItemResults)
  BY <1>1, <1>7, SeqDef
<1>9. Len(told) = cmd.size
  BY <1>1, <1>7, <1>8, LenProperties
<1> QED
  BY <1>4, <1>5, <1>6, <1>8, <1>9

\* A completed command has applied, left alone or skipped every item.
LEMMA CompletedEffect ==
  ASSUME MaxItems \in Nat, cmd \in CmdType, cmd.results \in Seq(EditOutcomes), Completed
  PROVE  Len(cmd.results) = cmd.size /\ \A i \in 1..Len(cmd.results) : cmd.results[i] # "failed"
<1>1. Len(cmd.results) \in Nat /\ DOMAIN cmd.results = 1..Len(cmd.results)
  BY LenProperties
<1> QED
  BY <1>1 DEF Completed, ToSet

LEMMA EndOuterStep ==
  ASSUME MaxItems \in Nat, MaxCommands \in Nat, MaxForeign \in Nat, WritesIInv, EndOuter
  PROVE  WritesIInv'
<1>1. /\ prog \in ProgType /\ cmd \in CmdType /\ rec \in RecType
      /\ Brackets /\ Authorship /\ RecordIsTrue /\ ResultsAreTrue /\ CommandSoFar
  BY DEF WritesIInv, WritesTyped
<1>2. cmd.pc = "item" /\ cmd.outer /\ InOwn /\ UNCHANGED <<backend, edt, foreign>>
  BY DEF EndOuter, EndTransaction, InOwn
<1>3. /\ ~cmd.error /\ cmd.n > 0 /\ cmd.size > 0 /\ cmd.results \in Seq(EditOutcomes) /\ cmd.results \in Seq(ItemResults)
      /\ Len(cmd.results) <= cmd.size /\ cmd.size \in 0..MaxItems
      /\ (cmd.kind # "batch" => ~cmd.dry)
  BY <1>1, <1>2 DEF CommandSoFar, CmdType
<1>4. PICK L \in 0..MaxItems : L = Len(cmd.results)
  BY <1>3, LenProperties
<1>5. PICK commit \in BOOLEAN : commit <=> Completed /\ ~cmd.dry
  OBVIOUS
<1>6. PICK told : told = (IF cmd.kind = "batch" THEN Reported ELSE cmd.results)
  OBVIOUS
<1>7. /\ told \in Seq(ItemResults) /\ Len(told) = (IF cmd.kind = "batch" THEN cmd.size ELSE L)
      /\ \A i \in 1..Len(told) :
           /\ i > L => told[i] = "not_attempted"
           /\ i <= L => IF commit THEN told[i] = cmd.results[i] ELSE cmd.kind = "batch" => told[i] # "applied"
  <2>1. CASE cmd.kind = "batch"
    <3>1. told = Reported
      BY <1>6, <2>1
    <3>2. /\ told \in Seq(ItemResults) /\ Len(told) = cmd.size
          /\ \A i \in 1..cmd.size :
               /\ i > Len(cmd.results) => told[i] = "not_attempted"
               /\ i <= Len(cmd.results) =>
                    IF cmd.outer /\ (cmd.dry \/ ~Completed) THEN told[i] # "applied" ELSE told[i] = cmd.results[i]
      BY <1>1, <1>3, <3>1, ReportedEffect
    <3> QED
      BY <1>2, <1>4, <1>5, <2>1, <3>2
  <2>2. CASE cmd.kind # "batch"
    BY <1>3, <1>4, <1>6, <2>2
  <2> QED
    BY <2>1, <2>2
<1>8. PICK fails \in BOOLEAN : fails <=> cmd.kind # "batch" /\ ~Completed
  OBVIOUS
<1>9. /\ prog' = LeftBy(prog, "Mecha", commit) /\ rec' = InfoAfter(rec, prog, "Mecha", commit)
      /\ cmd' = IF backend = "gui" /\ commit /\ prog'.own = 0 /\ ~(commit /\ ~prog.aborted /\ ~Open(prog'))
                THEN [[cmd EXCEPT !.pc = "leave", !.results = told, !.error = fails]
                        EXCEPT !.pc = "leave", !.error = TRUE]
                ELSE [cmd EXCEPT !.pc = "leave", !.results = told, !.error = fails]
  <2>1. commit = (Completed /\ ~cmd.dry) /\ fails = (cmd.kind # "batch" /\ ~Completed)
    BY <1>5, <1>8 DEF Completed
  <2>2. EndTransaction(commit, [cmd EXCEPT !.pc = "leave", !.results = told, !.error = fails])
    BY <1>6, <2>1 DEF EndOuter
  <2> QED
    BY <2>2 DEF EndTransaction
<1>10. PICK error \in BOOLEAN :
         /\ cmd' = [cmd EXCEPT !.pc = "leave", !.results = told, !.error = error]
         /\ ~error => ~fails /\ (backend = "gui" /\ commit /\ prog'.own = 0 => ~prog.aborted /\ ~Open(prog'))
  <2>1. [[cmd EXCEPT !.pc = "leave", !.results = told, !.error = fails] EXCEPT !.pc = "leave", !.error = TRUE]
          = [cmd EXCEPT !.pc = "leave", !.results = told, !.error = TRUE]
    BY <1>1 DEF CmdType
  <2>2. CASE backend = "gui" /\ commit /\ prog'.own = 0 /\ ~(commit /\ ~prog.aborted /\ ~Open(prog'))
    BY <1>9, <2>1, <2>2
  <2>3. CASE ~(backend = "gui" /\ commit /\ prog'.own = 0 /\ ~(commit /\ ~prog.aborted /\ ~Open(prog')))
    BY <1>9, <2>3
  <2> QED
    BY <2>2, <2>3
<1>11. /\ cmd' \in CmdType /\ cmd'.pc = "leave" /\ (cmd'.error <=> error) /\ cmd'.results = told
       /\ cmd'.n = cmd.n /\ cmd'.kind = cmd.kind /\ (cmd'.atomic <=> cmd.atomic) /\ (cmd'.dry <=> cmd.dry)
       /\ cmd'.size = cmd.size /\ cmd'.steps = cmd.steps /\ (cmd'.outside <=> cmd.outside)
  BY <1>1, <1>7, <1>10 DEF CmdType, WritePcs, InSection
<1>12. ~InOwn'
  BY <1>11 DEF InOwn
<1>13. /\ WritesTyped' /\ Brackets' /\ Authorship' /\ RecordIsTrue' /\ prog'.own = 0
       /\ Open(prog') => /\ prog'.pending = prog.pending /\ prog'.landed = prog.landed /\ backend = "gui"
                         /\ (prog'.aborted <=> prog.aborted \/ ~commit)
       /\ ~Open(prog') => /\ prog'.pending = {} /\ ~prog'.aborted
                          /\ prog'.landed = (IF prog.aborted \/ ~commit THEN prog.landed
                                             ELSE prog.landed \cup prog.pending)
  BY <1>2, <1>9, <1>11, <1>12, EndTransactionEffect
<1>14. FailureTold' /\ CommandSoFar'
  <2>1. FailureTold'
    BY <1>11 DEF FailureTold
  <2>2. Len(cmd'.results) <= cmd'.size
    BY <1>3, <1>4, <1>7, <1>11
  <2>3. /\ cmd.kind # "batch" => cmd.atomic /\ ~cmd.dry
        /\ cmd.dry => backend # "gui"
    BY <1>1 DEF CommandSoFar
  <2>4. CommandSoFar'
    BY <1>2, <1>3, <1>11, <2>2, <2>3 DEF CommandSoFar
  <2> QED
    BY <2>1, <2>4
<1>15. \A i \in 1..MaxItems : Mine(i)' = Mine(i)
  BY <1>11 DEF Mine
<1>16. /\ \A i \in 1..MaxItems : i > L => Mine(i) \notin prog.pending \cup prog.landed
       /\ \A i \in 1..L : WillBeTrueOf(i)
  BY <1>1, <1>2, <1>4 DEF ResultsAreTrue, Over
<1>17. ASSUME ~error, NEW i \in 1..Len(told) PROVE IsTrueOf(i)'
  <2>1. /\ i \in 1..MaxItems /\ Mine(i)' = Mine(i) /\ (i <= L => WillBeTrueOf(i))
        /\ Mine(i) \notin prog.landed
        /\ (i > L => Mine(i) \notin prog.pending)
    BY <1>3, <1>4, <1>7, <1>15, <1>16, <1>17 DEF WillBeTrueOf
  <2>2. CASE commit
    <3>1. /\ Completed /\ i <= L /\ cmd.results[i] # "failed" /\ cmd.results[i] \in EditOutcomes
          /\ told[i] = cmd.results[i] /\ \A j \in 1..L : cmd.results[j] # "failed"
      <4>1. L = cmd.size /\ \A j \in 1..L : cmd.results[j] # "failed"
        BY <1>1, <1>3, <1>4, <1>5, <2>2, CompletedEffect
      <4>2. i \in 1..L
        BY <1>7, <1>17, <4>1
      <4>3. cmd.results[i] \in EditOutcomes
        BY <1>3, <1>4, <4>2, ElementOfSeq
      <4> QED
        BY <1>5, <1>7, <2>2, <4>1, <4>2, <4>3
    <3>2. ~prog.aborted /\ ~Open(prog')
      <4>1. CASE backend = "gui"
        BY <1>10, <1>13, <1>17, <2>2, <4>1
      <4>2. CASE backend # "gui"
        <5>1. ~Open(prog')
          BY <1>13, <4>2
        <5>2. ~prog.aborted
          BY <1>1, <1>2, <1>4, <3>1, <4>2 DEF ResultsAreTrue
        <5> QED
          BY <5>1, <5>2
      <4> QED
        BY <4>1, <4>2
    <3>3. prog'.landed = prog.landed \cup prog.pending /\ prog'.pending = {}
      BY <1>13, <2>2, <3>2
    <3> QED
      BY <1>11, <2>1, <3>1, <3>3 DEF IsTrueOf, WillBeTrueOf, EditOutcomes
  <2>3. CASE ~commit
    <3>1. cmd.kind = "batch"
      BY <1>3, <1>5, <1>8, <1>10, <1>17, <2>3
    <3>2. told[i] # "applied"
      BY <1>4, <1>7, <1>17, <2>3, <3>1
    <3>3. prog'.landed = prog.landed /\ (prog'.pending = {} \/ prog'.aborted)
      BY <1>13, <2>3
    <3> QED
      BY <1>11, <2>1, <3>2, <3>3 DEF IsTrueOf
  <2> QED
    BY <2>2, <2>3
<1>18. ResultsAreTrue'
  <2>1. backend # "gui" => ~prog'.aborted
    BY <1>13
  <2> QED
    BY <1>2, <1>11, <1>17, <2>1 DEF ResultsAreTrue
<1> QED
  BY <1>13, <1>14, <1>18 DEF WritesIInv

LEMMA EndBatchStep ==
  ASSUME MaxItems \in Nat, MaxCommands \in Nat, MaxForeign \in Nat, WritesIInv, EndBatch
  PROVE  WritesIInv'
<1>1. /\ prog \in ProgType /\ cmd \in CmdType /\ rec \in RecType
      /\ Brackets /\ Authorship /\ RecordIsTrue /\ ResultsAreTrue /\ CommandSoFar
  BY DEF WritesIInv, WritesTyped
<1>2. cmd.pc = "item" /\ ~cmd.outer /\ ~InOwn /\ UNCHANGED <<backend, prog, rec, edt, foreign>>
  BY DEF EndBatch, InOwn
<1>3. /\ ~cmd.error /\ cmd.n > 0 /\ cmd.size > 0 /\ cmd.results \in Seq(EditOutcomes)
      /\ Len(cmd.results) <= cmd.size /\ cmd.size \in 0..MaxItems
  BY <1>1, <1>2 DEF CommandSoFar, CmdType
<1>4. PICK L \in 0..MaxItems : L = Len(cmd.results)
  BY <1>3, LenProperties
<1>5. PICK told : told = Reported
  OBVIOUS
<1>6. /\ told \in Seq(ItemResults) /\ Len(told) = cmd.size
      /\ \A i \in 1..cmd.size :
           /\ i > Len(cmd.results) => told[i] = "not_attempted"
           /\ i <= Len(cmd.results) =>
                IF cmd.outer /\ (cmd.dry \/ ~Completed) THEN told[i] # "applied" ELSE told[i] = cmd.results[i]
  BY <1>1, <1>3, <1>5, ReportedEffect
<1>7. cmd' = [cmd EXCEPT !.pc = "leave", !.results = told]
  BY <1>5 DEF EndBatch
<1>8. /\ cmd' \in CmdType /\ cmd'.pc = "leave" /\ (cmd'.error <=> cmd.error) /\ cmd'.results = told
      /\ cmd'.n = cmd.n /\ cmd'.kind = cmd.kind /\ (cmd'.atomic <=> cmd.atomic) /\ (cmd'.dry <=> cmd.dry)
      /\ cmd'.size = cmd.size /\ cmd'.steps = cmd.steps /\ (cmd'.outside <=> cmd.outside)
  BY <1>1, <1>6, <1>7 DEF CmdType, WritePcs, InSection
<1>9. Written' = Written /\ \A i \in 1..MaxItems : Mine(i)' = Mine(i)
  BY <1>8 DEF Written, Mine
<1>10. WritesTyped'
  BY <1>2, <1>8 DEF WritesIInv, WritesTyped
<1>11. Brackets'
  BY <1>1, <1>2, <1>8 DEF Brackets, InOwn, InSection
<1>12. Authorship'
  BY <1>1, <1>2, <1>8, <1>9 DEF Authorship, InSection
<1>13. RecordIsTrue'
  BY <1>1, <1>2, <1>8, <1>9 DEF RecordIsTrue, CommitNoted, ForeignOrOurs
<1>14. FailureTold' /\ CommandSoFar'
  <2>1. FailureTold'
    BY <1>8 DEF FailureTold
  <2>2. Len(cmd'.results) <= cmd'.size
    BY <1>3, <1>6, <1>8
  <2>3. /\ cmd.kind # "batch" => cmd.atomic /\ ~cmd.dry
        /\ cmd.dry => backend # "gui"
    BY <1>1 DEF CommandSoFar
  <2>4. CommandSoFar'
    BY <1>2, <1>3, <1>8, <2>2, <2>3 DEF CommandSoFar
  <2> QED
    BY <2>1, <2>4
<1>15. ASSUME NEW i \in 1..Len(told) PROVE IsTrueOf(i)'
  <2>1. i \in 1..MaxItems /\ i \in 1..cmd.size /\ Mine(i)' = Mine(i)
    BY <1>3, <1>6, <1>9, <1>15
  <2>2. CASE i > L
    <3>1. told[i] = "not_attempted" /\ Mine(i) \notin prog.pending \cup prog.landed
      BY <1>1, <1>2, <1>4, <1>6, <2>1, <2>2 DEF ResultsAreTrue
    <3> QED
      BY <1>2, <1>8, <2>1, <3>1 DEF IsTrueOf
  <2>3. CASE i <= L
    <3>1. told[i] = cmd.results[i]
      BY <1>2, <1>4, <1>6, <2>1, <2>3
    <3>2. IsTrueOf(i)
      <4>1. i \in 1..Len(cmd.results) /\ Over(i)
        BY <1>2, <1>4, <2>1, <2>3 DEF Over
      <4> QED
        BY <1>1, <1>2, <4>1 DEF ResultsAreTrue
    <3> QED
      BY <1>2, <1>8, <2>1, <3>1, <3>2 DEF IsTrueOf
  <2> QED
    BY <1>4, <2>1, <2>2, <2>3
<1>16. ResultsAreTrue'
  <2>1. backend # "gui" => ~prog.aborted
    BY <1>1, <1>2 DEF ResultsAreTrue
  <2> QED
    BY <1>2, <1>8, <1>15, <2>1 DEF ResultsAreTrue
<1> QED
  BY <1>10, <1>11, <1>12, <1>13, <1>14, <1>16 DEF WritesIInv

\* What another actor adds, to the open transaction or by itself, is not Mecha's.
LEMMA ForeignStep ==
  ASSUME MaxItems \in Nat, MaxCommands \in Nat, MaxForeign \in Nat, WritesIInv, backend = "gui",
         UNCHANGED <<backend, cmd, rec, edt>>, foreign' \in 0..MaxForeign,
         NEW joined, NEW made, \A e \in joined \cup made : Author(e) # "mecha",
         \A e \in joined : Author(e) = "thread" \/ edt = "free",
         prog' \in ProgType, prog'.own = prog.own, prog'.aborted <=> prog.aborted,
         prog'.pending = prog.pending \cup joined, prog'.landed = prog.landed \cup made,
         prog'.other \/ ((prog'.other <=> prog.other) /\ joined = {})
  PROVE  WritesIInv'
<1>1. /\ prog \in ProgType /\ cmd \in CmdType /\ rec \in RecType
      /\ Brackets /\ Authorship /\ RecordIsTrue /\ ResultsAreTrue /\ CommandSoFar /\ FailureTold
  BY DEF WritesIInv, WritesTyped
<1>2. /\ \A e : Author(e) = "mecha" => /\ e \in prog'.pending <=> e \in prog.pending
                                       /\ e \in prog'.landed <=> e \in prog.landed
      /\ \A i \in 1..MaxItems : Author(Mine(i)) = "mecha"
      /\ \A e \in Written : Author(e) = "mecha"
  BY DEF Author, Mine, Written
<1>3. /\ Written' = Written /\ \A i \in 1..MaxItems : Mine(i)' = Mine(i)
  BY DEF Written, Mine
<1>4. \A i \in 1..MaxItems : /\ Mine(i) \in prog'.pending <=> Mine(i) \in prog.pending
                             /\ Mine(i) \in prog'.landed <=> Mine(i) \in prog.landed
  BY <1>2
<1>5. WritesTyped'
  BY DEF WritesIInv, WritesTyped
<1>6. Brackets'
  BY <1>1 DEF Brackets, InOwn, Open
<1>7. Authorship'
  <2>1. \A e \in prog'.pending \cup prog'.landed : Author(e) = "mecha" => e[2] <= cmd'.n
    BY <1>1 DEF Authorship
  <2>2. cmd'.pc \in InSection => \A e \in prog'.pending : e \in Written \/ Author(e) = "thread"
    BY <1>1 DEF Authorship, Brackets
  <2>3. rec'.open => \A e \in prog'.pending : Author(e) = "mecha" => cmd'.pc \in {"checks", "done"} \/ e \in Written
    BY <1>1 DEF Authorship
  <2> QED
    BY <1>3, <2>1, <2>2, <2>3 DEF Authorship
<1>8. RecordIsTrue'
  <2>1. SUFFICES ASSUME cmd.pc \notin {"checks", "done"} PROVE RecordIsTrue'
    BY DEF RecordIsTrue
  <2>2. \A e \in Written : (e \in prog'.pending => rec'.open) /\ (e \in prog'.landed => CommitNoted')
    BY <1>1, <1>2, <2>1 DEF RecordIsTrue, CommitNoted
  <2>3. CommitNoted' => \E e \in prog'.landed : ForeignOrOurs(e)
    BY <1>1, <2>1 DEF RecordIsTrue, CommitNoted
  <2>4. (rec'.history <=> cmd'.steps > 0) /\ (cmd'.outside => rec'.external)
    BY <1>1, <2>1 DEF RecordIsTrue
  <2> QED
    BY <1>3, <2>2, <2>3, <2>4 DEF RecordIsTrue, ForeignOrOurs
<1>9. FailureTold'
  <2>1. Refuted => Refuted'
    BY <1>2, <1>3 DEF Refuted
  <2> QED
    BY <1>1, <1>3, <2>1 DEF FailureTold, ForeignOrOurs
<1>10. CommandSoFar'
  BY <1>1 DEF CommandSoFar
<1>11. ResultsAreTrue'
  <2>1. \A i \in 1..MaxItems : i > Len(cmd.results) /\ Mine(i) \notin prog.pending \cup prog.landed
                               => Mine(i)' \notin prog'.pending \cup prog'.landed
    BY <1>3, <1>4
  <2>2. ASSUME NEW i \in 1..Len(cmd.results)
        PROVE  (Over(i)' <=> Over(i)) /\ (IsTrueOf(i)' <=> IsTrueOf(i)) /\ (WillBeTrueOf(i)' <=> WillBeTrueOf(i))
    <3>1. i \in 1..MaxItems
      BY <1>1, <2>2, LenProperties DEF CommandSoFar, CmdType
    <3> QED
      BY <1>3, <1>4, <3>1 DEF Over, IsTrueOf, WillBeTrueOf
  <2> QED
    BY <1>1, <2>1, <2>2 DEF ResultsAreTrue
<1> QED
  BY <1>5, <1>6, <1>7, <1>8, <1>9, <1>10, <1>11 DEF WritesIInv

LEMMA HumanEditsStep ==
  ASSUME MaxItems \in Nat, MaxCommands \in Nat, MaxForeign \in Nat, WritesIInv, NEW leaves \in BOOLEAN, HumanEdits(leaves)
  PROVE  WritesIInv'
<1>1. prog \in ProgType /\ cmd \in CmdType /\ Brackets /\ foreign \in 0..MaxForeign
  BY DEF WritesIInv, WritesTyped
<1>2. backend = "gui" /\ edt = "free" /\ UNCHANGED <<backend, cmd, rec, edt>> /\ foreign' \in 0..MaxForeign
  BY <1>1 DEF HumanEdits, MayAct
<1>3. prog.own = 0
  BY <1>1, <1>2 DEF Brackets, InOwn, InSection, ProgType
<1>4. PICK e : e = <<"human", foreign, 0>>
  OBVIOUS
<1>5. {e} \in SUBSET Tokens /\ Author(e) = "human"
  BY <1>1, <1>4 DEF Tokens, Author
<1>6. PICK s : s = Started(prog, "Other")
  OBVIOUS
<1>7. /\ s \in ProgType /\ s.own = 0 /\ s.other /\ (s.aborted <=> prog.aborted)
      /\ s.pending = prog.pending /\ s.landed = prog.landed
  BY <1>1, <1>3, <1>6, StartedEffect
<1>8. PICK p : p = Changed(s, {e})
  OBVIOUS
<1>9. /\ p \in ProgType /\ p.own = s.own /\ (p.other <=> s.other) /\ (p.aborted <=> s.aborted)
      /\ p.pending = s.pending \cup {e} /\ p.landed = s.landed
  BY <1>5, <1>7, <1>8, ChangedEffect
<1>10. prog' = IF prog.other \/ leaves THEN p ELSE LeftBy(p, "Other", TRUE)
  BY <1>4, <1>6, <1>8 DEF HumanEdits
<1>11. CASE prog.other \/ leaves
  <2>1. PICK joined, made : joined = {e} /\ made = {}
    OBVIOUS
  <2>2. /\ \A x \in joined \cup made : Author(x) # "mecha"
        /\ \A x \in joined : Author(x) = "thread" \/ edt = "free"
    BY <1>2, <1>5, <2>1
  <2>3. /\ prog' \in ProgType /\ prog'.own = prog.own /\ (prog'.aborted <=> prog.aborted) /\ prog'.other
        /\ prog'.pending = prog.pending \cup joined /\ prog'.landed = prog.landed \cup made
    BY <1>3, <1>7, <1>9, <1>10, <1>11, <2>1
  <2> QED
    BY <1>2, <2>2, <2>3, ForeignStep
<1>12. CASE ~(prog.other \/ leaves)
  <2>1. prog.pending = {} /\ ~prog.aborted
    BY <1>1, <1>3, <1>12 DEF Brackets, Open
  <2>2. PICK q : q = LeftBy(p, "Other", TRUE)
    OBVIOUS
  <2>3. /\ q \in ProgType /\ q.own = p.own /\ ~q.other
        /\ ~Open(q) => /\ q.pending = {} /\ ~q.aborted
                       /\ q.landed = (IF p.aborted \/ ~TRUE THEN p.landed ELSE p.landed \cup p.pending)
    BY <1>9, <2>2, OtherLeft
  <2>4. q.own = 0 /\ q.pending = {} /\ ~q.aborted /\ q.landed = prog.landed \cup {e}
    BY <1>7, <1>9, <2>1, <2>3 DEF Open
  <2>5. prog' = q
    BY <1>10, <1>12, <2>2
  <2>6. PICK joined, made : joined = {} /\ made = {e}
    OBVIOUS
  <2>7. /\ \A x \in joined \cup made : Author(x) # "mecha"
        /\ \A x \in joined : Author(x) = "thread" \/ edt = "free"
    BY <1>2, <1>5, <2>6
  <2>8. /\ prog' \in ProgType /\ prog'.own = prog.own /\ (prog'.aborted <=> prog.aborted)
        /\ (prog'.other <=> prog.other) /\ joined = {}
        /\ prog'.pending = prog.pending \cup joined /\ prog'.landed = prog.landed \cup made
    BY <1>3, <1>12, <2>1, <2>3, <2>4, <2>5, <2>6
  <2> QED
    BY <1>2, <2>7, <2>8, ForeignStep
<1> QED
  BY <1>11, <1>12

LEMMA OthersActStep ==
  ASSUME MaxItems \in Nat, MaxCommands \in Nat, MaxForeign \in Nat, WritesIInv, HumanUndoes \/ ThreadStarts
  PROVE  WritesIInv'
<1>1. prog \in ProgType /\ foreign \in 0..MaxForeign
  BY DEF WritesIInv, WritesTyped
<1>2. backend = "gui" /\ UNCHANGED <<backend, cmd, rec, edt>> /\ foreign' \in 0..MaxForeign
  BY <1>1 DEF HumanUndoes, ThreadStarts, MayAct
<1>3. CASE HumanUndoes
  <2>1. PICK q : q = Stepped(prog, "undo")
    OBVIOUS
  <2>2. /\ q \in ProgType /\ q.own = prog.own /\ (q.other <=> prog.other) /\ (q.aborted <=> prog.aborted)
        /\ q.pending = prog.pending /\ q.landed = prog.landed
    BY <1>1, <2>1, SteppedEffect
  <2>3. prog' = q
    BY <1>3, <2>1 DEF HumanUndoes
  <2>4. PICK joined, made : joined = {} /\ made = {}
    OBVIOUS
  <2>5. /\ \A x \in joined \cup made : Author(x) # "mecha"
        /\ \A x \in joined : Author(x) = "thread" \/ edt = "free"
        /\ prog'.pending = prog.pending \cup joined /\ prog'.landed = prog.landed \cup made
    BY <2>2, <2>3, <2>4
  <2> QED
    BY <1>2, <2>2, <2>3, <2>4, <2>5, ForeignStep
<1>4. CASE ThreadStarts
  <2>1. PICK writes \in BOOLEAN :
          prog' = Changed(Started(prog, "Other"), IF writes THEN {<<"thread", foreign, 0>>} ELSE {})
    BY <1>4 DEF ThreadStarts
  <2>2. PICK joined : joined = (IF writes THEN {<<"thread", foreign, 0>>} ELSE {})
    OBVIOUS
  <2>3. joined \in SUBSET Tokens /\ \A e \in joined : Author(e) = "thread"
    BY <1>1, <2>2 DEF Tokens, Author
  <2>4. PICK s : s = Started(prog, "Other")
    OBVIOUS
  <2>5. /\ s \in ProgType /\ s.own = prog.own /\ s.other /\ (s.aborted <=> prog.aborted)
        /\ s.pending = prog.pending /\ s.landed = prog.landed
    BY <1>1, <2>4, StartedEffect
  <2>6. PICK p : p = Changed(s, joined)
    OBVIOUS
  <2>7. /\ p \in ProgType /\ p.own = s.own /\ (p.other <=> s.other) /\ (p.aborted <=> s.aborted)
        /\ p.pending = s.pending \cup joined /\ p.landed = s.landed
    BY <2>3, <2>5, <2>6, ChangedEffect
  <2>8. prog' = p
    BY <2>1, <2>2, <2>4, <2>6
  <2>9. \A e \in joined \cup {} : Author(e) # "mecha"
    BY <2>3
  <2>10. prog'.landed = prog.landed \cup {}
    BY <2>5, <2>7, <2>8
  <2> QED
    BY <1>2, <2>3, <2>5, <2>7, <2>8, <2>9, <2>10, ForeignStep
<1> QED
  BY <1>3, <1>4

\* Another thread gives its entry back: with Mecha's still open nothing ends;
\* otherwise the transaction does, and a record that had joined it is told how.
LEMMA ThreadEndsStep ==
  ASSUME MaxItems \in Nat, MaxCommands \in Nat, MaxForeign \in Nat, WritesIInv, NEW commit \in BOOLEAN, ThreadEnds(commit)
  PROVE  WritesIInv'
<1>1. /\ prog \in ProgType /\ cmd \in CmdType /\ rec \in RecType
      /\ Brackets /\ Authorship /\ RecordIsTrue /\ ResultsAreTrue /\ CommandSoFar /\ FailureTold
  BY DEF WritesIInv, WritesTyped
<1>2. prog.other /\ UNCHANGED <<backend, cmd, edt, foreign>>
  BY DEF ThreadEnds
<1>3. backend = "gui"
  BY <1>1, <1>2 DEF Brackets
<1>4. PICK p, q : p = prog /\ q = LeftBy(prog, "Other", commit)
  OBVIOUS
<1>5. /\ q \in ProgType /\ q.own = p.own /\ ~q.other
      /\ Open(q) => q.pending = p.pending /\ q.landed = p.landed /\ (q.aborted <=> p.aborted \/ ~commit)
      /\ ~Open(q) =>
           /\ q.pending = {} /\ ~q.aborted
           /\ q.landed = (IF p.aborted \/ ~commit THEN p.landed ELSE p.landed \cup p.pending)
  <2>1. p \in ProgType /\ q = LeftBy(p, "Other", commit)
    BY <1>1, <1>4
  <2>2. q \in ProgType /\ q.own = p.own /\ ~q.other
    BY <2>1, OtherLeft
  <2>3. Open(q) => q.pending = p.pending
    BY <2>1, OtherLeft
  <2>4. Open(q) => q.landed = p.landed
    BY <2>1, OtherLeft
  <2>5. Open(q) => (q.aborted <=> p.aborted \/ ~commit)
    BY <2>1, OtherLeft
  <2>6. ~Open(q) => q.pending = {}
    BY <2>1, OtherLeft
  <2>7. ~Open(q) => ~q.aborted
    BY <2>1, OtherLeft
  <2>8. ~Open(q) /\ (p.aborted \/ ~commit) => q.landed = p.landed
    BY <2>1, OtherLeft
  <2>9. ~Open(q) /\ ~(p.aborted \/ ~commit) => q.landed = p.landed \cup p.pending
    BY <2>1, OtherLeft
  <2> QED
    BY <2>2, <2>3, <2>4, <2>5, <2>6, <2>7, <2>8, <2>9
<1>6. prog' = q
  BY <1>4 DEF ThreadEnds
<1>7. /\ prog' \in ProgType /\ prog'.own = prog.own /\ ~prog'.other
      /\ Open(prog') => /\ prog'.pending = prog.pending /\ prog'.landed = prog.landed
                        /\ (prog'.aborted <=> prog.aborted \/ ~commit)
      /\ ~Open(prog') =>
           /\ prog'.pending = {} /\ ~prog'.aborted
           /\ prog'.landed = (IF prog.aborted \/ ~commit THEN prog.landed ELSE prog.landed \cup prog.pending)
  BY <1>4, <1>5, <1>6
<1>8. /\ rec' \in RecType /\ (rec'.history <=> rec.history) /\ (rec'.external <=> rec.external)
      /\ rec.open /\ ~Open(prog') =>
           ~rec'.open /\ rec'.ended = rec.ended \cup {<<IF prog.aborted \/ ~commit THEN "ABORTED" ELSE "COMMITTED",
                                                        prog.pending # {}>>}
      /\ ~(rec.open /\ ~Open(prog')) => rec' = rec
  <2>1. PICK s : s = InfoAfter(rec, prog, "Other", commit)
    OBVIOUS
  <2>2. /\ s \in RecType
        /\ (s.history <=> rec.history) /\ (s.external <=> rec.external)
        /\ rec.open /\ ~Open(LeftBy(prog, "Other", commit)) =>
             ~s.open /\ s.ended = rec.ended \cup {<<IF prog.aborted \/ ~commit THEN "ABORTED" ELSE "COMMITTED",
                                                    prog.pending # {}>>}
        /\ ~(rec.open /\ ~Open(LeftBy(prog, "Other", commit))) => s = rec
    BY <1>1, <2>1, InfoEffect
  <2>3. rec' = s
    BY <2>1 DEF ThreadEnds
  <2> QED
    BY <1>4, <1>6, <2>2, <2>3
<1>9. Open(prog') <=> InOwn
  BY <1>1, <1>7 DEF Brackets, Open, ProgType
<1>10. /\ Written' = Written /\ \A i \in 1..MaxItems : Mine(i)' = Mine(i) /\ Mine(i) \in Written
       /\ InOwn' <=> InOwn
  BY <1>2 DEF Written, Mine, InOwn
<1>11. WritesTyped'
  BY <1>2, <1>7, <1>8 DEF WritesIInv, WritesTyped
<1>12. Brackets'
  BY <1>1, <1>2, <1>3, <1>7, <1>8, <1>9, <1>10 DEF Brackets, Open
<1>13. prog'.pending \subseteq prog.pending /\ prog'.landed \subseteq prog.landed \cup prog.pending
       /\ prog.landed \subseteq prog'.landed /\ (rec'.open => rec.open)
  BY <1>7, <1>8
<1>14. Authorship'
  BY <1>1, <1>2, <1>10, <1>13 DEF Authorship
<1>15. CommitNoted' <=> CommitNoted \/ (rec.open /\ ~Open(prog') /\ ~prog.aborted /\ commit /\ prog.pending # {})
  <2>1. CASE rec.open /\ ~Open(prog')
    BY <1>8, <2>1 DEF CommitNoted
  <2>2. CASE ~(rec.open /\ ~Open(prog'))
    BY <1>8, <2>2 DEF CommitNoted
  <2> QED
    BY <2>1, <2>2
<1>16. RecordIsTrue'
  <2>1. SUFFICES ASSUME cmd.pc \notin {"checks", "done"} PROVE RecordIsTrue'
    BY <1>2 DEF RecordIsTrue
  <2>2. ASSUME NEW e \in Written PROVE (e \in prog'.pending => rec'.open) /\ (e \in prog'.landed => CommitNoted')
    <3>1. (e \in prog.pending => rec.open) /\ (e \in prog.landed => CommitNoted)
      BY <1>1, <2>1, <2>2 DEF RecordIsTrue
    <3>2. CASE Open(prog')
      BY <1>7, <1>8, <1>15, <3>1, <3>2
    <3>3. CASE ~Open(prog')
      <4>1. e \in prog'.landed => e \in prog.landed \/ (e \in prog.pending /\ ~prog.aborted /\ commit)
        BY <1>7, <3>3
      <4> QED
        BY <1>7, <1>15, <3>1, <3>3, <4>1
    <3> QED
      BY <3>2, <3>3
  <2>3. ASSUME CommitNoted' PROVE \E e \in prog'.landed : ForeignOrOurs(e)
    <3>1. CASE CommitNoted
      BY <1>1, <1>13, <2>1, <3>1 DEF RecordIsTrue
    <3>2. CASE ~CommitNoted
      <4>1. rec.open /\ prog.pending # {} /\ prog.pending \subseteq prog'.landed
        BY <1>7, <1>15, <2>3, <3>2
      <4>2. \A e \in prog.pending : ForeignOrOurs(e)
        BY <1>1, <2>1, <4>1 DEF Authorship, ForeignOrOurs
      <4> QED
        BY <4>1, <4>2
    <3> QED
      BY <3>1, <3>2
  <2>4. (rec'.history <=> cmd'.steps > 0) /\ (cmd'.outside => rec'.external)
    BY <1>1, <1>2, <1>8, <2>1 DEF RecordIsTrue
  <2> QED
    BY <1>10, <2>2, <2>3, <2>4 DEF RecordIsTrue, ForeignOrOurs
<1>17. FailureTold' /\ CommandSoFar'
  <2>1. Refuted => Refuted'
    BY <1>10, <1>13 DEF Refuted
  <2>2. (\E e \in prog.landed : ForeignOrOurs(e)) => \E e \in prog'.landed : ForeignOrOurs(e)'
    BY <1>10, <1>13 DEF ForeignOrOurs
  <2>3. FailureTold'
    BY <1>1, <1>2, <2>1, <2>2 DEF FailureTold
  <2> QED
    BY <1>1, <1>2, <2>3 DEF CommandSoFar
<1>18. ResultsAreTrue'
  <2>1. \A i \in 1..MaxItems : Mine(i) \notin prog.pending \cup prog.landed
                               => Mine(i)' \notin prog'.pending \cup prog'.landed
    BY <1>10, <1>13
  <2>2. ASSUME NEW i \in 1..Len(cmd.results), IsTrueOf(i) PROVE IsTrueOf(i)'
    <3>1. i \in 1..MaxItems /\ Mine(i)' = Mine(i)
      BY <1>1, <1>10, <2>2, LenProperties DEF CommandSoFar, CmdType
    <3>2. CASE Open(prog')
      BY <1>2, <1>7, <2>2, <3>1, <3>2 DEF IsTrueOf
    <3>3. CASE ~Open(prog')
      BY <1>2, <1>7, <2>2, <3>1, <3>3 DEF IsTrueOf
    <3> QED
      BY <3>2, <3>3
  <2>3. ASSUME NEW i \in 1..Len(cmd.results), WillBeTrueOf(i), InOwn PROVE WillBeTrueOf(i)'
    <3>1. i \in 1..MaxItems /\ Mine(i)' = Mine(i)
      BY <1>1, <1>10, <2>3, LenProperties DEF CommandSoFar, CmdType
    <3> QED
      BY <1>2, <1>7, <1>9, <2>3, <3>1 DEF WillBeTrueOf
  <2>4. ASSUME NEW i \in 1..Len(cmd.results), cmd.pc \notin {"leave", "external", "finish", "done"}, ~Over(i) PROVE InOwn
    <3>1. Len(cmd.results) > 0 /\ cmd.results # <<>>
      BY <1>1, <2>4, LenProperties, EmptySeq DEF CmdType
    <3> QED
      BY <1>1, <2>4, <3>1 DEF CommandSoFar, Over, InOwn, CmdType, WritePcs, InSection
  <2>5. \A i \in 1..Len(cmd.results) : Over(i)' <=> Over(i)
    BY <1>2 DEF Over
  <2>6. ASSUME cmd.pc \notin {"leave", "external", "finish", "done"}, NEW i \in 1..Len(cmd.results)
        PROVE  IF Over(i)' THEN IsTrueOf(i)' ELSE WillBeTrueOf(i)'
    <3>1. IF Over(i) THEN IsTrueOf(i) ELSE WillBeTrueOf(i)
      BY <1>1, <2>6 DEF ResultsAreTrue
    <3> QED
      BY <2>2, <2>3, <2>4, <2>5, <2>6, <3>1
  <2>7. ASSUME cmd.pc \in {"leave", "external", "finish", "done"}, ~cmd.error, NEW i \in 1..Len(cmd.results)
        PROVE  IsTrueOf(i)'
    BY <1>1, <2>2, <2>7 DEF ResultsAreTrue
  <2> QED
    BY <1>1, <1>2, <1>3, <2>1, <2>6, <2>7 DEF ResultsAreTrue
<1> QED
  BY <1>11, <1>12, <1>14, <1>16, <1>17, <1>18 DEF WritesIInv

LEMMA WritesInitHolds ==
  ASSUME MaxItems \in Nat, MaxCommands \in Nat, MaxForeign \in Nat, WritesInit
  PROVE  WritesIInv
<1>1. ASSUME NEW n \in Nat PROVE History(n) \in Seq(StepType)
  <2>1. MaxForeign + n \in Nat
    BY <1>1
  <2>2. Before("Other", n) \in StepType /\ Before("Mecha", n) \in StepType
    BY <2>1 DEF Before, StepType, Authors
  <2> HIDE DEF StepType
  <2> QED
    BY <2>2 DEF History
<1>2. prog = [own |-> 0, other |-> FALSE, aborted |-> FALSE, by |-> "none", pending |-> {},
              undo |-> History(0), redo |-> History(1), mod |-> 0, landed |-> {}]
  BY DEF WritesInit, NewProgram
<1>3. PICK u, r : u = History(0) /\ r = History(1) /\ u \in Seq(StepType) /\ r \in Seq(StepType)
  BY <1>1
<1>4. prog \in ProgType
  BY <1>2, <1>3 DEF ProgType
<1>5. /\ prog.own = 0 /\ ~prog.other /\ ~prog.aborted /\ prog.pending = {} /\ prog.landed = {}
  BY <1>2
<1>6. <<>> \in Seq(ItemResults) /\ Len(<<>>) = 0
  BY EmptySeq
<1>7. cmd \in CmdType
  BY <1>6 DEF WritesInit, NoCommand, CmdType, WritePcs
<1>8. /\ cmd.n = 0 /\ cmd.kind = "none" /\ cmd.pc = "done" /\ cmd.atomic /\ ~cmd.dry /\ cmd.size = 0 /\ ~cmd.outer
      /\ cmd.results = <<>> /\ cmd.steps = 0 /\ ~cmd.outside /\ ~cmd.error
  BY DEF WritesInit, NoCommand
<1>9. rec \in RecType /\ ~rec.open
  BY DEF WritesInit, NewRecord, RecType
<1>10. WritesTyped
  <2>1. backend \in Backends /\ edt = "free" /\ foreign = 0
    BY DEF WritesInit
  <2> QED
    BY <1>4, <1>7, <1>9, <2>1 DEF WritesTyped
<1>11. Brackets
  <2>1. edt = "free"
    BY DEF WritesInit
  <2> QED
    BY <1>5, <1>8, <1>9, <2>1 DEF Brackets, InOwn, InSection, Open
<1>12. Authorship /\ RecordIsTrue /\ FailureTold
  BY <1>5, <1>8, <1>9 DEF Authorship, RecordIsTrue, FailureTold, InSection
<1>13. CommandSoFar
  BY <1>6, <1>8 DEF CommandSoFar
<1>14. ResultsAreTrue
  BY <1>5, <1>6, <1>8 DEF ResultsAreTrue
<1> QED
  BY <1>10, <1>11, <1>12, <1>13, <1>14 DEF WritesIInv

LEMMA WritesNextHolds ==
  ASSUME MaxItems \in Nat, MaxCommands \in Nat, MaxForeign \in Nat, WritesIInv, [WritesNext]_writesVars
  PROVE  WritesIInv'
<1>1. CASE \/ \E kind \in WriteKinds, size \in 1..MaxItems, atomic, dry \in BOOLEAN : CallWrite(kind, size, atomic, dry)
           \/ Execute
  BY <1>1, CallsStep
<1>2. CASE ChecksRefuse \/ ReadModification \/ Decompile \/ DeadlinePasses \/ StartOuter \/ FinishWrite
  BY <1>2, LooksStep
<1>3. CASE \/ HandlerRefuses \/ EnterBoundary \/ WaitUntilIdle \/ OnEdt \/ EdtTooBusy
           \/ BatchRefuses \/ HistoryCheck \/ HistoryFails \/ LeaveSection \/ ExternalRefused
  BY <1>3, MovesStep
<1>4. CASE StartItem
  BY <1>4, StartItemStep
<1>5. CASE StartTransaction
  BY <1>5, StartTransactionStep
<1>6. CASE CheckView \/ Edit
  BY <1>6, CheckViewStep, EditStep
<1>7. CASE EndItem
  BY <1>7, EndItemStep
<1>8. CASE EndOuter
  BY <1>8, EndOuterStep
<1>9. CASE EndBatch
  BY <1>9, EndBatchStep
<1>10. CASE HistoryStep
  BY <1>10, HistoryStepStep
<1>11. CASE ExternalWrite
  BY <1>11, ExternalWriteStep
<1>12. ASSUME NEW leaves \in BOOLEAN, HumanEdits(leaves) PROVE WritesIInv'
  BY <1>12, HumanEditsStep
<1>13. CASE HumanUndoes \/ ThreadStarts
  BY <1>13, OthersActStep
<1>14. ASSUME NEW commit \in BOOLEAN, ThreadEnds(commit) PROVE WritesIInv'
  BY <1>14, ThreadEndsStep
<1>15. CASE UNCHANGED writesVars
  BY <1>15 DEF writesVars, WritesIInv, WritesTyped, Brackets, Authorship, RecordIsTrue, FailureTold, CommandSoFar,
     ResultsAreTrue, InOwn, Open, Written, Mine, CommitNoted, ForeignOrOurs, Refuted, IsTrueOf, WillBeTrueOf, Over
<1> QED
  BY <1>1, <1>2, <1>3, <1>4, <1>5, <1>6, <1>7, <1>8, <1>9, <1>10, <1>11, <1>12, <1>13, <1>14, <1>15
     DEF WritesNext, MechaNext, OthersNext

LEMMA WritesIInvHolds ==
  ASSUME MaxItems \in Nat, MaxCommands \in Nat, MaxForeign \in Nat
  PROVE  WritesSpec => []WritesIInv
<1>1. WritesInit => WritesIInv
  BY WritesInitHolds
<1>2. WritesIInv /\ [WritesNext]_writesVars => WritesIInv'
  BY WritesNextHolds
<1> QED
  BY <1>1, <1>2, PTL DEF WritesSpec

\* Every way out of a write gives the EDT and Mecha's transaction back, and
\* leaves no transaction open for nobody; a failure's output_state and a
\* success's results say of the edits what became of them, whatever humans and
\* other threads did in between, for any number of commands and batch items
\* (gui/write_boundary.py, session/transactions.py, domain/output_state.py).
THEOREM WritesHold ==
  ASSUME MaxItems \in Nat, MaxCommands \in Nat, MaxForeign \in Nat
  PROVE  WritesSpec => []WriteInvariant
<1>1. ASSUME WritesIInv PROVE WriteInvariant
  <2>1. /\ prog \in ProgType /\ cmd \in CmdType
        /\ Brackets /\ ResultsAreTrue /\ CommandSoFar /\ FailureTold
    BY <1>1 DEF WritesIInv, WritesTyped
  <2>2. WritesTypeOK
    BY <1>1 DEF WritesIInv, WritesTyped, WritesTypeOK, ProgType, CmdType
  <2>3. SectionIsLeft
    <3>1. cmd.pc \in {"done", "finish", "external", "checks", "decompile", "view", "enter", "wait", "queue"}
            => ~InOwn /\ cmd.pc \notin InSection
      BY DEF InOwn, InSection
    <3> QED
      BY <1>1, <2>1, <3>1 DEF SectionIsLeft, Brackets, WritesIInv, WritesTyped, ProgType
  <2>4. WriteFailuresAreTrue
    BY <2>1 DEF WriteFailuresAreTrue, FailureTold, Refuted, MayLand, ForeignOrOurs
  <2>5. SuccessIsTrue
    <3>1. DOMAIN cmd.results = 1..Len(cmd.results)
      BY <2>1, LenProperties DEF CmdType
    <3> QED
      BY <2>1, <3>1 DEF SuccessIsTrue, ResultsAreTrue, IsTrueOf, MayLand
  <2> QED
    BY <2>2, <2>3, <2>4, <2>5 DEF WriteInvariant
<1> QED
  BY <1>1, WritesIInvHolds, PTL

\* What is in the history stays in it, and a transaction without humans' edits
\* has none to lose.
LEMMA HumansKept ==
  ASSUME NEW p \in ProgType, NEW q, q.undo = p.undo \/ \E step \in StepType : q.undo = Append(p.undo, step),
         \A e \in p.pending : Author(e) # "human"
  PROVE  HumansEdits(p) \subseteq HumansEdits(q)
<1>1. p.undo \in Seq(StepType)
  BY DEF ProgType
<1>2. ToSet(p.undo) \subseteq ToSet(q.undo)
  <2>1. CASE q.undo = p.undo
    BY <2>1
  <2>2. ASSUME NEW step \in StepType, q.undo = Append(p.undo, step) PROVE ToSet(p.undo) \subseteq ToSet(q.undo)
    <3>1. /\ DOMAIN p.undo = 1..Len(p.undo) /\ DOMAIN q.undo = 1..(Len(p.undo) + 1) /\ Len(p.undo) \in Nat
          /\ \A i \in 1..Len(p.undo) : q.undo[i] = p.undo[i]
      BY <1>1, <2>2, AppendProperties, LenProperties
    <3>2. \A i \in 1..Len(p.undo) : i \in 1..(Len(p.undo) + 1)
      BY <3>1
    <3> QED
      BY <3>1, <3>2 DEF ToSet
  <2> QED
    BY <2>1, <2>2
<1>3. ASSUME NEW e \in HumansEdits(p) PROVE e \in HumansEdits(q)
  <2>1. e \in Contents(p) /\ Author(e) = "human"
    BY <1>3 DEF HumansEdits
  <2>2. e \notin p.pending
    BY <2>1
  <2>3. e \in UNION {s.edits : s \in ToSet(p.undo)}
    <3> DEFINE kept == UNION {s.edits : s \in ToSet(p.undo)}
               rest == IF p.aborted THEN {} ELSE p.pending
    <3>1. Contents(p) = kept \cup rest
      BY DEF Contents
    <3>2. rest \subseteq p.pending
      OBVIOUS
    <3> HIDE DEF kept, rest
    <3>3. e \in kept
      BY <2>1, <2>2, <3>1, <3>2
    <3> QED
      BY <3>3 DEF kept
  <2>4. e \in UNION {s.edits : s \in ToSet(q.undo)}
    BY <1>2, <2>3
  <2> QED
    BY <2>1, <2>4 DEF HumansEdits, Contents
<1> QED
  BY <1>3

\* What a program shows of a human's edits, by its history and its open transaction.
InHistory(p) == UNION {step.edits : step \in ToSet(p.undo)}
NoHumans(edits) == \A e \in edits : Author(e) # "human"

LEMMA SameHumans ==
  ASSUME NEW p \in ProgType, NEW q \in ProgType, q.undo = p.undo,
         (NoHumans(p.pending) /\ NoHumans(q.pending)) \/ (q.pending = p.pending /\ (q.aborted <=> p.aborted))
  PROVE  HumansEdits(q) = HumansEdits(p)
<1>1. /\ Contents(p) = InHistory(p) \cup (IF p.aborted THEN {} ELSE p.pending)
      /\ Contents(q) = InHistory(p) \cup (IF q.aborted THEN {} ELSE q.pending)
  BY DEF Contents, InHistory
<1>2. CASE q.pending = p.pending /\ (q.aborted <=> p.aborted)
  BY <1>1, <1>2 DEF HumansEdits
<1>3. CASE NoHumans(p.pending) /\ NoHumans(q.pending)
  <2> HIDE DEF InHistory
  <2>1. \A e : Author(e) = "human" => (e \in Contents(p) <=> e \in InHistory(p))
                                      /\ (e \in Contents(q) <=> e \in InHistory(p))
    BY <1>1, <1>3 DEF NoHumans
  <2> QED
    BY <2>1 DEF HumansEdits
<1> QED
  BY <1>2, <1>3

\* The last entry moves what it commits into the history.
LEMMA FinishedShows ==
  ASSUME NEW p \in ProgType
  PROVE  /\ HumansEdits(Finished(p)) = HumansEdits(p)
         /\ Finished(p).mod = (IF p.aborted /\ p.pending # {} THEN p.mod + 1 ELSE p.mod)
<1> DEFINE f == Finished(p)
           step == [by |-> p.by, edits |-> p.pending]
<1>1. f \in ProgType /\ f.pending = {} /\ ~f.aborted
  BY FinishedEffect
<1>2. f.mod = (IF p.aborted /\ p.pending # {} THEN p.mod + 1 ELSE p.mod)
  <2>1. CASE p.aborted
    BY <2>1 DEF Finished, ProgType
  <2>2. CASE ~p.aborted
    BY <2>2 DEF Finished, ProgType
  <2> QED
    BY <2>1, <2>2
<1>3. CASE p.aborted \/ p.pending = {}
  <2>1. f.undo = p.undo
    BY <1>3 DEF Finished, ProgType
  <2> HIDE DEF f
  <2>2. Contents(f) = Contents(p)
    BY <1>1, <1>3, <2>1 DEF Contents
  <2>3. HumansEdits(f) = HumansEdits(p)
    BY <2>2 DEF HumansEdits
  <2> QED
    BY <1>2, <2>3 DEF f
<1>4. CASE ~p.aborted /\ p.pending # {}
  <2>1. f.undo = Append(p.undo, step)
    BY <1>4 DEF Finished, ProgType
  <2>2. step \in StepType /\ p.undo \in Seq(StepType) /\ step.edits = p.pending
    <3>1. p.pending \subseteq Authors \X Nat \X Nat
      BY DEF ProgType, Tokens, Authors
    <3> QED
      BY <3>1 DEF ProgType, StepType
  <2> HIDE DEF f, step
  <2>3. ToSet(f.undo) = ToSet(p.undo) \cup {step}
    <3>1. PICK n \in Nat : n = Len(p.undo)
      BY <2>2, LenProperties
    <3>2. /\ DOMAIN p.undo = 1..n /\ DOMAIN f.undo = 1..(n + 1)
          /\ \A i \in 1..n : f.undo[i] = p.undo[i]
          /\ f.undo[n + 1] = step
      BY <2>1, <2>2, <3>1, AppendProperties, LenProperties
    <3>3. 1..(n + 1) = (1..n) \cup {n + 1}
      OBVIOUS
    <3> QED
      BY <3>2, <3>3 DEF ToSet
  <2>4. InHistory(f) = InHistory(p) \cup p.pending
    BY <2>2, <2>3 DEF InHistory
  <2>5. Contents(f) = Contents(p)
    BY <1>1, <1>4, <2>4 DEF Contents, InHistory
  <2>6. HumansEdits(f) = HumansEdits(p)
    BY <2>5 DEF HumansEdits
  <2> QED
    BY <1>2, <2>6 DEF f
<1> QED
  BY <1>3, <1>4

\* An end of an entry shows in the modification number, if it takes a human's
\* edits away.
LEMMA LeftShows ==
  ASSUME NEW p \in ProgType, NEW who \in {"Mecha", "Other"}, who = "Mecha" => p.own = 1, NEW commit \in BOOLEAN,
         NEW q, q = LeftBy(p, who, commit)
  PROVE  /\ q.mod >= p.mod
         /\ NoHumans(p.pending) => HumansEdits(q) = HumansEdits(p)
         /\ ~Open(q) => HumansEdits(q) = HumansEdits(p) \/ q.mod > p.mod
<1> DEFINE left == [(IF who = "Mecha" THEN [p EXCEPT !.own = @ - 1] ELSE [p EXCEPT !.other = FALSE])
                     EXCEPT !.aborted = @ \/ ~commit]
<1>1. /\ left \in ProgType /\ left.undo = p.undo /\ left.pending = p.pending /\ left.mod = p.mod
      /\ left.aborted <=> p.aborted \/ ~commit
  <2>1. CASE who = "Mecha"
    <3>1. p.own - 1 \in 0..1
      BY <2>1
    <3>2. left = [p EXCEPT !.own = p.own - 1, !.aborted = p.aborted \/ ~commit]
      BY <2>1 DEF ProgType
    <3> QED
      BY <3>1, <3>2 DEF ProgType
  <2>2. CASE who = "Other"
    <3>1. left = [p EXCEPT !.other = FALSE, !.aborted = p.aborted \/ ~commit]
      BY <2>2 DEF ProgType
    <3> QED
      BY <3>1 DEF ProgType
  <2> QED
    BY <2>1, <2>2
<1>2. q = (IF Open(left) THEN left ELSE Finished(left))
  BY DEF LeftBy
<1> HIDE DEF left
<1>3. p.mod \in Nat
  BY DEF ProgType
<1>4. NoHumans(p.pending) \/ (left.aborted <=> p.aborted) => HumansEdits(left) = HumansEdits(p)
  BY <1>1, SameHumans
<1>5. CASE Open(left)
  BY <1>1, <1>2, <1>3, <1>4, <1>5
<1>6. CASE ~Open(left)
  <2> DEFINE f == Finished(left)
  <2>1. HumansEdits(f) = HumansEdits(left) /\ f.mod = (IF left.aborted /\ left.pending # {} THEN left.mod + 1 ELSE left.mod)
    BY <1>1, FinishedShows
  <2>2. q = f
    BY <1>2, <1>6
  <2> HIDE DEF f
  <2>3. p.pending = {} => NoHumans(p.pending)
    BY DEF NoHumans
  <2> QED
    BY <1>1, <1>3, <1>4, <2>1, <2>2, <2>3
<1> QED
  BY <1>5, <1>6

\* The steps of a command that touch the program, and what they leave of it.
LEMMA MechaKeeps ==
  ASSUME MaxItems \in Nat, MaxCommands \in Nat, MaxForeign \in Nat, WritesIInv, MechaNext, prog' # prog, cmd.pc # "history"
  PROVE  /\ cmd.pc \in InSection
         /\ prog'.undo = prog.undo \/ \E step \in StepType : prog'.undo = Append(prog.undo, step)
         /\ prog'.pending \subseteq prog.pending \/ Edit
         /\ prog'.mod >= prog.mod /\ (HumansEdits(prog') = HumansEdits(prog) \/ prog'.mod > prog.mod)
<1>1. prog \in ProgType /\ cmd \in CmdType /\ rec \in RecType /\ Brackets /\ CommandSoFar /\ Authorship /\ prog.mod \in Nat
  BY DEF WritesIInv, WritesTyped, ProgType
<1>2. ASSUME NEW commit \in BOOLEAN, prog.own = 1, prog' = LeftBy(prog, "Mecha", commit)
      PROVE  /\ prog'.undo = prog.undo \/ \E step \in StepType : prog'.undo = Append(prog.undo, step)
             /\ prog'.pending \subseteq prog.pending
             /\ prog'.mod >= prog.mod /\ (HumansEdits(prog') = HumansEdits(prog) \/ prog'.mod > prog.mod)
  <2>1. PICK p, q : p = prog /\ q = LeftBy(prog, "Mecha", commit)
    OBVIOUS
  <2>2. p \in ProgType /\ p.own = 1 /\ q = LeftBy(p, "Mecha", commit)
    BY <1>1, <1>2, <2>1
  <2>3. (Open(q) => q.undo = p.undo /\ q.pending = p.pending) /\ (~Open(q) => q.pending = {})
    BY <2>2, MechaLeft
  <2>4. ~Open(q) => q.undo = p.undo \/ q.undo = Append(p.undo, [by |-> p.by, edits |-> p.pending])
    BY <2>2, MechaLeft
  <2>5. [by |-> p.by, edits |-> p.pending] \in StepType
    <3>1. p.pending \subseteq Authors \X Nat \X Nat
      BY <2>2 DEF ProgType, Tokens, Authors
    <3> QED
      BY <2>2, <3>1 DEF ProgType, StepType
  <2>6. /\ q.undo = p.undo \/ \E step \in StepType : q.undo = Append(p.undo, step)
        /\ q.pending \subseteq p.pending
    BY <2>3, <2>4, <2>5
  <2>7. NoHumans(p.pending)
    <3>1. InOwn /\ cmd.pc \in InSection
      BY <1>1, <1>2 DEF Brackets, InOwn, InSection
    <3> QED
      BY <1>1, <2>1, <3>1 DEF Authorship, NoHumans, Written, Mine, Author
  <2>8. q.mod >= p.mod /\ HumansEdits(q) = HumansEdits(p)
    BY <2>2, <2>7, LeftShows
  <2> QED
    BY <1>2, <2>1, <2>6, <2>8
<1>3. CASE StartTransaction
  <2>1. prog.own = 0 /\ cmd.pc = "start"
    BY <1>1, <1>3 DEF StartTransaction, Brackets, InOwn, ProgType
  <2>2. PICK p, q : p = prog /\ q = Started(p, "Mecha")
    OBVIOUS
  <2>3. q \in ProgType /\ q.pending = p.pending /\ q.undo = p.undo /\ q.mod = p.mod /\ (q.aborted <=> p.aborted)
    BY <1>1, <2>1, <2>2, StartedEffect
  <2>4. HumansEdits(q) = HumansEdits(p)
    BY <1>1, <2>2, <2>3, SameHumans
  <2> QED
    BY <1>1, <1>3, <2>1, <2>2, <2>3, <2>4 DEF StartTransaction, InSection
<1>4. CASE Edit
  <2>1. cmd.pc \in {"item", "edit", "write"} /\ InOwn /\ Len(cmd.results) < cmd.size
    BY <1>1, <1>4 DEF Edit, InOwn, MoreItems, CommandSoFar
  <2>2. PICK i : i = Len(cmd.results) + 1
    OBVIOUS
  <2>3. i \in 1..MaxItems /\ cmd.n > 0
    BY <1>1, <2>1, <2>2, LenProperties DEF CmdType, CommandSoFar
  <2>4. Mine(i) \in Tokens /\ Author(Mine(i)) = "mecha" /\ NoHumans(prog.pending)
    BY <1>1, <2>1, <2>3, OursAreTokens DEF Authorship, NoHumans, Written, Mine, Author, InSection
  <2>5. PICK result \in EditResults : prog' = Edited(prog, i, result)
    BY <1>4, <2>2 DEF Edit
  <2>6. PICK p, q : p = prog /\ q = Edited(p, i, result) /\ prog' = q
    BY <2>5
  <2>7. q \in ProgType /\ q.undo = p.undo /\ q.pending \subseteq p.pending \cup {Mine(i)}
    <3>1. /\ q \in ProgType /\ q.undo = p.undo
          /\ q.pending = p.pending \cup (IF result \in {"applied", "halfway"} THEN {Mine(i)} ELSE {})
      BY <1>1, <2>4, <2>6, EditedEffect
    <3> QED
      BY <3>1
  <2>8. q.mod >= p.mod
    BY <1>1, <2>6 DEF Edited, Changed, ProgType
  <2>9. HumansEdits(q) = HumansEdits(p)
    <3>1. NoHumans(q.pending) /\ NoHumans(p.pending)
      BY <2>4, <2>6, <2>7 DEF NoHumans
    <3> QED
      BY <1>1, <2>6, <2>7, <3>1, SameHumans
  <2> QED
    BY <1>4, <2>1, <2>6, <2>7, <2>8, <2>9 DEF InSection
<1>5. CASE EndItem
  <2>1. cmd.pc = "itemend" /\ prog.own = 1
    BY <1>1, <1>5 DEF EndItem, Brackets, InOwn
  <2>2. PICK commit \in BOOLEAN : commit = (Last(cmd.results) # "failed")
    OBVIOUS
  <2>3. prog' = LeftBy(prog, "Mecha", commit)
    BY <1>5, <2>2 DEF EndItem, EndTransaction
  <2> QED
    BY <1>2, <2>1, <2>3 DEF InSection
<1>6. CASE EndOuter
  <2>1. cmd.pc = "item" /\ prog.own = 1
    BY <1>1, <1>6 DEF EndOuter, Brackets, InOwn
  <2>2. PICK commit \in BOOLEAN : commit = (Completed /\ ~cmd.dry)
    BY DEF Completed
  <2>3. prog' = LeftBy(prog, "Mecha", commit)
    BY <1>6, <2>2 DEF EndOuter, EndTransaction
  <2> QED
    BY <1>2, <2>1, <2>3 DEF InSection
<1>7. CASE ~(StartTransaction \/ Edit \/ EndItem \/ EndOuter)
  <2>1. ~HistoryStep
    BY DEF HistoryStep
  <2>2. ~\E kind \in WriteKinds, size \in 1..MaxItems, atomic, dry \in BOOLEAN : CallWrite(kind, size, atomic, dry)
    BY DEF CallWrite
  <2>3. ~(ChecksRefuse \/ Execute \/ ReadModification \/ Decompile \/ HandlerRefuses \/ EnterBoundary \/ CheckView)
    BY DEF ChecksRefuse, Execute, ReadModification, Decompile, HandlerRefuses, EnterBoundary, CheckView
  <2>4. ~(DeadlinePasses \/ WaitUntilIdle \/ OnEdt \/ EdtTooBusy)
    BY DEF DeadlinePasses, WaitUntilIdle, OnEdt, EdtTooBusy
  <2>5. ~(BatchRefuses \/ StartOuter \/ StartItem \/ EndBatch \/ HistoryCheck \/ HistoryFails)
    BY DEF BatchRefuses, StartOuter, StartItem, EndBatch, HistoryCheck, HistoryFails
  <2>6. ~(LeaveSection \/ ExternalRefused \/ ExternalWrite \/ FinishWrite)
    BY DEF LeaveSection, ExternalRefused, ExternalWrite, FinishWrite
  <2> QED
    BY <1>7, <2>1, <2>2, <2>3, <2>4, <2>5, <2>6 DEF MechaNext
<1> QED
  BY <1>3, <1>4, <1>5, <1>6, <1>7

\* In a history step, the program changes by that step alone.
LEMMA OnlyHistorySteps ==
  ASSUME MechaNext, prog' # prog, cmd.pc = "history"
  PROVE  HistoryStep
BY DEF MechaNext, CallWrite, ChecksRefuse, Execute, ReadModification, Decompile, HandlerRefuses, EnterBoundary,
   DeadlinePasses, WaitUntilIdle, OnEdt, EdtTooBusy, BatchRefuses, StartOuter, StartItem, StartTransaction, CheckView, Edit,
   EndItem, EndOuter, EndBatch, HistoryCheck, HistoryFails, LeaveSection, ExternalRefused, ExternalWrite, FinishWrite

\* What the other actors do to what a human sees: in a section, nothing.
LEMMA OthersShow ==
  ASSUME MaxItems \in Nat, MaxCommands \in Nat, MaxForeign \in Nat, WritesIInv, OthersNext
  PROVE  /\ prog'.mod >= prog.mod /\ cmd' = cmd
         /\ HumansEdits(prog') = HumansEdits(prog) \/ (prog'.mod > prog.mod /\ cmd.pc \notin InSection)
<1>1. /\ prog \in ProgType /\ cmd \in CmdType /\ Brackets /\ Authorship /\ prog.mod \in Nat /\ foreign \in 0..MaxForeign
  BY DEF WritesIInv, WritesTyped, ProgType
<1>2. cmd.pc \in InSection => NoHumans(prog.pending)
  BY <1>1 DEF Authorship, NoHumans, Written, Mine, Author
<1>3. backend = "gui" /\ edt = "free" => cmd.pc \notin InSection /\ prog.own = 0
  BY <1>1 DEF Brackets, InOwn, InSection, ProgType
<1>4. ASSUME NEW leaves \in BOOLEAN, HumanEdits(leaves)
      PROVE  /\ prog'.mod >= prog.mod /\ prog'.mod > prog.mod /\ cmd' = cmd /\ cmd.pc \notin InSection
  <2>1. cmd' = cmd /\ cmd.pc \notin InSection /\ prog.own = 0
    BY <1>3, <1>4 DEF HumanEdits, MayAct
  <2>2. PICK e : e = <<"human", foreign, 0>>
    OBVIOUS
  <2>3. {e} \in SUBSET Tokens
    BY <1>1, <2>2 DEF Tokens
  <2>4. PICK s : s = Started(prog, "Other")
    OBVIOUS
  <2>5. s \in ProgType /\ s.mod = prog.mod
    BY <1>1, <2>4, StartedEffect
  <2>6. PICK p : p = Changed(s, {e})
    OBVIOUS
  <2>7. p \in ProgType /\ p.mod = prog.mod + 1
    <3>1. p \in ProgType
      BY <2>3, <2>5, <2>6, ChangedEffect
    <3>2. p.mod = s.mod + 1
      BY <2>5, <2>6 DEF Changed, ProgType
    <3> QED
      BY <2>5, <3>1, <3>2
  <2>8. PICK q : q = LeftBy(p, "Other", TRUE)
    OBVIOUS
  <2>9. q.mod >= p.mod /\ q.mod \in Nat
    <3>1. q \in ProgType
      BY <2>7, <2>8, OtherLeft
    <3>2. q.mod >= p.mod
      BY <2>7, <2>8, LeftShows
    <3> QED
      BY <3>1, <3>2 DEF ProgType
  <2>10. prog' = p \/ prog' = q
    BY <1>4, <2>2, <2>4, <2>6, <2>8 DEF HumanEdits
  <2> QED
    BY <1>1, <2>1, <2>7, <2>9, <2>10
<1>5. CASE HumanUndoes
  <2>1. cmd' = cmd /\ cmd.pc \notin InSection /\ CanStep(prog, "undo") /\ prog' = Stepped(prog, "undo")
    BY <1>3, <1>5 DEF HumanUndoes, MayAct
  <2>2. prog'.mod = prog.mod + 1
    BY <1>1, <2>1 DEF Stepped, ProgType
  <2> QED
    BY <1>1, <2>1, <2>2
<1>6. CASE ThreadStarts
  <2>1. PICK writes \in BOOLEAN :
          prog' = Changed(Started(prog, "Other"), IF writes THEN {<<"thread", foreign, 0>>} ELSE {})
    BY <1>6 DEF ThreadStarts
  <2>2. PICK edits : edits = IF writes THEN {<<"thread", foreign, 0>>} ELSE {}
    OBVIOUS
  <2>3. edits \in SUBSET Tokens /\ NoHumans(edits)
    BY <1>1, <2>2 DEF Tokens, NoHumans, Author
  <2>4. PICK s : s = Started(prog, "Other")
    OBVIOUS
  <2>5. /\ s \in ProgType /\ s.mod = prog.mod /\ s.undo = prog.undo /\ s.pending = prog.pending
        /\ (s.aborted <=> prog.aborted)
    BY <1>1, <2>4, StartedEffect
  <2>6. PICK q : q = Changed(s, edits) /\ prog' = q
    BY <2>1, <2>2, <2>4
  <2>7. /\ q \in ProgType /\ q.undo = prog.undo /\ q.pending = prog.pending \cup edits
        /\ (q.aborted <=> prog.aborted)
    BY <2>3, <2>5, <2>6, ChangedEffect
  <2>8. q.mod >= prog.mod
    BY <1>1, <2>5, <2>6 DEF Changed, ProgType
  <2>9. HumansEdits(q) = HumansEdits(prog)
    <3>1. \A e : Author(e) = "human" => (e \in q.pending <=> e \in prog.pending)
      BY <2>3, <2>7 DEF NoHumans
    <3>2. /\ Contents(q) = InHistory(prog) \cup (IF prog.aborted THEN {} ELSE q.pending)
          /\ Contents(prog) = InHistory(prog) \cup (IF prog.aborted THEN {} ELSE prog.pending)
      BY <2>7 DEF Contents, InHistory
    <3>3. \A e : Author(e) = "human" => (e \in Contents(q) <=> e \in Contents(prog))
      BY <3>1, <3>2
    <3> QED
      BY <3>3 DEF HumansEdits
  <2> QED
    BY <1>6, <2>6, <2>8, <2>9 DEF ThreadStarts
<1>7. ASSUME NEW commit \in BOOLEAN, ThreadEnds(commit)
      PROVE  /\ prog'.mod >= prog.mod /\ cmd' = cmd
             /\ HumansEdits(prog') = HumansEdits(prog) \/ (prog'.mod > prog.mod /\ cmd.pc \notin InSection)
  <2>1. cmd' = cmd /\ prog' = LeftBy(prog, "Other", commit)
    BY <1>7 DEF ThreadEnds
  <2>2. PICK q : q = LeftBy(prog, "Other", commit)
    OBVIOUS
  <2>3. /\ q.mod >= prog.mod
        /\ NoHumans(prog.pending) => HumansEdits(q) = HumansEdits(prog)
        /\ ~Open(q) => HumansEdits(q) = HumansEdits(prog) \/ q.mod > prog.mod
    BY <1>1, <2>2, LeftShows
  <2>4. cmd.pc \notin InSection => ~Open(q)
    <3>1. q.own = prog.own /\ ~q.other
      BY <1>1, <2>2, OtherLeft
    <3> QED
      BY <1>1, <3>1 DEF Brackets, InOwn, InSection, Open, ProgType
  <2> QED
    BY <1>2, <2>1, <2>2, <2>3, <2>4
<1>8. CASE \E leaves \in BOOLEAN : HumanEdits(leaves)
  BY <1>4, <1>8
<1>9. CASE \E commit \in BOOLEAN : ThreadEnds(commit)
  BY <1>7, <1>9
<1> QED
  BY <1>5, <1>6, <1>8, <1>9 DEF OthersNext

\* A variable is edited by its own command alone, in one transaction around it;
\* while the modification number is the one its view was read at, the view shows
\* what the human did, and at the write it does.
ViewTracked ==
  /\ cmd.pc \in {"checks", "decompile", "view"} => cmd.view = "none"
  /\ cmd.view = "decompiled" \/ cmd.pc \in {"decompile", "view"} => cmd.kind = "variable"
  /\ cmd.pc \in {"start", "item", "edit", "itemend"} /\ ~cmd.outer => cmd.kind = "batch"
  /\ cmd.view = "decompiled" \/ cmd.pc = "view" => cmd.seen <= prog.mod
  /\ cmd.view = "decompiled" /\ cmd.seen = prog.mod => HumansEdits(prog) = cmd.shown
  /\ cmd.pc = "write" => HumansEdits(prog) = cmd.shown

SameView(c, d) == c.view = d.view /\ c.seen = d.seen /\ c.shown = d.shown /\ c.kind = d.kind

\* The steps that leave the view as it is.
LEMMA ViewIsKept ==
  ASSUME MaxItems \in Nat, MaxCommands \in Nat, MaxForeign \in Nat, WritesIInv, ViewTracked,
         \/ ChecksRefuse \/ HandlerRefuses \/ EnterBoundary
         \/ DeadlinePasses \/ WaitUntilIdle \/ OnEdt \/ EdtTooBusy
         \/ BatchRefuses \/ StartOuter \/ StartItem \/ StartTransaction \/ Edit
         \/ EndItem \/ EndOuter \/ EndBatch
         \/ HistoryCheck \/ HistoryStep \/ HistoryFails \/ LeaveSection
         \/ ExternalRefused \/ ExternalWrite \/ FinishWrite
  PROVE  /\ SameView(cmd', cmd) /\ cmd'.pc \notin {"checks", "decompile", "view", "write"}
         /\ cmd'.pc \in {"start", "item", "edit", "itemend"} /\ ~cmd'.outer => cmd.kind = "batch"
<1>1. cmd \in CmdType /\ CommandSoFar /\ Brackets
  BY DEF WritesIInv, WritesTyped
<1>2. CASE ChecksRefuse \/ HandlerRefuses \/ EnterBoundary \/ DeadlinePasses \/ WaitUntilIdle
  BY <1>1, <1>2 DEF ChecksRefuse, HandlerRefuses, EnterBoundary, DeadlinePasses, WaitUntilIdle, Goto, Fail, SameView, CmdType
<1>3. CASE OnEdt \/ EdtTooBusy \/ BatchRefuses
  BY <1>1, <1>3 DEF OnEdt, EdtTooBusy, BatchRefuses, Goto, Fail, SameView, CmdType
<1>4. CASE StartOuter
  BY <1>1, <1>4 DEF StartOuter, Goto, Fail, SameView, CmdType
<1>5. CASE StartItem \/ StartTransaction
  BY <1>1, <1>5 DEF StartItem, StartTransaction, Goto, SameView, CmdType, ViewTracked
<1>6. CASE Edit
  <2>1. PICK kept : cmd' = IF cmd.outer THEN [cmd EXCEPT !.pc = "item", !.results = Append(@, kept)]
                           ELSE [cmd EXCEPT !.pc = "itemend", !.results = Append(@, kept)]
    BY <1>6 DEF Edit
  <2>2. cmd.outer \/ cmd.pc = "edit"
    BY <1>1, <1>6 DEF Edit, Brackets
  <2>3. CASE cmd.outer
    BY <1>1, <2>1, <2>3 DEF SameView, CmdType
  <2>4. CASE ~cmd.outer
    BY <1>1, <2>1, <2>2, <2>4 DEF SameView, CmdType, ViewTracked
  <2> QED
    BY <2>3, <2>4
<1>7. CASE EndItem
  <2>1. /\ cmd.pc = "itemend" /\ ~cmd.outer
        /\ cmd' = [cmd EXCEPT !.pc = "item"] \/ cmd' = [[cmd EXCEPT !.pc = "item"] EXCEPT !.pc = "leave", !.error = TRUE]
    BY <1>1, <1>7 DEF EndItem, EndTransaction, Brackets
  <2> QED
    BY <1>1, <2>1 DEF SameView, CmdType, ViewTracked
<1>8. CASE EndOuter
  <2> DEFINE next == [cmd EXCEPT !.pc = "leave", !.results = IF cmd.kind = "batch" THEN Reported ELSE @,
                                 !.error = cmd.kind # "batch" /\ ~Completed]
  <2>1. cmd' = next \/ cmd' = [next EXCEPT !.pc = "leave", !.error = TRUE]
    BY <1>8 DEF EndOuter, EndTransaction
  <2>2. SameView(next, cmd) /\ next.pc = "leave"
    BY <1>1 DEF SameView, CmdType
  <2>3. SameView([next EXCEPT !.pc = "leave", !.error = TRUE], cmd)
        /\ [next EXCEPT !.pc = "leave", !.error = TRUE].pc = "leave"
    BY <1>1 DEF SameView, CmdType
  <2> QED
    BY <2>1, <2>2, <2>3
<1>9. CASE EndBatch
  <2>1. PICK results : cmd' = [cmd EXCEPT !.pc = "leave", !.results = results]
    BY <1>9 DEF EndBatch
  <2> QED
    BY <1>1, <2>1 DEF SameView, CmdType
<1>10. CASE HistoryCheck \/ HistoryStep \/ HistoryFails \/ LeaveSection
  BY <1>1, <1>10 DEF HistoryCheck, HistoryStep, HistoryFails, LeaveSection, Goto, Fail, SameView, CmdType
<1>11. CASE ExternalRefused \/ ExternalWrite
  BY <1>1, <1>11 DEF ExternalRefused, ExternalWrite, Fail, SameView, CmdType
<1>12. CASE FinishWrite
  <2>1. PICK reply : cmd' = [cmd EXCEPT !.pc = "done", !.reply = reply]
    BY <1>12 DEF FinishWrite
  <2> QED
    BY <1>1, <2>1 DEF SameView, CmdType
<1> QED
  BY <1>2, <1>3, <1>4, <1>5, <1>6, <1>7, <1>8, <1>9, <1>10, <1>11, <1>12

LEMMA ViewStaysTracked ==
  ASSUME MaxItems \in Nat, MaxCommands \in Nat, MaxForeign \in Nat, WritesIInv, ViewTracked, [WritesNext]_writesVars
  PROVE  ViewTracked'
<1>1. /\ cmd \in CmdType /\ prog \in ProgType /\ prog' \in ProgType /\ cmd' \in CmdType
  BY WritesNextHolds DEF WritesIInv, WritesTyped
<1>2. prog.mod \in Nat /\ prog'.mod \in Nat /\ cmd.seen \in Nat
  BY <1>1 DEF ProgType, CmdType
<1>3. CASE UNCHANGED writesVars
  BY <1>3 DEF writesVars, ViewTracked
<1>4. CASE OthersNext
  <2>1. /\ prog'.mod >= prog.mod /\ cmd' = cmd
        /\ HumansEdits(prog') = HumansEdits(prog) \/ (prog'.mod > prog.mod /\ cmd.pc \notin InSection)
    BY <1>4, OthersShow
  <2>2. cmd.pc = "write" => cmd.pc \in InSection
    BY DEF InSection
  <2> QED
    BY <1>2, <2>1, <2>2 DEF ViewTracked
<1>5. ASSUME NEW kind \in WriteKinds, NEW size \in 1..MaxItems, NEW atomic \in BOOLEAN, NEW dry \in BOOLEAN,
             CallWrite(kind, size, atomic, dry)
      PROVE  ViewTracked'
  <2>1. cmd'.pc = "checks" /\ cmd'.view = "none"
    BY <1>5 DEF CallWrite, NoCommand
  <2> QED
    BY <2>1 DEF ViewTracked
<1>6. CASE Execute
  <2>1. cmd.pc = "checks" /\ cmd'.view = cmd.view /\ cmd'.kind = cmd.kind /\ cmd'.pc \in {"decompile", "external", "enter"}
        /\ (cmd'.pc = "decompile" => cmd.kind = "variable")
    BY <1>1, <1>6 DEF Execute, Goto, CmdType
  <2> QED
    BY <2>1 DEF ViewTracked
<1>7. CASE ReadModification
  <2>1. /\ cmd.pc = "decompile" /\ prog' = prog /\ cmd'.pc = "view" /\ cmd'.seen = prog.mod /\ cmd'.view = cmd.view
        /\ cmd'.kind = cmd.kind
    BY <1>1, <1>7 DEF ReadModification, CmdType
  <2> QED
    BY <1>2, <2>1 DEF ViewTracked
<1>8. CASE Decompile
  <2>1. /\ cmd.pc = "view" /\ prog' = prog /\ cmd'.pc = "enter" /\ cmd'.seen = cmd.seen /\ cmd'.kind = cmd.kind
        /\ cmd'.view = "database" \/ cmd'.shown = HumansEdits(prog)
    BY <1>1, <1>8 DEF Decompile, CmdType
  <2> QED
    BY <2>1 DEF ViewTracked
<1>9. CASE CheckView
  <2>1. /\ cmd.pc = "item" /\ cmd.outer /\ cmd.view = "decompiled" /\ prog' = prog /\ SameView(cmd', cmd) /\ cmd'.outer
        /\ (cmd'.pc = "write" /\ prog.mod = cmd.seen) \/ cmd'.pc = "item"
    BY <1>1, <1>9 DEF CheckView, Stale, Goto, SameView, CmdType
  <2> QED
    BY <2>1 DEF ViewTracked, SameView
<1>10. CASE \/ ChecksRefuse \/ HandlerRefuses \/ EnterBoundary
            \/ DeadlinePasses \/ WaitUntilIdle \/ OnEdt \/ EdtTooBusy
            \/ BatchRefuses \/ StartOuter \/ StartItem \/ StartTransaction \/ Edit
            \/ EndItem \/ EndOuter \/ EndBatch
            \/ HistoryCheck \/ HistoryStep \/ HistoryFails \/ LeaveSection
            \/ ExternalRefused \/ ExternalWrite \/ FinishWrite
  <2>1. /\ SameView(cmd', cmd) /\ cmd'.pc \notin {"checks", "decompile", "view", "write"}
        /\ cmd'.pc \in {"start", "item", "edit", "itemend"} /\ ~cmd'.outer => cmd.kind = "batch"
    BY <1>10, ViewIsKept
  <2>2. prog'.mod >= prog.mod /\ (HumansEdits(prog') = HumansEdits(prog) \/ prog'.mod > prog.mod)
    <3>1. CASE prog' = prog
      BY <1>2, <3>1
    <3>2. CASE prog' # prog /\ cmd.pc # "history"
      BY <1>10, <3>2, MechaKeeps DEF MechaNext
    <3>3. CASE prog' # prog /\ cmd.pc = "history"
      <4>1. HistoryStep
        BY <1>10, <3>3, OnlyHistorySteps DEF MechaNext
      <4>2. PICK q : q = Stepped(prog, cmd.kind) /\ prog' = q
        BY <4>1 DEF HistoryStep
      <4>3. q.mod = prog.mod + 1
        BY <1>1, <3>3, <4>2 DEF Stepped, ProgType
      <4> QED
        BY <1>2, <4>2, <4>3
    <3> QED
      BY <3>1, <3>2, <3>3
  <2> QED
    BY <1>2, <2>1, <2>2 DEF ViewTracked, SameView
<1> QED
  BY <1>3, <1>4, <1>5, <1>6, <1>7, <1>8, <1>9, <1>10 DEF WritesNext, MechaNext

\* A human edit never joins Mecha's transaction, so no step of Mecha but an undo
\* takes one away; and a variable is never written from a decompiled view that
\* shows less, or more, than the human has done by then (docs/gui-live.md,
\* handlers of local variables): whoever edits or undoes between the decompile
\* and the write moves the modification number that the write compares first.
THEOREM WriteStepsHold ==
  ASSUME MaxItems \in Nat, MaxCommands \in Nat, MaxForeign \in Nat
  PROVE  WritesSpec => WriteSteps
<1>1. ASSUME WritesIInv, ViewTracked, MechaNext PROVE ~LosesHumansEdits /\ ~WritesPastHumans
  <2>1. prog \in ProgType /\ Authorship /\ Brackets
    BY <1>1 DEF WritesIInv, WritesTyped
  <2>2. CASE prog' = prog
    BY <2>2 DEF LosesHumansEdits, WritesPastHumans
  <2>3. CASE prog' # prog /\ cmd.pc = "history"
    <3>1. HistoryStep
      BY <1>1, <2>3, OnlyHistorySteps
    <3>2. PICK q : q = Stepped(prog, cmd.kind)
      OBVIOUS
    <3>3. q.pending = prog.pending
      BY <2>1, <3>2, SteppedEffect
    <3>4. prog'.pending = prog.pending
      BY <3>1, <3>2, <3>3 DEF HistoryStep
    <3> QED
      BY <2>3, <3>4 DEF LosesHumansEdits, WritesPastHumans
  <2>4. CASE prog' # prog /\ cmd.pc # "history"
    <3>1. /\ cmd.pc \in InSection
          /\ prog'.undo = prog.undo \/ \E step \in StepType : prog'.undo = Append(prog.undo, step)
          /\ prog'.pending \subseteq prog.pending \/ Edit
      BY <1>1, <2>4, MechaKeeps
    <3>2. \A e \in prog.pending : Author(e) # "human"
      BY <2>1, <3>1 DEF Authorship, Author, Written, Mine
    <3>3. HumansEdits(prog) \subseteq HumansEdits(prog')
      BY <2>1, <3>1, <3>2, HumansKept
    <3>4. Edit /\ cmd.view = "decompiled" => HumansEdits(prog) = cmd.shown
      BY <1>1, <2>1 DEF Edit, Brackets, ViewTracked
    <3> QED
      BY <3>1, <3>3, <3>4 DEF LosesHumansEdits, WritesPastHumans
  <2> QED
    BY <2>2, <2>3, <2>4
<1>2. WritesInit => WritesIInv /\ ViewTracked
  BY WritesInitHolds DEF WritesInit, NoCommand, ViewTracked
<1>3. WritesIInv /\ ViewTracked /\ [WritesNext]_writesVars => WritesIInv' /\ ViewTracked'
  BY WritesNextHolds, ViewStaysTracked
<1>4. WritesIInv /\ ViewTracked /\ [WritesNext]_writesVars
        => [LosesHumansEdits \/ WritesPastHumans => ~MechaNext]_writesVars
  BY <1>1
<1> QED
  BY <1>2, <1>3, <1>4, PTL DEF WritesSpec, WriteSteps
=============================================================================
