---------------------------- MODULE ScriptBarrier ----------------------------
(***************************************************************************)
(* The process-wide reader/writer barrier around Ghidra script execution:  *)
(* class ScriptBarrier of ghidra_mcp/application/locks.py.  Ordinary       *)
(* commands read, scripts and provider initialization write.               *)
(*                                                                         *)
(* Every action is one critical section of the barrier's condition         *)
(* variable.  A thread that waits on the condition sleeps until it is      *)
(* notified (signalled), until the gate timer it computed runs out, or     *)
(* until its own deadline; only then does it evaluate its predicate again. *)
(* Time passes in ticks; ages saturate one tick past the grace period.     *)
(***************************************************************************)
EXTENDS Naturals, Integers, Sequences, FiniteSets, SequencesExt

CONSTANTS
  Threads,    \* the threads that use the barrier
  Stoppable,  \* those whose write_lock calls carry a stop event (run_script jobs)
  None,       \* no writer
  Grace,      \* READER_GRACE_SECONDS, in ticks
  MaxDepth    \* bound on the nesting of one thread's read or write sections

ASSUME NoneAssumption == None \notin Threads
ASSUME StoppableAssumption == Stoppable \subseteq Threads
ASSUME BoundsAssumption == Grace \in Nat \ {0} /\ MaxDepth \in Nat \ {0}

VARIABLES
  readers,      \* _readers: how many read sections each thread is inside
  writer,       \* _writer
  depth,        \* _writer_depth
  pending,      \* _pending_writers: the queued writers, oldest first
  ticket,       \* each queued writer's elders, and the age of its `since`
  waiting,      \* the threads waiting in read_lock
  gate,         \* ticks left of a waiting reader's wait, NoGate when unbounded
  signalled,    \* waiters notified that have not evaluated their predicate since
  stop,         \* the writers whose stop event is set
  interrupting  \* interrupt() calls between stop.set() and notify_all()

vars == <<readers, writer, depth, pending, ticket, waiting, gate, signalled, stop, interrupting>>

NoGate == -1
NoTicket == [elders |-> {}, age |-> 0]
Tickets == [elders : SUBSET Threads, age : 0..Grace + 1]

TypeOK ==
  /\ readers \in [Threads -> Nat]
  /\ writer \in Threads \union {None}
  /\ depth \in Nat
  /\ pending \in Seq(Threads)
  /\ ticket \in [Threads -> Tickets]
  /\ waiting \subseteq Threads
  /\ gate \in [Threads -> NoGate..Grace + 1]
  /\ signalled \subseteq Threads
  /\ stop \subseteq Threads
  /\ interrupting \subseteq Threads

Queued == {pending[i] : i \in DOMAIN pending}
Present == {t \in Threads : readers[t] > 0}

\* A thread outside every blocking call of the barrier.
Running(t) == t \notin waiting /\ t \notin Queued

-----------------------------------------------------------------------------
(* Predicates, and the side effect of evaluating them.                     *)

Elders == IF pending = <<>> THEN {} ELSE ticket[Head(pending)].elders \intersect Present

\* The readers the head writer queued behind are gone, and others came since.
GenerationOver == pending # <<>> /\ Elders = {} /\ Present # {}

NewReaderMayPass == Elders # {} /\ ticket[Head(pending)].age > Grace

\* Mutant: a reader never looks at the active writer.
ReaderIgnoresWriter(t) == readers[t] > 0 \/ pending = <<>> \/ NewReaderMayPass

ReaderMayEnter(t) ==
  \/ writer = t
  \/ /\ writer = None
     /\ readers[t] > 0 \/ pending = <<>> \/ NewReaderMayPass

\* The tickets after a reader that may not enter has evaluated its predicate:
\* the head writer's next generation starts at that moment.
Regenerated ==
  IF writer = None /\ GenerationOver
  THEN [ticket EXCEPT ![Head(pending)] = [elders |-> Present, age |-> 0]]
  ELSE ticket

\* How long the reader then sleeps: to the end of the head writer's grace, and
\* one tick more because the comparison with the grace is strict.  While a
\* writer is active, only a notification or the deadline wakes it.
GateCheck ==
  IF writer = None /\ pending # <<>>
  THEN Grace + 1 - Regenerated[Head(pending)].age
  ELSE NoGate

\* Mutant: any queued writer takes a free barrier.
TurnOfAnyone(t) == writer = None /\ Present = {} /\ t \in Queued

MyTurn(t) == writer = None /\ Present = {} /\ pending # <<>> /\ Head(pending) = t

WriterWaitOver(t) == t \in stop \/ MyTurn(t)

-----------------------------------------------------------------------------
(* read_lock                                                               *)

EnterRead(t) ==
  /\ readers' = [readers EXCEPT ![t] = @ + 1]
  /\ waiting' = waiting \ {t}
  /\ gate' = [gate EXCEPT ![t] = NoGate]
  /\ signalled' = signalled \ {t}
  /\ UNCHANGED <<writer, depth, pending, ticket, stop, interrupting>>

Read(t) ==
  /\ Running(t)
  /\ readers[t] < MaxDepth
  /\ \/ ReaderMayEnter(t) /\ EnterRead(t)
     \/ /\ ~ReaderMayEnter(t)
        /\ ticket' = Regenerated
        /\ waiting' = waiting \union {t}
        /\ gate' = [gate EXCEPT ![t] = GateCheck]
        /\ UNCHANGED <<readers, writer, depth, pending, signalled, stop, interrupting>>

\* A notified reader goes back to the wait it was in; one whose gate timer ran
\* out computes a new one.
ReadWake(t) ==
  /\ t \in waiting
  /\ t \in signalled \/ gate[t] = 0
  /\ \/ ReaderMayEnter(t) /\ EnterRead(t)
     \/ /\ ~ReaderMayEnter(t)
        /\ ticket' = Regenerated
        /\ gate' = [gate EXCEPT ![t] = IF @ = 0 THEN GateCheck ELSE @]
        /\ signalled' = signalled \ {t}
        /\ UNCHANGED <<readers, writer, depth, pending, waiting, stop, interrupting>>

\* At its deadline a reader evaluates once more, then raises LOCK_TIMEOUT.
ReadDeadline(t) ==
  /\ t \in waiting
  /\ \/ ReaderMayEnter(t) /\ EnterRead(t)
     \/ /\ ~ReaderMayEnter(t)
        /\ ticket' = Regenerated
        /\ waiting' = waiting \ {t}
        /\ gate' = [gate EXCEPT ![t] = NoGate]
        /\ signalled' = signalled \ {t}
        /\ UNCHANGED <<readers, writer, depth, pending, stop, interrupting>>

\* Mutant: leaving a read section does not notify the waiters.
SilentReadExit(t) ==
  /\ Running(t)
  /\ readers[t] > 0
  /\ readers' = [readers EXCEPT ![t] = @ - 1]
  /\ UNCHANGED <<writer, depth, pending, ticket, waiting, gate, signalled, stop, interrupting>>

ReadExit(t) ==
  /\ Running(t)
  /\ readers[t] > 0
  /\ readers' = [readers EXCEPT ![t] = @ - 1]
  /\ signalled' = waiting \union Queued
  /\ UNCHANGED <<writer, depth, pending, ticket, waiting, gate, stop, interrupting>>

-----------------------------------------------------------------------------
(* write_lock                                                              *)

\* The writer section entered again by its owner.
WriteAgain(t) ==
  /\ Running(t)
  /\ writer = t
  /\ depth < MaxDepth
  /\ depth' = depth + 1
  /\ UNCHANGED <<readers, writer, pending, ticket, waiting, gate, signalled, stop, interrupting>>

\* Mutant: a writer that leaves the queue leaves its ticket behind.
ForgetTicket(t) ==
  /\ signalled' = waiting \union (Queued \ {t})
  /\ stop' = stop \ {t}
  /\ UNCHANGED <<readers, pending, ticket, waiting, gate, interrupting>>

\* The end of a writer's wait, successful or not: its ticket leaves the queue
\* and everybody waiting is notified.
LeaveQueue(t) ==
  /\ pending' = RemoveAt(pending, CHOOSE i \in DOMAIN pending : pending[i] = t)
  /\ ticket' = [ticket EXCEPT ![t] = NoTicket]
  /\ signalled' = waiting \union (Queued \ {t})
  /\ stop' = stop \ {t}
  /\ UNCHANGED <<readers, waiting, gate, interrupting>>

\* A stop set before the turn came, or along with it, refuses the acquisition.
EndWriteWait(t) ==
  /\ LeaveQueue(t)
  /\ IF MyTurn(t) /\ t \notin stop
     THEN writer' = t /\ depth' = 1
     ELSE UNCHANGED <<writer, depth>>

\* A reader is refused here (no upgrade).  A new ticket at the end of the queue
\* can be over at once, when the barrier is free or the stop event was set
\* already; the ticket is then gone when the section ends.
Write(t) ==
  /\ Running(t)
  /\ writer # t
  /\ readers[t] = 0
  /\ IF t \in stop \/ (writer = None /\ Present = {} /\ pending = <<>>)
     THEN /\ signalled' = waiting \union Queued
          /\ stop' = stop \ {t}
          /\ IF t \in stop THEN UNCHANGED <<writer, depth>> ELSE writer' = t /\ depth' = 1
          /\ UNCHANGED <<readers, pending, ticket, waiting, gate, interrupting>>
     ELSE /\ pending' = Append(pending, t)
          /\ ticket' = [ticket EXCEPT ![t] = [elders |-> Present, age |-> 0]]
          /\ UNCHANGED <<readers, writer, depth, waiting, gate, signalled, stop, interrupting>>

WriteWake(t) ==
  /\ t \in Queued
  /\ t \in signalled
  /\ \/ WriterWaitOver(t) /\ EndWriteWait(t)
     \/ /\ ~WriterWaitOver(t)
        /\ signalled' = signalled \ {t}
        /\ UNCHANGED <<readers, writer, depth, pending, ticket, waiting, gate, stop, interrupting>>

\* At its deadline a writer evaluates once more, then raises LOCK_TIMEOUT.
WriteDeadline(t) ==
  /\ t \in Queued
  /\ EndWriteWait(t)

\* The outermost write section is the outermost `with` of its thread: reads
\* nested in it are over.
WriteExit(t) ==
  /\ Running(t)
  /\ writer = t
  /\ depth > 1 \/ readers[t] = 0
  /\ depth' = depth - 1
  /\ writer' = IF depth = 1 THEN None ELSE writer
  /\ signalled' = waiting \union Queued
  /\ UNCHANGED <<readers, pending, ticket, waiting, gate, stop, interrupting>>

-----------------------------------------------------------------------------
(* interrupt, and time                                                     *)

\* stop.set() needs no lock: it happens at any moment of a write_lock call,
\* and the call may end before the notification.
SetStop(t) ==
  /\ t \in Stoppable
  /\ writer # t
  /\ readers[t] = 0
  /\ t \notin waiting
  /\ t \notin stop
  /\ stop' = stop \union {t}
  /\ interrupting' = interrupting \union {t}
  /\ UNCHANGED <<readers, writer, depth, pending, ticket, waiting, gate, signalled>>

NotifyStop(t) ==
  /\ t \in interrupting
  /\ interrupting' = interrupting \ {t}
  /\ signalled' = waiting \union Queued
  /\ UNCHANGED <<readers, writer, depth, pending, ticket, waiting, gate, stop>>

Tick ==
  /\ ticket' = [t \in Threads |->
       IF t \in Queued /\ ticket[t].age <= Grace
       THEN [ticket[t] EXCEPT !.age = @ + 1] ELSE ticket[t]]
  /\ gate' = [t \in Threads |-> IF gate[t] > 0 THEN gate[t] - 1 ELSE gate[t]]
  /\ UNCHANGED <<readers, writer, depth, pending, waiting, signalled, stop, interrupting>>

-----------------------------------------------------------------------------
Init ==
  /\ readers = [t \in Threads |-> 0]
  /\ writer = None
  /\ depth = 0
  /\ pending = <<>>
  /\ ticket = [t \in Threads |-> NoTicket]
  /\ waiting = {}
  /\ gate = [t \in Threads |-> NoGate]
  /\ signalled = {}
  /\ stop = {}
  /\ interrupting = {}

Reader(t) == Read(t) \/ ReadWake(t) \/ ReadDeadline(t) \/ ReadExit(t)
Writer(t) == Write(t) \/ WriteAgain(t) \/ WriteWake(t) \/ WriteDeadline(t) \/ WriteExit(t)
Interrupt(t) == SetStop(t) \/ NotifyStop(t)

Next == Tick \/ \E t \in Threads : Reader(t) \/ Writer(t) \/ Interrupt(t)

Spec == Init /\ [][Next]_vars

-----------------------------------------------------------------------------
(* Correctness                                                             *)

\* A writer is alone: nobody else reads while it holds the barrier, and its
\* depth says whether it does (write_lock, _writer_wait_over_locked).
Exclusion ==
  /\ writer = None <=> depth = 0
  /\ writer # None => Present \subseteq {writer}

\* A thread waits in at most one place, holds nothing it would deadlock on
\* while it waits, and has exactly one ticket while it is queued: no ticket is
\* left behind "that can never acquire" (write_lock's finally).
OneTicketPerWaiter ==
  /\ \A i, j \in DOMAIN pending : pending[i] = pending[j] => i = j
  /\ waiting \intersect Queued = {}
  /\ \A t \in waiting \union Queued : readers[t] = 0 /\ writer # t

\* What holds in every state: the types, a writer that is alone, and tickets and
\* waiters that match (readers, writer and the deque of tickets).
BarrierInvariant == TypeOK /\ Exclusion /\ OneTicketPerWaiter

\* No lost wake-up: a waiter whose wait is over, for any reason but the passing
\* of time, has been notified or is about to be by the interrupt under way.
NoLostWakeup ==
  /\ \A t \in Queued : MyTurn(t) => t \in signalled
  /\ \A t \in Queued : t \in stop => t \in signalled \/ t \in interrupting
  /\ \A t \in waiting : writer = None /\ pending = <<>> => t \in signalled

\* Waiting writers run in FIFO order: whoever becomes the writer overtakes
\* nobody who was queued (the deque of tickets).
FifoWriters ==
  [][\A t \in Threads : writer # t /\ writer' = t =>
       \A i \in DOMAIN pending : pending[i] # t =>
         \E j \in DOMAIN pending : pending[j] = t /\ j < i]_vars

\* The barrier implements the plain reader/writer lock it stands for.
Lock == INSTANCE ReadWriteLock WITH reading <- Present, writing <- writer
LockSpec == Lock!Spec
=============================================================================
