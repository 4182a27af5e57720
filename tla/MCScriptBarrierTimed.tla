------------------------ MODULE MCScriptBarrierTimed ------------------------
(***************************************************************************)
(* The script barrier with two clocks: how long each read section has      *)
(* lasted, and how long each waiting reader has been held off by a queued  *)
(* writer (a wait for an active writer does not count).  Time is urgent:   *)
(* it passes only once every thread that has something to do did it.       *)
(***************************************************************************)
EXTENDS ScriptBarrier

CONSTANTS t1, t2, t3, LongReads  \* whether a read section may outlast the grace
MCThreads == {t1, t2, t3}

VARIABLES readFor, heldOff
timedVars == <<vars, readFor, heldOff>>

Bounded(n) == IF n <= Grace + 1 THEN n + 1 ELSE n

Runnable == {t \in waiting : t \in signalled \/ gate[t] = 0} \union (Queued \intersect signalled)

UrgentTick ==
  /\ Runnable = {}
  /\ interrupting = {}
  /\ LongReads \/ \A t \in Present : readFor[t] < Grace
  /\ Tick
  /\ readFor' = [t \in Threads |-> IF t \in Present THEN Bounded(readFor[t]) ELSE 0]
  /\ heldOff' = [t \in Threads |->
       IF t \in waiting /\ writer = None /\ pending # <<>> THEN Bounded(heldOff[t]) ELSE 0]

\* A section inside another never waits: nesting is left to the run without clocks.
Step(t) ==
  /\ Reader(t) \/ Writer(t) \/ Interrupt(t)
  /\ readers'[t] > readers[t] => writer # t
  /\ readFor' = [u \in Threads |-> IF readers'[u] = 0 THEN 0 ELSE readFor[u]]
  /\ heldOff' = [u \in Threads |->
       IF u \notin waiting' \/ writer' # None THEN 0 ELSE heldOff[u]]

TimedInit == Init /\ readFor = [t \in Threads |-> 0] /\ heldOff = [t \in Threads |-> 0]
TimedNext == UrgentTick \/ \E t \in Threads : Step(t)
TimedSpec == TimedInit /\ [][TimedNext]_timedVars

-----------------------------------------------------------------------------
\* ScriptBarrier's documentation: "A reader therefore never waits more than one
\* grace for a queued writer".
OneGraceForAQueuedWriter == \A t \in Threads : heldOff[t] <= Grace + 1
=============================================================================
