---------------------------- MODULE DeferredCalls ----------------------------
(***************************************************************************)
(* Tool calls on worker threads: class DeferredCalls of                    *)
(* presentation/deferred_calls.py.  A request takes one of a few slots, in *)
(* the order of arrival, starts its call on a thread and waits for it; if  *)
(* the wait ends first the call goes on and a job record gets its outcome. *)
(* A call sent with a request_id is claimed: it has a record from the      *)
(* start, and its thread writes the outcome there in any case.             *)
(*                                                                         *)
(* The request coroutines and _dispatch run on the event loop, so what     *)
(* they do between two awaits is one action; a worker thread's steps come  *)
(* between any of these.  A wait may end at any time.                      *)
(***************************************************************************)
EXTENDS Naturals, Sequences, FiniteSets, SequencesExt

CONSTANTS
  Calls,    \* the requests, one call each
  Claimed,  \* those sent with a request_id
  Patient,  \* those of a tool that is not deferrable (defer=False)
  Slots     \* CALL_SLOTS

ASSUME CallsAssumption == Claimed \subseteq Calls /\ Patient \subseteq Claimed /\ Slots \in Nat \ {0}

VARIABLES
  request,   \* where each request's coroutine is
  future,    \* its waiter's future: "none", "pending", "granted", "cancelled"
  waiters,   \* _slot_waiters
  slots,     \* value of the _slots semaphore
  wakeups,   \* _dispatch callbacks scheduled on the loop
  thread,    \* where each call's thread is
  deferred,  \* calls with an _on_finish
  record,    \* each call's job record: "none", "running", or its outcome
  reply      \* what each request was answered

vars == <<request, future, waiters, slots, wakeups, thread, deferred, record, reply>>

Init ==
  /\ request = [c \in Calls |-> "new"]
  /\ future = [c \in Calls |-> "none"]
  /\ waiters = <<>>
  /\ slots = Slots
  /\ wakeups = 0
  /\ thread = [c \in Calls |-> "none"]
  /\ deferred = {}
  /\ record = [c \in Calls |-> "none"]
  /\ reply = [c \in Calls |-> "none"]

-----------------------------------------------------------------------------
(* Slots                                                                   *)

\* The places in the queue of the waiters whose wait goes on.
Open(ws, fs) == {i \in DOMAIN ws : fs[ws[i]] = "pending"}

\* Mutant: a slot goes to the youngest waiter.
LuckyLast(ws, fs, n) == {i \in Open(ws, fs) : Cardinality({j \in Open(ws, fs) : j > i}) < n}

\* The places of those who get one of n slots: the first.
Lucky(ws, fs, n) == {i \in Open(ws, fs) : Cardinality({j \in Open(ws, fs) : j < i}) < n}

\* _dispatch: the free slots go to the oldest waiters.  A waiter whose wait
\* ended is dropped when it comes to the head.
HandOut(ws, fs, n) ==
  LET lucky == Lucky(ws, fs, n)
      left == Open(ws, fs) \ lucky
  IN [waiters |-> IF left = {} THEN <<>> ELSE SubSeq(ws, Min(left), Len(ws)),
      future |-> [c \in Calls |-> IF \E i \in lucky : ws[i] = c THEN "granted" ELSE fs[c]],
      slots |-> n - Cardinality(lucky)]

Dispatched(ws, fs, n) ==
  LET h == HandOut(ws, fs, n) IN waiters' = h.waiters /\ future' = h.future /\ slots' = h.slots

Dispatch ==
  /\ wakeups > 0
  /\ wakeups' = wakeups - 1
  /\ Dispatched(waiters, future, slots)
  /\ UNCHANGED <<request, thread, deferred, record, reply>>

\* Mutant: the loop is not told of the free slot.
ReleaseSlotQuietly ==
  /\ slots' = slots + 1
  /\ UNCHANGED wakeups

\* _release_slot: the loop is woken to hand the slot out.
ReleaseSlot ==
  /\ slots' = slots + 1
  /\ wakeups' = wakeups + 1

-----------------------------------------------------------------------------
(* Requests                                                                *)

\* The thread is started, or waits for one, in the step that took the slot.
Started(c) ==
  /\ request' = [request EXCEPT ![c] = "awaiting"]
  /\ thread' = [thread EXCEPT ![c] = "scheduled"]
  /\ deferred' = IF c \in Claimed THEN deferred \union {c} ELSE deferred

\* A claimed call's record exists before run() is called (claim_call).
Arrive(c) ==
  /\ request[c] = "new"
  /\ record' = IF c \in Claimed THEN [record EXCEPT ![c] = "running"] ELSE record
  /\ IF waiters = <<>> /\ slots > 0
     THEN /\ slots' = slots - 1
          /\ Started(c)
          /\ UNCHANGED <<future, waiters>>
     ELSE /\ Dispatched(Append(waiters, c), [future EXCEPT ![c] = "pending"], slots)
          /\ IF future'[c] = "granted" THEN Started(c)
             ELSE /\ request' = [request EXCEPT ![c] = "queued"]
                  /\ UNCHANGED <<thread, deferred>>
  /\ UNCHANGED <<wakeups, reply>>

Granted(c) ==
  /\ request[c] = "queued"
  /\ future[c] = "granted"
  /\ Started(c)
  /\ UNCHANGED <<future, waiters, slots, wakeups, record, reply>>

\* The wait ends, or the request is cancelled, before the coroutine resumes:
\* it still may have been handed a slot.
Interrupt(c, why) ==
  /\ request[c] = "queued"
  /\ request' = [request EXCEPT ![c] = why]
  /\ future' = [future EXCEPT ![c] = IF @ = "pending" THEN "cancelled" ELSE @]
  /\ UNCHANGED <<waiters, slots, wakeups, thread, deferred, record, reply>>

\* The finally of _acquire_slot.
PassOn(c) ==
  IF future[c] = "granted"
  THEN ReleaseSlot /\ UNCHANGED waiters
  ELSE waiters' = RemoveFirst(waiters, c) /\ UNCHANGED <<slots, wakeups>>

\* _slots_busy and _cancel_before_start finish a claimed call's record.
NotRun(c, outcome) ==
  record' = IF c \in Claimed THEN [record EXCEPT ![c] = outcome] ELSE record

Unwind(c) ==
  /\ request[c] \in {"timed_out", "cancelled"}
  /\ PassOn(c)
  /\ NotRun(c, IF request[c] = "timed_out" THEN "busy" ELSE "cancelled")
  /\ reply' = [reply EXCEPT ![c] = IF request[c] = "timed_out" THEN "busy" ELSE @]
  /\ request' = [request EXCEPT ![c] = "ended"]
  /\ UNCHANGED <<future, thread, deferred>>

\* The call's task is done in time.
Reply(c) ==
  /\ request[c] = "awaiting"
  /\ thread[c] = "returned"
  /\ request' = [request EXCEPT ![c] = "ended"]
  /\ reply' = [reply EXCEPT ![c] = "value"]
  /\ UNCHANGED <<future, waiters, slots, wakeups, thread, deferred, record>>

\* Mutant: a call that just finished is deferred too.
HasFinishedNot(c) == FALSE

\* _Call._finished: the call's outcome is known.
HasFinished(c) == thread[c] \in {"recording", "leaving", "returned"}

\* The wait is over: the reply names a record, or has the outcome of a call
\* that has just finished.
WaitOver(c) ==
  /\ request[c] = "awaiting"
  /\ c \notin Patient
  /\ request' = [request EXCEPT ![c] = "ended"]
  /\ IF c \in Claimed
     THEN /\ reply' = [reply EXCEPT ![c] = IF thread[c] = "returned" THEN "value" ELSE "deferred"]
          /\ UNCHANGED <<deferred, record>>
     ELSE IF HasFinished(c)
     THEN /\ reply' = [reply EXCEPT ![c] = "value"]
          /\ UNCHANGED <<deferred, record>>
     ELSE /\ reply' = [reply EXCEPT ![c] = "deferred"]
          /\ deferred' = deferred \union {c}
          /\ record' = [record EXCEPT ![c] = "running"]
  /\ UNCHANGED <<future, waiters, slots, wakeups, thread>>

\* The client gives up while its call runs; nothing stops the call.
CancelRequest(c) ==
  /\ request[c] = "awaiting"
  /\ request' = [request EXCEPT ![c] = "ended"]
  /\ UNCHANGED <<future, waiters, slots, wakeups, thread, deferred, record, reply>>

-----------------------------------------------------------------------------
(* Worker threads: _Call.run and _finish                                   *)

Run(c) ==
  /\ thread[c] = "scheduled"
  /\ thread' = [thread EXCEPT ![c] = "running"]
  /\ UNCHANGED <<request, future, waiters, slots, wakeups, deferred, record, reply>>

\* The tool returned: the outcome goes to the record, if there is one by now.
Finish(c) ==
  /\ thread[c] = "running"
  /\ thread' = [thread EXCEPT ![c] = IF c \in deferred THEN "recording" ELSE "leaving"]
  /\ UNCHANGED <<request, future, waiters, slots, wakeups, deferred, record, reply>>

Record(c) ==
  /\ thread[c] = "recording"
  /\ record' = [record EXCEPT ![c] = IF @ = "running" THEN "value" ELSE @]
  /\ thread' = [thread EXCEPT ![c] = "leaving"]
  /\ UNCHANGED <<request, future, waiters, slots, wakeups, deferred, reply>>

Leave(c) ==
  /\ thread[c] = "leaving"
  /\ ReleaseSlot
  /\ thread' = [thread EXCEPT ![c] = "returned"]
  /\ UNCHANGED <<request, future, waiters, deferred, record, reply>>

Next ==
  \/ Dispatch
  \/ \E c \in Calls :
       \/ Arrive(c) \/ Granted(c) \/ Unwind(c) \/ Reply(c) \/ WaitOver(c) \/ CancelRequest(c)
       \/ \E why \in {"timed_out", "cancelled"} : Interrupt(c, why)
       \/ Run(c) \/ Finish(c) \/ Record(c) \/ Leave(c)

Spec == Init /\ [][Next]_vars

\* The loop and the threads run and every tool returns.  No wait has to end.
Fairness ==
  /\ WF_vars(Dispatch)
  /\ \A c \in Calls :
       /\ WF_vars(Granted(c) \/ Unwind(c) \/ Reply(c))
       /\ WF_vars(Run(c) \/ Finish(c) \/ Record(c) \/ Leave(c))

FairSpec == Spec /\ Fairness

-----------------------------------------------------------------------------
(* Correctness                                                             *)

TypeOK ==
  /\ request \in [Calls -> {"new", "queued", "timed_out", "cancelled", "awaiting", "ended"}]
  /\ future \in [Calls -> {"none", "pending", "granted", "cancelled"}]
  /\ waiters \in Seq(Calls)
  /\ slots \in Nat /\ wakeups \in Nat
  /\ thread \in [Calls -> {"none", "scheduled", "running", "recording", "leaving", "returned"}]
  /\ deferred \subseteq Calls
  /\ record \in [Calls -> {"none", "running", "value", "busy", "cancelled"}]
  /\ reply \in [Calls -> {"none", "value", "deferred", "busy"}]

\* Calls that hold a slot: handed to a waiter that has not resumed, or used by
\* a thread until it leaves.
Holds(c) ==
  \/ future[c] = "granted" /\ request[c] \in {"queued", "timed_out", "cancelled"}
  \/ thread[c] \in {"scheduled", "running", "recording", "leaving"}

\* No slot is lost or made up, whatever waits end while slots change hands
\* (_release_slot, the finally of _acquire_slot).
SlotsConserved == slots + Cardinality({c \in Calls : Holds(c)}) = Slots

Waiting(c) == request[c] = "queued" /\ future[c] = "pending"

\* "A slot never sits free while a call waits": it is about to be handed out.
NoIdleSlot == slots > 0 /\ (\E c \in Calls : Waiting(c)) => wakeups > 0

\* Slots are conserved, and none is idle while a call waits for it.
SlotInvariant == TypeOK /\ SlotsConserved /\ NoIdleSlot

\* Slots are taken in the order of arrival: while a call waits, none that came
\* later gets a slot.
NoOvertaking ==
  [][\A c, d \in Calls : Waiting(c) /\ Waiting(c)' /\ ~Holds(d) /\ Holds(d)' =>
       /\ request[d] = "queued"
       /\ \E i, j \in DOMAIN waiters : i < j /\ waiters[i] = d /\ waiters[j] = c]_vars

\* A call that was refused, or cancelled while it waited, never runs later.
RefusedNeverRuns ==
  \A c \in Calls : reply[c] = "busy" \/ record[c] \in {"busy", "cancelled"} => thread[c] = "none"

\* An outcome reaches the client once: in the reply, or in the record that the
\* reply names, or in the record of a claimed call, which agrees with the reply.
OneOutcome ==
  \A c \in Calls :
    /\ reply[c] = "deferred" => record[c] \in {"running", "value"}
    /\ c \notin Claimed /\ reply[c] = "value" => record[c] = "none"
    /\ thread[c] = "returned" /\ record[c] # "none" => record[c] = "value"
    /\ c \in Claimed /\ reply[c] # "none" /\ reply[c] # "deferred" => record[c] = reply[c]

\* A claimed call whose request has ended and that no thread runs has a final
\* record, so that a resend never waits for nothing.
RecordsEnd ==
  \A c \in Claimed :
    request[c] = "ended" /\ thread[c] \in {"none", "returned"} => record[c] # "running"

\* Each call's outcome is told once, as it was.
OutcomesAreTrue == RefusedNeverRuns /\ OneOutcome /\ RecordsEnd

\* Every request whose call can get a slot is answered, unless its client left.
EveryRequestEnds == \A c \in Calls : request[c] # "new" ~> request[c] = "ended"
=============================================================================
