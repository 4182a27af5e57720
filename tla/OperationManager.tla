--------------------------- MODULE OperationManager ---------------------------
(***************************************************************************)
(* The background jobs and the records of tool calls: class                *)
(* OperationManager of application/services/operations.py.  One worker     *)
(* thread runs imports, analyses and scripts in order; clients submit,     *)
(* resend, cancel and wait; tool calls that outlive their reply, or carry  *)
(* a request_id, keep a record too; shutdown ends it all.                  *)
(*                                                                         *)
(* Every action is one section of the manager's lock, or one step of the   *)
(* worker between two of them.  The runtime a job runs in (import_program, *)
(* analyze_program, run_script) is what it does through OperationControl:  *)
(* check_active, begin, bind_cancel, and how it returns.                   *)
(***************************************************************************)
EXTENDS Naturals, Sequences, FiniteSets, SequencesExt

CONSTANTS
  Requests,      \* job requests: [kind, key, fp], where key is the reservation
  CallPrints,    \* fingerprints of tool calls
  ReqIds,        \* request_id values
  None,
  Ids,           \* operation_ids, issued in order: 1..n
  QueueLimit,    \* _QUEUE_LIMIT
  HistoryLimit,  \* _HISTORY_LIMIT
  PayloadLimit,  \* _PAYLOAD_LIMIT_BYTES
  Sizes,         \* sizes of the payloads a record may keep
  MaxInFlight,   \* bound on the tool calls running at once
  Awaited        \* operation_ids that clients wait for

Kinds == {"import", "analysis", "script"}
Keys == {q.key : q \in Requests}

ASSUME RequestsAssumption ==
  /\ \A q \in Requests : q.kind \in Kinds /\ DOMAIN q = {"kind", "key", "fp"}
  /\ \A p, q \in Requests : p.key = q.key => p.kind = q.kind
ASSUME NoneAssumption ==
  /\ None \notin Ids /\ None \notin ReqIds /\ None \notin Keys /\ None \notin Kinds
  /\ None \notin {"call", "client", "shutdown", "cancelled", "failed", "worker_failed"}
  /\ None \notin {"absent", "created", "uncertain"}
ASSUME LimitsAssumption ==
  /\ QueueLimit \in Nat \ {0} /\ HistoryLimit \in Nat \ {0} /\ PayloadLimit \in Nat \ {0}
  /\ Sizes \subseteq Nat /\ MaxInFlight \in Nat /\ Awaited \subseteq Ids
  /\ IsFiniteSet(Ids) /\ Ids = 1..Cardinality(Ids)

VARIABLES
  records,       \* the _Operation objects, in the state "free" before they exist
  table,         \* the operation_ids in _records
  requests,      \* _requests: request_id -> operation_id
  reservations,  \* _reservations: reservation key -> operation_id
  released,      \* _released: finished records, oldest first
  kept,          \* _payload_order: records that keep a payload, oldest first
  queue,         \* _queue: operation_ids, and the sentinel None
  queued,        \* _queued
  running,       \* _running_calls
  worker,        \* the worker thread: [pc, id, err, out]
  stopping,      \* _stopping and _stop
  broken,        \* _broken
  shut,          \* progress of shutdown()
  inFlight,      \* _calls_in_flight
  sleeping       \* operation_ids some wait_for sleeps on, not notified since

tables == <<records, table, requests, reservations, released, kept>>
vars == <<tables, queue, queued, running, worker, stopping, broken, shut, inFlight, sleeping>>

Pending == {"queued", "running"}
Outputs == {"absent", "created", "uncertain"}

NoRecord ==
  [kind |-> None, key |-> None, fp |-> None, state |-> "free", executing |-> FALSE,
   cancel |-> None, bound |-> FALSE, told |-> FALSE,
   err |-> None, out |-> None, reqs |-> {}, size |-> 0]

IsCall(id) == records[id].kind = "call"
IsPending(id) == records[id].state \in Pending
Fresh(id) == records[id].state = "free" /\ \A i \in Ids : i < id => records[i].state # "free"

\* A failed tool call that changed nothing no longer holds its request_id.
FailedLeavingNothing(id) ==
  /\ IsCall(id)
  /\ records[id].state = "failed"
  /\ records[id].err # "cancelled"
  /\ records[id].out = "absent"

\* Why a job must not go on, or None.
Refusal(id) ==
  IF records[id].cancel = "client" THEN "cancelled"
  ELSE IF stopping THEN "shutdown" ELSE None

-----------------------------------------------------------------------------
(* The tables.  A Book is their value; these operators are the helpers     *)
(* that the manager calls with its lock held.                              *)

Book == [records |-> records, table |-> table, requests |-> requests,
         reservations |-> reservations, released |-> released, kept |-> kept]

SetTables(b) ==
  /\ records' = b.records
  /\ table' = b.table
  /\ requests' = b.requests
  /\ reservations' = b.reservations
  /\ released' = b.released
  /\ kept' = b.kept

Total(b, s) ==
  LET upTo[n \in 0..Len(s)] == IF n = 0 THEN 0 ELSE upTo[n - 1] + b.records[s[n]].size
  IN upTo[Len(s)]

\* The numbers of a finite set in their order, and a queue without the elements of S.
InOrder(S) == [n \in 1..Cardinality(S) |-> CHOOSE i \in S : Cardinality({j \in S : j <= i}) = n]
Without(s, S) ==
  LET at == InOrder({i \in DOMAIN s : s[i] \notin S}) IN [n \in DOMAIN at |-> s[at[n]]]

\* _drop_payload_locked, for the records in S.
DropPayloads(b, S) ==
  [b EXCEPT !.records = [id \in Ids |-> IF id \in S THEN [@[id] EXCEPT !.size = 0] ELSE @[id]],
            !.kept = Without(@, S)]

\* Mutant: a payload is kept whatever its size.
KeepAnyPayload(b, id, size) ==
  [b EXCEPT !.records[id].size = size, !.kept = IF size = 0 THEN @ ELSE Append(@, id)]

\* _keep_payload_locked: a payload above the limit is dropped alone, otherwise
\* the oldest go until the rest fits.
KeepPayload(b, id, size) ==
  LET c == [b EXCEPT !.records[id].size = size,
                     !.kept = IF size = 0 THEN @ ELSE Append(@, id)]
      fits(n) == Total(c, SubSeq(c.kept, n + 1, Len(c.kept))) <= PayloadLimit
      n == CHOOSE n \in 0..Len(c.kept) : fits(n) /\ \A m \in 0..n - 1 : ~fits(m)
  IN IF size > PayloadLimit THEN DropPayloads(c, {id})
     ELSE DropPayloads(c, ToSet(SubSeq(c.kept, 1, n)))

\* Mutant: an evicted record takes its request_ids with it, whoever has them now.
ForgetAllRequests(b, old) ==
  [r \in ReqIds |-> IF \E id \in old : r \in b.records[id].reqs THEN None ELSE b.requests[r]]

\* The request_ids that still stand for an evicted record are unknown again.
ForgetRequests(b, old) ==
  [r \in ReqIds |-> IF b.requests[r] \in old THEN None ELSE b.requests[r]]

\* _release_locked, for records released one after the other: their
\* reservations go, and beyond the history limit the oldest records with them.
Release(b, ids) ==
  LET all == b.released \o ids
      over == IF Len(all) > HistoryLimit THEN Len(all) - HistoryLimit ELSE 0
      old == ToSet(SubSeq(all, 1, over))
  IN [records |-> [id \in Ids |->
        IF id \in old THEN [b.records[id] EXCEPT !.size = 0] ELSE b.records[id]],
      table |-> b.table \ old,
      requests |-> ForgetRequests(b, old),
      reservations |-> [k \in Keys |->
        IF b.reservations[k] \in ToSet(ids) THEN None ELSE b.reservations[k]],
      released |-> SubSeq(all, over + 1, Len(all)),
      kept |-> Without(b.kept, old)]

\* A job that succeeded, or left nothing, gives its claim up; an import that
\* may have left a program keeps the name, and its record is never released.
FreesClaim(kind, out) == out \in {None, "absent"} \/ kind # "import"

\* _fail_one_locked, for jobs that did not begin.
Fail(b, ids, err) ==
  Release([b EXCEPT !.records = [id \in Ids |->
             IF id \in ToSet(ids)
             THEN [@[id] EXCEPT !.state = "failed", !.err = err, !.out = "absent"]
             ELSE @[id]]], ids)

QueuedJobs == {id \in table : records[id].state = "queued"}

\* _changed.notify_all: sleepers evaluate their predicate again.
Notify == sleeping' = {id \in sleeping : records'[id].state \in Pending}

-----------------------------------------------------------------------------
(* Clients: submit_import, submit_analysis, submit_script                  *)

Holder(q) == reservations[q.key]

\* A job being cancelled takes nobody along, except an import, which waits.
MustJoin(q) ==
  /\ Holder(q) # None
  /\ q.kind = "import" \/ records[Holder(q)].cancel = None

\* A new job, its request_id unknown and no other job holding its claim.
Submit(q, r) ==
  /\ r # None => requests[r] = None
  /\ ~stopping /\ ~broken
  /\ ~MustJoin(q)
  /\ queued < QueueLimit
  /\ \E id \in Ids :
       /\ Fresh(id)
       /\ records' = [records EXCEPT ![id] =
            [NoRecord EXCEPT !.kind = q.kind, !.key = q.key, !.fp = q.fp, !.state = "queued",
                             !.reqs = IF r = None THEN {} ELSE {r}]]
       /\ table' = table \union {id}
       /\ reservations' = [reservations EXCEPT ![q.key] = id]
       /\ requests' = IF r = None THEN requests ELSE [requests EXCEPT ![r] = id]
       /\ queue' = Append(queue, id)
  /\ queued' = queued + 1
  /\ worker' = IF worker.pc = "off" THEN [worker EXCEPT !.pc = "get"] ELSE worker
  /\ UNCHANGED <<released, kept, running, stopping, broken, shut, inFlight, sleeping>>

Adopt(id, r) ==
  /\ requests' = [requests EXCEPT ![r] = id]
  /\ records' = [records EXCEPT ![id].reqs = @ \union {r}]

\* The same request sent again with another request_id joins the pending job.
\* Every other request for a held claim is refused, and a known request_id is
\* replayed or refused: neither changes anything.
Join(q, r) ==
  /\ r # None /\ requests[r] = None
  /\ ~stopping /\ ~broken
  /\ MustJoin(q)
  /\ LET id == Holder(q) IN
       /\ IsPending(id)
       /\ records[id].cancel = None
       /\ records[id].fp = q.fp
       /\ Adopt(id, r)
  /\ UNCHANGED <<table, reservations, released, kept, queue, queued, running, worker, stopping,
                 broken, shut, inFlight, sleeping>>

\* The id of a cancelled job stays in the queue; the count does not.
QueuedAfter(id) == IF records[id].state = "queued" THEN queued - 1 ELSE queued

\* cancel: a job that has not begun ends at once, one that has is told.
Cancel(id) ==
  /\ id \in table
  /\ ~IsCall(id)
  /\ IsPending(id)
  /\ LET asked == [Book EXCEPT !.records[id].cancel = IF @ = None THEN "client" ELSE @,
                               !.records[id].told = @ \/ records[id].bound]
     IN SetTables(IF records[id].executing THEN asked ELSE Fail(asked, <<id>>, "cancelled"))
  /\ queued' = QueuedAfter(id)
  /\ IF records[id].executing THEN UNCHANGED sleeping ELSE Notify
  /\ UNCHANGED <<queue, running, worker, stopping, broken, shut, inFlight>>

WaitFor(id) ==
  /\ id \in table /\ IsPending(id)
  /\ id \notin sleeping
  /\ sleeping' = sleeping \union {id}
  /\ UNCHANGED <<tables, queue, queued, running, worker, stopping, broken, shut, inFlight>>

-----------------------------------------------------------------------------
(* The worker: _work and _run                                              *)

At(pc) == worker.pc = pc
GoTo(pc) == worker' = [worker EXCEPT !.pc = pc]

\* queue.get returns: a job's id, or the sentinel that ends the worker.
Dequeue ==
  /\ At("get")
  /\ queue # <<>>
  /\ queue' = Tail(queue)
  /\ worker' = IF Head(queue) = None THEN [worker EXCEPT !.pc = "exited"]
               ELSE [worker EXCEPT !.pc = "got", !.id = Head(queue)]
  /\ UNCHANGED <<tables, queued, running, stopping, broken, shut, inFlight, sleeping>>

\* queue.get times out; a job may still be put before the worker has the lock.
IdleTimeout ==
  /\ At("get")
  /\ queue = <<>>
  /\ GoTo("idle")
  /\ UNCHANGED <<tables, queue, queued, running, stopping, broken, shut, inFlight, sleeping>>

\* Mutant: the worker exits without looking at the queue again.
IdleExitBlindly ==
  /\ At("idle")
  /\ GoTo("off")
  /\ UNCHANGED <<tables, queue, queued, running, stopping, broken, shut, inFlight, sleeping>>

IdleExit ==
  /\ At("idle")
  /\ GoTo(IF queue = <<>> THEN "off" ELSE "get")
  /\ UNCHANGED <<tables, queue, queued, running, stopping, broken, shut, inFlight, sleeping>>

\* Mutant: the worker returns at a job it has to skip.
SkipAll ==
  /\ worker' = [worker EXCEPT !.pc = "exited", !.id = None]
  /\ UNCHANGED <<tables, queued, sleeping>>

Skip ==
  /\ worker' = [worker EXCEPT !.pc = "get", !.id = None]
  /\ UNCHANGED <<tables, queued, sleeping>>

\* A job that shutdown or cancel ended while it was queued is skipped.
Start ==
  /\ At("got")
  /\ IF worker.id \notin table \/ stopping \/ records[worker.id].state # "queued"
     THEN Skip
     ELSE /\ queued' = queued - 1
          /\ records' = [records EXCEPT ![worker.id].state = "running"]
          /\ GoTo("run")
          /\ Notify
          /\ UNCHANGED <<table, requests, reservations, released, kept>>
  /\ UNCHANGED <<queue, running, stopping, broken, shut, inFlight>>

\* Mutant: begin does not ask whether the job was cancelled.
BeginRegardless ==
  /\ At("run")
  /\ ~records[worker.id].executing
  /\ records' = [records EXCEPT ![worker.id].executing = TRUE]
  /\ UNCHANGED <<table, requests, reservations, released, kept, queue, queued, running, worker,
                 stopping, broken, shut, inFlight>>
  /\ Notify

\* control.begin: the job starts to change the program.
Begin ==
  /\ At("run")
  /\ ~records[worker.id].executing
  /\ Refusal(worker.id) = None
  /\ records' = [records EXCEPT ![worker.id].executing = TRUE]
  /\ UNCHANGED <<table, requests, reservations, released, kept, queue, queued, running, worker,
                 stopping, broken, shut, inFlight>>
  /\ Notify

\* check_active or begin refuses, or the runtime's locks timed out: a job that
\* must not go on gives up, any other keeps trying.
Refused ==
  /\ At("run")
  /\ ~records[worker.id].executing
  /\ Refusal(worker.id) # None
  /\ worker' = [worker EXCEPT !.pc = "back", !.err = Refusal(worker.id), !.out = "absent"]
  /\ UNCHANGED <<tables, queue, queued, running, stopping, broken, shut, inFlight, sleeping>>

\* Mutant: a cancel bound after the request to cancel is not called.
BindForTheFuture(bind) ==
  /\ At("run")
  /\ records[worker.id].bound # bind
  /\ records' = [records EXCEPT ![worker.id].bound = bind, ![worker.id].told = FALSE]
  /\ UNCHANGED <<table, requests, reservations, released, kept, queue, queued, running, worker,
                 stopping, broken, shut, inFlight, sleeping>>

\* control.bind_cancel(cancel) and bind_cancel(None).
BindCancel(bind) ==
  /\ At("run")
  /\ records[worker.id].bound # bind
  /\ records' = [records EXCEPT ![worker.id].bound = bind,
                                ![worker.id].told = bind /\ records[worker.id].cancel # None]
  /\ UNCHANGED <<table, requests, reservations, released, kept, queue, queued, running, worker,
                 stopping, broken, shut, inFlight, sleeping>>

\* The runtime call returns, or raises with what it left in the project.
Return(err, out) ==
  /\ At("run")
  /\ err = None <=> out = None
  /\ ~records[worker.id].executing => out \in {None, "absent"}
  /\ worker' = [worker EXCEPT !.pc = "back", !.err = err, !.out = out]
  /\ UNCHANGED <<tables, queue, queued, running, stopping, broken, shut, inFlight, sleeping>>

\* The first section after the call: cancel may have ended the record already,
\* and only a job that had begun is reported as cancelled mid-way.
Classify ==
  /\ At("back")
  /\ worker' =
       IF records[worker.id].state \notin Pending THEN [worker EXCEPT !.pc = "done"]
       ELSE [worker EXCEPT !.pc = "shown",
               !.err = IF @ # None /\ records[worker.id].cancel # None /\ records[worker.id].executing
                       THEN IF records[worker.id].cancel = "client" THEN "cancelled" ELSE "shutdown"
                       ELSE @]
  /\ UNCHANGED <<tables, queue, queued, running, stopping, broken, shut, inFlight, sleeping>>

\* The second one, after the outcome was presented without the lock.
Finish(size) ==
  /\ At("shown")
  /\ GoTo("done")
  /\ IF records[worker.id].state \notin Pending THEN UNCHANGED <<tables, sleeping>>
     ELSE /\ LET id == worker.id
                 b == [Book EXCEPT !.records[id].state = IF worker.err = None THEN "succeeded" ELSE "failed",
                                   !.records[id].err = worker.err,
                                   !.records[id].out = worker.out,
                                   !.records[id].bound = FALSE]
                 c == KeepPayload(b, id, size)
             IN SetTables(IF FreesClaim(records[id].kind, worker.out) THEN Release(c, <<id>>) ELSE c)
          /\ Notify
  /\ UNCHANGED <<queue, queued, running, stopping, broken, shut, inFlight>>

\* The worker leaves the job: _current is None again.
NextJob ==
  /\ At("done")
  /\ worker' = [pc |-> "get", id |-> None, err |-> None, out |-> None]
  /\ UNCHANGED <<tables, queue, queued, running, stopping, broken, shut, inFlight, sleeping>>

\* A BaseException, or a failure outside the runtime call, ends the worker.
Crash ==
  /\ worker.pc \in {"run", "back", "shown"}
  /\ GoTo("crashed")
  /\ UNCHANGED <<tables, queue, queued, running, stopping, broken, shut, inFlight, sleeping>>

Break ==
  /\ At("crashed")
  /\ LET id == worker.id
         out == IF records[id].executing THEN "uncertain" ELSE "absent"
         ended == [Book EXCEPT !.records[id].state = "failed", !.records[id].err = "worker_failed",
                               !.records[id].out = out]
         own == IF ~IsPending(id) THEN Book
                ELSE IF FreesClaim(records[id].kind, out) THEN Release(ended, <<id>>) ELSE ended
     IN SetTables(Fail(own, InOrder(QueuedJobs), "worker_failed"))
  /\ broken' = TRUE
  /\ queued' = queued - Cardinality(QueuedJobs)
  /\ queue' = <<>>
  /\ GoTo("dead")
  /\ Notify
  /\ UNCHANGED <<running, stopping, shut, inFlight>>

-----------------------------------------------------------------------------
(* Tool calls: claim_call, defer_call, finish_call, tracked_call           *)

NewCall(id, fp, reqs) ==
  /\ Fresh(id)
  /\ records' = [records EXCEPT ![id] =
       [NoRecord EXCEPT !.kind = "call", !.fp = fp, !.state = "running", !.executing = TRUE, !.reqs = reqs]]
  /\ table' = table \union {id}
  /\ running' = running \union {id}
  /\ UNCHANGED <<reservations, released, kept, queue, queued, worker, stopping, broken, shut, inFlight>>

\* A resend of a known request_id gets the first call's record, or a conflict:
\* neither changes anything.
ClaimCall(r, fp) ==
  /\ requests[r] # None => FailedLeavingNothing(requests[r])
  /\ \E id \in Ids :
       /\ NewCall(id, fp, {r})
       /\ requests' = [requests EXCEPT ![r] = id]
  /\ Notify

DeferCall(fp) ==
  /\ \E id \in Ids : NewCall(id, fp, {})
  /\ UNCHANGED requests
  /\ Notify

\* Mutant: a finished call stays among the running ones.
FinishCallAgain(id, err, out, size) ==
  /\ id \in running
  /\ err = None <=> out = None
  /\ UNCHANGED running
  /\ LET b == [Book EXCEPT !.records[id].state = IF err = None THEN "succeeded" ELSE "failed",
                           !.records[id].err = err, !.records[id].out = out]
     IN SetTables(Release(KeepPayload(b, id, size), <<id>>))
  /\ Notify
  /\ UNCHANGED <<queue, queued, worker, stopping, broken, shut, inFlight>>

\* A call that reports no record, or one finished before, changes nothing.
FinishCall(id, err, out, size) ==
  /\ id \in running
  /\ err = None <=> out = None
  /\ running' = running \ {id}
  /\ LET b == [Book EXCEPT !.records[id].state = IF err = None THEN "succeeded" ELSE "failed",
                           !.records[id].err = err, !.records[id].out = out]
     IN SetTables(Release(KeepPayload(b, id, size), <<id>>))
  /\ Notify
  /\ UNCHANGED <<queue, queued, worker, stopping, broken, shut, inFlight>>

TrackCall ==
  /\ inFlight < MaxInFlight
  /\ inFlight' = inFlight + 1
  /\ UNCHANGED <<tables, queue, queued, running, worker, stopping, broken, shut, sleeping>>

UntrackCall ==
  /\ inFlight > 0
  /\ inFlight' = inFlight - 1
  /\ UNCHANGED <<tables, queue, queued, running, worker, stopping, broken, shut>>
  /\ Notify

-----------------------------------------------------------------------------
(* shutdown                                                                *)

Current == IF worker.pc \in {"run", "back", "shown", "done"} THEN worker.id ELSE None

\* Shutdown asks a running job to stop, and calls the cancel it has bound.
ToldToStop(r) ==
  [r EXCEPT !.cancel = IF r.cancel = None THEN "shutdown" ELSE r.cancel, !.told = r.told \/ r.bound]

\* Queued jobs fail, running ones are told, and the worker gets its sentinel.
\* A running script may ignore its monitor: shutdown waits for it with a limit.
Shutdown ==
  /\ shut = "no"
  /\ stopping' = TRUE
  /\ LET b == Fail(Book, InOrder(QueuedJobs), "shutdown")
     IN SetTables([b EXCEPT !.records = [id \in Ids |->
          IF id \in b.table /\ b.records[id].state = "running" /\ ~IsCall(id)
          THEN ToldToStop(b.records[id]) ELSE b.records[id]]])
  /\ queued' = queued - Cardinality(QueuedJobs)
  /\ queue' = IF worker.pc = "off" \/ broken THEN <<>> ELSE <<None>>
  /\ shut' = IF Current # None /\ records[Current].kind = "script" THEN "join_script" ELSE "join"
  /\ Notify
  /\ UNCHANGED <<running, worker, broken, inFlight>>

Stopped == worker.pc \in {"off", "exited", "dead"}

Joined ==
  /\ shut = "join_script" \/ (shut = "join" /\ Stopped)
  /\ shut' = "calls"
  /\ UNCHANGED <<tables, queue, queued, running, worker, stopping, broken, inFlight, sleeping>>

\* Then the projects may be closed.
CallsDone ==
  /\ shut = "calls"
  /\ inFlight = 0
  /\ shut' = "closed"
  /\ UNCHANGED <<tables, queue, queued, running, worker, stopping, broken, inFlight, sleeping>>

-----------------------------------------------------------------------------
Init ==
  /\ records = [id \in Ids |-> NoRecord]
  /\ table = {}
  /\ requests = [r \in ReqIds |-> None]
  /\ reservations = [k \in Keys |-> None]
  /\ released = <<>> /\ kept = <<>> /\ queue = <<>> /\ queued = 0
  /\ running = {}
  /\ worker = [pc |-> "off", id |-> None, err |-> None, out |-> None]
  /\ stopping = FALSE /\ broken = FALSE
  /\ shut = "no"
  /\ inFlight = 0
  /\ sleeping = {}

\* How a job, or a call, may report to have ended.
Outcomes == {<<None, None>>} \union ({"failed"} \X Outputs)
CallOutcomes == Outcomes \union {<<"cancelled", "absent">>}

Worker ==
  \/ Dequeue \/ IdleTimeout \/ IdleExit \/ Start \/ Begin \/ Refused \/ Classify \/ NextJob \/ Break
  \/ \E bind \in BOOLEAN : BindCancel(bind)
  \/ \E o \in Outcomes : Return(o[1], o[2])
  \/ \E size \in Sizes : Finish(size)

Client ==
  \/ \E q \in Requests, r \in ReqIds \union {None} : Submit(q, r) \/ Join(q, r)
  \/ \E id \in Ids : Cancel(id)
  \/ \E id \in Awaited : WaitFor(id)

Call ==
  \/ \E fp \in CallPrints : DeferCall(fp) \/ \E r \in ReqIds : ClaimCall(r, fp)
  \/ \E id \in Ids, o \in CallOutcomes, size \in Sizes : FinishCall(id, o[1], o[2], size)

Next == Worker \/ Crash \/ Client \/ Call \/ TrackCall \/ UntrackCall \/ Shutdown \/ Joined \/ CallsDone

Spec == Init /\ [][Next]_vars

\* Where the worker always has a next step.  A runtime call returns.
Busy == {"get", "idle", "got", "run", "back", "shown", "done", "crashed"}

\* Weak fairness of the worker, said of its control points: it does not stay at
\* one of them for ever.  Tool calls end and shutdown goes on, too; nobody has
\* to submit, cancel, crash or shut down.
Fairness ==
  /\ \A pc \in Busy : []<>(worker.pc # pc)
  /\ WF_vars(UntrackCall)
  /\ WF_vars(Joined \/ CallsDone)

\* Clients stop sending calls before the server shuts down.
CallsStopComing == <>[][inFlight' <= inFlight]_inFlight

FairSpec == Spec /\ Fairness /\ CallsStopComing

-----------------------------------------------------------------------------
(* Correctness                                                             *)

TypeOK ==
  /\ \A id \in Ids :
       /\ records[id].kind \in Kinds \union {None, "call"}
       /\ records[id].state \in {"free", "failed", "succeeded"} \union Pending
       /\ records[id].reqs \subseteq ReqIds
       /\ records[id].out \in Outputs \union {None}
  /\ table \subseteq Ids /\ running \subseteq table /\ sleeping \subseteq Ids
  /\ requests \in [ReqIds -> Ids \union {None}]
  /\ reservations \in [Keys -> Ids \union {None}]
  /\ queued \in Nat
  /\ worker.id \in Ids \union {None}

\* The counter that admission is limited by counts the queued jobs, although a
\* cancelled job's id stays in the queue (_queued).
QueueIsCounted == queued = Cardinality(QueuedJobs) /\ queued <= QueueLimit

\* A job that was accepted is on its way to a worker that is alive: an idle
\* worker never exits past a job, and a stopping one leaves none queued.
NoStrandedJob ==
  QueuedJobs # {} =>
    /\ ~Stopped
    /\ \A id \in QueuedJobs :
         id \in ToSet(queue) \/ (worker.pc = "got" /\ worker.id = id) \/ worker.pc = "crashed"

\* An import keeps its name from admission until it ended leaving nothing: no
\* other import of the name is accepted, and the name's holder is found.
Claims(id) ==
  /\ records[id].kind = "import"
  /\ IsPending(id) \/ (records[id].state = "failed" /\ records[id].out # "absent")
ImportNamesAreExclusive ==
  \A id \in Ids : Claims(id) => id \in table /\ reservations[records[id].key] = id

\* Only a job being cancelled shares its claim with a newer one.
OneUncancelledJobPerClaim ==
  \A i, j \in table :
    /\ ~IsCall(i) /\ ~IsCall(j) /\ records[i].key = records[j].key
    /\ IsPending(i) /\ IsPending(j)
    /\ records[i].cancel = None /\ records[j].cancel = None
    => i = j

\* A resend finds the one record its request_id stands for as long as that
\* record exists, so nothing runs twice under a request_id, unless the earlier
\* call failed leaving nothing (claim_call, _replay_locked, _release_locked).
ResendFindsItsRecord ==
  /\ \A r \in ReqIds : requests[r] # None => requests[r] \in table /\ r \in records[requests[r]].reqs
  /\ \A id \in table : \A r \in records[id].reqs : requests[r] = id \/ FailedLeavingNothing(id)

\* A claim has one owner: an import's name until nothing of it is left, any
\* other claim one job that nobody asked to cancel; and a request_id has one.
ClaimsAreExclusive == ImportNamesAreExclusive /\ OneUncancelledJobPerClaim /\ ResendFindsItsRecord

\* History eviction takes finished records only, each released once, the claims
\* that remain belong to records that still exist, and every record that keeps a
\* payload is in the drop order once.
HistoryIsSound ==
  /\ \A id \in Ids : IsPending(id) => id \in table
  /\ Len(released) <= HistoryLimit
  /\ \A i, j \in DOMAIN released : released[i] = released[j] => i = j
  /\ \A i \in DOMAIN released : released[i] \in table /\ ~IsPending(released[i])
  /\ \A k \in Keys : reservations[k] # None => reservations[k] \in table
  /\ \A i, j \in DOMAIN kept : kept[i] = kept[j] => i = j
  /\ \A id \in Ids : records[id].size > 0 <=> id \in ToSet(kept)

\* A claim, a request_id and a payload belong to records that exist, whatever
\* is evicted.
RecordsInvariant == ClaimsAreExclusive /\ HistoryIsSound

\* The payloads kept fit the budget.
PayloadsFit == Total(Book, kept) <= PayloadLimit

\* A running job whose cancellation was asked for has had the cancel that the
\* runtime bound called, whichever of the two came first (cancel, _bind_cancel).
CancelIsDelivered ==
  \A id \in Ids : records[id].state = "running" /\ records[id].bound /\ records[id].cancel # None
    => records[id].told

\* Whoever waits for a job sleeps only while the job is pending (wait_for).
NoForgottenWaiter == \A id \in sleeping : IsPending(id)

\* Once shutdown lets the projects be closed, no job is pending any more but a
\* script that ignored its cancellation, and no job begins.
ShutdownIsQuiet ==
  shut = "closed" =>
    \A id \in Ids : IsPending(id) /\ ~IsCall(id) => records[id].kind = "script" /\ records[id].cancel # None

\* The queue and its worker: counted, never stuck past a job, nobody left
\* asleep, cancellations told, and quiet once shutdown closes the projects.
QueueInvariant ==
  TypeOK /\ QueueIsCounted /\ NoStrandedJob /\ CancelIsDelivered /\ NoForgottenWaiter /\ ShutdownIsQuiet

\* The jobs' records go through the lifecycle their clients rely on.
Jobs == INSTANCE JobLifecycle WITH
  Jobs <- Ids,
  Absent <- "absent",
  phase <- [id \in Ids |->
    IF IsCall(id) \/ records[id].state = "free" THEN "new"
    ELSE IF IsPending(id) THEN "pending" ELSE "ended"],
  begun <- {id \in Ids : ~IsCall(id) /\ records[id].executing},
  left <- [id \in Ids |->
    IF IsCall(id) \/ records[id].state = "free" \/ IsPending(id) THEN ""
    ELSE IF records[id].state = "succeeded" THEN "success" ELSE records[id].out]
JobsSpec == Jobs!Spec

\* Every accepted job ends, one way or another, if the runtime's calls return.
EveryJobEnds == \A id \in Ids : IsPending(id) /\ ~IsCall(id) ~> ~IsPending(id)

\* shutdown returns if tool calls end.
ShutdownReturns == shut # "no" ~> shut = "closed"

\* Jobs end, and so does the manager.
JobsEnd == EveryJobEnds /\ ShutdownReturns
=============================================================================
