----------------------------- MODULE JobAdmission -----------------------------
(***************************************************************************)
(* The admission of background jobs under a response deadline: class       *)
(* JobAdmission of application/services/job_admission.py, with its two     *)
(* users: _operation_binding and _admit_until of                           *)
(* presentation/mcp_server.py, and the two sections of                     *)
(* OperationManager._submit.  The request's coroutine waits on the event   *)
(* loop; a thread of a small limiter looks for a replay, resolves the      *)
(* request on storage that may hang, and commits.  The manager's state is  *)
(* only which request_ids it knows.                                        *)
(***************************************************************************)
EXTENDS Naturals, FiniteSets

CONSTANTS
  Requests,
  RequestId,   \* of each request: its request_id, or None
  None,
  Threads      \* tokens of the admission limiter

Ids == {RequestId[r] : r \in Requests} \ {None}

VARIABLES
  jobRequest, \* where each request's coroutine is
  answer,    \* "none", "receipt", "refused"
  late,      \* requests whose deadline has passed
  expired,   \* _expired
  started,   \* _started
  receipt,   \* requests with a _receipt
  jobThread, \* where each request's thread is
  free,      \* tokens free in the limiter
  known,     \* request_ids the manager knows
  admitted,  \* requests that had a job accepted
  evicted    \* request_ids whose job's record was evicted

admission == <<expired, started, receipt>>
manager == <<known, admitted, evicted>>
admissionVars == <<jobRequest, answer, late, admission, jobThread, free, manager>>

AdmissionInit ==
  /\ jobRequest = [r \in Requests |-> "new"]
  /\ answer = [r \in Requests |-> "none"]
  /\ late = {} /\ expired = {} /\ started = {} /\ receipt = {}
  /\ jobThread = [r \in Requests |-> "none"]
  /\ free = Threads
  /\ known = {} /\ admitted = {} /\ evicted = {}

Go(r, to) == jobRequest' = [jobRequest EXCEPT ![r] = to]
Step(r, to) == jobThread' = [jobThread EXCEPT ![r] = to]
Answer(r, what) == answer' = [answer EXCEPT ![r] = what] /\ Go(r, "ended")

-----------------------------------------------------------------------------
(* The event loop                                                          *)

\* has_request: a resend is answered from memory.
ArriveForJob(r) ==
  /\ jobRequest[r] = "new"
  /\ Go(r, IF RequestId[r] \in known THEN "replaying" ELSE "admitting")
  /\ UNCHANGED <<answer, late, admission, jobThread, free, manager>>

\* A record evicted since is a new request.
ReplayInline(r) ==
  /\ jobRequest[r] = "replaying"
  /\ IF RequestId[r] \in known THEN Answer(r, "receipt")
     ELSE Go(r, "admitting") /\ UNCHANGED answer
  /\ UNCHANGED <<late, admission, jobThread, free, manager>>

Admit(r) ==
  /\ jobRequest[r] = "admitting"
  /\ Go(r, "awaiting")
  /\ Step(r, "queued")
  /\ UNCHANGED <<answer, late, admission, free, manager>>

Deadline(r) ==
  /\ jobRequest[r] # "new" /\ r \notin late
  /\ late' = late \union {r}
  /\ UNCHANGED <<jobRequest, answer, admission, jobThread, free, manager>>

\* The limiter gives the oldest task a thread; tasks of one loop are not told apart.
GetThread(r) ==
  /\ jobThread[r] = "queued"
  /\ free > 0
  /\ free' = free - 1
  /\ Step(r, "ready")
  /\ UNCHANGED <<jobRequest, answer, late, admission, manager>>

\* The thread's result reaches the loop, and its token is free.
Return(r) ==
  /\ jobThread[r] \in {"receipt", "refused"}
  /\ free' = free + 1
  /\ Step(r, "none")
  /\ IF jobRequest[r] = "awaiting" THEN Answer(r, jobThread[r]) ELSE UNCHANGED <<jobRequest, answer>>
  /\ UNCHANGED <<late, admission, manager>>

\* A task whose thread has not entered run() is cancelled, and gives a token it
\* may hold back: run() would refuse.  Any other thread keeps its token.
CancelTask(r) ==
  IF r \in started THEN UNCHANGED <<jobThread, free>>
  ELSE Step(r, "none") /\ free' = IF jobThread[r] = "queued" THEN free ELSE free + 1

\* Mutant: a request that started waits for its thread.
ExpireUnstarted(r) ==
  /\ jobRequest[r] = "awaiting"
  /\ r \in late \ started
  /\ expired' = expired \union {r}
  /\ CancelTask(r)
  /\ Answer(r, IF r \in receipt THEN "receipt" ELSE "refused")
  /\ UNCHANGED <<late, started, receipt, manager>>

\* expire, and the reply at the deadline: a receipt committed first is told.
Expire(r) ==
  /\ jobRequest[r] = "awaiting"
  /\ r \in late
  /\ expired' = expired \union {r}
  /\ CancelTask(r)
  /\ Answer(r, IF r \in receipt THEN "receipt" ELSE "refused")
  /\ UNCHANGED <<late, started, receipt, manager>>

-----------------------------------------------------------------------------
(* The thread                                                              *)

\* _check, under the admission's lock.
Checked(r) == r \notin expired /\ r \notin late

\* run
Enter(r) ==
  /\ jobThread[r] = "ready"
  /\ IF Checked(r)
     THEN started' = started \union {r} /\ Step(r, IF RequestId[r] = None THEN "resolve" ELSE "replay")
     ELSE Step(r, "refused") /\ UNCHANGED started
  /\ UNCHANGED <<jobRequest, answer, late, expired, receipt, free, manager>>

\* The manager's section that finds the request_id known.
Replayed(r) ==
  /\ receipt' = receipt \union {r}
  /\ Step(r, "receipt")
  /\ UNCHANGED <<jobRequest, answer, late, expired, started, free, manager>>

Refused(r) ==
  /\ Step(r, "refused")
  /\ UNCHANGED <<jobRequest, answer, late, admission, free, manager>>

\* The first section of _submit, within admission_commit.
Replay(r) ==
  /\ jobThread[r] = "replay"
  /\ \/ ~Checked(r) /\ Refused(r)
     \/ Checked(r) /\ RequestId[r] \in known /\ Replayed(r)
     \/ /\ Checked(r) /\ RequestId[r] \notin known
        /\ Step(r, "resolve")
        /\ UNCHANGED <<jobRequest, answer, late, admission, free, manager>>

\* Paths are resolved and checked, on storage that may hang, or refused.
Resolve(r) ==
  /\ jobThread[r] = "resolve"
  /\ Step(r, "commit") \/ Step(r, "refused")
  /\ UNCHANGED <<jobRequest, answer, late, admission, free, manager>>

\* The manager accepts the job and its receipt in one section.
Accept(r) ==
  /\ known' = known \union ({RequestId[r]} \ {None})
  /\ admitted' = admitted \union {r}
  /\ receipt' = receipt \union {r}
  /\ Step(r, "receipt")
  /\ UNCHANGED <<jobRequest, answer, late, expired, started, free, evicted>>

\* Mutant: the request_id is not looked up again after the slow part.
CommitUnchecked(r) ==
  /\ jobThread[r] = "commit"
  /\ Refused(r) \/ (Checked(r) /\ Accept(r))

\* The second section: a replay, a new job, or a refusal such as a full queue.
Commit(r) ==
  /\ jobThread[r] = "commit"
  /\ \/ ~Checked(r) /\ Refused(r)
     \/ Checked(r) /\ RequestId[r] \in known /\ Replayed(r)
     \/ Checked(r) /\ RequestId[r] \notin known /\ (Refused(r) \/ Accept(r))

\* The job ends and its record leaves the history.
Evict(i) ==
  /\ i \in known
  /\ known' = known \ {i}
  /\ evicted' = evicted \union {i}
  /\ UNCHANGED <<jobRequest, answer, late, admission, jobThread, free, admitted>>

AdmissionNext ==
  \/ \E r \in Requests :
       \/ ArriveForJob(r) \/ ReplayInline(r) \/ Admit(r) \/ Deadline(r) \/ GetThread(r) \/ Return(r)
       \/ Expire(r) \/ Enter(r) \/ Replay(r) \/ Resolve(r) \/ Commit(r)
  \/ \E i \in Ids : Evict(i)

AdmissionSpec == AdmissionInit /\ [][AdmissionNext]_admissionVars

\* The event loop runs and time passes.  Threads may hang.
AdmissionFairness ==
  \A r \in Requests : WF_admissionVars(Deadline(r)) /\ WF_admissionVars(ReplayInline(r) \/ Admit(r) \/ Return(r) \/ Expire(r))

-----------------------------------------------------------------------------
(* Correctness                                                             *)

AdmissionTypeOK ==
  /\ jobRequest \in [Requests -> {"new", "replaying", "admitting", "awaiting", "ended"}]
  /\ answer \in [Requests -> {"none", "receipt", "refused"}]
  /\ late \subseteq Requests /\ expired \subseteq Requests
  /\ started \subseteq Requests /\ receipt \subseteq Requests
  /\ jobThread \in [Requests -> {"none", "queued", "ready", "replay", "resolve", "commit", "receipt", "refused"}]
  /\ free \in Nat
  /\ known \subseteq Ids /\ admitted \subseteq Requests /\ evicted \subseteq Ids

\* A request that was told "nothing was accepted" has no job, then or later
\* (the docstring of JobAdmission).
RefusedAdmitsNothing == \A r \in Requests : answer[r] = "refused" => r \notin admitted

\* Requests with one request_id have one job, as long as its record is kept.
OneJobPerRequestId ==
  \A r, s \in admitted :
    RequestId[r] = RequestId[s] /\ RequestId[r] # None /\ RequestId[r] \notin evicted => r = s

\* No more threads look at storage than the limiter allows, even when their
\* requests were answered long ago.
Running(r) == jobThread[r] \in {"ready", "replay", "resolve", "commit", "receipt", "refused"}
ThreadsAreBounded == free + Cardinality({r \in Requests : Running(r)}) = Threads

\* A receipt is told for a job that exists or existed.
ReceiptsAreTrue ==
  \A r \in Requests : answer[r] = "receipt" =>
    r \in admitted \/ \E s \in admitted : RequestId[s] = RequestId[r] /\ RequestId[r] # None

\* The limiter bounds the threads, a request_id has one job, and what a client
\* was told of its request is true, then and later.
AdmissionInvariant ==
  AdmissionTypeOK /\ ThreadsAreBounded /\ OneJobPerRequestId /\ RefusedAdmitsNothing /\ ReceiptsAreTrue

\* Every request is answered, though storage may hang for ever.
AnsweredByTheDeadline == \A r \in Requests : jobRequest[r] # "new" ~> jobRequest[r] = "ended"
=============================================================================
