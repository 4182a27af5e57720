------------------------------- MODULE MCCalls -------------------------------
(***************************************************************************)
(* The ways a call is answered, each in a small instance of its own: on a  *)
(* worker thread (DeferredCalls), as an admitted job (JobAdmission), by the*)
(* job's end (OperationManager), and page by page when the result is too   *)
(* large for a reply (ResultStore).  A behaviour is one of them.           *)
(***************************************************************************)
EXTENDS DeferredCalls, JobAdmission, MCResultStore

CONSTANTS c1, c2, c3, x, name, fp

VARIABLES
  part,
  records, table, requests, reservations, released, kept, queue, queued, running, worker,
  stopping, broken, shut, inFlight, sleeping

jobVars ==
  <<records, table, requests, reservations, released, kept, queue, queued, running, worker,
    stopping, broken, shut, inFlight, sleeping>>

\* Two copies of one request and one without a request_id.
IdOf == [r \in {c1, c2, c3} |-> IF r = c3 THEN None ELSE x]

\* Two analyses of one program, and a tool call.
Jobs == INSTANCE OperationManager WITH
  Requests <- {[kind |-> "analysis", key |-> <<"analysis", name>>, fp |-> fp]},
  CallPrints <- {}, ReqIds <- {}, Ids <- 1..2, QueueLimit <- 1, HistoryLimit <- 1,
  PayloadLimit <- 1, Sizes <- {0}, MaxInFlight <- 1, Awaited <- {}

CallsInit ==
  /\ part \in {"deferred", "admission", "jobs", "results"}
  /\ Init /\ AdmissionInit /\ Jobs!Init /\ ResultInit
  /\ part = "results" \/ (pages.mode = "text" /\ pages.data = <<1, 1>>)

DeferredPart == part = "deferred" /\ Next /\ UNCHANGED <<part, admissionVars, jobVars, resultVars>>
AdmissionPart == part = "admission" /\ AdmissionNext /\ UNCHANGED <<part, vars, jobVars, resultVars>>
JobsPart == part = "jobs" /\ Jobs!Next /\ UNCHANGED <<part, vars, admissionVars, resultVars>>
ResultsPart == part = "results" /\ ResultNext /\ UNCHANGED <<part, vars, admissionVars, jobVars>>

CallsNext == DeferredPart \/ AdmissionPart \/ JobsPart \/ ResultsPart

\* In the initial states no fairness condition asks for a step, so the parts
\* that rest satisfy theirs.
CallsSpec ==
  /\ CallsInit /\ [][CallsNext]_<<part, vars, admissionVars, jobVars, resultVars>>
  /\ Fairness /\ AdmissionFairness /\ Jobs!Fairness /\ Jobs!CallsStopComing

-----------------------------------------------------------------------------
\* Every request is answered: a call that can get a slot when tools return, a
\* job's even when storage hangs.
RequestsEnd == EveryRequestEnds /\ AnsweredByTheDeadline

\* Every accepted job ends, and shutdown returns when calls stop coming.
JobsEnd == Jobs!JobsEnd
=============================================================================
