----------------------------- MODULE JobLifecycle -----------------------------
(***************************************************************************)
(* What a client may rely on about its background jobs.  A job waits, may  *)
(* begin to change its program, and ends once; one job changes a program   *)
(* at a time; a job that ended before it began never begins, and left      *)
(* nothing behind.                                                         *)
(***************************************************************************)
CONSTANTS Jobs, Absent

VARIABLES phase,  \* of each job: "new", "pending", "ended"
          begun,  \* the jobs that began to change a program
          left    \* what an ended job reports to have left, "" before

vars == <<phase, begun, left>>

Init ==
  /\ phase = [j \in Jobs |-> "new"]
  /\ begun = {}
  /\ left = [j \in Jobs |-> ""]

Accept(j) ==
  /\ phase[j] = "new"
  /\ phase' = [phase EXCEPT ![j] = "pending"]
  /\ UNCHANGED <<begun, left>>

Begin(j) ==
  /\ phase[j] = "pending"
  /\ j \notin begun
  /\ \A i \in begun : phase[i] = "ended"
  /\ begun' = begun \union {j}
  /\ UNCHANGED <<phase, left>>

\* Jobs end one by one, or many at once when the worker stops.
End(js) ==
  /\ \A j \in js : phase[j] = "pending"
  /\ phase' = [j \in Jobs |-> IF j \in js THEN "ended" ELSE phase[j]]
  /\ DOMAIN left' = Jobs
  /\ \A j \in js : left'[j] # "" /\ (j \notin begun => left'[j] \in {Absent, "success"})
  /\ \A j \in Jobs \ js : left'[j] = left[j]
  /\ UNCHANGED begun

Next ==
  \/ \E j \in Jobs : Accept(j) \/ Begin(j)
  \/ \E js \in SUBSET Jobs : End(js)

Spec == Init /\ [][Next]_vars
=============================================================================
