----------------------- MODULE OperationManagerProofs -----------------------
(***************************************************************************)
(* Proofs about the jobs' manager, for any requests, limits and numbers of *)
(* records.  What the runs check is not inductive: ManagerIInv adds what a *)
(* record looks like in each state (Shape), which records and claims the   *)
(* tables may name (Tabled, ReleasedOnce, Reserved, Resends, KeptOnce),    *)
(* what the worker knows of the job it took (WorkerKnows, OneRunningJob)   *)
(* and what shutdown has told whom (Stopping).                             *)
(*                                                                         *)
(* The manager's helpers take a Book and return one, so the lemmas about   *)
(* them are about constants: each returns a book that is in order again    *)
(* (BookOK) and says what became of the records.  A step's lemma says that *)
(* the step keeps ManagerIInv, and those that end records that clients see *)
(* nothing else of it (JobsOnlyEnd): that is what the refinement of        *)
(* JobLifecycle needs.                                                     *)
(***************************************************************************)
EXTENDS OperationManager, ToolCalls, QueueLemmas

-----------------------------------------------------------------------------
(* The records and the tables                                              *)

States == {"free", "queued", "running", "failed", "succeeded"}
Prints == {q.fp : q \in Requests} \union CallPrints \union {None}
Errors == {None, "failed", "cancelled", "shutdown", "worker_failed"}

Record ==
  [kind : Kinds \union {None, "call"}, key : Keys \union {None}, fp : Prints, state : States,
   executing : BOOLEAN, cancel : {None, "client", "shutdown"}, bound : BOOLEAN, told : BOOLEAN,
   err : Errors, out : Outputs \union {None}, reqs : SUBSET ReqIds, size : Nat]

\* What a record may look like in each state.
Shape(r) ==
  /\ r.state = "free" => r.kind = None /\ r.reqs = {} /\ r.size = 0 /\ ~r.executing
  /\ r.state # "free" => r.kind # None
  /\ r.kind = "call" => r.state # "queued" /\ ~r.bound /\ r.cancel = None
  /\ r.kind \in Kinds => \E q \in Requests : q.kind = r.kind /\ q.key = r.key
  /\ r.state = "queued" => ~r.executing /\ ~r.bound
  /\ r.state = "failed" => r.out # None
  /\ r.state \in Pending => r.size = 0

Books ==
  [records : [Ids -> Record], table : SUBSET Ids, requests : [ReqIds -> Ids \union {None}],
   reservations : [Keys -> Ids \union {None}], released : Seq(Ids), kept : Seq(Ids)]

TypedBook(b) == b \in Books /\ \A id \in Ids : Shape(b.records[id])

\* Pending records are in the table, free ones are not.
Tabled(b) ==
  /\ \A id \in Ids : b.records[id].state \in Pending => id \in b.table
  /\ \A id \in b.table : b.records[id].state # "free"

Distinct(s) == \A i, j \in DOMAIN s : s[i] = s[j] => i = j

\* Records are released once, after they ended.
ReleasedOnce(b) ==
  /\ Distinct(b.released) /\ Len(b.released) <= HistoryLimit
  /\ \A i \in DOMAIN b.released :
       b.released[i] \in b.table /\ b.records[b.released[i]].state \notin Pending

\* A reservation is for a job of its key that is not released; the jobs that
\* hold their claim have it.
Reserved(b) ==
  /\ \A k \in Keys : b.reservations[k] # None =>
       /\ b.reservations[k] \in b.table /\ b.reservations[k] \notin ToSet(b.released)
       /\ b.records[b.reservations[k]].kind \in Kinds /\ b.records[b.reservations[k]].key = k
  /\ \A id \in Ids :
       \/ /\ b.records[id].kind = "import"
          /\ \/ b.records[id].state \in Pending
             \/ b.records[id].state = "failed" /\ b.records[id].out # "absent"
       \/ /\ b.records[id].kind \in Kinds
          /\ b.records[id].state \in Pending /\ b.records[id].cancel = None
       => b.reservations[b.records[id].key] = id

\* A finished call that changed nothing no longer holds its request_id.
GaveUp(r) == r.kind = "call" /\ r.state = "failed" /\ r.err # "cancelled" /\ r.out = "absent"

Resends(b) ==
  /\ \A r \in ReqIds : b.requests[r] # None =>
       b.requests[r] \in b.table /\ r \in b.records[b.requests[r]].reqs
  /\ \A id \in b.table : \A r \in b.records[id].reqs :
       b.requests[r] = id \/ GaveUp(b.records[id])

\* The payloads are in the order in which they are dropped.
KeptOnce(b) ==
  /\ Distinct(b.kept)
  /\ \A id \in Ids : b.records[id].size > 0 <=> id \in ToSet(b.kept)

BookOK(b) ==
  TypedBook(b) /\ Tabled(b) /\ ReleasedOnce(b) /\ Reserved(b) /\ Resends(b) /\ KeptOnce(b)

-----------------------------------------------------------------------------
(* The queue, the worker and shutdown                                      *)

Pcs == {"off", "get", "idle", "got", "run", "back", "shown", "done", "crashed", "exited", "dead"}
IsJob(id) == records[id].kind \in Kinds

\* Jobs are queued; the sentinel only by shutdown.
QueueHoldsJobs ==
  /\ queue \in Seq(Ids \union {None})
  /\ \A i \in DOMAIN queue : IF queue[i] = None THEN stopping ELSE IsJob(queue[i])

\* What the worker knows of its job, from the moment it took it.
WorkerKnows ==
  /\ worker \in [pc : Pcs, id : Ids \union {None}, err : Errors, out : Outputs \union {None}]
  /\ worker.pc \in {"got", "run", "back", "shown", "done", "crashed"} =>
       worker.id # None /\ IsJob(worker.id)
  /\ worker.pc \in {"run", "back", "shown", "done", "crashed"} => records[worker.id].state # "queued"
  /\ worker.pc = "run" /\ ~IsPending(worker.id) => records[worker.id].cancel = "client" \/ stopping
  /\ worker.pc \in {"back", "shown"} =>
       /\ worker.err = None <=> worker.out = None
       /\ ~records[worker.id].executing => worker.out \in {None, "absent"}
  /\ worker.pc = "exited" => stopping
  /\ worker.pc = "dead" => broken

\* Only the worker's job runs.
OneRunningJob ==
  \A id \in Ids : IsJob(id) /\ records[id].state = "running" =>
    worker.id = id /\ worker.pc \in {"run", "back", "shown", "crashed"}

RunningCalls == running = {id \in Ids : IsCall(id) /\ records[id].state = "running"}

\* Once the manager stops, or its worker is broken, no job is queued; what runs
\* was told, and is a script when shutdown does not wait for the worker.
Stopping ==
  /\ shut # "no" <=> stopping
  /\ stopping \/ broken => \A id \in Ids : records[id].state # "queued"
  /\ \A id \in Ids : records[id].cancel = "shutdown" => stopping
  /\ stopping => \A id \in Ids : IsJob(id) /\ records[id].state = "running" => records[id].cancel # None
  /\ shut \in {"join_script", "calls", "closed"} =>
       \A id \in Ids : IsJob(id) /\ records[id].state = "running" => records[id].kind = "script"

\* Whoever sleeps waits for a record that is pending.
Sleepers == \A id \in sleeping : id \in Ids /\ IsPending(id)

Machine == QueueHoldsJobs /\ WorkerKnows /\ OneRunningJob /\ RunningCalls /\ Stopping

ManagerIInv ==
  BookOK(Book) /\ Machine /\ QueueIsCounted /\ NoStrandedJob /\ CancelIsDelivered /\ Sleepers
-----------------------------------------------------------------------------
(* Sets in order, and queues without some elements                         *)

\* InOrder lists a finite set of numbers, each once: the place of a number is
\* how many are not greater, and there are as many places as numbers.
LEMMA InOrderProperties ==
  ASSUME NEW S, S \subseteq Nat, IsFiniteSet(S)
  PROVE  /\ InOrder(S) \in Seq(S) /\ Distinct(InOrder(S)) /\ ToSet(InOrder(S)) = S
         /\ \A T : S \subseteq T => InOrder(S) \in Seq(T)
<1> DEFINE N == Cardinality(S)
           Upto(i) == {j \in S : j <= i}
           rank == [i \in S |-> Cardinality(Upto(i))]
           q == InOrder(S)
<1>1. N \in Nat
  BY FS_CardinalityType
<1>2. \A i \in S : Upto(i) \subseteq S /\ i \in Upto(i)
  OBVIOUS
<1>3. \A i, j \in S : i < j => Upto(i) \subseteq Upto(j) /\ j \notin Upto(i)
  <2>1. \A i \in S : i \in Nat
    OBVIOUS
  <2>2. ASSUME NEW i \in S, NEW j \in S, i < j PROVE Upto(i) \subseteq Upto(j) /\ j \notin Upto(i)
    <3>1. ASSUME NEW k \in S, k <= i PROVE k <= j
      BY <2>1, <2>2, <3>1
    <3>2. ~(j <= i)
      BY <2>1, <2>2
    <3> QED
      BY <3>1, <3>2
  <2> QED
    BY <2>2
<1>4. q = [n \in 1..N |-> CHOOSE i \in S : Cardinality(Upto(i)) = n]
  BY DEF InOrder
<1>5. \A i \in S : rank[i] = Cardinality(Upto(i))
  OBVIOUS
<1> HIDE DEF Upto, q, N
<1>6. \A i \in S : IsFiniteSet(Upto(i)) /\ Cardinality(Upto(i)) \in 1..N
  <2>1. SUFFICES ASSUME NEW i \in S PROVE IsFiniteSet(Upto(i)) /\ Cardinality(Upto(i)) \in 1..N
    OBVIOUS
  <2>2. IsFiniteSet(Upto(i)) /\ Cardinality(Upto(i)) \in Nat /\ Cardinality(Upto(i)) <= N
    BY <1>2, FS_Subset, FS_CardinalityType DEF N
  <2>3. Cardinality(Upto(i)) # 0
    BY <1>2, <2>2, FS_EmptySet
  <2> QED
    BY <1>1, <2>2, <2>3
<1>7. \A i, j \in S : i < j => Cardinality(Upto(i)) # Cardinality(Upto(j))
  <2>1. SUFFICES ASSUME NEW i \in S, NEW j \in S, i < j PROVE Cardinality(Upto(i)) # Cardinality(Upto(j))
    OBVIOUS
  <2>2. Upto(i) \subseteq Upto(j) /\ Upto(i) # Upto(j)
    BY <1>2, <1>3, <2>1
  <2>3. IsFiniteSet(Upto(j))
    BY <1>6
  <2> QED
    BY <2>2, <2>3, FS_Subset
<1>8. \A i, j \in S : Cardinality(Upto(i)) = Cardinality(Upto(j)) => i = j
  <2>1. \A i, j \in S : i = j \/ i < j \/ j < i
    OBVIOUS
  <2> QED
    BY <1>7, <2>1
<1>9. rank \in Injection(S, 1..N)
  <2>1. rank \in [S -> 1..N]
    BY <1>6
  <2>2. \A i, j \in S : rank[i] = rank[j] => i = j
    BY <1>5, <1>8
  <2> HIDE DEF rank
  <2> QED
    BY <2>1, <2>2 DEF Injection, IsInjective
<1>10. IsFiniteSet(1..N) /\ Cardinality(1..N) = N
  <2>1. IsFiniteSet(1..N) /\ Cardinality(1..N) = IF 1 > N THEN 0 ELSE N - 1 + 1
    BY <1>1, FS_Interval
  <2> QED
    BY <1>1, <2>1
<1> HIDE DEF rank
<1>11. rank \in Surjection(S, 1..N)
  <2>1. Cardinality(S) = Cardinality(1..N)
    BY <1>10 DEF N
  <2> QED
    BY <1>9, <1>10, <2>1, FS_Injection
<1>12. \A n \in 1..N : \E i \in S : Cardinality(Upto(i)) = n
  BY <1>5, <1>11 DEF Surjection
<1>13. \A n \in 1..N : q[n] \in S /\ Cardinality(Upto(q[n])) = n
  BY <1>4, <1>12
<1>14. q \in [1..N -> S] /\ DOMAIN q = 1..N
  BY <1>4, <1>13
<1>15. \A T : S \subseteq T => q \in Seq(T)
  <2>1. SUFFICES ASSUME NEW T, S \subseteq T PROVE q \in Seq(T)
    OBVIOUS
  <2>2. q \in [1..N -> T]
    BY <1>4, <1>13, <2>1
  <2> QED
    BY <1>1, <2>2, IsASeq
<1>16. \A i, j \in 1..N : q[i] = q[j] => i = j
  BY <1>13
<1>17. \A i \in S : q[Cardinality(Upto(i))] = i
  BY <1>6, <1>8, <1>13
<1>18. ToSet(q) = S
  <2>1. ToSet(q) = {q[n] : n \in 1..N}
    BY <1>14 DEF ToSet
  <2> QED
    BY <1>6, <1>13, <1>17, <2>1
<1> QED
  BY <1>14, <1>15, <1>16, <1>18 DEF q, Distinct

LEMMA WithoutProperties ==
  ASSUME NEW T, NEW s \in Seq(T), Distinct(s), NEW S
  PROVE  /\ Without(s, S) \in Seq(T) /\ Distinct(Without(s, S))
         /\ ToSet(Without(s, S)) = ToSet(s) \ S
<1> DEFINE P == {i \in DOMAIN s : s[i] \notin S}
           at == InOrder(P)
           w == Without(s, S)
<1>1. Len(s) \in Nat /\ DOMAIN s = 1..Len(s) /\ \A i \in 1..Len(s) : s[i] \in T
  BY LenProperties, ElementOfSeq
<1>2. P \subseteq 1..Len(s) /\ \A i \in 1..Len(s) : i \in P <=> s[i] \notin S
  BY <1>1
<1>3. w = [n \in DOMAIN at |-> s[at[n]]]
  BY DEF Without
<1> HIDE DEF P, w, at
<1>4. P \subseteq Nat /\ IsFiniteSet(P)
  <2>1. IsFiniteSet(1..Len(s))
    BY <1>1, FS_Interval
  <2>2. \A i \in 1..Len(s) : i \in Nat
    OBVIOUS
  <2> QED
    BY <1>2, <2>1, <2>2, FS_Subset
<1>5. at \in Seq(P) /\ Distinct(at) /\ ToSet(at) = P
  BY <1>4, InOrderProperties DEF at
<1>6. Len(at) \in Nat /\ DOMAIN at = 1..Len(at) /\ \A n \in 1..Len(at) : at[n] \in P
  BY <1>5, LenProperties, ElementOfSeq
<1>7. DOMAIN w = 1..Len(at) /\ \A n \in 1..Len(at) : w[n] = s[at[n]]
  BY <1>3, <1>6
<1>8. w \in Seq(T)
  <2>1. w \in [1..Len(at) -> T]
    BY <1>1, <1>2, <1>3, <1>6
  <2> QED
    BY <1>6, <2>1, IsASeq
<1>9. Distinct(w)
  <2>1. SUFFICES ASSUME NEW i \in 1..Len(at), NEW j \in 1..Len(at), w[i] = w[j] PROVE i = j
    BY <1>7 DEF Distinct
  <2>2. s[at[i]] = s[at[j]] /\ at[i] \in DOMAIN s /\ at[j] \in DOMAIN s
    BY <1>1, <1>2, <1>6, <1>7, <2>1
  <2>3. at[i] = at[j]
    BY <2>2 DEF Distinct
  <2> QED
    BY <1>5, <1>6, <2>3 DEF Distinct
<1>10. ToSet(w) = ToSet(s) \ S
  <2>1. ASSUME NEW x \in ToSet(w) PROVE x \in ToSet(s) \ S
    <3>1. PICK n \in 1..Len(at) : x = s[at[n]]
      BY <1>7 DEF ToSet
    <3>2. at[n] \in 1..Len(s) /\ s[at[n]] \notin S
      BY <1>2, <1>6
    <3> QED
      BY <1>1, <3>1, <3>2 DEF ToSet
  <2>2. ASSUME NEW x \in ToSet(s) \ S PROVE x \in ToSet(w)
    <3>1. PICK i \in 1..Len(s) : x = s[i]
      BY <1>1 DEF ToSet
    <3>2. i \in ToSet(at)
      BY <1>2, <1>5, <2>2, <3>1
    <3>3. PICK n \in 1..Len(at) : at[n] = i
      BY <1>6, <3>2 DEF ToSet
    <3> QED
      BY <1>7, <3>1, <3>3 DEF ToSet
  <2> QED
    BY <2>1, <2>2
<1> QED
  BY <1>8, <1>9, <1>10 DEF w
-----------------------------------------------------------------------------
(* The tables after one of the manager's helpers                           *)

\* What may become of a record: it keeps its kind, key and request_ids, it does
\* not come back once ended, and a request to cancel it stays.
Later(r, s) ==
  /\ s.kind = r.kind /\ s.key = r.key /\ s.reqs = r.reqs
  /\ s.state = "free" <=> r.state = "free"
  /\ s.state \in Pending => r.state \in Pending
  /\ s.cancel = None => r.cancel = None
  /\ r.state \notin Pending => s.state = r.state /\ s.err = r.err /\ s.out = r.out

\* Two records that differ in their payloads at most.
Alike(r, s) ==
  /\ s.kind = r.kind /\ s.key = r.key /\ s.fp = r.fp /\ s.state = r.state /\ s.executing = r.executing
  /\ s.cancel = r.cancel /\ s.bound = r.bound /\ s.told = r.told /\ s.err = r.err /\ s.out = r.out
  /\ s.reqs = r.reqs

LEMMA BookTypes ==
  ASSUME NEW b \in Books
  PROVE  /\ b.records \in [Ids -> Record] /\ b.table \subseteq Ids
         /\ b.requests \in [ReqIds -> Ids \union {None}]
         /\ b.reservations \in [Keys -> Ids \union {None}]
         /\ b.released \in Seq(Ids) /\ b.kept \in Seq(Ids)
BY DEF Books

LEMMA RecordTypes ==
  ASSUME NEW r \in Record
  PROVE  /\ r.kind \in Kinds \union {None, "call"} /\ r.key \in Keys \union {None}
         /\ r.state \in States /\ r.executing \in BOOLEAN /\ r.cancel \in {None, "client", "shutdown"}
         /\ r.bound \in BOOLEAN /\ r.told \in BOOLEAN /\ r.err \in Errors
         /\ r.out \in Outputs \union {None} /\ r.reqs \subseteq ReqIds /\ r.size \in Nat
BY DEF Record

\* A record that has a reservation key has one of the requests' keys.
LEMMA KeysOfJobs ==
  ASSUME NEW r \in Record, Shape(r), r.kind \in Kinds
  PROVE  r.key \in Keys /\ \E q \in Requests : q.kind = r.kind /\ q.key = r.key
BY DEF Shape, Keys

LEMMA LaterBook ==
  ASSUME NEW b, BookOK(b), NEW c \in Books,
         c.table = b.table, c.requests = b.requests, c.reservations = b.reservations,
         c.released = b.released, KeptOnce(c),
         \A id \in Ids : Later(b.records[id], c.records[id]) /\ Shape(c.records[id])
  PROVE  BookOK(c)
<1>1. TypedBook(c)
  BY DEF TypedBook
<1>2. b \in Books /\ (\A id \in Ids : Shape(b.records[id])) /\ Tabled(b) /\ ReleasedOnce(b) /\ Reserved(b) /\ Resends(b)
  BY DEF BookOK, TypedBook
<1>3. b.table \subseteq Ids /\ \A i \in DOMAIN b.released : b.released[i] \in Ids
  BY <1>2, BookTypes, ElementOfSeq, LenProperties
<1>4. Tabled(c)
  BY <1>2, <1>3 DEF Tabled, Later
<1>5. ReleasedOnce(c)
  BY <1>2, <1>3 DEF ReleasedOnce, Later
<1>6. Reserved(c)
  <2>1. \A k \in Keys : b.reservations[k] # None =>
           /\ b.reservations[k] \in b.table /\ b.reservations[k] \notin ToSet(b.released)
           /\ b.records[b.reservations[k]].kind \in Kinds /\ b.records[b.reservations[k]].key = k
    BY <1>2, Zenon DEF Reserved
  <2>2. \A k \in Keys : c.reservations[k] # None =>
           /\ c.reservations[k] \in c.table /\ c.reservations[k] \notin ToSet(c.released)
           /\ c.records[c.reservations[k]].kind \in Kinds /\ c.records[c.reservations[k]].key = k
    BY <1>3, <2>1 DEF Later
  <2>3. \A id \in Ids :
         /\ b.records[id].kind = "import"
         /\ \/ b.records[id].state \in Pending
            \/ b.records[id].state = "failed" /\ b.records[id].out # "absent"
         => b.reservations[b.records[id].key] = id
    BY <1>2 DEF Reserved
  <2>4. \A id \in Ids :
         /\ b.records[id].kind \in Kinds
         /\ b.records[id].state \in Pending /\ b.records[id].cancel = None
         => b.reservations[b.records[id].key] = id
    BY <1>2 DEF Reserved
  <2>5. ASSUME NEW id \in Ids, c.records[id].kind = "import",
               \/ c.records[id].state \in Pending
               \/ c.records[id].state = "failed" /\ c.records[id].out # "absent"
        PROVE  c.reservations[c.records[id].key] = id
    BY <2>3, <2>5 DEF Later
  <2>6. ASSUME NEW id \in Ids, c.records[id].kind \in Kinds,
               c.records[id].state \in Pending, c.records[id].cancel = None
        PROVE  c.reservations[c.records[id].key] = id
    BY <2>4, <2>6 DEF Later
  <2> QED
    BY <2>2, <2>5, <2>6 DEF Reserved
<1>7. Resends(c)
  <2>1. \A id \in Ids : GaveUp(b.records[id]) => GaveUp(c.records[id])
    BY DEF GaveUp, Later, Pending
  <2>2. \A id \in Ids : c.records[id].reqs = b.records[id].reqs
    BY DEF Later
  <2> QED
    BY <1>2, <1>3, <2>1, <2>2 DEF Resends
<1> QED
  BY <1>1, <1>4, <1>5, <1>6, <1>7 DEF BookOK

\* What dropping payloads and keeping one leave alone.
SameButPayloads(b, c) ==
  /\ c.table = b.table /\ c.requests = b.requests /\ c.reservations = b.reservations
  /\ c.released = b.released
  /\ \A id \in Ids : Alike(b.records[id], c.records[id])

LEMMA DropPayloadsProperties ==
  ASSUME NEW b, BookOK(b), NEW S
  PROVE  BookOK(DropPayloads(b, S)) /\ SameButPayloads(b, DropPayloads(b, S))
<1> DEFINE c == DropPayloads(b, S)
           f == [id \in Ids |-> IF id \in S THEN [b.records[id] EXCEPT !.size = 0] ELSE b.records[id]]
           w == Without(b.kept, S)
<1>1. b \in Books /\ (\A id \in Ids : Shape(b.records[id])) /\ KeptOnce(b)
  BY DEF BookOK, TypedBook
<1>2. c = [b EXCEPT !.records = f, !.kept = w]
  BY DEF DropPayloads
<1>3. \A id \in Ids : b.records[id] \in Record
  BY <1>1, BookTypes
<1>4. \A id \in Ids : /\ f[id] \in Record /\ Alike(b.records[id], f[id])
                      /\ f[id].size = IF id \in S THEN 0 ELSE b.records[id].size
  <2>1. ASSUME NEW id \in Ids
        PROVE  /\ f[id] \in Record /\ Alike(b.records[id], f[id])
               /\ f[id].size = IF id \in S THEN 0 ELSE b.records[id].size
    <3>1. b.records[id] \in Record
      BY <1>3
    <3>2. CASE id \in S
      <4>1. f[id] = [b.records[id] EXCEPT !.size = 0]
        BY <3>2
      <4> QED
        BY <3>1, <3>2, <4>1 DEF Record, Alike
    <3>3. CASE id \notin S
      BY <3>1, <3>3 DEF Alike
    <3> QED
      BY <3>2, <3>3
  <2> QED
    BY <2>1
<1>5. f \in [Ids -> Record]
  BY <1>4
<1>6. w \in Seq(Ids) /\ Distinct(w) /\ ToSet(w) = ToSet(b.kept) \ S
  BY <1>1, BookTypes, WithoutProperties DEF KeptOnce
<1> HIDE DEF f, w
<1>7. /\ c \in Books /\ c.records = f /\ c.kept = w /\ c.table = b.table /\ c.requests = b.requests
      /\ c.reservations = b.reservations /\ c.released = b.released
  BY <1>1, <1>2, <1>5, <1>6 DEF Books
<1> HIDE DEF c
<1>8. \A id \in Ids : Shape(c.records[id]) /\ Later(b.records[id], c.records[id])
  <2>1. ASSUME NEW id \in Ids PROVE Shape(c.records[id]) /\ Later(b.records[id], c.records[id])
    <3>1. Alike(b.records[id], c.records[id]) /\ (b.records[id].size = 0 => c.records[id].size = 0)
      BY <1>4, <1>7
    <3>2. Shape(b.records[id])
      BY <1>1
    <3>3. Shape(c.records[id])
      BY <3>1, <3>2 DEF Alike, Shape
    <3>4. Later(b.records[id], c.records[id])
      BY <3>1 DEF Alike, Later
    <3> QED
      BY <3>3, <3>4
  <2> QED
    BY <2>1
<1>9. KeptOnce(c)
  <2>1. Distinct(c.kept)
    BY <1>6, <1>7
  <2>2. ASSUME NEW id \in Ids PROVE c.records[id].size > 0 <=> id \in ToSet(c.kept)
    <3>1. b.records[id].size > 0 <=> id \in ToSet(b.kept)
      BY <1>1 DEF KeptOnce
    <3> QED
      BY <1>4, <1>6, <1>7, <3>1
  <2> QED
    BY <2>1, <2>2 DEF KeptOnce
<1>10. BookOK(c)
  BY <1>7, <1>8, <1>9, LaterBook
<1> QED
  BY <1>4, <1>7, <1>10 DEF c, SameButPayloads

LEMMA AlikeIsTransitive ==
  ASSUME NEW b, NEW c, NEW d, SameButPayloads(b, c), SameButPayloads(c, d)
  PROVE  SameButPayloads(b, d)
BY DEF SameButPayloads, Alike

LEMMA AppendOnce ==
  ASSUME NEW s \in Seq(Ids), Distinct(s), NEW id \in Ids, id \notin ToSet(s)
  PROVE  /\ Append(s, id) \in Seq(Ids) /\ Distinct(Append(s, id))
         /\ ToSet(Append(s, id)) = ToSet(s) \union {id}
<1>1. id \notin {s[i] : i \in DOMAIN s} /\ \A i, j \in DOMAIN s : s[i] = s[j] => i = j
  BY DEF ToSet, Distinct
<1>2. Append(s, id) \in Seq(Ids) /\ Distinct(Append(s, id))
  BY <1>1, AppendDistinct DEF Distinct
<1>3. Len(s) \in Nat /\ DOMAIN s = 1..Len(s) /\ DOMAIN Append(s, id) = 1..Len(s) + 1
  BY LenProperties, AppendProperties
<1>4. (\A i \in 1..Len(s) : Append(s, id)[i] = s[i]) /\ Append(s, id)[Len(s) + 1] = id
  BY AppendProperties
<1>5. \A i \in 1..Len(s) + 1 : i \in 1..Len(s) \/ i = Len(s) + 1
  BY <1>3
<1>6. 1..Len(s) \subseteq 1..Len(s) + 1 /\ Len(s) + 1 \in 1..Len(s) + 1
  BY <1>3
<1>7. \A x : /\ x \in ToSet(s) <=> \E i \in 1..Len(s) : x = s[i]
             /\ x \in ToSet(Append(s, id)) <=> \E i \in 1..Len(s) + 1 : x = Append(s, id)[i]
  BY <1>3 DEF ToSet
<1>8. \A x : x \in ToSet(Append(s, id)) <=> x \in ToSet(s) \/ x = id
  BY <1>4, <1>5, <1>6, <1>7
<1> QED
  BY <1>2, <1>8

\* A record that ended and keeps no payload yet is given one.
LEMMA KeepPayloadProperties ==
  ASSUME NEW b, BookOK(b), NEW id \in Ids, b.records[id].size = 0,
         b.records[id].state \notin Pending \union {"free"}, NEW size \in Nat
  PROVE  BookOK(KeepPayload(b, id, size)) /\ SameButPayloads(b, KeepPayload(b, id, size))
<1> DEFINE r == [b.records[id] EXCEPT !.size = size]
           k == IF size = 0 THEN b.kept ELSE Append(b.kept, id)
           c == [b EXCEPT !.records[id].size = size, !.kept = IF size = 0 THEN @ ELSE Append(@, id)]
<1>1. b \in Books /\ (\A i \in Ids : Shape(b.records[i])) /\ KeptOnce(b)
  BY DEF BookOK, TypedBook
<1>2. b.records[id] \in Record /\ b.records \in [Ids -> Record] /\ b.kept \in Seq(Ids)
  BY <1>1, BookTypes
<1>3. r \in Record /\ Alike(b.records[id], r) /\ r.size = size
  BY <1>2 DEF Record, Alike
<1>4. k \in Seq(Ids) /\ Distinct(k) /\ \A i \in Ids : i \in ToSet(k) <=> i \in ToSet(b.kept) \/ (i = id /\ size > 0)
  <2>1. id \notin ToSet(b.kept) /\ Distinct(b.kept)
    BY <1>1 DEF KeptOnce
  <2>2. CASE size = 0
    BY <1>2, <2>1, <2>2
  <2>3. CASE size # 0
    <3>1. size > 0 /\ k = Append(b.kept, id)
      BY <2>3
    <3>4. k \in Seq(Ids) /\ Distinct(k) /\ ToSet(k) = ToSet(b.kept) \union {id}
      BY <1>2, <2>1, <3>1, AppendOnce
    <3> QED
      BY <3>1, <3>4
  <2> QED
    BY <2>2, <2>3
<1> HIDE DEF r, k
<1>5. c = [b EXCEPT !.records = [b.records EXCEPT ![id] = r], !.kept = k]
  BY <1>1 DEF Books, r, k
<1> HIDE DEF c
<1>6. /\ c \in Books /\ c.kept = k /\ c.records = [b.records EXCEPT ![id] = r] /\ c.table = b.table
      /\ c.requests = b.requests /\ c.reservations = b.reservations /\ c.released = b.released
  BY <1>1, <1>3, <1>4, <1>5 DEF Books
<1>7. c.records[id] = r /\ \A i \in Ids \ {id} : c.records[i] = b.records[i]
  BY <1>2, <1>6
<1>8. \A i \in Ids : /\ Alike(b.records[i], c.records[i]) /\ Shape(c.records[i])
                     /\ Later(b.records[i], c.records[i])
  <2>1. ASSUME NEW i \in Ids
        PROVE  /\ Alike(b.records[i], c.records[i]) /\ Shape(c.records[i])
               /\ Later(b.records[i], c.records[i])
    <3>1. Alike(b.records[i], c.records[i])
      BY <1>3, <1>7 DEF Alike
    <3>2. Shape(b.records[i])
      BY <1>1
    <3>3. Shape(c.records[i])
      <4>1. CASE i = id
        BY <3>1, <3>2, <4>1 DEF Shape, Alike
      <4> QED
        BY <1>7, <3>2, <4>1
    <3> QED
      BY <3>1, <3>3 DEF Alike, Later
  <2> QED
    BY <2>1
<1>9. KeptOnce(c)
  <2>1. \A i \in Ids : b.records[i].size > 0 <=> i \in ToSet(b.kept)
    BY <1>1 DEF KeptOnce
  <2>2. id \notin ToSet(b.kept)
    BY <2>1
  <2>3. \A i \in Ids : c.records[i].size > 0 <=> i \in ToSet(c.kept)
    BY <1>3, <1>4, <1>6, <1>7, <2>1, <2>2
  <2> QED
    BY <1>4, <1>6, <2>3 DEF KeptOnce
<1>10. BookOK(c) /\ SameButPayloads(b, c)
  <2>1. BookOK(c)
    BY <1>6, <1>8, <1>9, LaterBook
  <2> QED
    BY <1>6, <1>8, <2>1 DEF SameButPayloads
<1>11. \E S : KeepPayload(b, id, size) = DropPayloads(c, S)
  BY DEF KeepPayload, c
<1>12. PICK S : KeepPayload(b, id, size) = DropPayloads(c, S)
  BY <1>11
<1> QED
  BY <1>10, <1>12, DropPayloadsProperties, AlikeIsTransitive

\* The records that may be released: ended ones, once each, that hold no claim.
Releasable(b, ids) ==
  /\ ids \in Seq(Ids) /\ Distinct(ids)
  /\ \A id \in ToSet(ids) :
       /\ id \in b.table /\ id \notin ToSet(b.released)
       /\ b.records[id].state \notin Pending
       /\ ~(b.records[id].kind = "import" /\ b.records[id].state = "failed" /\ b.records[id].out # "absent")

\* The records that remain in the table.
LEMMA ReleaseProperties ==
  ASSUME NEW b, BookOK(b), NEW ids, Releasable(b, ids)
  PROVE  /\ BookOK(Release(b, ids)) /\ Release(b, ids).table \subseteq b.table
         /\ \A id \in Ids : Alike(b.records[id], Release(b, ids).records[id])
<1> DEFINE all == b.released \o ids
           over == IF Len(all) > HistoryLimit THEN Len(all) - HistoryLimit ELSE 0
           old == ToSet(SubSeq(all, 1, over))
           rest == SubSeq(all, over + 1, Len(all))
           f == [id \in Ids |-> IF id \in old THEN [b.records[id] EXCEPT !.size = 0] ELSE b.records[id]]
           v == [k \in Keys |-> IF b.reservations[k] \in ToSet(ids) THEN None ELSE b.reservations[k]]
           w == Without(b.kept, old)
           c == Release(b, ids)
<1>1. /\ b \in Books /\ (\A id \in Ids : Shape(b.records[id])) /\ Tabled(b) /\ ReleasedOnce(b)
      /\ Reserved(b) /\ Resends(b) /\ KeptOnce(b)
  BY DEF BookOK, TypedBook
<1>2. /\ ids \in Seq(Ids) /\ Distinct(ids) /\ b.released \in Seq(Ids) /\ Distinct(b.released)
      /\ b.kept \in Seq(Ids) /\ Distinct(b.kept)
  BY <1>1, BookTypes DEF Releasable, ReleasedOnce, KeptOnce
<1>3. \A id \in ToSet(b.released) : id \in b.table /\ b.records[id].state \notin Pending
  BY <1>1 DEF ReleasedOnce, ToSet
<1>4. \A id \in ToSet(ids) :
        /\ id \in b.table /\ id \notin ToSet(b.released)
        /\ b.records[id].state \notin Pending
        /\ ~(b.records[id].kind = "import" /\ b.records[id].state = "failed" /\ b.records[id].out # "absent")
  BY DEF Releasable
<1>5. /\ all \in Seq(Ids) /\ ToSet(all) = ToSet(b.released) \union ToSet(ids) /\ Distinct(all)
      /\ Len(all) \in Nat
  <2>1. ToSet(b.released) \cap ToSet(ids) = {}
    BY <1>4
  <2>2. /\ all \in Seq(Ids) /\ ToSet(all) = ToSet(b.released) \union ToSet(ids)
        /\ \A i, j \in DOMAIN all : all[i] = all[j] => i = j
    BY <1>2, <2>1, ConcatDistinct, ZenonT(60) DEF Distinct
  <2> HIDE DEF all
  <2> QED
    BY <2>2, LenProperties DEF Distinct
<1>6. c = [records |-> f, table |-> b.table \ old, requests |-> ForgetRequests(b, old),
           reservations |-> v, released |-> rest, kept |-> w]
  BY DEF Release
<1> HIDE DEF all, c, f, v, w
<1>7. over \in 0..Len(all) /\ Len(all) - over <= HistoryLimit /\ HistoryLimit \in Nat
  BY <1>5, LimitsAssumption
<1> HIDE DEF over
<1>8. /\ rest \in Seq(Ids) /\ Len(rest) = Len(all) - over /\ Distinct(rest)
      /\ ToSet(rest) \subseteq ToSet(all) /\ old \subseteq ToSet(all) /\ old \cap ToSet(rest) = {}
  BY <1>5, <1>7, CutProperties DEF Distinct
<1>9. \A i \in DOMAIN rest : rest[i] \in ToSet(rest)
  BY DEF ToSet
<1> HIDE DEF old, rest
<1>10. \A id \in ToSet(all) : id \in b.table /\ b.records[id].state \notin Pending
  BY <1>3, <1>4, <1>5
<1>11. \A id \in Ids : /\ f[id] \in Record /\ Alike(b.records[id], f[id])
                       /\ f[id].size = IF id \in old THEN 0 ELSE b.records[id].size
  <2>1. ASSUME NEW id \in Ids
        PROVE  /\ f[id] \in Record /\ Alike(b.records[id], f[id])
               /\ f[id].size = IF id \in old THEN 0 ELSE b.records[id].size
    <3>1. b.records[id] \in Record
      BY <1>1, BookTypes
    <3>2. CASE id \in old
      <4>1. f[id] = [b.records[id] EXCEPT !.size = 0]
        BY <3>2 DEF f
      <4> QED
        BY <3>1, <3>2, <4>1 DEF Record, Alike
    <3>3. CASE id \notin old
      BY <3>1, <3>3 DEF Alike, f
    <3> QED
      BY <3>2, <3>3
  <2> QED
    BY <2>1
<1>12. f \in [Ids -> Record]
  BY <1>11 DEF f
<1>13. v \in [Keys -> Ids \union {None}] /\ \A k \in Keys : v[k] # None => v[k] = b.reservations[k] /\ v[k] \notin ToSet(ids)
  BY <1>1, BookTypes DEF v
<1>14. /\ w \in Seq(Ids) /\ Distinct(w) /\ ToSet(w) = ToSet(b.kept) \ old
  BY <1>2, WithoutProperties DEF w
<1>15. /\ ForgetRequests(b, old) \in [ReqIds -> Ids \union {None}]
       /\ \A r \in ReqIds : ForgetRequests(b, old)[r] = IF b.requests[r] \in old THEN None ELSE b.requests[r]
  BY <1>1, BookTypes DEF ForgetRequests
<1>16. b.table \subseteq Ids
  BY <1>1, BookTypes
<1>17. c \in Books
  BY <1>6, <1>8, <1>12, <1>13, <1>14, <1>15, <1>16 DEF Books
<1>18. /\ c.records = f /\ c.table = b.table \ old /\ c.requests = ForgetRequests(b, old)
       /\ c.reservations = v /\ c.released = rest /\ c.kept = w
  BY <1>6
<1>19. \A id \in Ids : Alike(b.records[id], c.records[id])
  BY <1>11, <1>18
<1>20. TypedBook(c)
  <2>1. ASSUME NEW id \in Ids PROVE Shape(c.records[id])
    <3>1. Shape(b.records[id]) /\ Alike(b.records[id], c.records[id])
      BY <1>1, <1>19
    <3>2. b.records[id].size = 0 => c.records[id].size = 0
      BY <1>11, <1>18
    <3> QED
      BY <3>1, <3>2 DEF Alike, Shape
  <2> QED
    BY <1>17, <2>1 DEF TypedBook
<1>21. Tabled(c)
  <2>1. \A id \in Ids : c.records[id].state = b.records[id].state
    BY <1>19 DEF Alike
  <2> QED
    BY <1>1, <1>8, <1>10, <1>16, <1>18, <2>1 DEF Tabled
<1>22. ReleasedOnce(c)
  <2>1. Len(c.released) <= HistoryLimit /\ Distinct(c.released)
    BY <1>7, <1>8, <1>18
  <2>2. ASSUME NEW i \in DOMAIN c.released
        PROVE  c.released[i] \in c.table /\ c.records[c.released[i]].state \notin Pending
    <3>1. rest[i] \in ToSet(rest) /\ rest[i] \in ToSet(all) /\ rest[i] \notin old /\ c.released[i] = rest[i]
      BY <1>8, <1>9, <1>18, <2>2
    <3>2. rest[i] \in b.table /\ b.records[rest[i]].state \notin Pending /\ rest[i] \in Ids
      BY <1>10, <1>16, <3>1
    <3> QED
      BY <1>18, <1>19, <3>1, <3>2 DEF Alike
  <2> QED
    BY <2>1, <2>2 DEF ReleasedOnce
<1>23. Reserved(c)
  <2>1. ASSUME NEW k \in Keys, c.reservations[k] # None
        PROVE  /\ c.reservations[k] \in c.table /\ c.reservations[k] \notin ToSet(c.released)
               /\ c.records[c.reservations[k]].kind \in Kinds /\ c.records[c.reservations[k]].key = k
    <3>1. c.reservations[k] = b.reservations[k] /\ b.reservations[k] # None /\ b.reservations[k] \notin ToSet(ids)
      BY <1>13, <1>18, <2>1
    <3>2. /\ b.reservations[k] \in b.table /\ b.reservations[k] \notin ToSet(b.released)
          /\ b.records[b.reservations[k]].kind \in Kinds /\ b.records[b.reservations[k]].key = k
      BY <1>1, <3>1 DEF Reserved
    <3>3. b.reservations[k] \notin ToSet(all) /\ b.reservations[k] \in Ids
      BY <1>5, <1>16, <3>1, <3>2
    <3> QED
      BY <1>8, <1>18, <1>19, <3>1, <3>2, <3>3 DEF Alike
  <2>2. ASSUME NEW id \in Ids, b.reservations[b.records[id].key] = id, b.records[id].key \in Keys, id \notin ToSet(ids)
        PROVE  c.reservations[c.records[id].key] = id
    <3>1. c.records[id].key = b.records[id].key
      BY <1>19 DEF Alike
    <3>2. v[b.records[id].key] = b.reservations[b.records[id].key]
      BY <2>2 DEF v
    <3> QED
      BY <1>18, <2>2, <3>1, <3>2
  <2>3. ASSUME NEW id \in Ids, b.records[id].kind \in Kinds PROVE b.records[id].key \in Keys
    BY <1>1, <2>3, BookTypes, KeysOfJobs
  <2>4. ASSUME NEW id \in Ids, c.records[id].kind = "import",
               \/ c.records[id].state \in Pending
               \/ c.records[id].state = "failed" /\ c.records[id].out # "absent"
        PROVE  c.reservations[c.records[id].key] = id
    <3>1. /\ b.records[id].kind = "import"
          /\ \/ b.records[id].state \in Pending
             \/ b.records[id].state = "failed" /\ b.records[id].out # "absent"
      BY <1>19, <2>4 DEF Alike
    <3>2. b.reservations[b.records[id].key] = id
      BY <1>1, <3>1 DEF Reserved
    <3>3. id \notin ToSet(ids)
      BY <1>4, <3>1
    <3>4. b.records[id].key \in Keys
      BY <2>3, <3>1 DEF Kinds
    <3> QED
      BY <2>2, <3>2, <3>3, <3>4
  <2>5. ASSUME NEW id \in Ids, c.records[id].kind \in Kinds,
               c.records[id].state \in Pending, c.records[id].cancel = None
        PROVE  c.reservations[c.records[id].key] = id
    <3>1. b.records[id].kind \in Kinds /\ b.records[id].state \in Pending /\ b.records[id].cancel = None
      BY <1>19, <2>5 DEF Alike
    <3>2. b.reservations[b.records[id].key] = id
      BY <1>1, <3>1 DEF Reserved
    <3>3. id \notin ToSet(ids)
      BY <1>4, <3>1
    <3>4. b.records[id].key \in Keys
      BY <2>3, <3>1
    <3> QED
      BY <2>2, <3>2, <3>3, <3>4
  <2> QED
    BY <2>1, <2>4, <2>5 DEF Reserved
<1>24. Resends(c)
  <2>1. ASSUME NEW r \in ReqIds, c.requests[r] # None
        PROVE  c.requests[r] \in c.table /\ r \in c.records[c.requests[r]].reqs
    <3>1. c.requests[r] = b.requests[r] /\ b.requests[r] \notin old
      BY <1>15, <1>18, <2>1
    <3>2. b.requests[r] \in b.table /\ r \in b.records[b.requests[r]].reqs
      BY <1>1, <2>1, <3>1 DEF Resends
    <3> QED
      BY <1>16, <1>18, <1>19, <3>1, <3>2 DEF Alike
  <2>2. ASSUME NEW id \in c.table, NEW r \in c.records[id].reqs, ~GaveUp(c.records[id])
        PROVE  c.requests[r] = id
    <3>1. id \in Ids /\ id \in b.table /\ id \notin old
      BY <1>16, <1>18
    <3>2. Alike(b.records[id], c.records[id])
      BY <1>19, <3>1
    <3>3. r \in b.records[id].reqs /\ ~GaveUp(b.records[id])
      BY <2>2, <3>2 DEF Alike, GaveUp
    <3>4. b.requests[r] = id
      BY <1>1, <3>1, <3>3 DEF Resends
    <3>5. b.records[id] \in Record
      BY <1>1, <3>1, BookTypes
    <3>6. r \in ReqIds
      BY <3>3, <3>5 DEF Record
    <3> QED
      BY <1>15, <1>18, <3>1, <3>4, <3>6
  <2> QED
    BY <2>1, <2>2 DEF Resends
<1>25. KeptOnce(c)
  <2>1. ASSUME NEW id \in Ids PROVE c.records[id].size > 0 <=> id \in ToSet(c.kept)
    <3>1. b.records[id].size > 0 <=> id \in ToSet(b.kept)
      BY <1>1 DEF KeptOnce
    <3> QED
      BY <1>11, <1>14, <1>18, <3>1
  <2> QED
    BY <1>14, <1>18, <2>1 DEF KeptOnce
<1>26. BookOK(c)
  BY <1>20, <1>21, <1>22, <1>23, <1>24, <1>25 DEF BookOK
<1> QED
  BY <1>18, <1>19, <1>26 DEF c

\* Only records change, none of them back and no payload.
LEMMA RecordsChange ==
  ASSUME NEW b, BookOK(b), NEW c \in Books,
         c.table = b.table, c.requests = b.requests, c.reservations = b.reservations,
         c.released = b.released, c.kept = b.kept,
         \A id \in Ids : /\ Later(b.records[id], c.records[id]) /\ Shape(c.records[id])
                         /\ c.records[id].size = b.records[id].size
  PROVE  BookOK(c)
<1>1. KeptOnce(c)
  BY DEF BookOK, KeptOnce
<1> QED
  BY <1>1, LaterBook

\* A pending record ends.
EndedRecord(r, state, err, out) == [r EXCEPT !.state = state, !.err = err, !.out = out]

LEMMA EndedRecordProperties ==
  ASSUME NEW r \in Record, Shape(r), r.state \in Pending, NEW state \in {"failed", "succeeded"},
         NEW err \in Errors, NEW out \in Outputs \union {None}, state = "failed" => out # None
  PROVE  LET s == EndedRecord(r, state, err, out) IN
         /\ s \in Record /\ Shape(s) /\ Later(r, s)
         /\ s.state = state /\ s.err = err /\ s.out = out /\ s.size = r.size /\ s.kind = r.kind
         /\ s.key = r.key /\ s.cancel = r.cancel /\ s.bound = r.bound /\ s.told = r.told
         /\ s.executing = r.executing /\ s.reqs = r.reqs /\ s.fp = r.fp
<1> DEFINE s == EndedRecord(r, state, err, out)
<1>1. /\ s \in Record
      /\ s.state = state /\ s.err = err /\ s.out = out /\ s.size = r.size /\ s.kind = r.kind
      /\ s.key = r.key /\ s.cancel = r.cancel /\ s.bound = r.bound /\ s.told = r.told
      /\ s.executing = r.executing /\ s.reqs = r.reqs /\ s.fp = r.fp
  BY DEF EndedRecord, Record, States
<1> HIDE DEF s
<1>2. Shape(s)
  BY <1>1 DEF Shape, Pending
<1>3. Later(r, s)
  BY <1>1 DEF Later, Pending
<1> QED
  BY <1>1, <1>2, <1>3 DEF s

LEMMA FailProperties ==
  ASSUME NEW b, BookOK(b), NEW ids \in Seq(Ids), Distinct(ids), NEW err \in Errors,
         \A id \in ToSet(ids) : b.records[id].state \in Pending
  PROVE  LET c == Fail(b, ids, err) IN
         /\ BookOK(c) /\ c.table \subseteq b.table
         /\ \A id \in Ids : Alike(IF id \in ToSet(ids) THEN EndedRecord(b.records[id], "failed", err, "absent")
                                  ELSE b.records[id], c.records[id])
<1> DEFINE f == [id \in Ids |-> IF id \in ToSet(ids) THEN [b.records[id] EXCEPT !.state = "failed", !.err = err, !.out = "absent"]
                                ELSE b.records[id]]
           m == [b EXCEPT !.records = f]
<1>1. b \in Books /\ (\A id \in Ids : Shape(b.records[id])) /\ Tabled(b) /\ ReleasedOnce(b)
  BY DEF BookOK, TypedBook
<1>2. b.records \in [Ids -> Record]
  BY <1>1, BookTypes
<1>3. \A id \in Ids : /\ id \in ToSet(ids) => f[id] = EndedRecord(b.records[id], "failed", err, "absent")
                      /\ id \notin ToSet(ids) => f[id] = b.records[id]
  BY DEF EndedRecord
<1> HIDE DEF f
<1>4. "absent" \in Outputs \union {None} /\ "absent" # None
  BY NoneAssumption DEF Outputs
<1>5. \A id \in Ids : /\ f[id] \in Record /\ Later(b.records[id], f[id]) /\ Shape(f[id])
                      /\ f[id].size = b.records[id].size
                      /\ id \in ToSet(ids) => f[id].state = "failed" /\ f[id].out = "absent"
  <2>1. ASSUME NEW id \in Ids
        PROVE  /\ f[id] \in Record /\ Later(b.records[id], f[id]) /\ Shape(f[id])
               /\ f[id].size = b.records[id].size
               /\ id \in ToSet(ids) => f[id].state = "failed" /\ f[id].out = "absent"
    <3>1. b.records[id] \in Record /\ Shape(b.records[id])
      BY <1>1, <1>2
    <3>2. CASE id \in ToSet(ids)
      BY <1>3, <1>4, <3>1, <3>2, EndedRecordProperties
    <3>3. CASE id \notin ToSet(ids)
      BY <1>3, <3>1, <3>3 DEF Later
    <3> QED
      BY <3>2, <3>3
  <2> QED
    BY <2>1
<1>6. DOMAIN f = Ids /\ f \in [Ids -> Record]
  BY <1>5 DEF f
<1>7. /\ m \in Books /\ m.records = f /\ m.table = b.table /\ m.requests = b.requests
      /\ m.reservations = b.reservations /\ m.released = b.released /\ m.kept = b.kept
  BY <1>1, <1>6 DEF Books
<1>8. Fail(b, ids, err) = Release(m, ids)
  BY <1>1 DEF Fail, f, m, Books
<1> HIDE DEF m
<1>9. BookOK(m)
  BY <1>5, <1>7, RecordsChange
<1>10. Releasable(m, ids)
  <2>1. ASSUME NEW id \in ToSet(ids)
        PROVE  /\ id \in m.table /\ id \notin ToSet(m.released)
               /\ m.records[id].state \notin Pending
               /\ ~(m.records[id].kind = "import" /\ m.records[id].state = "failed" /\ m.records[id].out # "absent")
    <3>1. DOMAIN ids = 1..Len(ids) /\ \A i \in 1..Len(ids) : ids[i] \in Ids
      BY LenProperties, ElementOfSeq
    <3>2. id \in Ids /\ b.records[id].state \in Pending
      BY <3>1 DEF ToSet
    <3>3. id \in b.table /\ id \notin ToSet(b.released)
      BY <1>1, <3>2 DEF Tabled, ReleasedOnce, ToSet
    <3> QED
      BY <1>5, <1>7, <3>2, <3>3 DEF Pending
  <2> QED
    BY <2>1 DEF Releasable
<1>11. /\ BookOK(Release(m, ids)) /\ Release(m, ids).table \subseteq m.table
       /\ \A id \in Ids : Alike(m.records[id], Release(m, ids).records[id])
  BY <1>9, <1>10, ReleaseProperties
<1>12. \A id \in Ids : f[id] = IF id \in ToSet(ids) THEN EndedRecord(b.records[id], "failed", err, "absent")
                               ELSE b.records[id]
  BY <1>3
<1> QED
  BY <1>7, <1>8, <1>11, <1>12

-----------------------------------------------------------------------------
(* The invariant's parts, as the steps use them                            *)

\* The helpers return a book, and SetTables makes it the manager's.
LEMMA BookStep ==
  ASSUME NEW c, BookOK(c), SetTables(c)
  PROVE  BookOK(Book)' /\ Book' = c
<1>1. c \in Books
  BY DEF BookOK, TypedBook
<1>2. Book' = c
  BY <1>1 DEF Books, Book, SetTables
<1>3. BookOK(Book')
  BY <1>2
<1> QED
  BY <1>2, <1>3

LEMMA BookFacts ==
  ASSUME BookOK(Book)
  PROVE  /\ Book \in Books /\ records \in [Ids -> Record] /\ table \subseteq Ids
         /\ requests \in [ReqIds -> Ids \union {None}] /\ reservations \in [Keys -> Ids \union {None}]
         /\ released \in Seq(Ids) /\ kept \in Seq(Ids)
         /\ \A id \in Ids : records[id] \in Record /\ Shape(records[id])
         /\ \A id \in Ids : IsPending(id) => id \in table
<1>1. Book \in Books /\ (\A id \in Ids : Shape(Book.records[id])) /\ Tabled(Book)
  BY DEF BookOK, TypedBook
<1>2. /\ Book.records = records /\ Book.table = table /\ Book.requests = requests
      /\ Book.reservations = reservations /\ Book.released = released /\ Book.kept = kept
  BY DEF Book
<1>3. /\ records \in [Ids -> Record] /\ table \subseteq Ids
      /\ requests \in [ReqIds -> Ids \union {None}] /\ reservations \in [Keys -> Ids \union {None}]
      /\ released \in Seq(Ids) /\ kept \in Seq(Ids)
  BY <1>1, <1>2, BookTypes
<1>4. \A id \in Ids : IsPending(id) => id \in table
  BY <1>1, <1>2 DEF Tabled, IsPending
<1>5. \A id \in Ids : records[id] \in Record /\ Shape(records[id])
  BY <1>1, <1>2, <1>3
<1> QED
  BY <1>1, <1>3, <1>4, <1>5

\* The records that wait: all of them are in the table.
Waiting == {id \in Ids : records[id].state = "queued"}

LEMMA QueuedAreWaiting ==
  ASSUME BookOK(Book)
  PROVE  QueuedJobs = Waiting /\ IsFiniteSet(Waiting) /\ Waiting \subseteq Ids /\ Cardinality(Waiting) \in Nat
<1>1. QueuedJobs = Waiting
  BY BookFacts DEF QueuedJobs, Waiting, IsPending, Pending
<1>2. Waiting \subseteq Ids /\ IsFiniteSet(Waiting)
  BY LimitsAssumption, FS_Subset DEF Waiting
<1> QED
  BY <1>1, <1>2, FS_CardinalityType

LEMMA IdsAreNumbers == Ids \subseteq Nat /\ \A id \in Ids : id \in Nat
<1>1. Cardinality(Ids) \in Nat
  BY LimitsAssumption, FS_CardinalityType
<1>2. \A i \in 1..Cardinality(Ids) : i \in Nat
  BY <1>1
<1> QED
  BY <1>2, LimitsAssumption

\* Steps that leave the tables alone keep what is said of them.
LEMMA SameTables ==
  ASSUME ManagerIInv, UNCHANGED <<tables, queued>>, sleeping' \subseteq sleeping
  PROVE  /\ BookOK(Book)' /\ QueueIsCounted' /\ CancelIsDelivered' /\ Sleepers'
         /\ QueuedJobs' = QueuedJobs
         /\ records' = records
<1>1. Book' = Book /\ records' = records /\ table' = table /\ queued' = queued
  BY DEF tables, Book
<1>2. BookOK(Book')
  BY <1>1 DEF ManagerIInv
<1>3. QueuedJobs' = QueuedJobs
  BY <1>1 DEF QueuedJobs
<1>4. QueueIsCounted'
  BY <1>1, <1>3 DEF ManagerIInv, QueueIsCounted
<1>5. CancelIsDelivered'
  BY <1>1 DEF ManagerIInv, CancelIsDelivered
<1>6. Sleepers'
  BY <1>1 DEF ManagerIInv, Sleepers, IsPending
<1> QED
  BY <1>1, <1>2, <1>3, <1>4, <1>5, <1>6

LEMMA InvariantParts ==
  ASSUME ManagerIInv
  PROVE  /\ BookOK(Book) /\ QueueHoldsJobs /\ WorkerKnows /\ OneRunningJob /\ RunningCalls /\ Stopping
         /\ QueueIsCounted /\ NoStrandedJob /\ CancelIsDelivered /\ Sleepers
BY DEF ManagerIInv, Machine

LEMMA WorkerTypes ==
  ASSUME WorkerKnows
  PROVE  /\ worker = [pc |-> worker.pc, id |-> worker.id, err |-> worker.err, out |-> worker.out]
         /\ worker.pc \in Pcs /\ worker.id \in Ids \union {None} /\ worker.err \in Errors
         /\ worker.out \in Outputs \union {None}
BY DEF WorkerKnows

\* The machine's parts that say nothing of the worker or the queue.
LEMMA SameRunners ==
  ASSUME Stopping, RunningCalls, records' = records,
         UNCHANGED <<running, stopping, broken, shut>>
  PROVE  Stopping' /\ RunningCalls'
<1>1. Stopping'
  BY DEF Stopping, IsJob
<1>2. RunningCalls'
  BY DEF RunningCalls, IsCall
<1> QED
  BY <1>1, <1>2

-----------------------------------------------------------------------------
(* The steps that leave the tables alone                                   *)

LEMMA DequeueStep == ManagerIInv /\ Dequeue => ManagerIInv'
<1> SUFFICES ASSUME ManagerIInv, Dequeue PROVE ManagerIInv'
  OBVIOUS
<1>0. /\ BookOK(Book) /\ QueueHoldsJobs /\ WorkerKnows /\ OneRunningJob /\ RunningCalls /\ Stopping
      /\ NoStrandedJob
  BY InvariantParts
<1>1. /\ worker.pc = "get" /\ queue # <<>> /\ queue' = Tail(queue)
      /\ worker' = IF Head(queue) = None THEN [worker EXCEPT !.pc = "exited"]
                   ELSE [worker EXCEPT !.pc = "got", !.id = Head(queue)]
      /\ UNCHANGED <<tables, queued, running, stopping, broken, shut, sleeping>>
  BY DEF Dequeue, At
<1>2. /\ BookOK(Book)' /\ QueueIsCounted' /\ CancelIsDelivered' /\ Sleepers'
      /\ QueuedJobs' = QueuedJobs
      /\ records' = records
  BY <1>1, SameTables
<1>3. Stopping' /\ RunningCalls'
  BY <1>0, <1>1, <1>2, SameRunners
<1>4. /\ queue \in Seq(Ids \union {None}) /\ Len(queue) \in Nat /\ DOMAIN queue = 1..Len(queue)
      /\ Tail(queue) \in Seq(Ids \union {None}) /\ Head(queue) \in Ids \union {None}
      /\ Head(queue) = queue[1] /\ 1 \in DOMAIN queue
      /\ DOMAIN Tail(queue) = 1..Len(queue) - 1
      /\ \A i \in 1..Len(queue) - 1 : i + 1 \in 1..Len(queue) /\ Tail(queue)[i] = queue[i + 1]
  <2>1. queue \in Seq(Ids \union {None})
    BY <1>0 DEF QueueHoldsJobs
  <2>2. /\ Tail(queue) \in Seq(Ids \union {None}) /\ Head(queue) \in Ids \union {None}
        /\ Head(queue) = queue[1] /\ Len(Tail(queue)) = Len(queue) - 1
        /\ Len(queue) \in Nat /\ Len(queue) # 0 /\ DOMAIN queue = 1..Len(queue)
        /\ \A i \in 1..Len(Tail(queue)) : Tail(queue)[i] = queue[i + 1]
    BY <1>1, <2>1, HeadTailProperties, LenProperties, EmptySeq
  <2>3. DOMAIN Tail(queue) = 1..Len(queue) - 1
    BY <2>2, LenProperties
  <2>4. \A i \in 1..Len(queue) - 1 : i + 1 \in 1..Len(queue)
    BY <2>2
  <2> QED
    BY <2>1, <2>2, <2>3, <2>4
<1>5. QueueHoldsJobs'
  <2>1. \A i \in DOMAIN queue : IF queue[i] = None THEN stopping ELSE IsJob(queue[i])
    BY <1>0 DEF QueueHoldsJobs
  <2>2. ASSUME NEW i \in DOMAIN queue'
        PROVE  IF queue'[i] = None THEN stopping' ELSE records'[queue'[i]].kind \in Kinds
    <3>1. i \in 1..Len(queue) - 1 /\ i + 1 \in DOMAIN queue /\ queue'[i] = queue[i + 1]
      BY <1>1, <1>4
    <3>2. IF queue[i + 1] = None THEN stopping ELSE IsJob(queue[i + 1])
      BY <2>1, <3>1
    <3> QED
      BY <1>1, <1>2, <3>1, <3>2 DEF IsJob
  <2> QED
    BY <1>1, <1>4, <2>2 DEF QueueHoldsJobs, IsJob
<1>6. WorkerKnows' /\ (worker'.pc = "got" \/ worker'.pc = "exited")
  <2>1. IF queue[1] = None THEN stopping ELSE IsJob(queue[1])
    BY <1>0, <1>4 DEF QueueHoldsJobs
  <2>2. CASE Head(queue) = None
    BY <1>0, <1>1, <1>2, <1>4, <2>1, <2>2, WorkerTypes DEF WorkerKnows, Pcs
  <2>3. CASE Head(queue) # None
    BY <1>0, <1>1, <1>2, <1>4, <2>1, <2>3, WorkerTypes DEF WorkerKnows, Pcs, IsJob
  <2> QED
    BY <2>2, <2>3
<1>7. OneRunningJob'
  BY <1>0, <1>1, <1>2 DEF OneRunningJob, IsJob
<1>8. NoStrandedJob'
  <2>1. SUFFICES ASSUME NEW id \in QueuedJobs
                 PROVE  ~Stopped' /\ (id \in ToSet(queue') \/ (worker'.pc = "got" /\ worker'.id = id))
    BY <1>2 DEF NoStrandedJob
  <2>2. id \in ToSet(queue)
    BY <1>0, <1>1 DEF NoStrandedJob
  <2>3. Head(queue) # None
    <3>1. records[id].state = "queued" /\ id \in Ids
      BY <1>0, BookFacts DEF QueuedJobs
    <3>2. ~stopping
      BY <1>0, <3>1 DEF Stopping
    <3> QED
      BY <1>0, <1>4, <3>2 DEF QueueHoldsJobs
  <2>4. worker'.pc = "got" /\ worker'.id = Head(queue)
    BY <1>0, <1>1, <2>3, WorkerTypes
  <2>5. PICK i \in 1..Len(queue) : queue[i] = id
    BY <1>4, <2>2 DEF ToSet
  <2>6. i = 1 \/ (i - 1 \in 1..Len(queue) - 1 /\ (i - 1) + 1 = i)
    BY <1>4
  <2>7. id = Head(queue) \/ id \in ToSet(Tail(queue))
    BY <1>4, <2>5, <2>6 DEF ToSet
  <2> QED
    BY <1>1, <2>4, <2>7 DEF Stopped
<1> QED
  BY <1>2, <1>3, <1>5, <1>6, <1>7, <1>8 DEF ManagerIInv, Machine

\* Steps of the worker alone.
LEMMA WorkerAlone ==
  ASSUME ManagerIInv, UNCHANGED <<tables, queue, queued, running, stopping, broken, shut, sleeping>>,
         WorkerKnows', OneRunningJob', NoStrandedJob'
  PROVE  ManagerIInv'
<1>0. QueueHoldsJobs /\ RunningCalls /\ Stopping
  BY InvariantParts
<1>1. /\ BookOK(Book)' /\ QueueIsCounted' /\ CancelIsDelivered' /\ Sleepers'
      /\ records' = records
  BY SameTables
<1>2. Stopping' /\ RunningCalls'
  BY <1>0, <1>1, SameRunners
<1>3. QueueHoldsJobs'
  BY <1>0, <1>1 DEF QueueHoldsJobs, IsJob
<1> QED
  BY <1>1, <1>2, <1>3 DEF ManagerIInv, Machine

LEMMA IdleTimeoutStep == ManagerIInv /\ IdleTimeout => ManagerIInv'
<1> SUFFICES ASSUME ManagerIInv, IdleTimeout PROVE ManagerIInv'
  OBVIOUS
<1>0. WorkerKnows /\ OneRunningJob /\ NoStrandedJob
  BY InvariantParts
<1>1. /\ worker.pc = "get" /\ worker' = [worker EXCEPT !.pc = "idle"]
      /\ UNCHANGED <<tables, queue, queued, running, stopping, broken, shut, sleeping>>
  BY DEF IdleTimeout, At, GoTo
<1>2. QueuedJobs' = QueuedJobs /\ records' = records
  BY <1>1, SameTables
<1>3. worker'.pc = "idle"
  BY <1>0, <1>1, WorkerTypes
<1>4. WorkerKnows'
  BY <1>0, <1>1, <1>2, WorkerTypes DEF WorkerKnows, Pcs
<1>5. OneRunningJob'
  BY <1>0, <1>1, <1>2 DEF OneRunningJob, IsJob
<1>6. NoStrandedJob'
  BY <1>0, <1>1, <1>2, <1>3 DEF NoStrandedJob, Stopped
<1> QED
  BY <1>1, <1>4, <1>5, <1>6, WorkerAlone

LEMMA IdleExitStep == ManagerIInv /\ IdleExit => ManagerIInv'
<1> SUFFICES ASSUME ManagerIInv, IdleExit PROVE ManagerIInv'
  OBVIOUS
<1>0. WorkerKnows /\ OneRunningJob /\ NoStrandedJob
  BY InvariantParts
<1>1. /\ worker.pc = "idle" /\ worker' = [worker EXCEPT !.pc = IF queue = <<>> THEN "off" ELSE "get"]
      /\ UNCHANGED <<tables, queue, queued, running, stopping, broken, shut, sleeping>>
  BY DEF IdleExit, At, GoTo
<1>2. QueuedJobs' = QueuedJobs /\ records' = records
  BY <1>1, SameTables
<1>3. worker'.pc = IF queue = <<>> THEN "off" ELSE "get"
  BY <1>0, <1>1, WorkerTypes
<1>4. WorkerKnows'
  BY <1>0, <1>1, <1>2, <1>3, WorkerTypes DEF WorkerKnows, Pcs
<1>5. OneRunningJob'
  BY <1>0, <1>1, <1>2 DEF OneRunningJob, IsJob
<1>6. NoStrandedJob'
  <2>1. \A id \in QueuedJobs : id \in ToSet(queue)
    BY <1>0, <1>1 DEF NoStrandedJob
  <2>2. QueuedJobs # {} => queue # <<>>
    <3>1. ToSet(<<>>) = {}
      BY DEF ToSet
    <3> QED
      BY <2>1, <3>1
  <2> QED
    BY <1>0, <1>1, <1>2, <1>3, <2>1, <2>2 DEF NoStrandedJob, Stopped
<1> QED
  BY <1>1, <1>4, <1>5, <1>6, WorkerAlone

LEMMA RefusedStep == ManagerIInv /\ Refused => ManagerIInv'
<1> SUFFICES ASSUME ManagerIInv, Refused PROVE ManagerIInv'
  OBVIOUS
<1>0. WorkerKnows /\ OneRunningJob /\ NoStrandedJob
  BY InvariantParts
<1>1. /\ worker.pc = "run" /\ Refusal(worker.id) # None
      /\ worker' = [worker EXCEPT !.pc = "back", !.err = Refusal(worker.id), !.out = "absent"]
      /\ UNCHANGED <<tables, queue, queued, running, stopping, broken, shut, sleeping>>
  BY DEF Refused, At
<1>2. QueuedJobs' = QueuedJobs /\ records' = records
  BY <1>1, SameTables
<1>3. Refusal(worker.id) \in Errors /\ "absent" \in Outputs /\ "absent" # None
  BY <1>1, NoneAssumption DEF Refusal, Errors, Outputs
<1>4. worker' = [pc |-> "back", id |-> worker.id, err |-> Refusal(worker.id), out |-> "absent"]
  BY <1>0, <1>1, WorkerTypes
<1>5. WorkerKnows'
  BY <1>0, <1>1, <1>2, <1>3, <1>4, WorkerTypes DEF WorkerKnows, Pcs, IsJob
<1>6. OneRunningJob'
  BY <1>0, <1>1, <1>2, <1>4 DEF OneRunningJob, IsJob
<1>7. NoStrandedJob'
  BY <1>0, <1>1, <1>2, <1>4 DEF NoStrandedJob, Stopped
<1> QED
  BY <1>1, <1>5, <1>6, <1>7, WorkerAlone

LEMMA ReturnStep ==
  ASSUME ManagerIInv, NEW o \in Outcomes, Return(o[1], o[2])
  PROVE  ManagerIInv'
<1>0. WorkerKnows /\ OneRunningJob /\ NoStrandedJob
  BY InvariantParts
<1>1. /\ worker.pc = "run" /\ (o[1] = None <=> o[2] = None)
      /\ ~records[worker.id].executing => o[2] \in {None, "absent"}
      /\ worker' = [worker EXCEPT !.pc = "back", !.err = o[1], !.out = o[2]]
      /\ UNCHANGED <<tables, queue, queued, running, stopping, broken, shut, sleeping>>
  BY DEF Return, At
<1>2. QueuedJobs' = QueuedJobs /\ records' = records
  BY <1>1, SameTables
<1>3. o[1] \in Errors /\ o[2] \in Outputs \union {None}
  BY DEF Outcomes, Errors
<1>4. worker' = [pc |-> "back", id |-> worker.id, err |-> o[1], out |-> o[2]]
  BY <1>0, <1>1, WorkerTypes
<1>5. WorkerKnows'
  BY <1>0, <1>1, <1>2, <1>3, <1>4, WorkerTypes DEF WorkerKnows, Pcs, IsJob
<1>6. OneRunningJob'
  BY <1>0, <1>1, <1>2, <1>4 DEF OneRunningJob, IsJob
<1>7. NoStrandedJob'
  BY <1>0, <1>1, <1>2, <1>4 DEF NoStrandedJob, Stopped
<1> QED
  BY <1>1, <1>5, <1>6, <1>7, WorkerAlone

LEMMA ClassifyStep == ManagerIInv /\ Classify => ManagerIInv'
<1> SUFFICES ASSUME ManagerIInv, Classify PROVE ManagerIInv'
  OBVIOUS
<1>0. BookOK(Book) /\ WorkerKnows /\ OneRunningJob /\ NoStrandedJob
  BY InvariantParts
<1>1. /\ worker.pc = "back"
      /\ UNCHANGED <<tables, queue, queued, running, stopping, broken, shut, sleeping>>
  BY DEF Classify, At
<1>2. QueuedJobs' = QueuedJobs /\ records' = records
  BY <1>1, SameTables
<1>3. /\ worker.id \in Ids /\ IsJob(worker.id) /\ records[worker.id].state # "queued"
      /\ (worker.err = None <=> worker.out = None)
      /\ ~records[worker.id].executing => worker.out \in {None, "absent"}
  BY <1>0, <1>1 DEF WorkerKnows
<1>4. CASE records[worker.id].state \notin Pending
  <2>1. worker' = [worker EXCEPT !.pc = "done"]
    BY <1>4 DEF Classify
  <2>2. worker' = [pc |-> "done", id |-> worker.id, err |-> worker.err, out |-> worker.out]
    BY <1>0, <2>1, WorkerTypes
  <2>3. WorkerKnows'
    BY <1>0, <1>1, <1>2, <1>3, <2>2, WorkerTypes DEF WorkerKnows, Pcs, IsJob
  <2>4. OneRunningJob'
    BY <1>0, <1>1, <1>2, <1>4, <2>2 DEF OneRunningJob, IsJob, Pending
  <2>5. NoStrandedJob'
    BY <1>0, <1>1, <1>2, <2>2 DEF NoStrandedJob, Stopped
  <2> QED
    BY <1>1, <2>3, <2>4, <2>5, WorkerAlone
<1>5. CASE records[worker.id].state \in Pending
  <2>1. PICK err : /\ err \in Errors /\ (err = None <=> worker.err = None)
                   /\ worker' = [worker EXCEPT !.pc = "shown", !.err = err]
    <3> DEFINE e == IF worker.err # None /\ records[worker.id].cancel # None /\ records[worker.id].executing
                    THEN IF records[worker.id].cancel = "client" THEN "cancelled" ELSE "shutdown"
                    ELSE worker.err
    <3>1. worker' = [worker EXCEPT !.pc = "shown", !.err = e]
      BY <1>0, <1>5, WorkerTypes DEF Classify
    <3>2. e \in Errors /\ (e = None <=> worker.err = None)
      BY <1>0, WorkerTypes, NoneAssumption DEF Errors
    <3> QED
      BY <3>1, <3>2
  <2>2. worker' = [pc |-> "shown", id |-> worker.id, err |-> err, out |-> worker.out]
    BY <1>0, <2>1, WorkerTypes
  <2>3. WorkerKnows'
    BY <1>0, <1>1, <1>2, <1>3, <2>1, <2>2, WorkerTypes DEF WorkerKnows, Pcs, IsJob
  <2>4. OneRunningJob'
    BY <1>0, <1>1, <1>2, <2>2 DEF OneRunningJob, IsJob
  <2>5. NoStrandedJob'
    BY <1>0, <1>1, <1>2, <2>2 DEF NoStrandedJob, Stopped
  <2> QED
    BY <1>1, <2>3, <2>4, <2>5, WorkerAlone
<1> QED
  BY <1>4, <1>5

LEMMA NextJobStep == ManagerIInv /\ NextJob => ManagerIInv'
<1> SUFFICES ASSUME ManagerIInv, NextJob PROVE ManagerIInv'
  OBVIOUS
<1>0. WorkerKnows /\ OneRunningJob /\ NoStrandedJob
  BY InvariantParts
<1>1. /\ worker.pc = "done" /\ worker' = [pc |-> "get", id |-> None, err |-> None, out |-> None]
      /\ UNCHANGED <<tables, queue, queued, running, stopping, broken, shut, sleeping>>
  BY DEF NextJob, At
<1>2. QueuedJobs' = QueuedJobs /\ records' = records
  BY <1>1, SameTables
<1>3. WorkerKnows'
  BY <1>1 DEF WorkerKnows, Pcs, Errors
<1>4. OneRunningJob'
  BY <1>0, <1>1, <1>2 DEF OneRunningJob, IsJob
<1>5. NoStrandedJob'
  BY <1>0, <1>1, <1>2 DEF NoStrandedJob, Stopped
<1> QED
  BY <1>1, <1>3, <1>4, <1>5, WorkerAlone

LEMMA CrashStep == ManagerIInv /\ Crash => ManagerIInv'
<1> SUFFICES ASSUME ManagerIInv, Crash PROVE ManagerIInv'
  OBVIOUS
<1>0. WorkerKnows /\ OneRunningJob /\ NoStrandedJob
  BY InvariantParts
<1>1. /\ worker.pc \in {"run", "back", "shown"} /\ worker' = [worker EXCEPT !.pc = "crashed"]
      /\ UNCHANGED <<tables, queue, queued, running, stopping, broken, shut, sleeping>>
  BY DEF Crash, GoTo
<1>2. QueuedJobs' = QueuedJobs /\ records' = records
  BY <1>1, SameTables
<1>3. worker' = [pc |-> "crashed", id |-> worker.id, err |-> worker.err, out |-> worker.out]
  BY <1>0, <1>1, WorkerTypes
<1>4. WorkerKnows'
  BY <1>0, <1>1, <1>2, <1>3, WorkerTypes DEF WorkerKnows, Pcs, IsJob
<1>5. OneRunningJob'
  BY <1>0, <1>1, <1>2, <1>3 DEF OneRunningJob, IsJob
<1>6. NoStrandedJob'
  BY <1>0, <1>1, <1>2, <1>3 DEF NoStrandedJob, Stopped
<1> QED
  BY <1>1, <1>4, <1>5, <1>6, WorkerAlone

\* The steps that move nothing but a client, a counter or shutdown.
LEMMA SameWorker ==
  ASSUME ManagerIInv, UNCHANGED <<tables, queue, queued, running, worker, stopping, broken>>,
         Sleepers', Stopping'
  PROVE  ManagerIInv'
<1>0. QueueHoldsJobs /\ WorkerKnows /\ OneRunningJob /\ RunningCalls /\ NoStrandedJob
      /\ BookOK(Book) /\ QueueIsCounted /\ CancelIsDelivered
  BY InvariantParts
<1>1. records' = records /\ QueuedJobs' = QueuedJobs /\ Book' = Book
  BY DEF tables, QueuedJobs, Book
<1>2. BookOK(Book') /\ QueueIsCounted' /\ CancelIsDelivered'
  BY <1>0, <1>1 DEF QueueIsCounted, CancelIsDelivered
<1>3. QueueHoldsJobs' /\ OneRunningJob' /\ RunningCalls'
  BY <1>0, <1>1 DEF QueueHoldsJobs, OneRunningJob, RunningCalls, IsJob, IsCall
<1>4. WorkerKnows'
  BY <1>0, <1>1 DEF WorkerKnows, IsJob, IsPending
<1>5. NoStrandedJob'
  BY <1>0, <1>1 DEF NoStrandedJob, Stopped
<1> QED
  BY <1>2, <1>3, <1>4, <1>5 DEF ManagerIInv, Machine

LEMMA WaitForStep ==
  ASSUME ManagerIInv, NEW id \in Awaited, WaitFor(id)
  PROVE  ManagerIInv'
<1>0. Stopping /\ Sleepers
  BY InvariantParts
<1>1. /\ IsPending(id) /\ sleeping' = sleeping \union {id}
      /\ UNCHANGED <<tables, queue, queued, running, worker, stopping, broken, shut>>
  BY DEF WaitFor
<1>2. records' = records
  BY <1>1 DEF tables
<1>3. Sleepers'
  BY <1>0, <1>1, <1>2, LimitsAssumption DEF Sleepers, IsPending
<1>4. Stopping'
  BY <1>0, <1>1, <1>2 DEF Stopping, IsJob
<1> QED
  BY <1>1, <1>3, <1>4, SameWorker

LEMMA ClosingSteps ==
  ManagerIInv /\ (TrackCall \/ UntrackCall \/ Joined \/ CallsDone) => ManagerIInv'
<1> SUFFICES ASSUME ManagerIInv, TrackCall \/ UntrackCall \/ Joined \/ CallsDone PROVE ManagerIInv'
  OBVIOUS
<1>0. Stopping /\ Sleepers /\ OneRunningJob
  BY InvariantParts
<1>1. UNCHANGED <<tables, queue, queued, running, worker, stopping, broken>> /\ sleeping' \subseteq sleeping
  BY DEF TrackCall, UntrackCall, Joined, CallsDone, Notify
<1>2. records' = records
  BY <1>1 DEF tables
<1>3. Sleepers'
  BY <1>0, <1>1, <1>2 DEF Sleepers, IsPending
<1>4. Stopping'
  <2>1. CASE TrackCall \/ UntrackCall
    <3>1. shut' = shut
      BY <2>1 DEF TrackCall, UntrackCall
    <3> QED
      BY <1>0, <1>1, <1>2, <3>1 DEF Stopping, IsJob
  <2>2. CASE Joined
    <3>1. shut' = "calls" /\ (shut = "join_script" \/ (shut = "join" /\ Stopped))
      BY <2>2 DEF Joined
    <3>2. \A id \in Ids : IsJob(id) /\ records[id].state = "running" => records[id].kind = "script"
      BY <1>0, <3>1 DEF Stopping, OneRunningJob, Stopped
    <3> QED
      BY <1>0, <1>1, <1>2, <3>1, <3>2 DEF Stopping, IsJob
  <2>3. CASE CallsDone
    <3>1. shut' = "closed" /\ shut = "calls"
      BY <2>3 DEF CallsDone
    <3> QED
      BY <1>0, <1>1, <1>2, <3>1 DEF Stopping, IsJob
  <2> QED
    BY <2>1, <2>2, <2>3
<1> QED
  BY <1>1, <1>3, <1>4, SameWorker

-----------------------------------------------------------------------------
(* The steps that change the worker's record                               *)

LEMMA WaitingNext == BookOK(Book)' => QueuedJobs' = Waiting'
<1> DEFINE P == BookOK(Book)
           Q == QueuedJobs = Waiting
<1>1. P => Q
  BY QueuedAreWaiting
<1> HIDE DEF P, Q
<1>2. P' => Q'
  BY <1>1, PTL
<1> QED
  BY <1>2 DEF P, Q

LEMMA OneRecordChanges ==
  ASSUME BookOK(Book), NEW id \in Ids, NEW r \in Record,
         records' = [records EXCEPT ![id] = r],
         UNCHANGED <<table, requests, reservations, released, kept>>,
         Later(records[id], r), Shape(r), r.size = records[id].size
  PROVE  /\ BookOK(Book)' /\ records' \in [Ids -> Record]
         /\ records'[id] = r /\ \A i \in Ids : i # id => records'[i] = records[i]
<1>1. Book \in Books /\ records \in [Ids -> Record] /\ \A i \in Ids : Shape(records[i])
  BY BookFacts
<1>2. /\ records' \in [Ids -> Record] /\ records'[id] = r
      /\ \A i \in Ids : i # id => records'[i] = records[i]
  BY <1>1
<1>3. PICK c : c = Book'
  OBVIOUS
<1>4. PICK b : b = Book
  OBVIOUS
<1>5. BookOK(b) /\ b.records = records
  BY <1>4 DEF Book
<1>6. /\ c.records = records' /\ c.table = b.table /\ c.requests = b.requests
      /\ c.reservations = b.reservations /\ c.released = b.released /\ c.kept = b.kept
  BY <1>3, <1>4 DEF Book
<1>7. c \in Books
  BY <1>1, <1>2, <1>3 DEF Book, Books
<1>8. ASSUME NEW i \in Ids
      PROVE  /\ Later(b.records[i], c.records[i]) /\ Shape(c.records[i])
             /\ c.records[i].size = b.records[i].size
  <2>1. CASE i = id
    BY <1>2, <1>5, <1>6, <2>1
  <2>2. CASE i # id
    BY <1>1, <1>2, <1>5, <1>6, <2>2 DEF Later
  <2> QED
    BY <2>1, <2>2
<1>9. BookOK(c)
  BY <1>5, <1>6, <1>7, <1>8, RecordsChange
<1> QED
  BY <1>2, <1>3, <1>9

LEMMA SkipStep ==
  ASSUME ManagerIInv, Start, worker.id \notin table \/ stopping \/ records[worker.id].state # "queued"
  PROVE  ManagerIInv'
<1>0. BookOK(Book) /\ WorkerKnows /\ OneRunningJob /\ NoStrandedJob /\ Stopping
  BY InvariantParts
<1>1. /\ worker.pc = "got" /\ worker' = [worker EXCEPT !.pc = "get", !.id = None]
      /\ UNCHANGED <<tables, queue, queued, running, stopping, broken, shut, sleeping>>
  BY DEF Start, Skip, At
<1>2. QueuedJobs' = QueuedJobs /\ records' = records
  BY <1>1, SameTables
<1>3. worker' = [pc |-> "get", id |-> None, err |-> worker.err, out |-> worker.out]
  BY <1>0, <1>1, WorkerTypes
<1>4. WorkerKnows'
  BY <1>0, <1>3, WorkerTypes DEF WorkerKnows, Pcs
<1>5. OneRunningJob'
  BY <1>0, <1>1, <1>2 DEF OneRunningJob, IsJob
<1>6. NoStrandedJob'
  <2>1. ASSUME NEW id \in QueuedJobs PROVE id \in ToSet(queue)
    <3>1. id \in table /\ records[id].state = "queued" /\ id \in Ids
      BY <1>0, BookFacts DEF QueuedJobs
    <3>2. ~stopping
      BY <1>0, <3>1 DEF Stopping
    <3>3. worker.id # id
      BY <3>1, <3>2
    <3> QED
      BY <1>0, <1>1, <3>3 DEF NoStrandedJob
  <2> QED
    BY <1>0, <1>1, <1>2, <1>3, <2>1 DEF NoStrandedJob, Stopped
<1> QED
  BY <1>1, <1>4, <1>5, <1>6, WorkerAlone

LEMMA StartStep == ManagerIInv /\ Start => ManagerIInv'
<1> SUFFICES ASSUME ManagerIInv, Start, worker.id \in table, ~stopping, records[worker.id].state = "queued"
             PROVE  ManagerIInv'
  BY SkipStep
<1>0. /\ BookOK(Book) /\ QueueHoldsJobs /\ WorkerKnows /\ OneRunningJob /\ RunningCalls /\ Stopping
      /\ QueueIsCounted /\ NoStrandedJob /\ CancelIsDelivered /\ Sleepers
  BY InvariantParts
<1>1. PICK j \in Ids : j = worker.id
  BY <1>0, BookFacts
<1>2. /\ worker.pc = "got" /\ queued' = queued - 1
      /\ records' = [records EXCEPT ![j].state = "running"]
      /\ worker' = [worker EXCEPT !.pc = "run"]
      /\ sleeping' = {id \in sleeping : records'[id].state \in Pending}
      /\ UNCHANGED <<table, requests, reservations, released, kept, queue, running, stopping, broken, shut>>
  BY <1>1 DEF Start, At, GoTo, Notify
<1>3. records[j] \in Record /\ Shape(records[j]) /\ records \in [Ids -> Record] /\ IsJob(j)
      /\ records[j].state = "queued" /\ ~stopping /\ ~broken
  BY <1>0, <1>1, <1>2, BookFacts DEF WorkerKnows, Stopping
<1>4. PICK r : r = [records[j] EXCEPT !.state = "running"]
  OBVIOUS
<1>5. /\ r \in Record /\ r.state = "running" /\ r.kind = records[j].kind /\ r.key = records[j].key
      /\ r.executing = records[j].executing /\ r.cancel = records[j].cancel /\ r.bound = records[j].bound
      /\ r.told = records[j].told /\ r.err = records[j].err /\ r.out = records[j].out
      /\ r.reqs = records[j].reqs /\ r.size = records[j].size
  BY <1>3, <1>4 DEF Record, States
<1>6. Later(records[j], r) /\ Shape(r)
  BY <1>3, <1>5 DEF Later, Shape, Pending, IsJob, Kinds
<1>7. records' = [records EXCEPT ![j] = r]
  BY <1>2, <1>3, <1>4
<1>8. BookOK(Book)' /\ records'[j] = r /\ \A i \in Ids : i # j => records'[i] = records[i]
  BY <1>0, <1>2, <1>5, <1>6, <1>7, OneRecordChanges
<1>9. worker' = [pc |-> "run", id |-> j, err |-> worker.err, out |-> worker.out]
  BY <1>0, <1>1, <1>2, WorkerTypes
<1>10. /\ \A i \in Ids : /\ records'[i].kind = records[i].kind /\ records'[i].executing = records[i].executing
                         /\ records'[i].cancel = records[i].cancel /\ records'[i].bound = records[i].bound
       /\ \A i \in Ids : i # j => records'[i].state = records[i].state
       /\ records'[j].state = "running"
  BY <1>5, <1>8
<1> HIDE DEF ManagerIInv
<1>11. QueueHoldsJobs'
  <2>1. \A i \in DOMAIN queue : queue[i] \in Ids \union {None}
    BY <1>0, ElementOfSeq, LenProperties DEF QueueHoldsJobs
  <2> QED
    BY <1>0, <1>2, <1>10, <2>1 DEF QueueHoldsJobs, IsJob
<1>12. WorkerKnows'
  <2>1. worker'.pc = "run" /\ worker'.id = j /\ j # None
    BY <1>9, NoneAssumption
  <2>2. worker' \in [pc : Pcs, id : Ids \union {None}, err : Errors, out : Outputs \union {None}]
    BY <1>0, <1>9, WorkerTypes DEF Pcs
  <2>3. records'[j].kind \in Kinds /\ records'[j].state = "running"
    BY <1>3, <1>10 DEF IsJob
  <2> QED
    BY <2>1, <2>2, <2>3 DEF WorkerKnows, IsJob, IsPending, Pending
<1>13. OneRunningJob'
  BY <1>0, <1>2, <1>9, <1>10 DEF OneRunningJob, IsJob
<1>14. RunningCalls'
  <2>1. records[j].kind # "call"
    BY <1>3 DEF IsJob, Kinds
  <2> QED
    BY <1>0, <1>2, <1>10, <2>1 DEF RunningCalls, IsCall
<1>15. Stopping'
  BY <1>0, <1>2, <1>3, <1>10 DEF Stopping, IsJob
<1>16. Waiting' = Waiting \ {j} /\ j \in Waiting
  BY <1>3, <1>10 DEF Waiting
<1>17. QueueIsCounted'
  <2>1. Cardinality(Waiting') = Cardinality(Waiting) - 1
    BY <1>0, <1>16, QueuedAreWaiting, FS_RemoveElement
  <2>2. Cardinality(QueuedJobs') = Cardinality(QueuedJobs) - 1 /\ Cardinality(QueuedJobs) \in Nat
    <3>1. QueuedJobs' = Waiting'
      BY <1>8, WaitingNext
    <3> QED
      BY <1>0, <2>1, <3>1, QueuedAreWaiting
  <2>3. QueueLimit \in Nat
    BY LimitsAssumption
  <2> QED
    BY <1>0, <1>2, <2>2, <2>3 DEF QueueIsCounted
<1>18. NoStrandedJob'
  BY <1>0, <1>1, <1>2, <1>9, <1>10, BookFacts DEF NoStrandedJob, Stopped, QueuedJobs
<1>19. CancelIsDelivered'
  <2>1. ~records[j].bound
    BY <1>3 DEF Shape
  <2> QED
    BY <1>0, <1>8, <1>10, <2>1 DEF CancelIsDelivered
<1>20. Sleepers'
  BY <1>0, <1>2 DEF Sleepers, IsPending
<1> QED
  BY <1>8, <1>11, <1>12, <1>13, <1>14, <1>15, <1>17, <1>18, <1>19, <1>20 DEF ManagerIInv, Machine

\* What a step keeps that changes no kind of a record, and no record waits or
\* stops waiting.
LEMMA QueueKept ==
  ASSUME QueueHoldsJobs, queue' = queue, stopping => stopping',
         \A i \in Ids : records'[i].kind = records[i].kind
  PROVE  QueueHoldsJobs'
<1>1. \A i \in DOMAIN queue : queue[i] \in Ids \union {None}
  BY ElementOfSeq, LenProperties DEF QueueHoldsJobs
<1> QED
  BY <1>1 DEF QueueHoldsJobs, IsJob

LEMMA CountKept ==
  ASSUME BookOK(Book), BookOK(Book)', QueueIsCounted, queued' = queued,
         \A i \in Ids : records'[i].state = "queued" <=> records[i].state = "queued"
  PROVE  QueueIsCounted' /\ QueuedJobs' = QueuedJobs
<1>1. Waiting' = Waiting
  BY DEF Waiting
<1>2. QueuedJobs' = QueuedJobs
  BY <1>1, QueuedAreWaiting, WaitingNext
<1> QED
  BY <1>2 DEF QueueIsCounted

\* begin and bind_cancel change the worker's record and nothing else.
LEMMA WorkerRecord ==
  ASSUME ManagerIInv, At("run"), NEW j \in Ids, j = worker.id, NEW r \in Record, Shape(r),
         records' = [records EXCEPT ![j] = r],
         r.kind = records[j].kind, r.key = records[j].key, r.state = records[j].state,
         r.cancel = records[j].cancel, r.err = records[j].err, r.out = records[j].out,
         r.reqs = records[j].reqs, r.size = records[j].size,
         r.state = "running" /\ r.bound /\ r.cancel # None => r.told,
         UNCHANGED <<table, requests, reservations, released, kept, queue, queued, running, worker,
                     stopping, broken, shut>>,
         sleeping' \subseteq sleeping
  PROVE  ManagerIInv'
<1>0. /\ BookOK(Book) /\ QueueHoldsJobs /\ WorkerKnows /\ OneRunningJob /\ RunningCalls /\ Stopping
      /\ QueueIsCounted /\ NoStrandedJob /\ CancelIsDelivered /\ Sleepers
  BY InvariantParts
<1>1. Later(records[j], r)
  BY DEF Later
<1>2. BookOK(Book)' /\ records'[j] = r /\ \A i \in Ids : i # j => records'[i] = records[i]
  BY <1>0, <1>1, OneRecordChanges
<1>3. \A i \in Ids : /\ records'[i].kind = records[i].kind /\ records'[i].state = records[i].state
                     /\ records'[i].cancel = records[i].cancel
  BY <1>2
<1>4. QueueHoldsJobs'
  BY <1>0, <1>3, QueueKept
<1>5. QueueIsCounted' /\ QueuedJobs' = QueuedJobs
  BY <1>0, <1>2, <1>3, CountKept
<1>6. WorkerKnows'
  <2>1. worker.pc = "run"
    BY DEF At
  <2>2. /\ worker.id # None /\ IsJob(j) /\ records[j].state # "queued"
        /\ ~IsPending(j) => records[j].cancel = "client" \/ stopping
    BY <1>0, <2>1 DEF WorkerKnows
  <2>3. worker \in [pc : Pcs, id : Ids \union {None}, err : Errors, out : Outputs \union {None}]
    BY <1>0 DEF WorkerKnows
  <2> QED
    BY <1>3, <2>1, <2>2, <2>3 DEF WorkerKnows, IsJob, IsPending
<1>7. OneRunningJob'
  BY <1>0, <1>3 DEF OneRunningJob, IsJob
<1>8. RunningCalls'
  BY <1>0, <1>3 DEF RunningCalls, IsCall
<1>9. Stopping'
  BY <1>0, <1>3 DEF Stopping, IsJob
<1>10. NoStrandedJob'
  BY <1>0, <1>5 DEF NoStrandedJob, Stopped
<1>11. CancelIsDelivered'
  BY <1>0, <1>2 DEF CancelIsDelivered
<1>12. Sleepers'
  BY <1>0, <1>3 DEF Sleepers, IsPending
<1> QED
  BY <1>2, <1>4, <1>5, <1>6, <1>7, <1>8, <1>9, <1>10, <1>11, <1>12 DEF ManagerIInv, Machine

LEMMA BeginStep == ManagerIInv /\ Begin => ManagerIInv'
<1> SUFFICES ASSUME ManagerIInv, Begin PROVE ManagerIInv'
  OBVIOUS
<1>0. BookOK(Book) /\ WorkerKnows /\ CancelIsDelivered
  BY InvariantParts
<1>1. PICK j \in Ids : j = worker.id
  BY <1>0 DEF WorkerKnows, Begin, At
<1>2. /\ worker.pc = "run" /\ Refusal(j) = None /\ records' = [records EXCEPT ![j].executing = TRUE]
      /\ UNCHANGED <<table, requests, reservations, released, kept, queue, queued, running, worker,
                     stopping, broken, shut>>
      /\ sleeping' \subseteq sleeping
  BY <1>1 DEF Begin, At, Notify
<1>3. records[j] \in Record /\ Shape(records[j]) /\ records \in [Ids -> Record]
  BY <1>0, BookFacts
<1>4. records[j].state = "running"
  <2>1. records[j].cancel # "client" /\ ~stopping
    BY <1>2, NoneAssumption DEF Refusal
  <2> QED
    BY <1>0, <1>1, <1>2, <2>1 DEF WorkerKnows, IsPending, Pending
<1>5. PICK r : r = [records[j] EXCEPT !.executing = TRUE]
  OBVIOUS
<1>6. /\ r \in Record /\ r.executing /\ r.state = records[j].state /\ r.kind = records[j].kind
      /\ r.key = records[j].key
      /\ r.cancel = records[j].cancel /\ r.bound = records[j].bound
      /\ r.told = records[j].told /\ r.err = records[j].err /\ r.out = records[j].out
      /\ r.reqs = records[j].reqs /\ r.size = records[j].size
  BY <1>3, <1>5 DEF Record
<1>7. Shape(r)
  BY <1>3, <1>4, <1>6 DEF Shape, Pending
<1>8. r.state = "running" /\ r.bound /\ r.cancel # None => r.told
  BY <1>0, <1>6 DEF CancelIsDelivered
<1>9. records' = [records EXCEPT ![j] = r]
  BY <1>2, <1>3, <1>5
<1> QED
  BY <1>1, <1>2, <1>6, <1>7, <1>8, <1>9, WorkerRecord DEF At

LEMMA BindCancelStep ==
  ASSUME ManagerIInv, NEW bind \in BOOLEAN, BindCancel(bind)
  PROVE  ManagerIInv'
<1>0. BookOK(Book) /\ WorkerKnows
  BY InvariantParts
<1>1. PICK j \in Ids : j = worker.id
  BY <1>0 DEF WorkerKnows, BindCancel, At
<1>2. /\ worker.pc = "run"
      /\ records' = [records EXCEPT ![j].bound = bind, ![j].told = bind /\ records[j].cancel # None]
      /\ UNCHANGED <<table, requests, reservations, released, kept, queue, queued, running, worker,
                     stopping, broken, shut, sleeping>>
  BY <1>1 DEF BindCancel, At
<1>3. records[j] \in Record /\ Shape(records[j]) /\ records \in [Ids -> Record]
  BY <1>0, BookFacts
<1>4. IsJob(j) /\ records[j].state # "queued"
  BY <1>0, <1>1, <1>2 DEF WorkerKnows
<1>5. PICK t \in BOOLEAN : t = (bind /\ records[j].cancel # None)
  OBVIOUS
<1>6. PICK r : r = [records[j] EXCEPT !.bound = bind, !.told = t]
  OBVIOUS
<1>7. /\ r \in Record /\ r.executing = records[j].executing /\ r.state = records[j].state
      /\ r.kind = records[j].kind /\ r.key = records[j].key
      /\ r.cancel = records[j].cancel /\ r.bound = bind /\ r.told = t
      /\ r.err = records[j].err /\ r.out = records[j].out
      /\ r.reqs = records[j].reqs /\ r.size = records[j].size
  BY <1>3, <1>6 DEF Record
<1>8. Shape(r)
  BY <1>3, <1>4, <1>7 DEF Shape, IsJob, Kinds
<1>9. r.state = "running" /\ r.bound /\ r.cancel # None => r.told
  BY <1>5, <1>7
<1>10. records' = [records EXCEPT ![j] = r]
  BY <1>2, <1>3, <1>5, <1>6
<1> QED
  BY <1>1, <1>2, <1>7, <1>8, <1>9, <1>10, WorkerRecord DEF At

-----------------------------------------------------------------------------
(* The steps that end records                                              *)

\* Some pending records end, the others look as before.
Ends ==
  \A i \in Ids :
    /\ records'[i].kind = records[i].kind /\ records'[i].executing = records[i].executing
    /\ \/ /\ records'[i].state = records[i].state /\ records'[i].cancel = records[i].cancel
          /\ records'[i].bound = records[i].bound /\ records'[i].told = records[i].told
       \/ /\ records[i].state \in Pending /\ records'[i].state \notin Pending
          /\ records'[i].cancel \in {records[i].cancel, "client"}

\* What clients see of a record, as a job: the values that the lifecycle is
\* said of.
Phase(r) ==
  IF r.kind = "call" \/ r.state = "free" THEN "new" ELSE IF r.state \in Pending THEN "pending" ELSE "ended"
Begun(r) == r.kind # "call" /\ r.executing
LeftBy(r) ==
  IF r.kind = "call" \/ r.state = "free" \/ r.state \in Pending THEN ""
  ELSE IF r.state = "succeeded" THEN "success" ELSE r.out

\* A job stays as it is seen, or it ends and reports what it left; one that
\* did not begin left nothing.
MayBecome(r, s) ==
  /\ Begun(s) <=> Begun(r)
  /\ \/ Phase(s) = Phase(r) /\ LeftBy(s) = LeftBy(r)
     \/ /\ Phase(r) = "pending" /\ Phase(s) = "ended" /\ LeftBy(s) # ""
        /\ ~Begun(r) => LeftBy(s) \in {"absent", "success"}

JobsOnlyEnd == \A i \in Ids : MayBecome(records[i], records'[i])

LEMMA SameSeen ==
  ASSUME NEW r, NEW s, s.kind = r.kind, s.state = r.state, s.executing = r.executing, s.out = r.out
  PROVE  MayBecome(r, s)
BY DEF MayBecome, Phase, Begun, LeftBy

LEMMA EndedSeen ==
  ASSUME NEW r, NEW s, r.kind \in Kinds, r.state \in Pending, s.kind = r.kind, s.executing = r.executing,
         \/ s.state = "succeeded"
         \/ s.state = "failed" /\ s.out \in Outputs /\ (~r.executing => s.out = "absent")
  PROVE  MayBecome(r, s)
<1>1. r.kind # "call" /\ r.state # "free"
  BY DEF Kinds, Pending
<1>2. Phase(r) = "pending" /\ Phase(s) = "ended" /\ (Begun(s) <=> Begun(r))
  BY <1>1 DEF Phase, Begun, Pending
<1>3. LeftBy(s) # "" /\ (~Begun(r) => LeftBy(s) \in {"absent", "success"})
  BY <1>1 DEF LeftBy, Begun, Pending, Outputs
<1> QED
  BY <1>2, <1>3 DEF MayBecome

LEMMA SomeEnd ==
  ASSUME ManagerIInv, BookOK(Book)', Ends, Notify, UNCHANGED <<stopping, shut>>,
         broken' => broken \/ Waiting' = {}
  PROVE  /\ Sleepers' /\ CancelIsDelivered' /\ Stopping' /\ Waiting' \subseteq Waiting
         /\ QueuedJobs' = Waiting' /\ QueuedJobs = Waiting
         /\ worker' = worker => OneRunningJob'
         /\ queue' = queue => QueueHoldsJobs'
<1>0. /\ BookOK(Book) /\ QueueHoldsJobs /\ OneRunningJob /\ Stopping /\ CancelIsDelivered /\ Sleepers
  BY InvariantParts
<1>1. Sleepers'
  BY <1>0 DEF Sleepers, Notify, IsPending
<1>2. CancelIsDelivered'
  BY <1>0 DEF CancelIsDelivered, Ends, Pending
<1>3. \A i \in Ids : records'[i].state = "running" =>
        /\ records[i].state = "running" /\ records'[i].kind = records[i].kind
        /\ records'[i].cancel = records[i].cancel
  BY DEF Ends, Pending
<1>4. \A i \in Ids : records'[i].state = "queued" => records[i].state = "queued"
  BY DEF Ends, Pending
<1>5. Stopping'
  <2>1. \A i \in Ids : records'[i].cancel = "shutdown" => stopping
    BY <1>0 DEF Stopping, Ends
  <2>2. stopping \/ broken' => \A i \in Ids : records'[i].state # "queued"
    BY <1>0, <1>4 DEF Stopping, Waiting
  <2>3. stopping => \A i \in Ids : records'[i].kind \in Kinds /\ records'[i].state = "running" => records'[i].cancel # None
    BY <1>0, <1>3 DEF Stopping, IsJob
  <2>4. shut \in {"join_script", "calls", "closed"} =>
          \A i \in Ids : records'[i].kind \in Kinds /\ records'[i].state = "running" => records'[i].kind = "script"
    BY <1>0, <1>3 DEF Stopping, IsJob
  <2>5. shut # "no" <=> stopping
    BY <1>0 DEF Stopping
  <2> QED
    BY <2>1, <2>2, <2>3, <2>4, <2>5 DEF Stopping, IsJob
<1>6. Waiting' \subseteq Waiting
  BY <1>4 DEF Waiting
<1>7. QueuedJobs' = Waiting' /\ QueuedJobs = Waiting
  BY <1>0, QueuedAreWaiting, WaitingNext
<1>8. worker' = worker => OneRunningJob'
  BY <1>0, <1>3 DEF OneRunningJob, IsJob
<1>9. queue' = queue => QueueHoldsJobs'
  BY <1>0, QueueKept DEF Ends
<1> QED
  BY <1>1, <1>2, <1>5, <1>6, <1>7, <1>8, <1>9

\* The record of a pending job or call changes, before its payload and its
\* claim are seen to.
WithRecord(b, j, r) == [b EXCEPT !.records = [b.records EXCEPT ![j] = r]]

OneChanged(b, j, r) ==
  /\ BookOK(b) /\ b.table = table /\ b.released = released
  /\ b.records[j] = r /\ (\A i \in Ids : i # j => b.records[i] = records[i])
  /\ j \in table /\ j \notin ToSet(released)

LEMMA ChangeOne ==
  ASSUME BookOK(Book), NEW j \in Ids, NEW r \in Record, records[j].state \in Pending,
         Shape(r), Later(records[j], r), r.size = records[j].size
  PROVE  OneChanged(WithRecord(Book, j, r), j, r)
<1>0. PICK b : b = WithRecord(Book, j, r)
  OBVIOUS
<1>1. Book \in Books /\ records \in [Ids -> Record] /\ (\A i \in Ids : Shape(records[i])) /\ j \in table
  BY BookFacts DEF IsPending
<1>2. j \notin ToSet(released)
  BY DEF BookOK, ReleasedOnce, Book, ToSet
<1>3. PICK a : a = Book
  OBVIOUS
<1>4. a \in Books /\ a.records = records /\ a.table = table /\ a.released = released /\ BookOK(a)
  BY <1>1, <1>3 DEF Book
<1>5. [records EXCEPT ![j] = r] \in [Ids -> Record]
  BY <1>1
<1>6. /\ b \in Books /\ b.records = [records EXCEPT ![j] = r] /\ b.table = a.table /\ b.requests = a.requests
      /\ b.reservations = a.reservations /\ b.released = a.released /\ b.kept = a.kept
  BY <1>0, <1>3, <1>4, <1>5 DEF Books, WithRecord
<1>7. b.records[j] = r /\ \A i \in Ids : i # j => b.records[i] = records[i]
  BY <1>1, <1>6
<1>8. ASSUME NEW i \in Ids
      PROVE  /\ Later(a.records[i], b.records[i]) /\ Shape(b.records[i])
             /\ b.records[i].size = a.records[i].size
  <2>1. CASE i = j
    BY <1>4, <1>7, <2>1
  <2>2. CASE i # j
    BY <1>1, <1>4, <1>7, <2>2 DEF Later
  <2> QED
    BY <2>1, <2>2
<1>9. BookOK(b)
  <2>1. \A i \in Ids : /\ Later(a.records[i], b.records[i]) /\ Shape(b.records[i])
                        /\ b.records[i].size = a.records[i].size
    BY <1>8
  <2>2. BookOK(a)
    BY <1>4
  <2>3. \A d : d \in Books /\ d.table = a.table /\ d.requests = a.requests
           /\ d.reservations = a.reservations /\ d.released = a.released /\ d.kept = a.kept
           /\ (\A i \in Ids : /\ Later(a.records[i], d.records[i]) /\ Shape(d.records[i])
                              /\ d.records[i].size = a.records[i].size)
           => BookOK(d)
    BY <2>2, RecordsChange
  <2> QED
    BY <1>6, <2>1, <2>3
<1>10. OneChanged(b, j, r)
  BY <1>1, <1>2, <1>4, <1>6, <1>7, <1>9 DEF OneChanged
<1> QED
  BY <1>0, <1>10

LEMMA ReleaseOne ==
  ASSUME NEW c, BookOK(c), NEW j \in Ids, j \in c.table, j \notin ToSet(c.released),
         c.records[j].state \notin Pending,
         ~(c.records[j].kind = "import" /\ c.records[j].state = "failed" /\ c.records[j].out # "absent")
  PROVE  /\ BookOK(Release(c, <<j>>)) /\ Release(c, <<j>>).table \subseteq c.table
         /\ \A i \in Ids : Alike(c.records[i], Release(c, <<j>>).records[i])
<1>1. <<j>> \in Seq(Ids) /\ Distinct(<<j>>) /\ ToSet(<<j>>) = {j}
  BY DEF Distinct, ToSet
<1>2. Releasable(c, <<j>>)
  BY <1>1 DEF Releasable
<1> QED
  BY <1>2, ReleaseProperties

\* The record of a job or a call that returned.
Returned(r, err, out) ==
  [r EXCEPT !.state = IF err = None THEN "succeeded" ELSE "failed", !.err = err, !.out = out]

LEMMA ReturnedProperties ==
  ASSUME NEW r \in Record, Shape(r), r.state \in Pending, r.kind # None,
         NEW err \in Errors, NEW out \in Outputs \union {None}, err = None <=> out = None,
         NEW s, s = Returned(r, err, out) \/ (r.kind \in Kinds /\ s = [Returned(r, err, out) EXCEPT !.bound = FALSE])
  PROVE  /\ s \in Record /\ Shape(s) /\ Later(r, s) /\ s.size = r.size
         /\ s.state \in {"failed", "succeeded"} /\ (s.state = "failed" => err # None)
         /\ s.kind = r.kind /\ s.executing = r.executing /\ s.cancel = r.cancel
         /\ s.err = err /\ s.out = out
<1>1. PICK state \in {"failed", "succeeded"} : state = (IF err = None THEN "succeeded" ELSE "failed")
  OBVIOUS
<1>2. state = "failed" => out # None
  BY <1>1
<1>3. PICK t : t = EndedRecord(r, state, err, out)
  OBVIOUS
<1>4. t = Returned(r, err, out)
  BY <1>1, <1>3 DEF EndedRecord, Returned
<1>5. /\ t \in Record /\ Shape(t) /\ Later(r, t)
      /\ t.state = state /\ t.err = err /\ t.out = out /\ t.size = r.size /\ t.kind = r.kind
      /\ t.cancel = r.cancel /\ t.executing = r.executing
  BY <1>2, <1>3, EndedRecordProperties
<1>6. CASE s = t
  BY <1>1, <1>5, <1>6
<1>7. CASE s = [t EXCEPT !.bound = FALSE]
  <2>1. /\ s \in Record /\ s.state = t.state /\ s.err = t.err /\ s.out = t.out /\ s.size = t.size
        /\ s.kind = t.kind /\ s.cancel = t.cancel /\ s.executing = t.executing /\ s.key = t.key
        /\ s.reqs = t.reqs /\ s.bound = FALSE
    BY <1>5, <1>7 DEF Record
  <2>2. Shape(s) /\ Later(r, s)
    BY <1>5, <2>1 DEF Shape, Later
  <2> QED
    BY <1>1, <1>5, <2>1, <2>2
<1> QED
  BY <1>4, <1>6, <1>7

LEMMA EndsOne ==
  ASSUME NEW j \in Ids, NEW s, records[j].state \in Pending, s.state \notin Pending,
         s.kind = records[j].kind, s.executing = records[j].executing,
         s.cancel \in {records[j].cancel, "client"}, Alike(s, records'[j]),
         \A i \in Ids : i # j => Alike(records[i], records'[i])
  PROVE  /\ Ends
         /\ \A i \in Ids : records'[i].state = "queued" <=> records[i].state = "queued" /\ i # j
         /\ \A i \in Ids : records'[i].state = "running" <=> records[i].state = "running" /\ i # j
<1>1. /\ records'[j].state \notin Pending /\ records'[j].kind = records[j].kind
      /\ records'[j].executing = records[j].executing /\ records'[j].cancel \in {records[j].cancel, "client"}
  BY DEF Alike
<1>2. ASSUME NEW i \in Ids, i # j
      PROVE  /\ records'[i].kind = records[i].kind /\ records'[i].executing = records[i].executing
             /\ records'[i].state = records[i].state /\ records'[i].cancel = records[i].cancel
             /\ records'[i].bound = records[i].bound /\ records'[i].told = records[i].told
  BY <1>2 DEF Alike
<1>3. Ends
  BY <1>1, <1>2 DEF Ends
<1> QED
  BY <1>1, <1>2, <1>3 DEF Pending

LEMMA FinishEndedStep ==
  ASSUME ManagerIInv, NEW size \in Sizes, Finish(size), records[worker.id].state \notin Pending
  PROVE  ManagerIInv' /\ JobsOnlyEnd
<1>0. WorkerKnows /\ OneRunningJob /\ NoStrandedJob
  BY InvariantParts
<1>1. /\ worker.pc = "shown" /\ worker' = [worker EXCEPT !.pc = "done"]
      /\ UNCHANGED <<tables, queue, queued, running, stopping, broken, shut, sleeping>>
  BY DEF Finish, At, GoTo
<1>2. QueuedJobs' = QueuedJobs /\ records' = records
  BY <1>1, SameTables
<1>3. worker' = [pc |-> "done", id |-> worker.id, err |-> worker.err, out |-> worker.out]
  BY <1>0, <1>1, WorkerTypes
<1>4. WorkerKnows'
  BY <1>0, <1>1, <1>2, <1>3, WorkerTypes DEF WorkerKnows, Pcs, IsJob
<1>5. OneRunningJob'
  BY <1>0, <1>1, <1>2, <1>3 DEF OneRunningJob, IsJob, Pending
<1>6. NoStrandedJob'
  BY <1>0, <1>1, <1>2, <1>3 DEF NoStrandedJob, Stopped
<1>7. JobsOnlyEnd
  BY <1>2, SameSeen DEF JobsOnlyEnd
<1> QED
  BY <1>1, <1>4, <1>5, <1>6, <1>7, WorkerAlone

\* The tables after a job's second section.
LEMMA FinishTables ==
  ASSUME ManagerIInv, NEW size \in Sizes, Finish(size), NEW j \in Ids, j = worker.id,
         records[j].state \in Pending, NEW s,
         s = [Returned(records[j], worker.err, worker.out) EXCEPT !.bound = FALSE],
         NEW c, c = KeepPayload(WithRecord(Book, j, s), j, size)
  PROVE  SetTables(IF FreesClaim(records[j].kind, worker.out) THEN Release(c, <<j>>) ELSE c)
<1>1. records \in [Ids -> Record] /\ Book \in Books
  BY InvariantParts, BookFacts
<1> DEFINE e == [Book EXCEPT !.records[j].state = IF worker.err = None THEN "succeeded" ELSE "failed",
                             !.records[j].err = worker.err,
                             !.records[j].out = worker.out,
                             !.records[j].bound = FALSE]
<1>2. Book.records = records
  BY DEF Book
<1>3. e.records = [records EXCEPT ![j] = s]
  BY <1>1, <1>2 DEF Returned, Books
<1>4. e = [Book EXCEPT !.records = e.records]
  BY <1>1, ZenonT(60) DEF Books
<1>5. e = WithRecord(Book, j, s)
  BY <1>2, <1>3, <1>4 DEF WithRecord
<1> QED
  BY <1>5 DEF Finish

LEMMA FinishPendingStep ==
  ASSUME ManagerIInv, NEW size \in Sizes, Finish(size), records[worker.id].state \in Pending
  PROVE  ManagerIInv' /\ JobsOnlyEnd
<1>0. /\ BookOK(Book) /\ QueueHoldsJobs /\ WorkerKnows /\ OneRunningJob /\ RunningCalls /\ Stopping
      /\ QueueIsCounted /\ NoStrandedJob
  BY InvariantParts
<1>1. PICK j \in Ids : j = worker.id
  BY <1>0 DEF WorkerKnows, Finish, At
<1>2. /\ worker.pc = "shown" /\ worker' = [worker EXCEPT !.pc = "done"]
      /\ UNCHANGED <<queue, queued, running, stopping, broken, shut>> /\ Notify
  BY <1>1 DEF Finish, At, GoTo
<1>3. /\ records[j] \in Record /\ Shape(records[j]) /\ records \in [Ids -> Record] /\ Book \in Books
      /\ records[j].state \in Pending /\ IsJob(j) /\ records[j].state # "queued"
      /\ worker.err \in Errors /\ worker.out \in Outputs \union {None} /\ (worker.err = None <=> worker.out = None)
  BY <1>0, <1>1, <1>2, BookFacts, WorkerTypes DEF WorkerKnows
<1>4. PICK s : s = [Returned(records[j], worker.err, worker.out) EXCEPT !.bound = FALSE]
  OBVIOUS
<1>5. /\ s \in Record /\ Shape(s) /\ Later(records[j], s) /\ s.size = records[j].size
      /\ s.state \in {"failed", "succeeded"} /\ (s.state = "failed" => worker.err # None)
      /\ s.kind = records[j].kind /\ s.executing = records[j].executing /\ s.cancel = records[j].cancel
      /\ s.out = worker.out
  <2>1. PICK r : r = records[j]
    OBVIOUS
  <2>2. PICK err, out : err = worker.err /\ out = worker.out
    OBVIOUS
  <2>3. r \in Record /\ Shape(r) /\ r.state \in Pending /\ r.kind \in Kinds /\ r.kind # None
    BY <1>3, <2>1, NoneAssumption DEF IsJob
  <2>4. s = [Returned(r, err, out) EXCEPT !.bound = FALSE]
    BY <1>4, <2>1, <2>2
  <2>5. err \in Errors /\ out \in Outputs \union {None} /\ (err = None <=> out = None)
    BY <1>3, <2>2
  <2> QED
    BY <2>1, <2>2, <2>3, <2>4, <2>5, ReturnedProperties
<1>6. PICK b : b = WithRecord(Book, j, s)
  OBVIOUS
<1>7. /\ BookOK(b) /\ b.table = table /\ b.released = released
      /\ b.records[j] = s /\ (\A i \in Ids : i # j => b.records[i] = records[i])
      /\ j \in table /\ j \notin ToSet(released)
  <2>1. /\ records[j].state \in Pending /\ s \in Record /\ s.state \in {"failed", "succeeded"} /\ Shape(s)
        /\ Later(records[j], s) /\ s.size = records[j].size
    BY <1>3, <1>5
  <2> QED
    BY <1>0, <1>6, <2>1, ChangeOne DEF OneChanged
<1>8. PICK c : c = KeepPayload(b, j, size)
  OBVIOUS
<1>9. BookOK(c) /\ SameButPayloads(b, c)
  <2>1. b.records[j].size = 0 /\ b.records[j].state \notin Pending \union {"free"}
    BY <1>3, <1>5, <1>7 DEF Shape, Pending
  <2>2. size \in Nat
    BY LimitsAssumption
  <2> QED
    BY <1>7, <1>8, <2>1, <2>2, KeepPayloadProperties
<1>10. PICK d : d = IF FreesClaim(records[j].kind, worker.out) THEN Release(c, <<j>>) ELSE c
  OBVIOUS
<1>11. SetTables(d)
  BY <1>1, <1>3, <1>4, <1>6, <1>8, <1>10, FinishTables
<1>12. BookOK(d) /\ \A i \in Ids : Alike(b.records[i], d.records[i])
  <2>1. \A i \in Ids : Alike(b.records[i], c.records[i])
    BY <1>9 DEF SameButPayloads
  <2>2. CASE FreesClaim(records[j].kind, worker.out)
    <3>1. c.records[j].state = s.state /\ c.records[j].kind = s.kind /\ c.records[j].out = worker.out
      BY <1>5, <1>7, <2>1 DEF Alike
    <3>2. j \in c.table /\ j \notin ToSet(c.released)
      BY <1>7, <1>9 DEF SameButPayloads
    <3>3. c.records[j].state \notin Pending
      BY <1>5, <3>1 DEF Pending
    <3>4. ~(c.records[j].kind = "import" /\ c.records[j].state = "failed" /\ c.records[j].out # "absent")
      BY <1>3, <1>5, <2>2, <3>1 DEF FreesClaim
    <3>5. BookOK(d) /\ \A i \in Ids : Alike(c.records[i], d.records[i])
      BY <1>9, <1>10, <2>2, <3>2, <3>3, <3>4, ReleaseOne
    <3> QED
      BY <2>1, <3>5 DEF Alike
  <2>3. CASE ~FreesClaim(records[j].kind, worker.out)
    BY <1>9, <1>10, <2>1, <2>3
  <2> QED
    BY <2>2, <2>3
<1>13. BookOK(Book)' /\ records' = d.records
  BY <1>11, <1>12, BookStep DEF SetTables
<1>14. /\ Ends
       /\ \A i \in Ids : records'[i].state = "queued" <=> records[i].state = "queued" /\ i # j
       /\ \A i \in Ids : records'[i].state = "running" <=> records[i].state = "running" /\ i # j
  <2>1. Alike(s, records'[j]) /\ \A i \in Ids : i # j => Alike(records[i], records'[i])
    BY <1>7, <1>12, <1>13
  <2>2. s.state \notin Pending
    BY <1>5 DEF Pending
  <2> QED
    BY <1>3, <1>5, <2>1, <2>2, EndsOne
<1>15. /\ Sleepers' /\ CancelIsDelivered' /\ Stopping' /\ QueueHoldsJobs'
  BY <1>2, <1>13, <1>14, SomeEnd
<1>16. QueueIsCounted' /\ QueuedJobs' = QueuedJobs
  BY <1>0, <1>2, <1>3, <1>13, <1>14, CountKept
<1>17. worker' = [pc |-> "done", id |-> j, err |-> worker.err, out |-> worker.out]
  BY <1>0, <1>1, <1>2, WorkerTypes
<1>18. WorkerKnows'
  <2>1. j # None /\ records'[j].kind \in Kinds /\ records'[j].state # "queued"
    BY <1>3, <1>14, NoneAssumption DEF Ends, IsJob
  <2> QED
    BY <1>3, <1>17, <2>1 DEF WorkerKnows, Pcs, IsJob
<1>19. OneRunningJob'
  BY <1>0, <1>1, <1>14 DEF OneRunningJob, IsJob, Ends
<1>20. RunningCalls'
  <2>1. records[j].kind # "call"
    BY <1>3 DEF IsJob, Kinds
  <2> QED
    BY <1>0, <1>2, <1>14, <2>1 DEF RunningCalls, IsCall, Ends
<1>21. NoStrandedJob'
  BY <1>0, <1>2, <1>16, <1>17 DEF NoStrandedJob, Stopped
<1>22. JobsOnlyEnd
  <2>1. Alike(s, records'[j]) /\ \A i \in Ids : i # j => Alike(records[i], records'[i])
    BY <1>7, <1>12, <1>13
  <2>2. records'[j].kind = s.kind /\ records'[j].state = s.state /\ records'[j].executing = s.executing
        /\ records'[j].out = worker.out
    BY <1>5, <2>1 DEF Alike
  <2>3. ~records[j].executing => worker.out \in {None, "absent"}
    BY <1>0, <1>1, <1>2 DEF WorkerKnows
  <2>4. s.state = "failed" => worker.out \in Outputs /\ (~records[j].executing => worker.out = "absent")
    BY <1>3, <1>5, <2>3
  <2>5. MayBecome(records[j], records'[j])
    <3>1. PICK r, t : r = records[j] /\ t = records'[j]
      OBVIOUS
    <3> QED
      BY <1>3, <1>5, <2>2, <2>4, <3>1, EndedSeen DEF IsJob
  <2>6. \A i \in Ids : i # j => MayBecome(records[i], records'[i])
    BY <2>1, SameSeen DEF Alike
  <2> QED
    BY <2>5, <2>6 DEF JobsOnlyEnd
<1> QED
  BY <1>13, <1>15, <1>16, <1>18, <1>19, <1>20, <1>21, <1>22 DEF ManagerIInv, Machine

LEMMA FinishStep ==
  ASSUME ManagerIInv, NEW size \in Sizes, Finish(size)
  PROVE  ManagerIInv' /\ JobsOnlyEnd
BY FinishEndedStep, FinishPendingStep

\* What the worker knows stays true of records that others change.
LEMMA WorkerKept ==
  ASSUME WorkerKnows, worker' = worker, stopping => stopping', broken => broken',
         \A i \in Ids : IsJob(i) =>
           /\ records'[i].kind \in Kinds /\ records'[i].executing = records[i].executing
           /\ records'[i].state = "queued" => records[i].state = "queued"
           /\ records[i].cancel = "client" => records'[i].cancel = "client"
           /\ IsPending(i) /\ records'[i].state \notin Pending => records'[i].cancel = "client" \/ stopping'
  PROVE  WorkerKnows'
<1>1. worker \in [pc : Pcs, id : Ids \union {None}, err : Errors, out : Outputs \union {None}]
  BY DEF WorkerKnows
<1>2. CASE worker.pc \in {"got", "run", "back", "shown", "done", "crashed"}
  <2>1. worker.id \in Ids /\ worker.id # None /\ IsJob(worker.id)
    BY <1>1, <1>2 DEF WorkerKnows
  <2>2. /\ records'[worker.id].kind \in Kinds /\ records'[worker.id].executing = records[worker.id].executing
        /\ records'[worker.id].state = "queued" => records[worker.id].state = "queued"
        /\ records[worker.id].cancel = "client" => records'[worker.id].cancel = "client"
        /\ IsPending(worker.id) /\ records'[worker.id].state \notin Pending => records'[worker.id].cancel = "client" \/ stopping'
    BY <2>1
  <2>3. worker.pc = "run" /\ records'[worker.id].state \notin Pending => records'[worker.id].cancel = "client" \/ stopping'
    BY <2>2 DEF WorkerKnows
  <2>4. worker.pc \in {"run", "back", "shown", "done", "crashed"} => records'[worker.id].state # "queued"
    BY <2>2 DEF WorkerKnows
  <2>5. worker.pc \in {"back", "shown"} =>
          /\ worker.err = None <=> worker.out = None
          /\ ~records'[worker.id].executing => worker.out \in {None, "absent"}
    BY <2>2 DEF WorkerKnows
  <2> QED
    BY <1>1, <1>2, <2>1, <2>2, <2>3, <2>4, <2>5 DEF WorkerKnows, IsJob, IsPending
<1>3. CASE worker.pc \notin {"got", "run", "back", "shown", "done", "crashed"}
  BY <1>1, <1>3 DEF WorkerKnows
<1> QED
  BY <1>2, <1>3

\* The tables after a call.
LEMMA FinishCallTables ==
  ASSUME ManagerIInv, NEW j \in Ids, NEW err, NEW out, NEW size \in Sizes, FinishCall(j, err, out, size),
         NEW s, s = Returned(records[j], err, out)
  PROVE  SetTables(Release(KeepPayload(WithRecord(Book, j, s), j, size), <<j>>))
<1>1. records \in [Ids -> Record] /\ Book \in Books
  BY InvariantParts, BookFacts
<1> DEFINE e == [Book EXCEPT !.records[j].state = IF err = None THEN "succeeded" ELSE "failed",
                             !.records[j].err = err,
                             !.records[j].out = out]
<1>2. Book.records = records
  BY DEF Book
<1>3. e.records = [records EXCEPT ![j] = s]
  BY <1>1, <1>2 DEF Returned, Books
<1>4. e = [Book EXCEPT !.records = e.records]
  BY <1>1 DEF Books
<1>5. e = WithRecord(Book, j, s)
  BY <1>2, <1>3, <1>4 DEF WithRecord
<1> QED
  BY <1>5 DEF FinishCall

LEMMA FinishCallStep ==
  ASSUME ManagerIInv, NEW j \in Ids, NEW o \in CallOutcomes, NEW size \in Sizes,
         FinishCall(j, o[1], o[2], size)
  PROVE  ManagerIInv' /\ JobsOnlyEnd
<1>0. /\ BookOK(Book) /\ WorkerKnows /\ OneRunningJob /\ RunningCalls
      /\ QueueIsCounted /\ NoStrandedJob
  BY InvariantParts
<1>1. PICK err, out : err = o[1] /\ out = o[2]
  OBVIOUS
<1>2. /\ j \in running /\ (err = None <=> out = None) /\ running' = running \ {j} /\ Notify
      /\ UNCHANGED <<queue, queued, worker, stopping, broken, shut>>
  BY <1>1 DEF FinishCall
<1>3. /\ records[j] \in Record /\ Shape(records[j]) /\ records \in [Ids -> Record] /\ Book \in Books
      /\ records[j].kind = "call" /\ records[j].state = "running"
  BY <1>0, <1>2, BookFacts DEF RunningCalls, IsCall
<1>4. err \in Errors /\ out \in Outputs \union {None} /\ "call" # None
  BY <1>1, NoneAssumption DEF CallOutcomes, Outcomes, Errors, Outputs
<1>5. PICK s : s = Returned(records[j], err, out)
  OBVIOUS
<1>6. /\ s \in Record /\ Shape(s) /\ Later(records[j], s) /\ s.size = records[j].size
      /\ s.state \in {"failed", "succeeded"}
      /\ s.kind = records[j].kind /\ s.executing = records[j].executing /\ s.cancel = records[j].cancel
  <2>1. PICK r : r = records[j]
    OBVIOUS
  <2>2. r \in Record /\ Shape(r) /\ r.state \in Pending /\ r.kind # None
    BY <1>3, <1>4, <2>1 DEF Pending
  <2> QED
    BY <1>2, <1>4, <1>5, <2>1, <2>2, ReturnedProperties
<1>7. PICK b : b = WithRecord(Book, j, s)
  OBVIOUS
<1>8. /\ BookOK(b) /\ b.table = table /\ b.released = released
      /\ b.records[j] = s /\ (\A i \in Ids : i # j => b.records[i] = records[i])
      /\ j \in table /\ j \notin ToSet(released)
  <2>1. /\ records[j].state \in Pending /\ s \in Record /\ s.state \in {"failed", "succeeded"} /\ Shape(s)
        /\ Later(records[j], s) /\ s.size = records[j].size
    BY <1>3, <1>6 DEF Pending
  <2> QED
    BY <1>0, <1>7, <2>1, ChangeOne DEF OneChanged
<1>9. PICK c : c = KeepPayload(b, j, size)
  OBVIOUS
<1>10. BookOK(c) /\ SameButPayloads(b, c)
  <2>1. b.records[j].size = 0 /\ b.records[j].state \notin Pending \union {"free"}
    BY <1>3, <1>6, <1>8 DEF Shape, Pending
  <2>2. size \in Nat
    BY LimitsAssumption
  <2> QED
    BY <1>8, <1>9, <2>1, <2>2, KeepPayloadProperties
<1>11. PICK d : d = Release(c, <<j>>)
  OBVIOUS
<1>12. SetTables(d)
  BY <1>1, <1>5, <1>7, <1>9, <1>11, FinishCallTables
<1>13. BookOK(d) /\ \A i \in Ids : Alike(b.records[i], d.records[i])
  <2>1. \A i \in Ids : Alike(b.records[i], c.records[i])
    BY <1>10 DEF SameButPayloads
  <2>2. c.records[j].state = s.state /\ c.records[j].kind = "call"
    BY <1>3, <1>6, <1>8, <2>1 DEF Alike
  <2>3. j \in c.table /\ j \notin ToSet(c.released)
    BY <1>8, <1>10 DEF SameButPayloads
  <2>4. c.records[j].state \notin Pending
    BY <1>6, <2>2 DEF Pending
  <2>5. BookOK(d) /\ \A i \in Ids : Alike(c.records[i], d.records[i])
    BY <1>10, <1>11, <2>2, <2>3, <2>4, ReleaseOne
  <2> QED
    BY <2>1, <2>5 DEF Alike
<1>14. BookOK(Book)' /\ records' = d.records
  BY <1>12, <1>13, BookStep DEF SetTables
<1>15. /\ Ends
       /\ \A i \in Ids : records'[i].state = "queued" <=> records[i].state = "queued" /\ i # j
       /\ \A i \in Ids : records'[i].state = "running" <=> records[i].state = "running" /\ i # j
       /\ \A i \in Ids : i # j => Alike(records[i], records'[i])
  <2>1. Alike(s, records'[j]) /\ \A i \in Ids : i # j => Alike(records[i], records'[i])
    BY <1>8, <1>13, <1>14
  <2>2. s.state \notin Pending /\ records[j].state \in Pending
    BY <1>3, <1>6 DEF Pending
  <2>3. s.cancel \in {records[j].cancel, "client"}
    BY <1>6
  <2> QED
    BY <1>6, <2>1, <2>2, <2>3, EndsOne
<1>16. /\ Sleepers' /\ CancelIsDelivered' /\ Stopping' /\ QueueHoldsJobs' /\ OneRunningJob'
  BY <1>2, <1>14, <1>15, SomeEnd
<1>17. QueueIsCounted' /\ QueuedJobs' = QueuedJobs
  BY <1>0, <1>2, <1>3, <1>14, <1>15, CountKept
<1>18. WorkerKnows'
  <2>1. \A i \in Ids : IsJob(i) => i # j
    BY <1>3 DEF IsJob, Kinds
  <2>2. \A i \in Ids : IsJob(i) =>
           /\ records'[i].kind \in Kinds /\ records'[i].executing = records[i].executing
           /\ records'[i].state = records[i].state /\ records'[i].cancel = records[i].cancel
    BY <1>15, <2>1 DEF Alike, IsJob
  <2> QED
    BY <1>0, <1>2, <2>2, WorkerKept DEF IsPending
<1>19. RunningCalls'
  BY <1>0, <1>2, <1>15 DEF RunningCalls, IsCall, Ends
<1>20. NoStrandedJob'
  BY <1>0, <1>2, <1>17 DEF NoStrandedJob, Stopped
<1>21. JobsOnlyEnd
  <2>1. \A i \in Ids : i # j => MayBecome(records[i], records'[i])
    BY <1>15, SameSeen DEF Alike
  <2>2. records'[j].kind = "call"
    BY <1>3, <1>15 DEF Ends
  <2>3. MayBecome(records[j], records'[j])
    BY <1>3, <2>2 DEF MayBecome, Phase, Begun, LeftBy
  <2> QED
    BY <2>1, <2>3 DEF JobsOnlyEnd
<1> QED
  BY <1>14, <1>16, <1>17, <1>18, <1>19, <1>20, <1>21 DEF ManagerIInv, Machine

\* What cancel asks of a pending job.
Asked(r) ==
  [r EXCEPT !.cancel = IF @ = None THEN "client" ELSE @, !.told = @ \/ r.bound]

LEMMA AskedProperties ==
  ASSUME NEW r \in Record, Shape(r), r.state \in Pending, r.kind \in Kinds
  PROVE  LET s == Asked(r) IN
         /\ s \in Record /\ Shape(s) /\ Later(r, s) /\ s.state = r.state /\ s.kind = r.kind
         /\ s.executing = r.executing /\ s.cancel = (IF r.cancel = None THEN "client" ELSE r.cancel)
         /\ s.bound = r.bound /\ s.told = (r.told \/ r.bound) /\ s.size = r.size
<1> DEFINE s == Asked(r)
<1>1. PICK t \in BOOLEAN : t = (r.told \/ r.bound)
  OBVIOUS
<1>2. PICK c : c = IF r.cancel = None THEN "client" ELSE r.cancel
  OBVIOUS
<1>3. c \in {"client", "shutdown"} /\ c # None
  BY <1>2, NoneAssumption, RecordTypes
<1>4. s = [r EXCEPT !.cancel = c, !.told = t]
  BY <1>1, <1>2 DEF Asked, Record
<1> HIDE DEF s
<1>5. /\ s \in Record /\ s.cancel = c /\ s.told = t /\ s.state = r.state /\ s.kind = r.kind /\ s.key = r.key
      /\ s.executing = r.executing /\ s.bound = r.bound /\ s.err = r.err /\ s.out = r.out
      /\ s.reqs = r.reqs /\ s.size = r.size
  BY <1>3, <1>4 DEF Record
<1>6. Shape(s)
  BY <1>5 DEF Shape, Pending, Kinds
<1>7. Later(r, s)
  BY <1>3, <1>5 DEF Later
<1> QED
  BY <1>1, <1>2, <1>5, <1>6, <1>7 DEF s

LEMMA CancelFacts ==
  ASSUME ManagerIInv, NEW j \in Ids, Cancel(j)
  PROVE  /\ records[j] \in Record /\ Shape(records[j]) /\ records \in [Ids -> Record] /\ Book \in Books
         /\ records[j].state \in Pending /\ IsJob(j)
         /\ SetTables(IF records[j].executing THEN WithRecord(Book, j, Asked(records[j]))
                      ELSE Fail(WithRecord(Book, j, Asked(records[j])), <<j>>, "cancelled"))
         /\ queued' = IF records[j].state = "queued" THEN queued - 1 ELSE queued
         /\ IF records[j].executing THEN UNCHANGED sleeping ELSE Notify
         /\ UNCHANGED <<queue, running, worker, stopping, broken, shut>>
<1>1. BookOK(Book)
  BY InvariantParts
<1>2. records[j] \in Record /\ Shape(records[j]) /\ records \in [Ids -> Record] /\ Book \in Books
  BY <1>1, BookFacts
<1>3. records[j].state \in Pending /\ records[j].kind # "call"
  BY DEF Cancel, IsPending, IsCall
<1>4. IsJob(j)
  BY <1>2, <1>3 DEF IsJob, Shape, Record, Pending
<1>5. /\ queued' = IF records[j].state = "queued" THEN queued - 1 ELSE queued
      /\ IF records[j].executing THEN UNCHANGED sleeping ELSE Notify
      /\ UNCHANGED <<queue, running, worker, stopping, broken, shut>>
  BY DEF Cancel, QueuedAfter
<1>6. SetTables(IF records[j].executing THEN WithRecord(Book, j, Asked(records[j]))
                ELSE Fail(WithRecord(Book, j, Asked(records[j])), <<j>>, "cancelled"))
  <2> DEFINE e == [Book EXCEPT !.records[j].cancel = IF @ = None THEN "client" ELSE @,
                               !.records[j].told = @ \/ records[j].bound]
  <2>1. Book.records = records
    BY DEF Book
  <2>2. e.records = [records EXCEPT ![j] = Asked(records[j])]
    BY <1>2, <2>1 DEF Asked, Books
  <2>3. e = [Book EXCEPT !.records = e.records]
    BY <1>2 DEF Books
  <2>4. e = WithRecord(Book, j, Asked(records[j]))
    BY <2>1, <2>2, <2>3 DEF WithRecord
  <2>5. SetTables(IF records[j].executing THEN e ELSE Fail(e, <<j>>, "cancelled"))
    BY DEF Cancel
  <2> HIDE DEF e
  <2> QED
    BY <2>4, <2>5
<1> QED
  BY <1>2, <1>3, <1>4, <1>5, <1>6

\* A job that began to change its program is told.
LEMMA CancelBegunStep ==
  ASSUME ManagerIInv, NEW j \in Ids, Cancel(j), records[j].executing
  PROVE  ManagerIInv' /\ JobsOnlyEnd
<1>0. /\ BookOK(Book) /\ QueueHoldsJobs /\ WorkerKnows /\ OneRunningJob /\ RunningCalls /\ Stopping
      /\ QueueIsCounted /\ NoStrandedJob /\ CancelIsDelivered /\ Sleepers
  BY InvariantParts
<1>1. /\ records[j] \in Record /\ Shape(records[j]) /\ records \in [Ids -> Record]
      /\ records[j].state \in Pending /\ IsJob(j)
      /\ SetTables(WithRecord(Book, j, Asked(records[j])))
      /\ queued' = IF records[j].state = "queued" THEN queued - 1 ELSE queued
      /\ UNCHANGED <<queue, running, worker, stopping, broken, shut, sleeping>>
  BY CancelFacts
<1>2. PICK s : s = Asked(records[j])
  OBVIOUS
<1>3. /\ s \in Record /\ Shape(s) /\ Later(records[j], s) /\ s.state = records[j].state /\ s.kind = records[j].kind
      /\ s.executing = records[j].executing /\ s.cancel = (IF records[j].cancel = None THEN "client" ELSE records[j].cancel)
      /\ s.bound = records[j].bound /\ s.told = (records[j].told \/ records[j].bound) /\ s.size = records[j].size
  <2>1. PICK r : r = records[j]
    OBVIOUS
  <2> QED
    BY <1>1, <1>2, <2>1, AskedProperties DEF IsJob
<1>4. PICK d : d = WithRecord(Book, j, s)
  OBVIOUS
<1>5. BookOK(d) /\ d.records[j] = s /\ \A i \in Ids : i # j => d.records[i] = records[i]
  BY <1>0, <1>1, <1>3, <1>4, ChangeOne DEF OneChanged
<1>6. BookOK(Book)' /\ records' = d.records
  <2>1. SetTables(d)
    BY <1>1, <1>2, <1>4
  <2> QED
    BY <1>5, <2>1, BookStep DEF SetTables
<1>7. records[j].state = "running" /\ queued' = queued
  BY <1>1 DEF Shape, Pending
<1>8. /\ records'[j] = s /\ \A i \in Ids : i # j => records'[i] = records[i]
  BY <1>5, <1>6
<1>9. \A i \in Ids : /\ records'[i].kind = records[i].kind /\ records'[i].state = records[i].state
                     /\ records'[i].executing = records[i].executing /\ records'[i].bound = records[i].bound
                     /\ records[i].cancel # None => records'[i].cancel = records[i].cancel
                     /\ records'[i].cancel = "shutdown" => records[i].cancel = "shutdown"
  BY <1>3, <1>8
<1>10. QueueHoldsJobs'
  BY <1>0, <1>1, <1>9, QueueKept
<1>11. QueueIsCounted' /\ QueuedJobs' = QueuedJobs
  BY <1>0, <1>6, <1>7, <1>9, CountKept
<1>12. WorkerKnows'
  <2>1. "client" # None
    BY NoneAssumption
  <2> QED
    BY <1>0, <1>1, <1>9, <2>1, WorkerKept DEF IsJob, IsPending
<1>13. OneRunningJob' /\ RunningCalls'
  BY <1>0, <1>1, <1>9 DEF OneRunningJob, RunningCalls, IsJob, IsCall
<1>14. Stopping'
  BY <1>0, <1>1, <1>9 DEF Stopping, IsJob
<1>15. NoStrandedJob'
  BY <1>0, <1>1, <1>11 DEF NoStrandedJob, Stopped
<1>16. CancelIsDelivered'
  BY <1>0, <1>3, <1>8 DEF CancelIsDelivered
<1>17. Sleepers'
  BY <1>0, <1>1, <1>9 DEF Sleepers, IsPending
<1>18. JobsOnlyEnd
  <2>1. s.out = records[j].out
    BY <1>1, <1>2 DEF Asked, Record
  <2>2. \A i \in Ids : records'[i].out = records[i].out
    BY <1>8, <2>1
  <2> QED
    BY <1>9, <2>2, SameSeen DEF JobsOnlyEnd
<1> QED
  BY <1>6, <1>10, <1>11, <1>12, <1>13, <1>14, <1>15, <1>16, <1>17, <1>18 DEF ManagerIInv, Machine

\* A job that has not begun ends at once.
LEMMA CancelEarlyStep ==
  ASSUME ManagerIInv, NEW j \in Ids, Cancel(j), ~records[j].executing
  PROVE  ManagerIInv' /\ JobsOnlyEnd
<1>0. /\ BookOK(Book) /\ WorkerKnows /\ OneRunningJob /\ RunningCalls /\ Stopping
      /\ QueueIsCounted /\ NoStrandedJob
  BY InvariantParts
<1>1. /\ records[j] \in Record /\ Shape(records[j]) /\ records \in [Ids -> Record]
      /\ records[j].state \in Pending /\ IsJob(j)
      /\ SetTables(Fail(WithRecord(Book, j, Asked(records[j])), <<j>>, "cancelled"))
      /\ queued' = IF records[j].state = "queued" THEN queued - 1 ELSE queued
      /\ Notify /\ UNCHANGED <<queue, running, worker, stopping, broken, shut>>
  BY CancelFacts
<1>2. PICK s : s = Asked(records[j])
  OBVIOUS
<1>3. /\ s \in Record /\ Shape(s) /\ Later(records[j], s) /\ s.state = records[j].state /\ s.kind = records[j].kind
      /\ s.executing = records[j].executing /\ s.cancel = (IF records[j].cancel = None THEN "client" ELSE records[j].cancel)
      /\ s.bound = records[j].bound /\ s.told = (records[j].told \/ records[j].bound) /\ s.size = records[j].size
  <2>1. PICK r : r = records[j]
    OBVIOUS
  <2> QED
    BY <1>1, <1>2, <2>1, AskedProperties DEF IsJob
<1>4. PICK b : b = WithRecord(Book, j, s)
  OBVIOUS
<1>5. BookOK(b) /\ b.records[j] = s /\ \A i \in Ids : i # j => b.records[i] = records[i]
  BY <1>0, <1>1, <1>3, <1>4, ChangeOne DEF OneChanged
<1>6. PICK d : d = Fail(b, <<j>>, "cancelled")
  OBVIOUS
<1>7. PICK t : t = EndedRecord(s, "failed", "cancelled", "absent")
  OBVIOUS
<1>8. /\ t.state = "failed" /\ t.out = "absent" /\ t.kind = records[j].kind /\ t.executing = records[j].executing /\ t.cancel = s.cancel
  <2>1. "absent" \in Outputs \union {None} /\ "cancelled" \in Errors /\ "absent" # None
    BY NoneAssumption DEF Outputs, Errors
  <2> QED
    BY <1>1, <1>3, <1>7, <2>1, EndedRecordProperties
<1>9. BookOK(d) /\ Alike(t, d.records[j]) /\ \A i \in Ids : i # j => Alike(records[i], d.records[i])
  <2>1. <<j>> \in Seq(Ids) /\ Distinct(<<j>>) /\ ToSet(<<j>>) = {j} /\ "cancelled" \in Errors
    BY DEF Distinct, ToSet, Errors
  <2>2. \A i \in ToSet(<<j>>) : b.records[i].state \in Pending
    BY <1>1, <1>3, <1>5, <2>1
  <2>3. /\ BookOK(d)
        /\ \A i \in Ids : Alike(IF i \in ToSet(<<j>>) THEN EndedRecord(b.records[i], "failed", "cancelled", "absent")
                                ELSE b.records[i], d.records[i])
    BY <1>5, <1>6, <2>1, <2>2, FailProperties
  <2> QED
    BY <1>5, <1>7, <2>1, <2>3
<1>10. BookOK(Book)' /\ records' = d.records
  <2>1. SetTables(d)
    BY <1>1, <1>2, <1>4, <1>6
  <2> QED
    BY <1>9, <2>1, BookStep DEF SetTables
<1>11. /\ Ends
       /\ \A i \in Ids : records'[i].state = "queued" <=> records[i].state = "queued" /\ i # j
       /\ \A i \in Ids : records'[i].state = "running" <=> records[i].state = "running" /\ i # j
  <2>1. Alike(t, records'[j]) /\ \A i \in Ids : i # j => Alike(records[i], records'[i])
    BY <1>9, <1>10
  <2>2. t.state \notin Pending /\ t.cancel \in {records[j].cancel, "client"}
    BY <1>3, <1>8 DEF Pending
  <2> QED
    BY <1>1, <1>8, <2>1, <2>2, EndsOne
<1>12. /\ Sleepers' /\ CancelIsDelivered' /\ Stopping' /\ QueueHoldsJobs' /\ OneRunningJob'
       /\ Waiting' \subseteq Waiting /\ QueuedJobs' = Waiting' /\ QueuedJobs = Waiting
  BY <1>1, <1>10, <1>11, SomeEnd
<1>13. QueueIsCounted'
  <2>1. IsFiniteSet(Waiting) /\ Cardinality(Waiting) \in Nat /\ QueueLimit \in Nat
    BY <1>0, QueuedAreWaiting, LimitsAssumption
  <2>2. queued = Cardinality(Waiting) /\ queued <= QueueLimit
    BY <1>0, <1>12 DEF QueueIsCounted
  <2>3. CASE records[j].state = "queued"
    <3>1. Waiting' = Waiting \ {j} /\ j \in Waiting
      BY <1>11, <2>3 DEF Waiting
    <3>2. Cardinality(Waiting') = Cardinality(Waiting) - 1
      BY <2>1, <3>1, FS_RemoveElement
    <3> QED
      BY <1>1, <1>12, <2>1, <2>2, <2>3, <3>2 DEF QueueIsCounted
  <2>4. CASE records[j].state # "queued"
    <3>1. Waiting' = Waiting
      BY <1>11, <2>4 DEF Waiting
    <3> QED
      BY <1>1, <1>12, <2>2, <2>4, <3>1 DEF QueueIsCounted
  <2> QED
    BY <2>3, <2>4
<1>14. WorkerKnows'
  <2>1. records'[j].cancel = s.cancel /\ records'[j].kind = records[j].kind /\ records'[j].executing = records[j].executing
        /\ records'[j].state = "failed"
    BY <1>8, <1>9, <1>10 DEF Alike
  <2>2. records'[j].cancel = "client" \/ stopping
    BY <1>0, <1>1, <1>3, <2>1 DEF Stopping, Record
  <2>3. records[j].cancel = "client" => records'[j].cancel = "client"
    BY <1>3, <2>1
  <2>4. \A i \in Ids : i # j => /\ records'[i].kind = records[i].kind /\ records'[i].executing = records[i].executing
                                /\ records'[i].state = records[i].state /\ records'[i].cancel = records[i].cancel
    BY <1>9, <1>10 DEF Alike
  <2>5. ASSUME NEW i \in Ids, IsJob(i)
        PROVE  /\ records'[i].kind \in Kinds /\ records'[i].executing = records[i].executing
               /\ records'[i].state = "queued" => records[i].state = "queued"
               /\ records[i].cancel = "client" => records'[i].cancel = "client"
               /\ IsPending(i) /\ records'[i].state \notin Pending => records'[i].cancel = "client" \/ stopping'
    <3>1. CASE i = j
      BY <1>1, <2>1, <2>2, <2>3, <3>1 DEF IsJob
    <3>2. CASE i # j
      BY <2>4, <2>5, <3>2 DEF IsJob, IsPending
    <3> QED
      BY <3>1, <3>2
  <2> QED
    BY <1>0, <1>1, <2>5, WorkerKept
<1>15. RunningCalls'
  <2>1. records[j].kind # "call"
    BY <1>1 DEF IsJob, Kinds
  <2> QED
    BY <1>0, <1>1, <1>11, <2>1 DEF RunningCalls, IsCall, Ends
<1>16. NoStrandedJob'
  BY <1>0, <1>1, <1>12 DEF NoStrandedJob, Stopped
<1>17. JobsOnlyEnd
  <2>1. Alike(t, records'[j]) /\ \A i \in Ids : i # j => Alike(records[i], records'[i])
    BY <1>9, <1>10
  <2>2. records'[j].kind = records[j].kind /\ records'[j].state = "failed"
        /\ records'[j].executing = records[j].executing /\ records'[j].out = "absent"
    BY <1>8, <2>1 DEF Alike
  <2>3. MayBecome(records[j], records'[j])
    <3>1. PICK r, u : r = records[j] /\ u = records'[j]
      OBVIOUS
    <3> QED
      BY <1>1, <2>2, <3>1, EndedSeen DEF IsJob, Outputs
  <2>4. \A i \in Ids : i # j => MayBecome(records[i], records'[i])
    BY <2>1, SameSeen DEF Alike
  <2> QED
    BY <2>3, <2>4 DEF JobsOnlyEnd
<1> QED
  BY <1>10, <1>12, <1>13, <1>14, <1>15, <1>16, <1>17 DEF ManagerIInv, Machine

LEMMA CancelStep ==
  ASSUME ManagerIInv, NEW j \in Ids, Cancel(j)
  PROVE  ManagerIInv' /\ JobsOnlyEnd
<1>1. CASE records[j].executing
  BY <1>1, CancelBegunStep
<1>2. CASE ~records[j].executing
  BY <1>2, CancelEarlyStep
<1> QED
  BY <1>1, <1>2

LEMMA QueuedInOrder ==
  ASSUME BookOK(Book)
  PROVE  LET q == InOrder(QueuedJobs) IN q \in Seq(Ids) /\ Distinct(q) /\ ToSet(q) = Waiting
<1>1. QueuedJobs = Waiting /\ IsFiniteSet(Waiting) /\ Waiting \subseteq Ids
  BY QueuedAreWaiting
<1>2. \A i \in Waiting : i \in Nat
  BY <1>1, IdsAreNumbers
<1>3. Waiting \subseteq Nat
  BY <1>2, Zenon
<1> QED
  BY <1>1, <1>3, InOrderProperties

\* The worker's own job ends with it.
IsBrokenOwn(own, j) ==
  LET out == IF records[j].executing THEN "uncertain" ELSE "absent"
      ended == [Book EXCEPT !.records[j].state = "failed", !.records[j].err = "worker_failed",
                            !.records[j].out = out]
  IN own = IF ~IsPending(j) THEN Book
           ELSE IF FreesClaim(records[j].kind, out) THEN Release(ended, <<j>>) ELSE ended

LEMMA BrokenOwn ==
  ASSUME ManagerIInv, NEW j \in Ids, j = worker.id, At("crashed"), NEW own, IsBrokenOwn(own, j)
  PROVE  /\ BookOK(own) /\ own.records[j].state \notin Pending /\ own.records[j].kind = records[j].kind
         /\ own.records[j].executing = records[j].executing /\ own.records[j].cancel = records[j].cancel
         /\ \A i \in Ids : i # j \/ ~IsPending(j) => Alike(records[i], own.records[i])
         /\ IsPending(j) => own.records[j].state = "failed"
                            /\ own.records[j].out = IF records[j].executing THEN "uncertain" ELSE "absent"
         /\ \/ own = Book
            \/ \E s \in Record : /\ s.size = records[j].size
                                 /\ own = WithRecord(Book, j, s) \/ own = Release(WithRecord(Book, j, s), <<j>>)
<1>0. BookOK(Book) /\ WorkerKnows
  BY InvariantParts
<1>1. CASE ~IsPending(j)
  <2>1. own = Book /\ Book.records = records
    BY <1>1 DEF Book, IsBrokenOwn
  <2> QED
    BY <1>0, <1>1, <2>1 DEF IsPending, Alike
<1>2. CASE IsPending(j)
  <2>1. /\ records[j] \in Record /\ Shape(records[j]) /\ records \in [Ids -> Record] /\ Book \in Books
        /\ records[j].state \in Pending /\ IsJob(j)
    BY <1>0, <1>2, BookFacts DEF WorkerKnows, At, IsPending
  <2>2. PICK out : out = IF records[j].executing THEN "uncertain" ELSE "absent"
    OBVIOUS
  <2>3. out \in Outputs \union {None} /\ out # None /\ "worker_failed" \in Errors
    BY <2>2, NoneAssumption DEF Outputs, Errors
  <2>4. PICK s : s = EndedRecord(records[j], "failed", "worker_failed", out)
    OBVIOUS
  <2>5. /\ s \in Record /\ Shape(s) /\ Later(records[j], s) /\ s.size = records[j].size
        /\ s.state = "failed" /\ s.kind = records[j].kind /\ s.executing = records[j].executing
        /\ s.cancel = records[j].cancel /\ s.out = out
    <3>1. PICK r : r = records[j]
      OBVIOUS
    <3> QED
      BY <2>1, <2>3, <2>4, <3>1, EndedRecordProperties
  <2>6. PICK b : b = WithRecord(Book, j, s)
    OBVIOUS
  <2>7. /\ BookOK(b) /\ b.table = table /\ b.released = released
        /\ b.records[j] = s /\ (\A i \in Ids : i # j => b.records[i] = records[i])
        /\ j \in table /\ j \notin ToSet(released)
    BY <1>0, <2>1, <2>5, <2>6, ChangeOne DEF OneChanged
  <2>8. own = IF FreesClaim(records[j].kind, out) THEN Release(b, <<j>>) ELSE b
    <3> DEFINE e == [Book EXCEPT !.records[j].state = "failed", !.records[j].err = "worker_failed",
                                 !.records[j].out = out]
    <3>1. Book.records = records
      BY DEF Book
    <3>2. e.records = [records EXCEPT ![j] = s]
      BY <2>1, <2>4, <3>1 DEF EndedRecord, Books
    <3>3. e = [Book EXCEPT !.records = e.records]
      BY <2>1 DEF Books
    <3>4. e = b
      BY <2>6, <3>1, <3>2, <3>3 DEF WithRecord
    <3>5. own = IF FreesClaim(records[j].kind, out) THEN Release(e, <<j>>) ELSE e
      BY <1>2, <2>2 DEF IsBrokenOwn
    <3> HIDE DEF e
    <3> QED
      BY <3>4, <3>5
  <2>9. BookOK(own) /\ \A i \in Ids : Alike(b.records[i], own.records[i])
    <3>1. CASE FreesClaim(records[j].kind, out)
      <4>1. ~(b.records[j].kind = "import" /\ b.records[j].state = "failed" /\ b.records[j].out # "absent")
        BY <2>3, <2>5, <2>7, <3>1 DEF FreesClaim
      <4>2. b.records[j].state \notin Pending
        BY <2>5, <2>7 DEF Pending
      <4>3. j \in b.table /\ j \notin ToSet(b.released) /\ BookOK(b)
        BY <2>7
      <4>4. /\ BookOK(Release(b, <<j>>))
            /\ \A i \in Ids : Alike(b.records[i], Release(b, <<j>>).records[i])
        BY <4>1, <4>2, <4>3, ReleaseOne
      <4>5. own = Release(b, <<j>>)
        BY <2>8, <3>1
      <4> QED
        BY <4>4, <4>5
    <3>2. CASE ~FreesClaim(records[j].kind, out)
      BY <2>7, <2>8, <3>2 DEF Alike
    <3> QED
      BY <3>1, <3>2
  <2>10. Alike(s, own.records[j]) /\ \A i \in Ids : i # j => Alike(records[i], own.records[i])
    BY <2>7, <2>9
  <2>11. /\ own.records[j].state = s.state /\ own.records[j].kind = s.kind
         /\ own.records[j].executing = s.executing /\ own.records[j].cancel = s.cancel /\ own.records[j].out = s.out
    BY <2>10 DEF Alike
  <2>12. own = b \/ own = Release(b, <<j>>)
    BY <2>8
  <2> QED
    BY <1>2, <2>2, <2>5, <2>6, <2>9, <2>10, <2>11, <2>12 DEF Pending
<1> QED
  BY <1>1, <1>2

\* Every other queued job fails with the worker; nothing is queued any more.
LEMMA FailAll ==
  ASSUME BookOK(Book), NEW own, BookOK(own), NEW err \in Errors,
         \A i \in Waiting : Alike(records[i], own.records[i]), NEW d, d = Fail(own, InOrder(QueuedJobs), err)
  PROVE  /\ BookOK(d)
         /\ \A i \in Waiting : /\ d.records[i].kind = records[i].kind /\ d.records[i].executing = records[i].executing
                               /\ d.records[i].cancel = records[i].cancel /\ d.records[i].state = "failed"
                               /\ d.records[i].out = "absent" /\ d.records[i].bound = records[i].bound
         /\ \A i \in Ids : i \notin Waiting => Alike(own.records[i], d.records[i])
<1>1. PICK q : q = InOrder(QueuedJobs)
  OBVIOUS
<1>2. q \in Seq(Ids) /\ Distinct(q) /\ ToSet(q) = Waiting
  BY <1>1, QueuedInOrder
<1>3. \A i \in Waiting : i \in Ids /\ own.records[i].state = "queued"
  BY DEF Waiting, Alike
<1>4. /\ BookOK(d)
      /\ \A i \in Ids : Alike(IF i \in ToSet(q) THEN EndedRecord(own.records[i], "failed", err, "absent")
                              ELSE own.records[i], d.records[i])
  BY <1>1, <1>2, <1>3, FailProperties DEF Pending
<1>5. own \in Books /\ \A i \in Ids : Shape(own.records[i]) /\ own.records[i] \in Record
  BY BookTypes DEF BookOK, TypedBook
<1>6. "absent" \in Outputs \union {None} /\ "absent" # None
  BY NoneAssumption DEF Outputs
<1>7. ASSUME NEW i \in Waiting
      PROVE  /\ d.records[i].kind = records[i].kind /\ d.records[i].executing = records[i].executing
             /\ d.records[i].cancel = records[i].cancel /\ d.records[i].state = "failed"
             /\ d.records[i].out = "absent" /\ d.records[i].bound = records[i].bound
  <2>1. PICK t : t = EndedRecord(own.records[i], "failed", err, "absent")
    OBVIOUS
  <2>2. PICK r : r = own.records[i]
    OBVIOUS
  <2>3. r \in Record /\ Shape(r) /\ r.state \in Pending
    BY <1>3, <1>5, <2>2 DEF Pending
  <2>4. /\ t.kind = r.kind /\ t.executing = r.executing /\ t.cancel = r.cancel /\ t.state = "failed"
        /\ t.out = "absent" /\ t.bound = r.bound
    BY <1>6, <2>1, <2>2, <2>3, EndedRecordProperties
  <2>5. Alike(t, d.records[i])
    BY <1>2, <1>3, <1>4, <2>1
  <2>6. Alike(records[i], r)
    BY <2>2
  <2> QED
    BY <2>4, <2>5, <2>6 DEF Alike
<1> QED
  BY <1>2, <1>4, <1>7

LEMMA BreakStep == ManagerIInv /\ Break => ManagerIInv' /\ JobsOnlyEnd
<1> SUFFICES ASSUME ManagerIInv, Break PROVE ManagerIInv' /\ JobsOnlyEnd
  OBVIOUS
<1>0. /\ BookOK(Book) /\ WorkerKnows /\ OneRunningJob /\ RunningCalls /\ Stopping /\ QueueIsCounted
  BY InvariantParts
<1>1. PICK j \in Ids : j = worker.id
  BY <1>0 DEF WorkerKnows, Break, At
<1>2. /\ At("crashed") /\ broken' = TRUE /\ queued' = queued - Cardinality(QueuedJobs) /\ queue' = <<>>
      /\ worker' = [worker EXCEPT !.pc = "dead"] /\ Notify /\ UNCHANGED <<running, stopping, shut>>
  BY DEF Break, GoTo
<1>3. PICK own :
        /\ IsBrokenOwn(own, j)
        /\ SetTables(Fail(own, InOrder(QueuedJobs), "worker_failed"))
  BY <1>1, SMTT(60) DEF Break, IsBrokenOwn
<1>4. /\ BookOK(own) /\ own.records[j].state \notin Pending /\ own.records[j].kind = records[j].kind
      /\ own.records[j].executing = records[j].executing /\ own.records[j].cancel = records[j].cancel
      /\ \A i \in Ids : i # j \/ ~IsPending(j) => Alike(records[i], own.records[i])
      /\ IsPending(j) => own.records[j].state = "failed"
                         /\ own.records[j].out = IF records[j].executing THEN "uncertain" ELSE "absent"
  BY <1>1, <1>2, <1>3, BrokenOwn
<1>5. PICK d : d = Fail(own, InOrder(QueuedJobs), "worker_failed")
  OBVIOUS
<1>6. j \notin Waiting /\ IsJob(j)
  BY <1>0, <1>1, <1>2 DEF WorkerKnows, At, Waiting
<1>7. /\ BookOK(d)
      /\ \A i \in Waiting : /\ d.records[i].kind = records[i].kind /\ d.records[i].executing = records[i].executing
                            /\ d.records[i].cancel = records[i].cancel /\ d.records[i].state = "failed"
                            /\ d.records[i].out = "absent"
      /\ \A i \in Ids : i \notin Waiting => Alike(own.records[i], d.records[i])
  <2>1. \A i \in Waiting : Alike(records[i], own.records[i])
    BY <1>4, <1>6 DEF Waiting
  <2>2. "worker_failed" \in Errors
    BY DEF Errors
  <2> QED
    BY <1>0, <1>4, <1>5, <2>1, <2>2, FailAll
<1>8. BookOK(Book)' /\ records' = d.records
  <2>1. SetTables(d)
    BY <1>3, <1>5
  <2> QED
    BY <1>7, <2>1, BookStep DEF SetTables
<1>9. /\ \A i \in Waiting : /\ records'[i].kind = records[i].kind /\ records'[i].executing = records[i].executing
                            /\ records'[i].cancel = records[i].cancel /\ records'[i].state = "failed"
      /\ records'[j].state \notin Pending /\ records'[j].kind = records[j].kind
      /\ records'[j].executing = records[j].executing /\ records'[j].cancel = records[j].cancel
      /\ \A i \in Ids : i \notin Waiting /\ (i # j \/ ~IsPending(j)) => Alike(records[i], records'[i])
  <2>1. \A i \in Ids : i \notin Waiting => Alike(own.records[i], records'[i])
    BY <1>7, <1>8
  <2>2. Alike(own.records[j], records'[j])
    BY <1>6, <2>1
  <2>3. /\ records'[j].state \notin Pending /\ records'[j].kind = records[j].kind
        /\ records'[j].executing = records[j].executing /\ records'[j].cancel = records[j].cancel
    BY <1>4, <2>2 DEF Alike
  <2>4. \A i \in Ids : i \notin Waiting /\ (i # j \/ ~IsPending(j)) => Alike(records[i], records'[i])
    BY <1>4, <2>1 DEF Alike
  <2> QED
    BY <1>7, <1>8, <2>3, <2>4
<1>10. Ends
  <2>1. ASSUME NEW i \in Ids
        PROVE  /\ records'[i].kind = records[i].kind /\ records'[i].executing = records[i].executing
               /\ \/ /\ records'[i].state = records[i].state /\ records'[i].cancel = records[i].cancel
                     /\ records'[i].bound = records[i].bound /\ records'[i].told = records[i].told
                  \/ /\ records[i].state \in Pending /\ records'[i].state \notin Pending
                     /\ records'[i].cancel \in {records[i].cancel, "client"}
    <3>1. CASE i \in Waiting
      BY <1>9, <3>1 DEF Waiting, Pending
    <3>2. CASE i = j /\ IsPending(j)
      BY <1>9, <3>2 DEF IsPending
    <3>3. CASE i \notin Waiting /\ (i # j \/ ~IsPending(j))
      BY <1>9, <3>3 DEF Alike
    <3> QED
      BY <3>1, <3>2, <3>3
  <2> QED
    BY <2>1 DEF Ends
<1>11. Waiting' = {}
  <2>1. \A i \in Ids : records'[i].state # "queued"
    BY <1>9, <1>10 DEF Ends, Waiting, Pending
  <2> QED
    BY <2>1 DEF Waiting
<1>12. /\ Sleepers' /\ CancelIsDelivered' /\ Stopping' /\ QueuedJobs' = {} /\ QueuedJobs = Waiting
  BY <1>2, <1>8, <1>10, <1>11, SomeEnd
<1>13. QueueHoldsJobs'
  <2>1. <<>> \in Seq(Ids \union {None}) /\ DOMAIN <<>> = {}
    BY EmptySeq
  <2> QED
    BY <1>2, <2>1 DEF QueueHoldsJobs
<1>14. QueueIsCounted'
  <2>1. Cardinality(QueuedJobs') = 0
    BY <1>12, FS_EmptySet
  <2>2. queued = Cardinality(QueuedJobs) /\ Cardinality(QueuedJobs) \in Nat /\ QueueLimit \in Nat
    BY <1>0, <1>12, QueuedAreWaiting, LimitsAssumption DEF QueueIsCounted
  <2>3. queued' = 0
    BY <1>2, <2>2
  <2> QED
    BY <2>1, <2>2, <2>3 DEF QueueIsCounted
<1>15. worker' = [pc |-> "dead", id |-> j, err |-> worker.err, out |-> worker.out]
  BY <1>0, <1>1, <1>2, WorkerTypes
<1>16. WorkerKnows'
  BY <1>0, <1>2, <1>15, WorkerTypes DEF WorkerKnows, Pcs
<1>17. OneRunningJob'
  BY <1>0, <1>1, <1>9, <1>10 DEF OneRunningJob, IsJob, Ends, Pending
<1>18. RunningCalls'
  <2>1. records[j].kind # "call"
    BY <1>6 DEF IsJob, Kinds
  <2>2. \A i \in Waiting : records[i].kind # "call"
    BY <1>0, BookFacts DEF Waiting, Shape
  <2>3. \A i \in Ids : records[i].kind = "call" => records'[i].kind = records[i].kind /\ records'[i].state = records[i].state
    BY <1>9, <2>1, <2>2 DEF Alike
  <2> QED
    BY <1>0, <1>2, <1>10, <2>3 DEF RunningCalls, IsCall, Ends
<1>19. NoStrandedJob'
  BY <1>12 DEF NoStrandedJob
<1>20. JobsOnlyEnd
  <2>1. ASSUME NEW i \in Waiting PROVE MayBecome(records[i], records'[i])
    <3>1. records'[i].out = "absent" /\ records'[i].state = "failed" /\ records'[i].kind = records[i].kind
          /\ records'[i].executing = records[i].executing
      BY <1>7, <1>8, <1>9
    <3>2. i \in Ids /\ records[i].state \in Pending /\ records[i].kind # None /\ records[i].kind # "call"
          /\ records[i] \in Record
      BY <1>0, BookFacts DEF Waiting, Shape, Pending
    <3>3. records[i].kind \in Kinds
      BY <3>2, RecordTypes
    <3>4. PICK r, u : r = records[i] /\ u = records'[i]
      OBVIOUS
    <3> QED
      BY <3>1, <3>2, <3>3, <3>4, EndedSeen DEF Outputs
  <2>2. CASE IsPending(j)
    <3>1. Alike(own.records[j], records'[j])
      BY <1>6, <1>7, <1>8
    <3>2. /\ records'[j].state = "failed" /\ records'[j].kind = records[j].kind
          /\ records'[j].executing = records[j].executing
          /\ records'[j].out = IF records[j].executing THEN "uncertain" ELSE "absent"
      BY <1>4, <2>2, <3>1 DEF Alike
    <3>3. PICK r, u : r = records[j] /\ u = records'[j]
      OBVIOUS
    <3> QED
      <4>1. MayBecome(r, u)
        BY <1>6, <2>2, <3>2, <3>3, EndedSeen DEF IsJob, IsPending, Outputs
      <4>2. \A i \in Ids : i \notin Waiting /\ i # j => MayBecome(records[i], records'[i])
        BY <1>9, SameSeen DEF Alike
      <4> QED
        BY <2>1, <3>3, <4>1, <4>2 DEF JobsOnlyEnd
  <2>3. CASE ~IsPending(j)
    <3>1. \A i \in Ids : i \notin Waiting => MayBecome(records[i], records'[i])
      BY <1>9, <2>3, SameSeen DEF Alike
    <3> QED
      BY <2>1, <3>1 DEF JobsOnlyEnd
  <2> QED
    BY <2>2, <2>3
<1> QED
  BY <1>8, <1>12, <1>13, <1>14, <1>16, <1>17, <1>18, <1>19, <1>20 DEF ManagerIInv, Machine

LEMMA ToldToStopProperties ==
  ASSUME NEW r \in Record, Shape(r), r.state = "running", r.kind # "call"
  PROVE  LET s == ToldToStop(r) IN
         /\ s \in Record /\ Shape(s) /\ Later(r, s) /\ s.state = r.state /\ s.kind = r.kind
         /\ s.out = r.out
         /\ s.executing = r.executing /\ s.cancel = (IF r.cancel = None THEN "shutdown" ELSE r.cancel)
         /\ s.bound = r.bound /\ s.told = (r.told \/ r.bound) /\ s.size = r.size
<1> DEFINE s == ToldToStop(r)
<1>1. PICK t \in BOOLEAN : t = (r.told \/ r.bound)
  OBVIOUS
<1>2. PICK c : c = IF r.cancel = None THEN "shutdown" ELSE r.cancel
  OBVIOUS
<1>3. c \in {"client", "shutdown"} /\ c # None
  BY <1>2, NoneAssumption, RecordTypes
<1>4. s = [r EXCEPT !.cancel = c, !.told = t]
  BY <1>1, <1>2 DEF ToldToStop, Record
<1> HIDE DEF s
<1>5. /\ s \in Record /\ s.cancel = c /\ s.told = t /\ s.state = r.state /\ s.kind = r.kind /\ s.key = r.key
      /\ s.executing = r.executing /\ s.bound = r.bound /\ s.err = r.err /\ s.out = r.out
      /\ s.reqs = r.reqs /\ s.size = r.size
  BY <1>3, <1>4 DEF Record
<1>6. Shape(s)
  BY <1>5 DEF Shape, Pending
<1>7. Later(r, s)
  BY <1>3, <1>5 DEF Later
<1> QED
  BY <1>1, <1>2, <1>5, <1>6, <1>7 DEF s

\* The jobs that run when shutdown comes, or that it finds among the records of d.
ShutBook(d) ==
  [d EXCEPT !.records = [id \in Ids |->
     IF id \in d.table /\ d.records[id].state = "running" /\ d.records[id].kind # "call"
     THEN ToldToStop(d.records[id]) ELSE d.records[id]]]

LEMMA ShutdownBook ==
  ASSUME NEW d, BookOK(d), NEW e, e = ShutBook(d)
  PROVE  /\ BookOK(e) /\ e.kept = d.kept
         /\ \A i \in Ids :
              /\ e.records[i].size = d.records[i].size
              /\ e.records[i].kind = d.records[i].kind /\ e.records[i].state = d.records[i].state
              /\ e.records[i].out = d.records[i].out
              /\ e.records[i].executing = d.records[i].executing /\ e.records[i].bound = d.records[i].bound
              /\ IF d.records[i].state = "running" /\ d.records[i].kind # "call"
                 THEN /\ e.records[i].cancel = IF d.records[i].cancel = None THEN "shutdown" ELSE d.records[i].cancel
                      /\ e.records[i].told = (d.records[i].told \/ d.records[i].bound)
                 ELSE e.records[i].cancel = d.records[i].cancel /\ e.records[i].told = d.records[i].told
<1> DEFINE f == [id \in Ids |->
                   IF id \in d.table /\ d.records[id].state = "running" /\ d.records[id].kind # "call"
                   THEN ToldToStop(d.records[id]) ELSE d.records[id]]
<1>1. d \in Books /\ (\A i \in Ids : Shape(d.records[i])) /\ Tabled(d) /\ d.records \in [Ids -> Record]
  BY BookTypes DEF BookOK, TypedBook
<1>2. ASSUME NEW i \in Ids
      PROVE  /\ f[i] \in Record /\ Shape(f[i]) /\ Later(d.records[i], f[i]) /\ f[i].size = d.records[i].size
             /\ f[i].kind = d.records[i].kind /\ f[i].state = d.records[i].state
             /\ f[i].out = d.records[i].out
             /\ f[i].executing = d.records[i].executing /\ f[i].bound = d.records[i].bound
             /\ IF d.records[i].state = "running" /\ d.records[i].kind # "call"
                THEN /\ f[i].cancel = IF d.records[i].cancel = None THEN "shutdown" ELSE d.records[i].cancel
                     /\ f[i].told = (d.records[i].told \/ d.records[i].bound)
                ELSE f[i].cancel = d.records[i].cancel /\ f[i].told = d.records[i].told
  <2>1. PICK r : r = d.records[i]
    OBVIOUS
  <2>2. r \in Record /\ Shape(r) /\ (r.state = "running" => i \in d.table)
    BY <1>1, <2>1 DEF Tabled, Pending
  <2>3. CASE r.state = "running" /\ r.kind # "call"
    <3>1. f[i] = ToldToStop(r)
      BY <2>1, <2>2, <2>3
    <3> HIDE DEF f
    <3> QED
      BY <2>1, <2>2, <2>3, <3>1, ToldToStopProperties
  <2>4. CASE ~(r.state = "running" /\ r.kind # "call")
    <3>1. f[i] = r
      BY <2>1, <2>4
    <3> HIDE DEF f
    <3>2. Later(r, r)
      BY DEF Later
    <3> QED
      BY <2>1, <2>2, <2>4, <3>1, <3>2
  <2> QED
    BY <2>3, <2>4
<1>3. f \in [Ids -> Record]
  <2>1. \A i \in Ids : f[i] \in Record
    BY <1>2
  <2>2. DOMAIN f = Ids /\ f = [i \in Ids |-> f[i]]
    OBVIOUS
  <2> HIDE DEF f
  <2> QED
    BY <2>1, <2>2
<1>4. e = [d EXCEPT !.records = f]
  BY DEF ShutBook
<1> HIDE DEF f
<1>5. /\ e \in Books /\ e.records = f /\ e.table = d.table /\ e.requests = d.requests
      /\ e.reservations = d.reservations /\ e.released = d.released /\ e.kept = d.kept
  BY <1>1, <1>3, <1>4 DEF Books
<1>6. \A i \in Ids : Later(d.records[i], f[i]) /\ Shape(f[i]) /\ f[i].size = d.records[i].size
  BY <1>2
<1>7. \A b : b \in Books /\ b.table = d.table /\ b.requests = d.requests
         /\ b.reservations = d.reservations /\ b.released = d.released /\ b.kept = d.kept
         /\ (\A i \in Ids : /\ Later(d.records[i], b.records[i]) /\ Shape(b.records[i])
                            /\ b.records[i].size = d.records[i].size)
         => BookOK(b)
  BY RecordsChange
<1>8. BookOK(e)
  BY <1>5, <1>6, <1>7
<1> QED
  BY <1>2, <1>5, <1>8

\* The tables after shutdown.
LEMMA ShutdownTables ==
  ASSUME ManagerIInv, Shutdown, NEW d, d = Fail(Book, InOrder(QueuedJobs), "shutdown"), d \in Books,
         \A i \in Ids : d.records[i].kind = records[i].kind
  PROVE  SetTables(ShutBook(d))
<1>1. SetTables([d EXCEPT !.records = [id \in Ids |->
        IF id \in d.table /\ d.records[id].state = "running" /\ ~IsCall(id)
        THEN ToldToStop(d.records[id]) ELSE d.records[id]]])
  BY DEF Shutdown
<1>2. \A id \in Ids : ~IsCall(id) <=> d.records[id].kind # "call"
  BY DEF IsCall
<1>3. [id \in Ids |->
        IF id \in d.table /\ d.records[id].state = "running" /\ ~IsCall(id)
        THEN ToldToStop(d.records[id]) ELSE d.records[id]]
      = [id \in Ids |->
          IF id \in d.table /\ d.records[id].state = "running" /\ d.records[id].kind # "call"
          THEN ToldToStop(d.records[id]) ELSE d.records[id]]
  BY <1>2
<1> QED
  BY <1>1, <1>3, Zenon DEF ShutBook

LEMMA ShutdownStep == ManagerIInv /\ Shutdown => ManagerIInv' /\ JobsOnlyEnd
<1> SUFFICES ASSUME ManagerIInv, Shutdown PROVE ManagerIInv' /\ JobsOnlyEnd
  OBVIOUS
<1>0. /\ BookOK(Book) /\ WorkerKnows /\ OneRunningJob /\ RunningCalls /\ Stopping /\ QueueIsCounted
      /\ CancelIsDelivered /\ Sleepers
  BY InvariantParts
<1>1. /\ stopping' = TRUE /\ shut = "no" /\ queued' = queued - Cardinality(QueuedJobs)
      /\ queue' \in {<<>>, <<None>>} /\ Notify /\ UNCHANGED <<running, worker, broken, inFlight>>
      /\ shut' = IF Current # None /\ records[Current].kind = "script" THEN "join_script" ELSE "join"
  BY DEF Shutdown
<1>2. PICK d : d = Fail(Book, InOrder(QueuedJobs), "shutdown")
  OBVIOUS
<1>3. /\ BookOK(d)
      /\ \A i \in Waiting : /\ d.records[i].kind = records[i].kind /\ d.records[i].executing = records[i].executing
                            /\ d.records[i].cancel = records[i].cancel /\ d.records[i].state = "failed"
                            /\ d.records[i].bound = records[i].bound
                            /\ d.records[i].out = "absent"
      /\ \A i \in Ids : i \notin Waiting => Alike(records[i], d.records[i])
  <2>1. PICK b : b = Book
    OBVIOUS
  <2>2. BookOK(b) /\ b.records = records /\ d = Fail(b, InOrder(QueuedJobs), "shutdown")
    BY <1>0, <1>2, <2>1 DEF Book
  <2>3. "shutdown" \in Errors /\ \A i \in Waiting : Alike(records[i], b.records[i])
    BY <2>2 DEF Errors, Alike
  <2> QED
    BY <1>0, <2>2, <2>3, FailAll
<1>5. \A i \in Ids : records[i] \in Record /\ Shape(records[i])
  BY <1>0, BookFacts
<1>6. \A i \in Ids : d.records[i].kind = records[i].kind
  BY <1>3 DEF Alike
<1>7. PICK e : e = ShutBook(d)
  OBVIOUS
<1>8. SetTables(e)
  <2>1. d \in Books
    BY <1>3 DEF BookOK, TypedBook
  <2> QED
    BY <1>2, <1>6, <1>7, <2>1, ShutdownTables
<1>9. /\ BookOK(e)
      /\ \A i \in Ids :
              /\ e.records[i].kind = d.records[i].kind /\ e.records[i].state = d.records[i].state
              /\ e.records[i].out = d.records[i].out
              /\ e.records[i].executing = d.records[i].executing /\ e.records[i].bound = d.records[i].bound
              /\ IF d.records[i].state = "running" /\ d.records[i].kind # "call"
                 THEN /\ e.records[i].cancel = IF d.records[i].cancel = None THEN "shutdown" ELSE d.records[i].cancel
                      /\ e.records[i].told = (d.records[i].told \/ d.records[i].bound)
                 ELSE e.records[i].cancel = d.records[i].cancel /\ e.records[i].told = d.records[i].told
  BY <1>3, <1>5, <1>7, ShutdownBook
<1>10. BookOK(Book)' /\ records' = e.records
  BY <1>8, <1>9, BookStep DEF SetTables
<1>11. ASSUME NEW i \in Ids
       PROVE  /\ records'[i].kind = records[i].kind /\ records'[i].executing = records[i].executing
              /\ records'[i].bound = records[i].bound
              /\ records'[i].state = IF records[i].state = "queued" THEN "failed" ELSE records[i].state
              /\ records'[i].out = IF records[i].state = "queued" THEN "absent" ELSE records[i].out
              /\ IF records[i].state = "running" /\ records[i].kind # "call"
                 THEN /\ records'[i].cancel = IF records[i].cancel = None THEN "shutdown" ELSE records[i].cancel
                      /\ records'[i].told = (records[i].told \/ records[i].bound)
                 ELSE records'[i].cancel = records[i].cancel
  <2>1. CASE i \in Waiting
    BY <1>3, <1>9, <1>10, <2>1 DEF Waiting
  <2>2. CASE i \notin Waiting
    <3>1. Alike(records[i], d.records[i]) /\ records[i].state # "queued"
      BY <1>3, <2>2 DEF Waiting
    <3> QED
      BY <1>5, <1>9, <1>10, <3>1 DEF Alike
  <2> QED
    BY <2>1, <2>2
<1>12. \A i \in Ids : records'[i].state # "queued"
  BY <1>11
<1>13. QueuedJobs' = {} /\ Cardinality(QueuedJobs') = 0
  <2>1. Waiting' = {}
    BY <1>12 DEF Waiting
  <2> QED
    BY <1>10, <2>1, WaitingNext, FS_EmptySet
<1>14. QueueIsCounted'
  <2>1. queued = Cardinality(QueuedJobs) /\ Cardinality(QueuedJobs) \in Nat /\ QueueLimit \in Nat
    BY <1>0, QueuedAreWaiting, LimitsAssumption DEF QueueIsCounted
  <2>2. queued' = 0
    BY <1>1, <2>1
  <2> QED
    BY <1>13, <2>1, <2>2 DEF QueueIsCounted
<1>15. QueueHoldsJobs'
  <2>1. <<>> \in Seq(Ids \union {None}) /\ DOMAIN <<>> = {}
    BY EmptySeq
  <2>2. <<None>> \in Seq(Ids \union {None}) /\ DOMAIN <<None>> = {1} /\ <<None>>[1] = None
    OBVIOUS
  <2> QED
    BY <1>1, <2>1, <2>2 DEF QueueHoldsJobs
<1>16. WorkerKnows'
  BY <1>0, <1>1, <1>11, NoneAssumption, WorkerKept DEF IsJob
<1>17. OneRunningJob' /\ RunningCalls'
  <2>1. \A i \in Ids : records'[i].kind = records[i].kind /\ (records'[i].state = "running" <=> records[i].state = "running")
    BY <1>11
  <2> QED
    BY <1>0, <1>1, <2>1 DEF OneRunningJob, RunningCalls, IsJob, IsCall
<1>18. NoStrandedJob'
  BY <1>13 DEF NoStrandedJob
<1>19. CancelIsDelivered'
  <2>1. ASSUME NEW i \in Ids, records'[i].state = "running", records'[i].bound
        PROVE  records'[i].told
    <3>1. records[i].state = "running" /\ records[i].bound
      BY <1>11, <2>1
    <3>2. records[i].kind # "call"
      BY <1>5, <3>1 DEF Shape
    <3> QED
      BY <1>11, <3>1, <3>2
  <2> QED
    BY <2>1 DEF CancelIsDelivered
<1>20. Sleepers'
  BY <1>0, <1>1 DEF Sleepers, Notify, IsPending
<1>21. Stopping'
  <2>1. \A i \in Ids : records[i].kind \in Kinds /\ records'[i].state = "running" => records'[i].cancel # None
    BY <1>11, NoneAssumption DEF Kinds
  <2>2. \A i \in Ids : shut' = "join_script" /\ IsJob(i) /\ records[i].state = "running" => records[i].kind = "script"
    <3>1. \A i \in Ids : IsJob(i) /\ records[i].state = "running" => worker.id = i /\ i # None
      BY <1>0, NoneAssumption DEF OneRunningJob
    <3>2. shut' = "join_script" => Current = worker.id /\ records[worker.id].kind = "script"
      BY <1>1 DEF Current
    <3> QED
      BY <3>1, <3>2
  <2>3. shut' \in {"join", "join_script"}
    BY <1>1
  <2> QED
    BY <1>1, <1>11, <2>1, <2>2, <2>3 DEF Stopping, IsJob
<1>22. JobsOnlyEnd
  <2>1. ASSUME NEW i \in Ids PROVE MayBecome(records[i], records'[i])
    <3>1. PICK r, u : r = records[i] /\ u = records'[i]
      OBVIOUS
    <3>2. CASE records[i].state = "queued"
      <4>1. records[i].kind \in Kinds
        BY <1>5, <3>2, RecordTypes DEF Shape
      <4> QED
        BY <1>11, <3>1, <3>2, <4>1, EndedSeen DEF Outputs, Pending
    <3>3. CASE records[i].state # "queued"
      BY <1>11, <3>1, <3>3, SameSeen
    <3> QED
      BY <3>2, <3>3
  <2> QED
    BY <2>1 DEF JobsOnlyEnd
<1> QED
  BY <1>10, <1>14, <1>15, <1>16, <1>17, <1>18, <1>19, <1>20, <1>21, <1>22 DEF ManagerIInv, Machine

-----------------------------------------------------------------------------
(* The steps that make records, and the one that gives a record a request  *)

\* A free record becomes a pending one, in the tables c.
NewRecord(b, c, j, r) ==
  /\ c \in Books /\ j \in Ids /\ b.records[j].state = "free"
  /\ r \in Record /\ Shape(r) /\ r.state \in Pending
  /\ c.records = [b.records EXCEPT ![j] = r] /\ c.table = b.table \union {j}
  /\ c.released = b.released /\ c.kept = b.kept

LEMMA NewRecordProperties ==
  ASSUME NEW b, BookOK(b), NEW c, NEW j, NEW r, NewRecord(b, c, j, r)
  PROVE  /\ c.records[j] = r /\ (\A i \in Ids : i # j => c.records[i] = b.records[i])
         /\ j \notin b.table /\ j \notin ToSet(b.released)
         /\ b.table \subseteq Ids /\ \A k \in Keys : b.reservations[k] # j
         /\ TypedBook(c) /\ Tabled(c) /\ ReleasedOnce(c) /\ KeptOnce(c)
<1>0. /\ c \in Books /\ j \in Ids /\ b.records[j].state = "free"
      /\ r \in Record /\ Shape(r) /\ r.state \in Pending
      /\ c.records = [b.records EXCEPT ![j] = r] /\ c.table = b.table \union {j}
      /\ c.released = b.released /\ c.kept = b.kept
  BY DEF NewRecord
<1>1. /\ b \in Books /\ (\A id \in Ids : Shape(b.records[id])) /\ Tabled(b) /\ ReleasedOnce(b)
      /\ Reserved(b) /\ KeptOnce(b)
  BY DEF BookOK, TypedBook
<1>2. b.records \in [Ids -> Record] /\ b.table \subseteq Ids
  BY <1>1, BookTypes
<1>3. c.records[j] = r /\ \A i \in Ids : i # j => c.records[i] = b.records[i]
  BY <1>0, <1>2
<1>4. j \notin b.table
  BY <1>0, <1>1 DEF Tabled
<1>5. \A i \in DOMAIN b.released : b.released[i] \in b.table /\ b.records[b.released[i]].state \notin Pending
  BY <1>1 DEF ReleasedOnce
<1>6. j \notin ToSet(b.released)
  BY <1>4, <1>5 DEF ToSet
<1>7. \A k \in Keys : b.reservations[k] # j
  <2>1. j # None
    BY <1>0, NoneAssumption
  <2>2. \A k \in Keys : b.reservations[k] # None => b.reservations[k] \in b.table
    BY <1>1 DEF Reserved
  <2> QED
    BY <1>4, <2>1, <2>2
<1>8. TypedBook(c)
  <2>1. \A i \in Ids : Shape(c.records[i])
    BY <1>0, <1>1, <1>3
  <2> QED
    BY <1>0, <2>1 DEF TypedBook
<1>9. Tabled(c)
  <2>1. r.state # "free"
    BY <1>0 DEF Pending
  <2> QED
    BY <1>0, <1>1, <1>2, <1>3, <2>1 DEF Tabled
<1>10. ReleasedOnce(c)
  <2>1. Distinct(c.released) /\ Len(c.released) <= HistoryLimit
    BY <1>0, <1>1 DEF ReleasedOnce
  <2>2. \A i \in DOMAIN c.released :
           c.released[i] \in c.table /\ c.records[c.released[i]].state \notin Pending
    BY <1>0, <1>2, <1>3, <1>4, <1>5
  <2> QED
    BY <2>1, <2>2 DEF ReleasedOnce
<1>11. KeptOnce(c)
  <2>1. \A i \in Ids : c.records[i].size = b.records[i].size
    <3>1. r.size = 0 /\ b.records[j].size = 0
      BY <1>0, <1>1 DEF Shape
    <3> QED
      BY <1>3, <3>1
  <2> QED
    BY <1>0, <1>1, <2>1 DEF KeptOnce
<1> QED
  BY <1>2, <1>3, <1>4, <1>6, <1>7, <1>8, <1>9, <1>10, <1>11

\* The request_id a record is found by from now on: none, or one that is
\* unknown or stands for a call that gave up.
Requested(b, c, j, reqs) ==
  \/ reqs = {} /\ c.requests = b.requests
  \/ \E q \in ReqIds :
       /\ reqs = {q} /\ c.requests = [b.requests EXCEPT ![q] = j]
       /\ b.requests[q] # None => GaveUp(b.records[b.requests[q]])

LEMMA NewRequest ==
  ASSUME NEW b, BookOK(b), NEW c, NEW j, NEW r, NewRecord(b, c, j, r), Requested(b, c, j, r.reqs)
  PROVE  Resends(c)
<1>0. c.table = b.table \union {j} /\ c.released = b.released
  BY DEF NewRecord
<1>1. /\ c.records[j] = r /\ (\A i \in Ids : i # j => c.records[i] = b.records[i])
      /\ j \notin b.table /\ b.table \subseteq Ids /\ c.table = b.table \union {j}
  BY <1>0, NewRecordProperties
<1>2. Resends(b) /\ b \in Books
  BY DEF BookOK, TypedBook
<1>3. /\ b.requests \in [ReqIds -> Ids \union {None}]
      /\ \A q \in ReqIds : b.requests[q] # None => b.requests[q] \in b.table /\ q \in b.records[b.requests[q]].reqs
      /\ \A id \in b.table : \A q \in b.records[id].reqs : b.requests[q] = id \/ GaveUp(b.records[id])
      /\ \A id \in b.table : b.records[id].reqs \subseteq ReqIds
  <2>1. b.records \in [Ids -> Record] /\ b.requests \in [ReqIds -> Ids \union {None}]
    BY <1>2, BookTypes
  <2>2. \A id \in b.table : b.records[id].reqs \subseteq ReqIds
    BY <1>1, <2>1, RecordTypes
  <2> QED
    BY <1>2, <2>1, <2>2 DEF Resends
<1>4. \A id \in b.table : c.records[id] = b.records[id] /\ id # j
  BY <1>1
<1>5. CASE r.reqs = {} /\ c.requests = b.requests
  <2>1. \A q \in ReqIds : c.requests[q] # None => c.requests[q] \in c.table /\ q \in c.records[c.requests[q]].reqs
    BY <1>1, <1>3, <1>4, <1>5
  <2>2. \A id \in c.table : \A q \in c.records[id].reqs : c.requests[q] = id \/ GaveUp(c.records[id])
    BY <1>1, <1>3, <1>4, <1>5
  <2> QED
    BY <2>1, <2>2 DEF Resends
<1>6. ASSUME NEW p \in ReqIds, r.reqs = {p}, c.requests = [b.requests EXCEPT ![p] = j],
             b.requests[p] # None => GaveUp(b.records[b.requests[p]])
      PROVE  Resends(c)
  <2>1. c.requests[p] = j /\ \A q \in ReqIds : q # p => c.requests[q] = b.requests[q]
    BY <1>3, <1>6
  <2>2. ASSUME NEW q \in ReqIds, c.requests[q] # None
        PROVE  c.requests[q] \in c.table /\ q \in c.records[c.requests[q]].reqs
    <3>1. CASE q = p
      BY <1>1, <1>6, <2>1, <3>1
    <3>2. CASE q # p
      BY <1>1, <1>3, <1>4, <2>1, <2>2, <3>2
    <3> QED
      BY <3>1, <3>2
  <2>3. ASSUME NEW id \in c.table, NEW q \in c.records[id].reqs
        PROVE  c.requests[q] = id \/ GaveUp(c.records[id])
    <3>1. CASE id = j
      BY <1>1, <1>6, <2>1, <2>3, <3>1
    <3>2. CASE id \in b.table /\ q # p
      BY <1>3, <1>4, <2>1, <2>3, <3>2
    <3>3. CASE id \in b.table /\ q = p
      <4>1. b.requests[p] = id \/ GaveUp(b.records[id])
        BY <1>3, <1>4, <2>3, <3>3
      <4>2. None \notin Ids
        BY NoneAssumption
      <4> QED
        BY <1>1, <1>4, <1>6, <3>3, <4>1, <4>2
    <3> QED
      BY <1>1, <3>1, <3>2, <3>3
  <2> QED
    BY <2>2, <2>3 DEF Resends
<1> QED
  BY <1>5, <1>6 DEF Requested

\* A new call has no claim.
LEMMA NewCallBook ==
  ASSUME NEW b, BookOK(b), NEW c, NEW j, NEW r, NewRecord(b, c, j, r), Requested(b, c, j, r.reqs),
         r.kind = "call", c.reservations = b.reservations
  PROVE  BookOK(c)
<1>0. c.table = b.table \union {j} /\ c.released = b.released
  BY DEF NewRecord
<1>1. /\ c.records[j] = r /\ (\A i \in Ids : i # j => c.records[i] = b.records[i])
      /\ j \notin b.table /\ b.table \subseteq Ids /\ c.table = b.table \union {j}
      /\ TypedBook(c) /\ Tabled(c) /\ ReleasedOnce(c) /\ KeptOnce(c) /\ c.released = b.released
  BY <1>0, NewRecordProperties
<1>2. Resends(c)
  BY NewRequest
<1>3. /\ \A k \in Keys : b.reservations[k] # None =>
           /\ b.reservations[k] \in b.table /\ b.reservations[k] \notin ToSet(b.released)
           /\ b.records[b.reservations[k]].kind \in Kinds /\ b.records[b.reservations[k]].key = k
      /\ \A id \in Ids :
           \/ /\ b.records[id].kind = "import"
              /\ \/ b.records[id].state \in Pending
                 \/ b.records[id].state = "failed" /\ b.records[id].out # "absent"
           \/ /\ b.records[id].kind \in Kinds
              /\ b.records[id].state \in Pending /\ b.records[id].cancel = None
           => b.reservations[b.records[id].key] = id
  BY DEF BookOK, Reserved
<1>4. \A k \in Keys : c.reservations[k] # None =>
           /\ c.reservations[k] \in c.table /\ c.reservations[k] \notin ToSet(c.released)
           /\ c.records[c.reservations[k]].kind \in Kinds /\ c.records[c.reservations[k]].key = k
  BY <1>1, <1>3
<1>5. r.kind # "import" /\ r.kind \notin Kinds
  BY DEF Kinds
<1>6. Reserved(c)
  BY <1>1, <1>3, <1>4, <1>5 DEF Reserved
<1> QED
  BY <1>1, <1>2, <1>6 DEF BookOK

\* A new job takes its claim, which nobody held or only a job being cancelled.
LEMMA NewJobBook ==
  ASSUME NEW b, BookOK(b), NEW c, NEW j, NEW r, NewRecord(b, c, j, r), Requested(b, c, j, r.reqs),
         r.kind \in Kinds, c.reservations = [b.reservations EXCEPT ![r.key] = j],
         b.reservations[r.key] # None =>
           r.kind # "import" /\ b.records[b.reservations[r.key]].cancel # None
  PROVE  BookOK(c)
<1>0. c.table = b.table \union {j} /\ c.released = b.released
  BY DEF NewRecord
<1>1. /\ c.records[j] = r /\ (\A i \in Ids : i # j => c.records[i] = b.records[i])
      /\ j \notin b.table /\ b.table \subseteq Ids /\ c.table = b.table \union {j}
      /\ TypedBook(c) /\ Tabled(c) /\ ReleasedOnce(c) /\ KeptOnce(c) /\ c.released = b.released
      /\ j \notin ToSet(b.released)
  BY <1>0, NewRecordProperties
<1>2. Resends(c)
  BY NewRequest
<1>3. /\ \A k \in Keys : b.reservations[k] # None =>
           /\ b.reservations[k] \in b.table /\ b.reservations[k] \notin ToSet(b.released)
           /\ b.records[b.reservations[k]].kind \in Kinds /\ b.records[b.reservations[k]].key = k
      /\ \A id \in Ids :
           \/ /\ b.records[id].kind = "import"
              /\ \/ b.records[id].state \in Pending
                 \/ b.records[id].state = "failed" /\ b.records[id].out # "absent"
           \/ /\ b.records[id].kind \in Kinds
              /\ b.records[id].state \in Pending /\ b.records[id].cancel = None
           => b.reservations[b.records[id].key] = id
  BY DEF BookOK, Reserved
<1>4. /\ b.records \in [Ids -> Record] /\ b.reservations \in [Keys -> Ids \union {None}]
      /\ \A i \in Ids : Shape(b.records[i])
  BY BookTypes DEF BookOK, TypedBook
<1>5. r \in Record /\ Shape(r) /\ j \in Ids
  BY DEF NewRecord
<1>6. r.key \in Keys /\ \E q \in Requests : q.kind = r.kind /\ q.key = r.key
  BY <1>5, KeysOfJobs
<1>7. c.reservations[r.key] = j /\ \A k \in Keys : k # r.key => c.reservations[k] = b.reservations[k]
  BY <1>4, <1>6
<1>8. ASSUME NEW k \in Keys, c.reservations[k] # None
      PROVE  /\ c.reservations[k] \in c.table /\ c.reservations[k] \notin ToSet(c.released)
             /\ c.records[c.reservations[k]].kind \in Kinds /\ c.records[c.reservations[k]].key = k
  <2>1. CASE k = r.key
    BY <1>1, <1>7, <2>1
  <2>2. CASE k # r.key
    BY <1>1, <1>3, <1>7, <1>8, <2>2
  <2> QED
    BY <2>1, <2>2
<1>9. ASSUME NEW id \in Ids, id # j,
             \/ /\ b.records[id].kind = "import"
                /\ \/ b.records[id].state \in Pending
                   \/ b.records[id].state = "failed" /\ b.records[id].out # "absent"
             \/ /\ b.records[id].kind \in Kinds
                /\ b.records[id].state \in Pending /\ b.records[id].cancel = None
      PROVE  c.reservations[b.records[id].key] = id
  <2>1. b.reservations[b.records[id].key] = id
    BY <1>3, <1>9
  <2>2. b.records[id].kind \in Kinds
    BY <1>9 DEF Kinds
  <2>3. b.records[id].key \in Keys /\ \E q \in Requests : q.kind = b.records[id].kind /\ q.key = b.records[id].key
    BY <1>4, <2>2, KeysOfJobs
  <2>4. CASE b.records[id].key = r.key
    <3>1. b.reservations[r.key] = id /\ id # None
      BY <2>1, <2>4, NoneAssumption
    <3>2. r.kind # "import" /\ b.records[id].cancel # None
      BY <3>1
    <3>3. b.records[id].kind = r.kind
      BY <1>6, <2>3, <2>4, RequestsAssumption
    <3> QED
      BY <1>9, <3>2, <3>3
  <2>5. CASE b.records[id].key # r.key
    BY <1>7, <2>1, <2>3, <2>5
  <2> QED
    BY <2>4, <2>5
<1>10. ASSUME NEW id \in Ids,
             \/ /\ c.records[id].kind = "import"
                /\ \/ c.records[id].state \in Pending
                   \/ c.records[id].state = "failed" /\ c.records[id].out # "absent"
             \/ /\ c.records[id].kind \in Kinds
                /\ c.records[id].state \in Pending /\ c.records[id].cancel = None
      PROVE  c.reservations[c.records[id].key] = id
  <2>1. CASE id = j
    BY <1>1, <1>7, <2>1
  <2>2. CASE id # j
    BY <1>1, <1>9, <1>10, <2>2
  <2> QED
    BY <2>1, <2>2
<1>11. Reserved(c)
  BY <1>8, <1>10 DEF Reserved
<1> QED
  BY <1>1, <1>2, <1>11 DEF BookOK

\* The steps that make a call's record.
CallRecord(fp, reqs) ==
  [NoRecord EXCEPT !.kind = "call", !.fp = fp, !.state = "running", !.executing = TRUE, !.reqs = reqs]

LEMMA CallRecordProperties ==
  ASSUME NEW fp \in CallPrints, NEW reqs \in SUBSET ReqIds
  PROVE  LET r == CallRecord(fp, reqs) IN
         /\ r \in Record /\ Shape(r) /\ r.state = "running" /\ r.kind = "call" /\ r.reqs = reqs
         /\ r.cancel = None
<1> DEFINE r == CallRecord(fp, reqs)
<1> DEFINE fields == {"kind", "key", "fp", "state", "executing", "cancel", "bound", "told", "err", "out", "reqs", "size"}
<1>3. r = [x \in fields |-> r[x]]
  BY DEF CallRecord, NoRecord
<1>4. /\ NoRecord.key = None /\ NoRecord.cancel = None /\ NoRecord.bound = FALSE /\ NoRecord.told = FALSE
      /\ NoRecord.err = None /\ NoRecord.out = None /\ NoRecord.size = 0 /\ DOMAIN NoRecord = fields
  BY DEF NoRecord
<1>5. /\ r.kind = "call" /\ r.fp = fp /\ r.state = "running" /\ r.executing = TRUE /\ r.reqs = reqs
      /\ r.key = None /\ r.cancel = None /\ r.bound = FALSE /\ r.told = FALSE
      /\ r.err = None /\ r.out = None /\ r.size = 0
  BY <1>4 DEF CallRecord
<1> HIDE DEF r
<1>6. r = [kind |-> "call", key |-> None, fp |-> fp, state |-> "running", executing |-> TRUE,
           cancel |-> None, bound |-> FALSE, told |-> FALSE,
           err |-> None, out |-> None, reqs |-> reqs, size |-> 0]
  BY <1>3, <1>5
<1>7. r \in Record
  BY <1>6 DEF Record, Prints, States, Errors
<1>8. Shape(r)
  <2>1. r.kind # None /\ r.kind \notin Kinds
    BY <1>5, NoneAssumption DEF Kinds
  <2> QED
    BY <1>5, <2>1 DEF Shape
<1> QED
  BY <1>5, <1>7, <1>8 DEF r

LEMMA NewCallStep ==
  ASSUME ManagerIInv, NEW fp \in CallPrints, NEW j \in Ids, NEW reqs \in SUBSET ReqIds,
         NewCall(j, fp, reqs), Notify, requests' \in [ReqIds -> Ids \union {None}],
         \/ reqs = {} /\ requests' = requests
         \/ \E q \in ReqIds : /\ reqs = {q} /\ requests' = [requests EXCEPT ![q] = j]
                              /\ requests[q] # None => GaveUp(records[requests[q]])
  PROVE  ManagerIInv'
<1>0. /\ BookOK(Book) /\ QueueHoldsJobs /\ WorkerKnows /\ OneRunningJob /\ RunningCalls /\ Stopping
      /\ QueueIsCounted /\ NoStrandedJob /\ CancelIsDelivered /\ Sleepers
  BY InvariantParts
<1>1. PICK r : r = CallRecord(fp, reqs)
  OBVIOUS
<1>2. r \in Record /\ Shape(r) /\ r.state = "running" /\ r.kind = "call" /\ r.reqs = reqs /\ r.cancel = None
  BY <1>1, CallRecordProperties
<1>3. /\ records[j].state = "free" /\ records' = [records EXCEPT ![j] = r]
      /\ table' = table \union {j} /\ running' = running \union {j}
      /\ UNCHANGED <<reservations, released, kept, queue, queued, worker, stopping, broken, shut, inFlight>>
  BY <1>1 DEF NewCall, Fresh, CallRecord
<1>4. /\ Book \in Books /\ records \in [Ids -> Record] /\ table \subseteq Ids
      /\ reservations \in [Keys -> Ids \union {None}] /\ released \in Seq(Ids) /\ kept \in Seq(Ids)
      /\ Shape(records[j])
  BY <1>0, BookFacts
<1>5. records'[j] = r /\ \A i \in Ids : i # j => records'[i] = records[i]
  BY <1>3, <1>4
<1>6. BookOK(Book)'
  <2>1. PICK b : b = Book
    OBVIOUS
  <2>2. PICK c : c = Book'
    OBVIOUS
  <2>3. /\ BookOK(b) /\ b.records = records /\ b.table = table /\ b.requests = requests
        /\ b.reservations = reservations /\ b.released = released /\ b.kept = kept
    BY <1>0, <2>1 DEF Book
  <2>4. /\ c.records = records' /\ c.table = table' /\ c.requests = requests'
        /\ c.reservations = reservations' /\ c.released = released' /\ c.kept = kept'
    BY <2>2 DEF Book
  <2>5. c \in Books
    <3>1. records' \in [Ids -> Record] /\ table' \subseteq Ids
      BY <1>2, <1>3, <1>4
    <3> QED
      BY <1>3, <1>4, <2>2, <3>1 DEF Book, Books
  <2>6. NewRecord(b, c, j, r)
    BY <1>2, <1>3, <2>3, <2>4, <2>5 DEF NewRecord, Pending
  <2>7. Requested(b, c, j, r.reqs)
    BY <1>2, <2>3, <2>4 DEF Requested
  <2>8. c.reservations = b.reservations
    BY <1>3, <2>3, <2>4
  <2>9. BookOK(c)
    BY <1>2, <2>3, <2>6, <2>7, <2>8, NewCallBook
  <2> QED
    BY <2>2, <2>9
<1>7. records[j].kind = None /\ ~IsJob(j) /\ ~IsCall(j)
  BY <1>3, <1>4, NoneAssumption DEF Shape, IsJob, IsCall
<1>8. \A i \in Ids : (records'[i].kind \in Kinds <=> IsJob(i)) /\ (IsJob(i) => i # j)
  BY <1>2, <1>5, <1>7 DEF IsJob, Kinds
<1>9. QueueIsCounted' /\ QueuedJobs' = QueuedJobs
  <2>1. \A i \in Ids : records'[i].state = "queued" <=> records[i].state = "queued"
    BY <1>2, <1>3, <1>5
  <2> QED
    BY <1>0, <1>3, <1>6, <2>1, CountKept
<1>10. QueueHoldsJobs'
  <2>1. \A i \in DOMAIN queue : queue[i] \in Ids \union {None}
    BY <1>0, ElementOfSeq, LenProperties DEF QueueHoldsJobs
  <2> QED
    BY <1>0, <1>3, <1>8, <2>1 DEF QueueHoldsJobs, IsJob
<1>11. WorkerKnows'
  <2>1. \A i \in Ids : IsJob(i) => records'[i] = records[i] /\ records'[i].kind \in Kinds
    BY <1>5, <1>8
  <2> QED
    BY <1>0, <1>3, <2>1, WorkerKept DEF IsPending
<1>12. OneRunningJob'
  BY <1>0, <1>3, <1>5, <1>8 DEF OneRunningJob, IsJob
<1>13. RunningCalls'
  <2>1. \A i \in Ids : i # j => records'[i] = records[i]
    BY <1>5
  <2>2. running' = {i \in Ids : records[i].kind = "call" /\ records[i].state = "running"} \union {j}
    BY <1>0, <1>3 DEF RunningCalls, IsCall
  <2> QED
    BY <1>2, <1>5, <2>1, <2>2 DEF RunningCalls, IsCall
<1>14. Stopping'
  <2>1. \A i \in Ids : stopping \/ broken => records'[i].state # "queued"
    BY <1>0, <1>2, <1>5 DEF Stopping
  <2>2. \A i \in Ids : records'[i].cancel = "shutdown" => stopping
    BY <1>0, <1>2, <1>5, NoneAssumption DEF Stopping
  <2>3. \A i \in Ids : records'[i].kind \in Kinds => records'[i] = records[i] /\ IsJob(i)
    BY <1>5, <1>8
  <2> QED
    BY <1>0, <1>3, <2>1, <2>2, <2>3 DEF Stopping, IsJob
<1>15. NoStrandedJob'
  BY <1>0, <1>3, <1>9 DEF NoStrandedJob, Stopped
<1>16. CancelIsDelivered'
  BY <1>0, <1>2, <1>5 DEF CancelIsDelivered
<1>17. Sleepers'
  BY <1>0 DEF Sleepers, Notify, IsPending
<1> QED
  BY <1>6, <1>9, <1>10, <1>11, <1>12, <1>13, <1>14, <1>15, <1>16, <1>17 DEF ManagerIInv, Machine

LEMMA ClaimCallStep ==
  ASSUME ManagerIInv, NEW fp \in CallPrints, NEW q \in ReqIds, ClaimCall(q, fp)
  PROVE  ManagerIInv'
<1>1. PICK j \in Ids : NewCall(j, fp, {q}) /\ requests' = [requests EXCEPT ![q] = j]
  BY DEF ClaimCall
<1>2. Notify /\ (requests[q] # None => FailedLeavingNothing(requests[q]))
  BY DEF ClaimCall
<1>3. requests[q] # None => GaveUp(records[requests[q]])
  BY <1>2 DEF FailedLeavingNothing, GaveUp, IsCall
<1>4. requests \in [ReqIds -> Ids \union {None}]
  BY InvariantParts, BookFacts
<1>5. requests' \in [ReqIds -> Ids \union {None}]
  BY <1>1, <1>4
<1>6. \E p \in ReqIds : /\ {q} = {p} /\ requests' = [requests EXCEPT ![p] = j]
                        /\ requests[p] # None => GaveUp(records[requests[p]])
  BY <1>1, <1>3
<1> QED
  BY <1>1, <1>2, <1>5, <1>6, NewCallStep

LEMMA DeferCallStep ==
  ASSUME ManagerIInv, NEW fp \in CallPrints, DeferCall(fp)
  PROVE  ManagerIInv'
<1>1. PICK j \in Ids : NewCall(j, fp, {})
  BY DEF DeferCall
<1>2. Notify /\ requests' = requests
  BY DEF DeferCall
<1>3. requests \in [ReqIds -> Ids \union {None}]
  BY InvariantParts, BookFacts
<1> QED
  BY <1>1, <1>2, <1>3, NewCallStep

\* What a job is recorded as, from its request.
JobRecord(q, reqs) ==
  [NoRecord EXCEPT !.kind = q.kind, !.key = q.key, !.fp = q.fp, !.state = "queued", !.reqs = reqs]

LEMMA JobRecordProperties ==
  ASSUME NEW q \in Requests, NEW reqs \in SUBSET ReqIds
  PROVE  LET r == JobRecord(q, reqs) IN
         /\ r \in Record /\ Shape(r) /\ r.state = "queued" /\ r.kind \in Kinds /\ r.kind = q.kind
         /\ r.key = q.key /\ r.reqs = reqs /\ r.cancel = None
<1> DEFINE r == JobRecord(q, reqs)
<1> DEFINE fields == {"kind", "key", "fp", "state", "executing", "cancel", "bound", "told", "err", "out", "reqs", "size"}
<1>1. PICK k, key, fp : k = q.kind /\ key = q.key /\ fp = q.fp
  OBVIOUS
<1>2. k \in Kinds /\ key \in Keys /\ fp \in Prints
  BY <1>1, RequestsAssumption DEF Keys, Prints
<1>3. r = [x \in fields |-> r[x]]
  BY DEF JobRecord, NoRecord
<1>4. /\ NoRecord.cancel = None /\ NoRecord.executing = FALSE /\ NoRecord.bound = FALSE /\ NoRecord.told = FALSE
      /\ NoRecord.err = None /\ NoRecord.out = None /\ NoRecord.size = 0 /\ DOMAIN NoRecord = fields
  BY DEF NoRecord
<1>5. /\ r.kind = k /\ r.key = key /\ r.fp = fp /\ r.state = "queued" /\ r.reqs = reqs
      /\ r.executing = FALSE /\ r.cancel = None /\ r.bound = FALSE /\ r.told = FALSE
      /\ r.err = None /\ r.out = None /\ r.size = 0
  BY <1>1, <1>4 DEF JobRecord
<1> HIDE DEF r
<1>6. r = [kind |-> k, key |-> key, fp |-> fp, state |-> "queued", executing |-> FALSE,
           cancel |-> None, bound |-> FALSE, told |-> FALSE,
           err |-> None, out |-> None, reqs |-> reqs, size |-> 0]
  BY <1>3, <1>5
<1>7. r \in Record
  BY <1>2, <1>6 DEF Record, States, Errors
<1>8. Shape(r)
  <2>1. r.kind # None /\ r.kind # "call"
    BY <1>2, <1>5, NoneAssumption DEF Kinds
  <2> QED
    BY <1>1, <1>5, <2>1 DEF Shape
<1> QED
  BY <1>1, <1>2, <1>5, <1>7, <1>8 DEF r

LEMMA SubmitFacts ==
  ASSUME ManagerIInv, NEW q \in Requests, NEW p \in ReqIds \union {None}, Submit(q, p)
  PROVE  \E j \in Ids, reqs \in SUBSET ReqIds :
           /\ reqs = (IF p = None THEN {} ELSE {p})
           /\ records[j].state = "free" /\ records' = [records EXCEPT ![j] = JobRecord(q, reqs)]
           /\ table' = table \union {j} /\ reservations' = [reservations EXCEPT ![q.key] = j]
           /\ requests' = IF p = None THEN requests ELSE [requests EXCEPT ![p] = j]
           /\ queue' = Append(queue, j)
<1>1. PICK j \in Ids :
        /\ Fresh(j)
        /\ records' = [records EXCEPT ![j] =
             [NoRecord EXCEPT !.kind = q.kind, !.key = q.key, !.fp = q.fp, !.state = "queued",
                              !.reqs = IF p = None THEN {} ELSE {p}]]
        /\ table' = table \union {j}
        /\ reservations' = [reservations EXCEPT ![q.key] = j]
        /\ requests' = IF p = None THEN requests ELSE [requests EXCEPT ![p] = j]
        /\ queue' = Append(queue, j)
  BY DEF Submit
<1>2. PICK reqs \in SUBSET ReqIds : reqs = IF p = None THEN {} ELSE {p}
  OBVIOUS
<1>3. records' = [records EXCEPT ![j] = JobRecord(q, reqs)] /\ records[j].state = "free"
  BY <1>1, <1>2 DEF JobRecord, Fresh
<1> QED
  BY <1>1, <1>2, <1>3

LEMMA SubmitStep ==
  ASSUME ManagerIInv, NEW q \in Requests, NEW p \in ReqIds \union {None}, Submit(q, p)
  PROVE  ManagerIInv'
<1>0. /\ BookOK(Book) /\ QueueHoldsJobs /\ WorkerKnows /\ OneRunningJob /\ RunningCalls /\ Stopping
      /\ QueueIsCounted /\ NoStrandedJob /\ CancelIsDelivered /\ Sleepers
  BY InvariantParts
<1>1. PICK j \in Ids, reqs \in SUBSET ReqIds :
        /\ reqs = (IF p = None THEN {} ELSE {p})
        /\ records[j].state = "free" /\ records' = [records EXCEPT ![j] = JobRecord(q, reqs)]
        /\ table' = table \union {j} /\ reservations' = [reservations EXCEPT ![q.key] = j]
        /\ requests' = IF p = None THEN requests ELSE [requests EXCEPT ![p] = j]
        /\ queue' = Append(queue, j)
  BY SubmitFacts
<1>2. /\ p # None => requests[p] = None
      /\ ~stopping /\ ~broken /\ ~MustJoin(q) /\ queued < QueueLimit /\ queued' = queued + 1
      /\ worker' = IF worker.pc = "off" THEN [worker EXCEPT !.pc = "get"] ELSE worker
      /\ UNCHANGED <<released, kept, running, stopping, broken, shut, inFlight, sleeping>>
  BY DEF Submit
<1>3. PICK r : r = JobRecord(q, reqs)
  OBVIOUS
<1>4. /\ r \in Record /\ Shape(r) /\ r.state = "queued" /\ r.kind \in Kinds /\ r.kind = q.kind
      /\ r.key = q.key /\ r.reqs = reqs /\ r.cancel = None
  BY <1>3, JobRecordProperties
<1>5. /\ Book \in Books /\ records \in [Ids -> Record] /\ table \subseteq Ids
      /\ requests \in [ReqIds -> Ids \union {None}]
      /\ reservations \in [Keys -> Ids \union {None}] /\ released \in Seq(Ids) /\ kept \in Seq(Ids)
      /\ Shape(records[j])
  BY <1>0, BookFacts
<1>6. records'[j] = r /\ \A i \in Ids : i # j => records'[i] = records[i]
  BY <1>1, <1>3, <1>5
<1>7. BookOK(Book)'
  <2>1. PICK b : b = Book
    OBVIOUS
  <2>2. PICK c : c = Book'
    OBVIOUS
  <2>3. /\ BookOK(b) /\ b.records = records /\ b.table = table /\ b.requests = requests
        /\ b.reservations = reservations /\ b.released = released /\ b.kept = kept
    BY <1>0, <2>1 DEF Book
  <2>4. /\ c.records = records' /\ c.table = table' /\ c.requests = requests'
        /\ c.reservations = reservations' /\ c.released = released' /\ c.kept = kept'
    BY <2>2 DEF Book
  <2>5. c \in Books
    <3>1. records' \in [Ids -> Record] /\ table' \subseteq Ids
      BY <1>1, <1>3, <1>4, <1>5
    <3>2. reservations' \in [Keys -> Ids \union {None}] /\ requests' \in [ReqIds -> Ids \union {None}]
      BY <1>1, <1>5
    <3> QED
      BY <1>2, <1>5, <2>2, <3>1, <3>2 DEF Book, Books
  <2>6. NewRecord(b, c, j, r)
    BY <1>1, <1>2, <1>3, <1>4, <2>3, <2>4, <2>5 DEF NewRecord, Pending
  <2>7. Requested(b, c, j, r.reqs)
    BY <1>1, <1>2, <1>4, <2>3, <2>4 DEF Requested
  <2>8. c.reservations = [b.reservations EXCEPT ![r.key] = j]
    BY <1>1, <1>4, <2>3, <2>4
  <2>9. b.reservations[r.key] # None =>
          r.kind # "import" /\ b.records[b.reservations[r.key]].cancel # None
    BY <1>2, <1>4, <2>3 DEF MustJoin, Holder
  <2>10. BookOK(c)
    BY <1>4, <2>3, <2>6, <2>7, <2>8, <2>9, NewJobBook
  <2> QED
    BY <2>2, <2>10
<1>8. records[j].kind = None /\ ~IsJob(j) /\ ~IsCall(j) /\ r.kind # "call"
  BY <1>1, <1>4, <1>5, NoneAssumption DEF Shape, IsJob, IsCall, Kinds
<1>9. \A i \in Ids : IsJob(i) => i # j /\ records'[i] = records[i] /\ records'[i].kind \in Kinds
  BY <1>6, <1>8 DEF IsJob
<1>10. QueuedJobs' = QueuedJobs \union {j} /\ j \notin QueuedJobs
  <2>1. Waiting' = Waiting \union {j} /\ j \notin Waiting
    BY <1>1, <1>4, <1>6 DEF Waiting
  <2> QED
    BY <1>0, <1>7, <2>1, QueuedAreWaiting, WaitingNext
<1>11. QueueIsCounted'
  <2>1. IsFiniteSet(QueuedJobs) /\ Cardinality(QueuedJobs) \in Nat
    BY <1>0, QueuedAreWaiting
  <2>2. Cardinality(QueuedJobs') = Cardinality(QueuedJobs) + 1
    BY <1>10, <2>1, FS_AddElement
  <2> QED
    BY <1>0, <1>2, <2>1, <2>2, LimitsAssumption DEF QueueIsCounted
<1>12. Len(queue) \in Nat /\ DOMAIN queue = 1..Len(queue) /\ queue \in Seq(Ids \union {None})
  BY <1>0, LenProperties DEF QueueHoldsJobs
<1>13. /\ queue' \in Seq(Ids \union {None}) /\ DOMAIN queue' = 1..Len(queue) + 1
       /\ queue'[Len(queue) + 1] = j /\ \A i \in 1..Len(queue) : queue'[i] = queue[i]
  BY <1>1, <1>12, AppendProperties
<1>14. ToSet(queue') = ToSet(queue) \union {j}
  <2>1. \A i \in DOMAIN queue' : i \in DOMAIN queue \/ i = Len(queue) + 1
    BY <1>12, <1>13
  <2>2. Len(queue) + 1 \in DOMAIN queue' /\ \A i \in DOMAIN queue : i \in DOMAIN queue'
    BY <1>12, <1>13
  <2> QED
    BY <1>12, <1>13, <2>1, <2>2 DEF ToSet
<1>15. QueueHoldsJobs'
  <2>1. ASSUME NEW i \in DOMAIN queue'
        PROVE  IF queue'[i] = None THEN stopping' ELSE records'[queue'[i]].kind \in Kinds
    <3>1. CASE i \in 1..Len(queue)
      <4>1. queue'[i] = queue[i] /\ queue[i] \in Ids \union {None}
        BY <1>12, <1>13, <3>1, ElementOfSeq
      <4>2. queue[i] # None /\ IsJob(queue[i])
        BY <1>0, <1>2, <1>12, <3>1 DEF QueueHoldsJobs
      <4> QED
        BY <1>9, <4>1, <4>2
    <3>2. CASE i = Len(queue) + 1
      BY <1>4, <1>6, <1>13, <3>2, NoneAssumption
    <3> QED
      BY <1>12, <1>13, <3>1, <3>2
  <2> QED
    BY <1>13, <2>1 DEF QueueHoldsJobs, IsJob
<1>16. WorkerKnows'
  <2>1. CASE worker.pc = "off"
    <3>1. worker' = [pc |-> "get", id |-> worker.id, err |-> worker.err, out |-> worker.out]
      BY <1>0, <1>2, <2>1, WorkerTypes
    <3> QED
      BY <1>0, <3>1, WorkerTypes DEF WorkerKnows, Pcs
  <2>2. CASE worker.pc # "off"
    BY <1>0, <1>2, <1>9, <2>2, WorkerKept DEF IsPending
  <2> QED
    BY <2>1, <2>2
<1>17. OneRunningJob'
  <2>1. ASSUME NEW i \in Ids, records'[i].kind \in Kinds, records'[i].state = "running"
        PROVE  worker.id = i /\ worker.pc \in {"run", "back", "shown", "crashed"}
    <3>1. i # j /\ records'[i] = records[i]
      BY <1>4, <1>6, <2>1
    <3> QED
      BY <1>0, <2>1, <3>1 DEF OneRunningJob, IsJob
  <2>2. ASSUME NEW i \in Ids, records'[i].kind \in Kinds, records'[i].state = "running"
        PROVE  worker'.id = i /\ worker'.pc \in {"run", "back", "shown", "crashed"}
    BY <1>2, <2>1, <2>2
  <2> QED
    BY <2>2 DEF OneRunningJob, IsJob
<1>18. RunningCalls'
  <2>1. \A i \in Ids : records'[i].kind = "call" /\ records'[i].state = "running"
                       <=> records[i].kind = "call" /\ records[i].state = "running"
    BY <1>1, <1>4, <1>6, <1>8
  <2> QED
    BY <1>0, <1>2, <2>1 DEF RunningCalls, IsCall
<1>19. Stopping'
  <2>1. \A i \in Ids : records'[i].cancel # "shutdown"
    BY <1>0, <1>2, <1>4, <1>6, NoneAssumption DEF Stopping
  <2>2. shut' = "no"
    BY <1>0, <1>2 DEF Stopping
  <2> QED
    BY <1>2, <2>1, <2>2 DEF Stopping
<1>20. NoStrandedJob'
  <2>1. worker.pc \notin {"exited", "dead"}
    BY <1>0, <1>2 DEF WorkerKnows
  <2>2. worker'.pc \notin {"off", "exited", "dead"}
    <3>1. CASE worker.pc = "off"
      BY <1>0, <1>2, <3>1, WorkerTypes DEF Pcs
    <3>2. CASE worker.pc # "off"
      BY <1>2, <2>1, <3>2
    <3> QED
      BY <3>1, <3>2
  <2>3. ASSUME NEW i \in QueuedJobs
        PROVE  i \in ToSet(queue) \/ (worker'.pc = "got" /\ worker'.id = i) \/ worker'.pc = "crashed"
    <3>1. worker.pc # "off"
      BY <1>0 DEF NoStrandedJob, Stopped
    <3> QED
      BY <1>0, <1>2, <3>1 DEF NoStrandedJob
  <2> QED
    BY <1>10, <1>14, <2>2, <2>3 DEF NoStrandedJob, Stopped
<1>21. CancelIsDelivered'
  BY <1>0, <1>4, <1>6 DEF CancelIsDelivered
<1>22. Sleepers'
  <2>1. \A i \in sleeping : i \in Ids /\ records[i].state \in Pending
    BY <1>0 DEF Sleepers, IsPending
  <2>2. \A i \in sleeping : i # j
    BY <1>1, <2>1 DEF Pending
  <2> QED
    BY <1>2, <1>6, <2>1, <2>2 DEF Sleepers, IsPending
<1> QED
  BY <1>7, <1>11, <1>15, <1>16, <1>17, <1>18, <1>19, <1>20, <1>21, <1>22 DEF ManagerIInv, Machine

\* A pending job is given another request_id, unknown so far.
Adopted(b, c, j, p, r) ==
  /\ j \in b.table /\ p \in ReqIds /\ b.requests[p] = None /\ b.records[j].state \in Pending
  /\ r \in Record /\ r = [b.records[j] EXCEPT !.reqs = @ \union {p}]
  /\ c \in Books /\ c.records = [b.records EXCEPT ![j] = r] /\ c.requests = [b.requests EXCEPT ![p] = j]
  /\ c.table = b.table /\ c.reservations = b.reservations /\ c.released = b.released /\ c.kept = b.kept

LEMMA AdoptBook ==
  ASSUME NEW b, BookOK(b), NEW c, NEW j, NEW p, NEW r, Adopted(b, c, j, p, r)
  PROVE  BookOK(c)
<1>0. /\ j \in b.table /\ p \in ReqIds /\ b.requests[p] = None /\ b.records[j].state \in Pending
      /\ r \in Record /\ r = [b.records[j] EXCEPT !.reqs = @ \union {p}]
      /\ c \in Books /\ c.records = [b.records EXCEPT ![j] = r] /\ c.requests = [b.requests EXCEPT ![p] = j]
      /\ c.table = b.table /\ c.reservations = b.reservations /\ c.released = b.released /\ c.kept = b.kept
  BY DEF Adopted
<1>1. /\ b \in Books /\ (\A i \in Ids : Shape(b.records[i])) /\ Tabled(b) /\ ReleasedOnce(b) /\ Reserved(b)
      /\ Resends(b) /\ KeptOnce(b)
  BY DEF BookOK, TypedBook
<1>2. /\ b.records \in [Ids -> Record] /\ b.table \subseteq Ids /\ b.released \in Seq(Ids)
      /\ b.requests \in [ReqIds -> Ids \union {None}]
  BY <1>0, <1>1, BookTypes
<1>3. /\ r.kind = b.records[j].kind /\ r.key = b.records[j].key /\ r.state = b.records[j].state
      /\ r.executing = b.records[j].executing /\ r.cancel = b.records[j].cancel /\ r.bound = b.records[j].bound /\ r.size = b.records[j].size
      /\ r.err = b.records[j].err /\ r.out = b.records[j].out /\ r.reqs = b.records[j].reqs \union {p}
  BY <1>0, <1>2 DEF Record
<1>4. c.records[j] = r /\ \A i \in Ids : i # j => c.records[i] = b.records[i]
  BY <1>0, <1>2
<1>5. \A i \in Ids :
        /\ c.records[i].kind = b.records[i].kind /\ c.records[i].key = b.records[i].key
        /\ c.records[i].state = b.records[i].state /\ c.records[i].cancel = b.records[i].cancel
        /\ c.records[i].err = b.records[i].err /\ c.records[i].out = b.records[i].out
        /\ c.records[i].size = b.records[i].size
  BY <1>0, <1>3, <1>4
<1>6. TypedBook(c)
  <2>1. Shape(r)
    <3>1. r.state # "free"
      BY <1>0, <1>3 DEF Pending
    <3> QED
      BY <1>0, <1>1, <1>2, <1>3, <3>1 DEF Shape
  <2> QED
    BY <1>0, <1>1, <1>4, <2>1 DEF TypedBook
<1>7. Tabled(c)
  BY <1>0, <1>1, <1>2, <1>5 DEF Tabled
<1>8. ReleasedOnce(c)
  <2>1. \A i \in DOMAIN c.released : c.released[i] \in Ids
    BY <1>0, <1>2, ElementOfSeq, LenProperties
  <2> QED
    BY <1>0, <1>1, <1>5, <2>1 DEF ReleasedOnce
<1>9. Reserved(c)
  BY <1>0, <1>1, <1>2, <1>5, SMTT(60) DEF Reserved
<1>10. KeptOnce(c)
  BY <1>0, <1>1, <1>5 DEF KeptOnce
<1>11. Resends(c)
  <2>1. c.requests[p] = j /\ \A q \in ReqIds : q # p => c.requests[q] = b.requests[q]
    BY <1>0, <1>2
  <2>2. \A i \in b.table : GaveUp(c.records[i]) <=> GaveUp(b.records[i])
    BY <1>0, <1>2, <1>5 DEF GaveUp
  <2>3. \A i \in b.table : b.records[i].reqs \subseteq ReqIds /\ i # None
    BY <1>0, <1>2, RecordTypes, NoneAssumption
  <2>4. \A i \in b.table : i # j => c.records[i].reqs = b.records[i].reqs
    BY <1>0, <1>2, <1>4
  <2>5. /\ \A q \in ReqIds : b.requests[q] # None => b.requests[q] \in b.table /\ q \in b.records[b.requests[q]].reqs
        /\ \A i \in b.table : \A q \in b.records[i].reqs : b.requests[q] = i \/ GaveUp(b.records[i])
    BY <1>1 DEF Resends
  <2>6. ASSUME NEW q \in ReqIds, c.requests[q] # None
        PROVE  c.requests[q] \in c.table /\ q \in c.records[c.requests[q]].reqs
    <3>1. CASE q = p
      BY <1>0, <1>3, <1>4, <2>1, <3>1
    <3>2. CASE q # p
      <4>1. b.requests[q] \in b.table /\ q \in b.records[b.requests[q]].reqs /\ c.requests[q] = b.requests[q]
        BY <1>0, <2>1, <2>5, <2>6, <3>2
      <4> QED
        BY <1>0, <1>3, <1>4, <2>4, <4>1
    <3> QED
      BY <3>1, <3>2
  <2>7. ASSUME NEW i \in c.table, NEW q \in c.records[i].reqs
        PROVE  c.requests[q] = i \/ GaveUp(c.records[i])
    <3>1. CASE i = j /\ q = p
      BY <1>0, <2>1, <3>1
    <3>2. CASE ~(i = j /\ q = p)
      <4>1. q \in b.records[i].reqs /\ q \in ReqIds
        BY <1>0, <1>3, <1>4, <2>3, <2>4, <2>7, <3>2
      <4>2. b.requests[q] = i \/ GaveUp(b.records[i])
        BY <1>0, <2>5, <2>7, <4>1
      <4> QED
        BY <1>0, <2>1, <2>2, <2>3, <2>7, <4>1, <4>2
    <3> QED
      BY <3>1, <3>2
  <2> QED
    BY <2>6, <2>7 DEF Resends
<1> QED
  BY <1>6, <1>7, <1>8, <1>9, <1>10, <1>11 DEF BookOK

LEMMA JoinStep ==
  ASSUME ManagerIInv, NEW q \in Requests, NEW p \in ReqIds \union {None}, Join(q, p)
  PROVE  ManagerIInv'
<1>0. /\ BookOK(Book) /\ QueueHoldsJobs /\ WorkerKnows /\ OneRunningJob /\ RunningCalls /\ Stopping
      /\ QueueIsCounted /\ NoStrandedJob /\ CancelIsDelivered /\ Sleepers
  BY InvariantParts
<1>1. PICK j : j = Holder(q)
  OBVIOUS
<1>2. /\ p \in ReqIds /\ requests[p] = None /\ j # None /\ IsPending(j) /\ requests' = [requests EXCEPT ![p] = j]
      /\ records' = [records EXCEPT ![j].reqs = @ \union {p}]
      /\ UNCHANGED <<table, reservations, released, kept, queue, queued, running, worker, stopping,
                     broken, shut, inFlight, sleeping>>
  BY <1>1 DEF Join, MustJoin, Adopt
<1>3. /\ Book \in Books /\ records \in [Ids -> Record] /\ table \subseteq Ids
      /\ requests \in [ReqIds -> Ids \union {None}]
      /\ reservations \in [Keys -> Ids \union {None}] /\ released \in Seq(Ids) /\ kept \in Seq(Ids)
      /\ \A i \in Ids : IsPending(i) => i \in table
  BY <1>0, BookFacts
<1>4. j \in Ids /\ j \in table
  <2>1. q.key \in Keys
    BY DEF Keys
  <2>2. j \in Ids
    BY <1>1, <1>2, <1>3, <2>1 DEF Holder
  <2> QED
    BY <1>2, <1>3, <2>2
<1>5. PICK r : r = [records[j] EXCEPT !.reqs = @ \union {p}]
  OBVIOUS
<1>6. r \in Record /\ r.size = records[j].size /\ r.state = records[j].state /\ r.kind = records[j].kind
      /\ r.cancel = records[j].cancel /\ r.executing = records[j].executing /\ r.bound = records[j].bound
      /\ r.told = records[j].told
  <2>1. PICK s : s = records[j]
    OBVIOUS
  <2>2. PICK t \in SUBSET ReqIds : t = s.reqs \union {p}
    BY <1>2, <1>3, <1>4, <2>1, RecordTypes
  <2>3. s \in Record /\ r = [s EXCEPT !.reqs = t]
    BY <1>3, <1>4, <1>5, <2>1, <2>2
  <2> QED
    BY <2>1, <2>3 DEF Record
<1>7. records' = [records EXCEPT ![j] = r]
  BY <1>2, <1>3, <1>4, <1>5
<1>8. records' \in [Ids -> Record] /\ records'[j] = r /\ \A i \in Ids : i # j => records'[i] = records[i]
  BY <1>3, <1>4, <1>6, <1>7
<1>9. BookOK(Book)'
  <2>1. PICK b : b = Book
    OBVIOUS
  <2>2. PICK c : c = Book'
    OBVIOUS
  <2>3. /\ BookOK(b) /\ b.records = records /\ b.table = table /\ b.requests = requests
        /\ b.reservations = reservations /\ b.released = released /\ b.kept = kept
    BY <1>0, <2>1 DEF Book
  <2>4. /\ c.records = records' /\ c.table = table' /\ c.requests = requests'
        /\ c.reservations = reservations' /\ c.released = released' /\ c.kept = kept'
    BY <2>2 DEF Book
  <2>5. c \in Books
    <3>1. requests' \in [ReqIds -> Ids \union {None}]
      BY <1>2, <1>3, <1>4
    <3> QED
      BY <1>2, <1>3, <1>8, <2>2, <3>1 DEF Book, Books
  <2>6. Adopted(b, c, j, p, r)
    BY <1>2, <1>4, <1>5, <1>6, <1>7, <2>3, <2>4, <2>5 DEF Adopted, IsPending
  <2>7. BookOK(c)
    BY <2>3, <2>6, AdoptBook
  <2> QED
    BY <2>2, <2>7
<1>10. \A i \in Ids :
         /\ records'[i].kind = records[i].kind /\ records'[i].state = records[i].state
         /\ records'[i].cancel = records[i].cancel /\ records'[i].executing = records[i].executing
         /\ records'[i].bound = records[i].bound /\ records'[i].told = records[i].told
  BY <1>6, <1>8
<1>11. QueueHoldsJobs'
  BY <1>0, <1>2, <1>10, QueueKept
<1>12. QueueIsCounted' /\ QueuedJobs' = QueuedJobs
  BY <1>0, <1>2, <1>9, <1>10, CountKept
<1>13. WorkerKnows'
  <2>1. \A i \in Ids : IsJob(i) => records'[i].kind \in Kinds
    BY <1>10 DEF IsJob
  <2> QED
    BY <1>0, <1>2, <1>10, <2>1, WorkerKept DEF IsPending
<1>14. OneRunningJob' /\ RunningCalls'
  BY <1>0, <1>2, <1>10 DEF OneRunningJob, RunningCalls, IsJob, IsCall
<1>15. Stopping'
  BY <1>0, <1>2, <1>10 DEF Stopping, IsJob
<1>16. NoStrandedJob'
  BY <1>0, <1>2, <1>12 DEF NoStrandedJob, Stopped
<1>17. CancelIsDelivered'
  BY <1>0, <1>10 DEF CancelIsDelivered
<1>18. Sleepers'
  BY <1>0, <1>2, <1>10 DEF Sleepers, IsPending
<1> QED
  BY <1>9, <1>11, <1>12, <1>13, <1>14, <1>15, <1>16, <1>17, <1>18 DEF ManagerIInv, Machine

-----------------------------------------------------------------------------
(* The invariant holds at first and every step keeps it                    *)

LEMMA NoRecordProperties == NoRecord \in Record /\ Shape(NoRecord)
<1>1. NoRecord \in Record
  <2>1. PICK r : r = NoRecord
    OBVIOUS
  <2>2. r = [kind |-> None, key |-> None, fp |-> None, state |-> "free", executing |-> FALSE,
             cancel |-> None, bound |-> FALSE, told |-> FALSE,
             err |-> None, out |-> None, reqs |-> {}, size |-> 0]
    BY <2>1 DEF NoRecord
  <2>3. r \in Record
    BY <2>2 DEF Record, Prints, States, Errors
  <2> QED
    BY <2>1, <2>3
<1>2. NoRecord.kind \notin Kinds /\ NoRecord.kind # "call"
  BY NoneAssumption DEF NoRecord
<1> QED
  BY <1>1, <1>2 DEF Shape, NoRecord, Pending

LEMMA InitBook == Init => BookOK(Book)
<1> SUFFICES ASSUME Init PROVE BookOK(Book)
  OBVIOUS
<1>1. PICK b : b = Book
  OBVIOUS
<1>2. /\ b.records = [id \in Ids |-> NoRecord] /\ b.table = {} /\ b.requests = [r \in ReqIds |-> None]
      /\ b.reservations = [k \in Keys |-> None] /\ b.released = <<>> /\ b.kept = <<>>
      /\ b \in Books
  <2>1. records \in [Ids -> Record]
    BY NoRecordProperties DEF Init
  <2>2. <<>> \in Seq(Ids)
    BY EmptySeq
  <2> QED
    BY <1>1, <2>1, <2>2 DEF Init, Book, Books
<1>3. \A i \in Ids : b.records[i] = NoRecord
  BY <1>2
<1>4. NoRecord.state = "free" /\ NoRecord.size = 0 /\ NoRecord.kind \notin Kinds
  BY NoneAssumption DEF NoRecord
<1>5. TypedBook(b) /\ Tabled(b)
  BY <1>2, <1>3, <1>4, NoRecordProperties DEF TypedBook, Tabled, Pending
<1>6. DOMAIN <<>> = {} /\ Len(<<>>) = 0 /\ ToSet(<<>>) = {}
  BY EmptySeq DEF ToSet
<1>7. ReleasedOnce(b) /\ KeptOnce(b)
  BY <1>2, <1>3, <1>4, <1>6, LimitsAssumption DEF ReleasedOnce, KeptOnce, Distinct
<1>8. Reserved(b)
  BY <1>2, <1>3, <1>4 DEF Reserved, Kinds
<1>9. Resends(b)
  BY <1>2 DEF Resends
<1> QED
  BY <1>1, <1>5, <1>7, <1>8, <1>9 DEF BookOK

LEMMA InitHolds == Init => ManagerIInv
<1> SUFFICES ASSUME Init PROVE ManagerIInv
  OBVIOUS
<1>1. BookOK(Book)
  BY InitBook
<1>2. \A i \in Ids : records[i].state = "free" /\ records[i].kind \notin Kinds /\ records[i].cancel = None
                     /\ ~records[i].bound
  BY NoneAssumption DEF Init, NoRecord
<1>3. QueuedJobs = {} /\ Cardinality(QueuedJobs) = 0
  <2>1. QueuedJobs = {}
    BY DEF QueuedJobs, Init
  <2> QED
    BY <2>1, FS_EmptySet
<1>4. QueueHoldsJobs
  <2>1. <<>> \in Seq(Ids \union {None}) /\ DOMAIN <<>> = {}
    BY EmptySeq
  <2> QED
    BY <2>1 DEF Init, QueueHoldsJobs
<1>5. WorkerKnows
  BY DEF Init, WorkerKnows, Pcs, Errors
<1>6. OneRunningJob /\ RunningCalls
  BY <1>2 DEF Init, OneRunningJob, RunningCalls, IsJob
<1>7. Stopping
  BY <1>2, NoneAssumption DEF Init, Stopping
<1>8. QueueIsCounted /\ NoStrandedJob
  BY <1>3, LimitsAssumption DEF Init, QueueIsCounted, NoStrandedJob
<1>9. CancelIsDelivered /\ Sleepers
  BY <1>2 DEF Init, CancelIsDelivered, Sleepers
<1> QED
  BY <1>1, <1>4, <1>5, <1>6, <1>7, <1>8, <1>9 DEF ManagerIInv, Machine

LEMMA StutterKeeps == ManagerIInv /\ UNCHANGED vars => ManagerIInv'
<1> SUFFICES ASSUME ManagerIInv, UNCHANGED vars PROVE ManagerIInv'
  OBVIOUS
<1>1. UNCHANGED <<tables, queue, queued, running, worker, stopping, broken, shut, sleeping>>
  BY DEF vars
<1>2. Stopping /\ Sleepers
  BY InvariantParts
<1>3. records' = records
  BY <1>1 DEF tables
<1>4. Stopping' /\ Sleepers'
  BY <1>1, <1>2, <1>3 DEF Stopping, Sleepers, IsJob, IsPending
<1> QED
  BY <1>1, <1>4, SameWorker

LEMMA StepKeeps == ManagerIInv /\ [Next]_vars => ManagerIInv'
<1> SUFFICES ASSUME ManagerIInv, [Next]_vars PROVE ManagerIInv'
  OBVIOUS
<1>1. CASE Worker
  <2>1. CASE Dequeue \/ IdleTimeout \/ IdleExit \/ Start \/ Begin
    BY <2>1, DequeueStep, IdleTimeoutStep, IdleExitStep, StartStep, BeginStep
  <2>2. CASE Refused \/ Classify \/ NextJob \/ Break
    BY <2>2, RefusedStep, ClassifyStep, NextJobStep, BreakStep
  <2>3. ASSUME NEW bind \in BOOLEAN, BindCancel(bind) PROVE ManagerIInv'
    BY <2>3, BindCancelStep
  <2>4. ASSUME NEW o \in Outcomes, Return(o[1], o[2]) PROVE ManagerIInv'
    BY <2>4, ReturnStep
  <2>5. ASSUME NEW size \in Sizes, Finish(size) PROVE ManagerIInv'
    BY <2>5, FinishStep
  <2> QED
    BY <1>1, <2>1, <2>2, <2>3, <2>4, <2>5 DEF Worker
<1>2. CASE Client
  <2>1. ASSUME NEW q \in Requests, NEW r \in ReqIds \union {None}, Submit(q, r) \/ Join(q, r) PROVE ManagerIInv'
    BY <2>1, SubmitStep, JoinStep
  <2>2. ASSUME NEW id \in Ids, Cancel(id) PROVE ManagerIInv'
    BY <2>2, CancelStep
  <2>3. ASSUME NEW id \in Awaited, WaitFor(id) PROVE ManagerIInv'
    BY <2>3, WaitForStep
  <2> QED
    BY <1>2, <2>1, <2>2, <2>3 DEF Client
<1>3. CASE Call
  <2>1. ASSUME NEW fp \in CallPrints, DeferCall(fp) PROVE ManagerIInv'
    BY <2>1, DeferCallStep
  <2>2. ASSUME NEW fp \in CallPrints, NEW r \in ReqIds, ClaimCall(r, fp) PROVE ManagerIInv'
    BY <2>2, ClaimCallStep
  <2>3. ASSUME NEW id \in Ids, NEW o \in CallOutcomes, NEW size \in Sizes, FinishCall(id, o[1], o[2], size)
        PROVE  ManagerIInv'
    BY <2>3, FinishCallStep
  <2> QED
    BY <1>3, <2>1, <2>2, <2>3 DEF Call
<1>4. CASE Crash \/ TrackCall \/ UntrackCall \/ Shutdown \/ Joined \/ CallsDone
  BY <1>4, CrashStep, ClosingSteps, ShutdownStep
<1> QED
  BY <1>1, <1>2, <1>3, <1>4, StutterKeeps DEF Next

LEMMA ManagerHolds == Spec => []ManagerIInv
<1>1. ManagerIInv /\ [Next]_vars => ManagerIInv'
  BY StepKeeps
<1> QED
  BY <1>1, InitHolds, PTL DEF Spec

LEMMA QueueParts == ManagerIInv => QueueInvariant
<1> SUFFICES ASSUME ManagerIInv PROVE QueueInvariant
  OBVIOUS
<1>0. /\ BookOK(Book) /\ QueueHoldsJobs /\ WorkerKnows /\ OneRunningJob /\ RunningCalls /\ Stopping
      /\ QueueIsCounted /\ NoStrandedJob /\ CancelIsDelivered /\ Sleepers
  BY InvariantParts
<1>1. TypeOK
  <2>1. /\ records \in [Ids -> Record] /\ table \subseteq Ids
        /\ requests \in [ReqIds -> Ids \union {None}] /\ reservations \in [Keys -> Ids \union {None}]
        /\ \A id \in Ids : records[id] \in Record /\ IsPending(id) => id \in table
    BY <1>0, BookFacts
  <2>2. \A id \in Ids : /\ records[id].kind \in Kinds \union {None, "call"}
                        /\ records[id].state \in {"free", "failed", "succeeded"} \union Pending
                        /\ records[id].reqs \subseteq ReqIds
                        /\ records[id].out \in Outputs \union {None}
    <3>1. ASSUME NEW id \in Ids
          PROVE  /\ records[id].kind \in Kinds \union {None, "call"} /\ records[id].state \in States
                 /\ records[id].reqs \subseteq ReqIds /\ records[id].out \in Outputs \union {None}
      BY <2>1, RecordTypes
    <3> QED
      BY <3>1 DEF States, Pending
  <2>3. running \subseteq table
    BY <1>0, <2>1, BookFacts DEF RunningCalls, IsPending, Pending
  <2>4. sleeping \subseteq Ids
    BY <1>0 DEF Sleepers
  <2>5. queued \in Nat
    BY <1>0, QueuedAreWaiting DEF QueueIsCounted
  <2>6. worker.id \in Ids \union {None}
    BY <1>0, WorkerTypes
  <2> QED
    BY <2>1, <2>2, <2>3, <2>4, <2>5, <2>6 DEF TypeOK
<1>2. NoForgottenWaiter
  BY <1>0 DEF Sleepers, NoForgottenWaiter
<1>3. ShutdownIsQuiet
  <2>1. ASSUME shut = "closed", NEW id \in Ids, IsPending(id), ~IsCall(id)
        PROVE  records[id].kind = "script" /\ records[id].cancel # None
    <3>1. stopping /\ records[id].state = "running"
      BY <1>0, <2>1 DEF Stopping, IsPending, Pending
    <3>2. IsJob(id)
      <4>1. records[id] \in Record /\ Shape(records[id])
        BY <1>0, BookFacts
      <4>2. records[id].kind # None /\ records[id].kind # "call"
        BY <2>1, <3>1, <4>1 DEF Shape, IsCall
      <4> QED
        BY <4>1, <4>2, RecordTypes DEF IsJob
    <3> QED
      BY <1>0, <2>1, <3>1, <3>2 DEF Stopping
  <2> QED
    BY <2>1 DEF ShutdownIsQuiet
<1> QED
  BY <1>0, <1>1, <1>2, <1>3 DEF QueueInvariant

LEMMA RecordParts == ManagerIInv => RecordsInvariant
<1> SUFFICES ASSUME ManagerIInv PROVE RecordsInvariant
  OBVIOUS
<1>1. BookOK(Book)
  BY InvariantParts
<1>2. PICK b : b = Book
  OBVIOUS
<1>3. /\ b.records = records /\ b.table = table /\ b.requests = requests
      /\ b.reservations = reservations /\ b.released = released /\ b.kept = kept
  BY <1>2 DEF Book
<1>4. /\ TypedBook(b) /\ Tabled(b) /\ ReleasedOnce(b) /\ Reserved(b) /\ Resends(b) /\ KeptOnce(b)
  BY <1>1, <1>2 DEF BookOK
<1>5. /\ table \subseteq Ids /\ released \in Seq(Ids) /\ (\A id \in Ids : records[id] \in Record /\ Shape(records[id]))
      /\ \A id \in Ids : IsPending(id) => id \in table
  BY <1>1, BookFacts
<1>6. ImportNamesAreExclusive
  <2>1. ASSUME NEW id \in Ids, Claims(id)
        PROVE  id \in table /\ reservations[records[id].key] = id
    <3>1. id \in table /\ reservations[records[id].key] = id
      <4>1. /\ records[id].kind = "import"
            /\ records[id].state \in Pending \/ (records[id].state = "failed" /\ records[id].out # "absent")
        BY <2>1 DEF Claims, IsPending
      <4>2. reservations[records[id].key] = id
        BY <1>3, <1>4, <4>1 DEF Reserved
      <4>3. records[id].key \in Keys
        BY <1>5, <4>1, KeysOfJobs DEF Kinds
      <4>4. id # None
        BY NoneAssumption
      <4> QED
        BY <1>3, <1>4, <4>2, <4>3, <4>4 DEF Reserved
    <3> QED
      BY <3>1
  <2> QED
    BY <2>1 DEF ImportNamesAreExclusive
<1>7. OneUncancelledJobPerClaim
  <2>1. \A i \in table : ~IsCall(i) /\ IsPending(i) => records[i].kind \in Kinds
    <3>1. ASSUME NEW i \in table, ~IsCall(i), IsPending(i) PROVE records[i].kind \in Kinds
      <4>1. records[i] \in Record /\ Shape(records[i]) /\ records[i].state # "free"
        BY <1>5, <3>1 DEF IsPending, Pending
      <4> QED
        BY <3>1, <4>1, RecordTypes DEF Shape, IsCall
    <3> QED
      BY <3>1
  <2>2. ASSUME NEW i \in table, NEW j \in table, ~IsCall(i), ~IsCall(j), records[i].key = records[j].key,
               IsPending(i), IsPending(j), records[i].cancel = None, records[j].cancel = None
        PROVE  i = j
    <3>1. reservations[records[i].key] = i
      BY <1>3, <1>4, <1>5, <2>1, <2>2 DEF Reserved, IsPending
    <3>2. reservations[records[j].key] = j
      BY <1>3, <1>4, <1>5, <2>1, <2>2 DEF Reserved, IsPending
    <3> QED
      BY <2>2, <3>1, <3>2
  <2> QED
    BY <2>2 DEF OneUncancelledJobPerClaim
<1>8. ResendFindsItsRecord
  BY <1>3, <1>4 DEF Resends, ResendFindsItsRecord, GaveUp, FailedLeavingNothing, IsCall
<1>9. HistoryIsSound
  <2>1. /\ Distinct(released) /\ Len(released) <= HistoryLimit
        /\ \A i \in DOMAIN released : released[i] \in table /\ records[released[i]].state \notin Pending
    BY <1>3, <1>4 DEF ReleasedOnce
  <2>2. Distinct(kept) /\ \A id \in Ids : records[id].size > 0 <=> id \in ToSet(kept)
    BY <1>3, <1>4 DEF KeptOnce
  <2>3. \A k \in Keys : reservations[k] # None => reservations[k] \in table
    BY <1>3, <1>4 DEF Reserved
  <2> QED
    BY <1>5, <2>1, <2>2, <2>3 DEF HistoryIsSound, Distinct, IsPending
<1> QED
  BY <1>6, <1>7, <1>8, <1>9 DEF RecordsInvariant, ClaimsAreExclusive

\* The queue and its worker, whatever the clients, the calls and the runtime do:
\* the count that admission is limited by is the number of queued jobs and within
\* the limit, an accepted job is on its way to a live worker, a request to cancel
\* reaches the cancel a running job has bound whichever came first, nobody sleeps
\* on a record that has ended, and once shutdown closes the projects nothing is
\* pending but a script that was told to stop (_queued, _work, cancel,
\* _bind_cancel, wait_for and shutdown of OperationManager).
THEOREM QueueHolds == Spec => []QueueInvariant
BY ManagerHolds, QueueParts, PTL

\* An import's name has one owner until nothing of it is left, any other claim
\* one job that nobody asked to cancel, and a request_id one record for as long
\* as the record exists; eviction takes ended records only, each once, and leaves
\* no claim and no kept payload behind (_reserve, _replay_locked,
\* _release_locked, _keep_payload_locked, claim_call).
THEOREM RecordsHold == Spec => []RecordsInvariant
BY ManagerHolds, RecordParts, PTL

-----------------------------------------------------------------------------
(* The payloads fit (Total).  A total is the last of the sums of its first   *)
(* sizes; what embeds in a list, each size no greater, has no greater total.  *)

IsSum(t, n, size) ==
  /\ t \in [0..n -> Nat] /\ t[0] = 0
  /\ \A i \in 1..n : t[i] = t[i - 1] + size[i]

LEMMA SumExists ==
  ASSUME NEW n \in Nat, NEW size \in [1..n -> Nat]
  PROVE  \E t : IsSum(t, n, size)
<1> DEFINE Has(m) == \E t : IsSum(t, m, size)
           Bad == {k \in 0..n : ~Has(k)}
<1>0. SUFFICES ASSUME ~Has(n) PROVE FALSE
  OBVIOUS
<1> HIDE DEF Has
<1>1. Bad \subseteq Nat /\ Bad # {}
  BY <1>0
<1>2. PICK m \in 0..n : ~Has(m) /\ \A k \in 0..n : ~Has(k) => m <= k
  BY <1>1, LeastNatural
<1> USE DEF Has
<1>3. m # 0
  <2>1. IsSum([i \in 0..0 |-> 0], 0, size)
    BY DEF IsSum
  <2> QED
    BY <1>2, <2>1
<1>4. m - 1 \in 0..n /\ ~(m <= m - 1)
  BY <1>3
<1>5. PICK t : IsSum(t, m - 1, size)
  BY <1>2, <1>4
<1> DEFINE u == [i \in 0..m |-> IF i = m THEN t[m - 1] + size[m] ELSE t[i]]
<1>6. IsSum(u, m, size)
  <2>1. t \in [0..m - 1 -> Nat] /\ t[0] = 0 /\ \A i \in 1..m - 1 : t[i] = t[i - 1] + size[i]
    BY <1>5 DEF IsSum
  <2>2. \A i \in 0..m : (i = m \/ i \in 0..m - 1) /\ u[i] = IF i = m THEN t[m - 1] + size[m] ELSE t[i]
    BY <1>4
  <2>3. u \in [0..m -> Nat] /\ u[0] = 0
    BY <1>3, <1>4, <2>1
  <2>4. \A i \in 1..m : u[i] = u[i - 1] + size[i]
    BY <1>4, <2>1, <2>2
  <2> QED
    BY <2>3, <2>4 DEF IsSum
<1> QED
  BY <1>2, <1>6

SizesOf(b, s) == [i \in 1..Len(s) |-> b.records[s[i]].size]

LEMMA TotalIsASum ==
  ASSUME NEW b, NEW s, Len(s) \in Nat, SizesOf(b, s) \in [1..Len(s) -> Nat]
  PROVE  \E t : IsSum(t, Len(s), SizesOf(b, s)) /\ Total(b, s) = t[Len(s)]
<1> DEFINE n == Len(s)
           x == SizesOf(b, s)
           Is(t) == t = [i \in 0..n |-> IF i = 0 THEN 0 ELSE t[i - 1] + b.records[s[i]].size]
           u == CHOOSE t : Is(t)
<1>1. Total(b, s) = u[n]
  BY DEF Total
<1>2. \A i \in 1..n : x[i] = b.records[s[i]].size /\ x[i] \in Nat
  BY DEF SizesOf
<1> HIDE DEF n, x
<1>3. PICK t : IsSum(t, n, x)
  BY SumExists DEF n, x
<1>4. Is(t)
  <2>1. t = [i \in 0..n |-> t[i]]
    BY <1>3 DEF IsSum
  <2>2. ASSUME NEW i \in 0..n PROVE t[i] = IF i = 0 THEN 0 ELSE t[i - 1] + b.records[s[i]].size
    <3>1. CASE i = 0
      BY <1>3, <3>1 DEF IsSum
    <3>2. CASE i # 0
      <4>1. i \in 1..n
        BY <3>2 DEF n
      <4> QED
        BY <1>2, <1>3, <3>2, <4>1 DEF IsSum
    <3> QED
      BY <3>1, <3>2
  <2> QED
    BY <2>1, <2>2
<1>5. Is(u)
  BY <1>4
<1> HIDE DEF u
<1>6. DOMAIN u = 0..n /\ u[0] = 0 /\ \A i \in 1..n : u[i] = u[i - 1] + x[i]
  <2>1. \A i \in 0..n : u[i] = IF i = 0 THEN 0 ELSE u[i - 1] + b.records[s[i]].size
    BY <1>5
  <2>2. 0 \in 0..n /\ \A i \in 1..n : i \in 0..n /\ i # 0
    BY DEF n
  <2> QED
    BY <1>2, <1>5, <2>1, <2>2
<1>7. \A i \in 0..n : u[i] \in Nat
  <2> DEFINE Bad == {i \in 0..n : u[i] \notin Nat}
  <2>1. SUFFICES ASSUME Bad # {} PROVE FALSE
    OBVIOUS
  <2>0. Bad \subseteq Nat
    BY DEF n
  <2>2. PICK m \in Bad : \A k \in Bad : m <= k
    BY <2>0, <2>1, LeastNatural
  <2>3. m \in 1..n /\ m - 1 \in 0..n /\ ~(m <= m - 1)
    BY <1>6, <2>2 DEF n
  <2>4. u[m - 1] \in Nat
    BY <2>2, <2>3
  <2> QED
    BY <1>2, <1>6, <2>2, <2>3, <2>4
<1>8. IsSum(u, n, x)
  <2>1. u = [i \in 0..n |-> u[i]]
    BY <1>5
  <2> QED
    BY <1>6, <1>7, <2>1 DEF IsSum
<1> QED
  BY <1>1, <1>8 DEF n, x

LEMMA SumGrows ==
  ASSUME NEW n \in Nat, NEW x \in [1..n -> Nat], NEW t, IsSum(t, n, x), NEW i \in 0..n, NEW j \in 0..n, i <= j
  PROVE  t[i] <= t[j]
<1> DEFINE Bad == {k \in 0..n : i <= k /\ ~(t[i] <= t[k])}
<1>1. SUFFICES ASSUME Bad # {} PROVE FALSE
  OBVIOUS
<1>0. Bad \subseteq Nat
  OBVIOUS
<1>2. PICK m \in Bad : \A k \in Bad : m <= k
  BY <1>0, <1>1, LeastNatural
<1>3. m \in 1..n /\ m - 1 \in 0..n /\ i <= m - 1 /\ t[i] \in Nat /\ t[m] \in Nat /\ t[m - 1] \in Nat
  BY <1>2 DEF IsSum
<1>4. t[i] <= t[m - 1]
  BY <1>2, <1>3
<1>5. t[m] = t[m - 1] + x[m] /\ x[m] \in Nat
  BY <1>3 DEF IsSum
<1> QED
  BY <1>2, <1>3, <1>4, <1>5

LEMMA EmbeddedSum ==
  ASSUME NEW n \in Nat, NEW x \in [1..n -> Nat], NEW t, IsSum(t, n, x),
         NEW m \in Nat, NEW y \in [1..m -> Nat], NEW u, IsSum(u, m, y),
         NEW g \in [1..m -> 1..n], \A i, j \in 1..m : i < j => g[i] < g[j],
         \A i \in 1..m : y[i] <= x[g[i]]
  PROVE  u[m] <= t[n]
<1>1. /\ t \in [0..n -> Nat] /\ t[0] = 0 /\ \A i \in 1..n : t[i] = t[i - 1] + x[i]
      /\ u \in [0..m -> Nat] /\ u[0] = 0 /\ \A i \in 1..m : u[i] = u[i - 1] + y[i]
  BY DEF IsSum
<1>2. \A p, q \in 1..n : p < q => p \in 0..n /\ p <= q - 1 /\ q - 1 \in 0..n
  OBVIOUS
<1>3. \A a, b, c, d \in Nat : a <= b /\ c <= d => a + c <= b + d
  OBVIOUS
<1>4. \A i \in 1..m : u[i] <= t[g[i]]
  <2> DEFINE Bad == {i \in 1..m : ~(u[i] <= t[g[i]])}
  <2>1. SUFFICES ASSUME Bad # {} PROVE FALSE
    OBVIOUS
  <2>2. Bad \subseteq Nat
    OBVIOUS
  <2>3. PICK k \in 1..m : ~(u[k] <= t[g[k]]) /\ \A i \in 1..m : ~(u[i] <= t[g[i]]) => k <= i
    BY <2>1, <2>2, LeastNatural
  <2> HIDE DEF Bad
  <2>4. PICK q \in 1..n : q = g[k]
    OBVIOUS
  <2>10. q - 1 \in 0..n /\ k - 1 \in 0..m
    OBVIOUS
  <2>5. t[q - 1] \in Nat /\ u[k - 1] \in Nat
    BY <1>1, <2>10
  <2>6. u[k - 1] <= t[q - 1]
    <3>1. CASE k = 1
      <4>1. k - 1 = 0
        BY <3>1
      <4>2. u[k - 1] = 0
        BY <1>1, <4>1
      <4> QED
        BY <2>5, <4>2
    <3>2. CASE k # 1
      <4>1. k - 1 \in 1..m /\ k - 1 < k /\ ~(k <= k - 1)
        BY <3>2
      <4>2. PICK p \in 1..n : p = g[k - 1]
        BY <4>1
      <4>3. u[k - 1] <= t[p]
        BY <2>3, <4>1, <4>2
      <4>4. p < q
        BY <2>4, <4>1, <4>2
      <4>5. p \in 0..n /\ p <= q - 1 /\ q - 1 \in 0..n
        BY <1>2, <4>4
      <4>6. t[p] <= t[q - 1] /\ t[p] \in Nat
        BY <1>1, <2>10, <4>5, SumGrows
      <4> QED
        BY <2>5, <4>3, <4>6
    <3> QED
      BY <3>1, <3>2
  <2>7. u[k] = u[k - 1] + y[k] /\ t[q] = t[q - 1] + x[q] /\ y[k] <= x[q] /\ y[k] \in Nat /\ x[q] \in Nat
    BY <1>1, <2>4
  <2>8. u[k] <= t[q]
    BY <1>3, <2>5, <2>6, <2>7
  <2> QED
    BY <2>3, <2>4, <2>8
<1>5. t[n] \in Nat /\ 0 <= t[n]
  BY <1>1
<1>6. CASE m = 0
  BY <1>1, <1>5, <1>6
<1>7. CASE m # 0
  <2>1. m \in 1..m
    BY <1>7
  <2>2. PICK q \in 1..n : q = g[m]
    BY <2>1
  <2>3. u[m] <= t[q] /\ q \in 0..n /\ n \in 0..n /\ q <= n
    BY <1>4, <2>1, <2>2
  <2>4. t[q] <= t[n]
    BY <2>3, SumGrows
  <2>5. t[q] \in Nat /\ u[m] \in Nat
    <3>1. m \in 0..m
      OBVIOUS
    <3> QED
      BY <1>1, <2>3, <3>1
  <2> QED
    BY <1>5, <2>3, <2>4, <2>5
<1> QED
  BY <1>6, <1>7

Sized(b) == b.kept \in Seq(Ids) /\ \A id \in Ids : b.records[id].size \in Nat
Fits(b) == Total(b, b.kept) <= PayloadLimit

\* r is what is left of s when some of its elements go.
Embeds(r, s) ==
  \E g \in [1..Len(r) -> 1..Len(s)] :
    /\ \A i, j \in 1..Len(r) : i < j => g[i] < g[j]
    /\ \A i \in 1..Len(r) : r[i] = s[g[i]]

\* The book c keeps no more than b does.
Lighter(b, c) ==
  /\ Sized(c) /\ Embeds(c.kept, b.kept)
  /\ \A id \in Ids : c.records[id].size <= b.records[id].size

\* What embeds in a list and is no larger has no greater total.
LEMMA TotalEmbeds ==
  ASSUME NEW b, NEW c, NEW s \in Seq(Ids), NEW r \in Seq(Ids), Embeds(r, s),
         \A id \in Ids : /\ b.records[id].size \in Nat /\ c.records[id].size \in Nat
                         /\ c.records[id].size <= b.records[id].size
  PROVE  Total(c, r) <= Total(b, s)
<1> DEFINE x == SizesOf(b, s)
           y == SizesOf(c, r)
<1>1. Len(s) \in Nat /\ Len(r) \in Nat /\ (\A i \in 1..Len(s) : s[i] \in Ids) /\ (\A i \in 1..Len(r) : r[i] \in Ids)
  BY LenProperties, ElementOfSeq
<1>2. /\ x \in [1..Len(s) -> Nat] /\ y \in [1..Len(r) -> Nat]
      /\ \A i \in 1..Len(s) : x[i] = b.records[s[i]].size
      /\ \A i \in 1..Len(r) : y[i] = c.records[r[i]].size
  BY <1>1 DEF SizesOf
<1> HIDE DEF x, y
<1>3. PICK g \in [1..Len(r) -> 1..Len(s)] :
        (\A i, j \in 1..Len(r) : i < j => g[i] < g[j]) /\ \A i \in 1..Len(r) : r[i] = s[g[i]]
  BY DEF Embeds
<1>4. PICK t : IsSum(t, Len(s), x) /\ Total(b, s) = t[Len(s)]
  BY <1>1, <1>2, TotalIsASum DEF x
<1>5. PICK u : IsSum(u, Len(r), y) /\ Total(c, r) = u[Len(r)]
  BY <1>1, <1>2, TotalIsASum DEF y
<1>6. \A i \in 1..Len(r) : y[i] <= x[g[i]]
  BY <1>1, <1>2, <1>3
<1>7. u[Len(r)] <= t[Len(s)]
  BY <1>1, <1>2, <1>3, <1>4, <1>5, <1>6, EmbeddedSum
<1> QED
  BY <1>4, <1>5, <1>7

LEMMA TotalIsNatural ==
  ASSUME NEW b, Sized(b), NEW s \in Seq(Ids)
  PROVE  Total(b, s) \in Nat
<1>1. Len(s) \in Nat /\ \A i \in 1..Len(s) : s[i] \in Ids
  BY LenProperties, ElementOfSeq
<1>2. SizesOf(b, s) \in [1..Len(s) -> Nat]
  BY <1>1 DEF SizesOf, Sized
<1>3. PICK t : IsSum(t, Len(s), SizesOf(b, s)) /\ Total(b, s) = t[Len(s)]
  BY <1>1, <1>2, TotalIsASum
<1> QED
  BY <1>1, <1>3 DEF IsSum

LEMMA EmbedsInItself ==
  ASSUME NEW s \in Seq(Ids)
  PROVE  Embeds(s, s)
<1>1. Len(s) \in Nat
  BY LenProperties
<1>2. PICK g : g = [i \in 1..Len(s) |-> i]
  OBVIOUS
<1>3. /\ g \in [1..Len(s) -> 1..Len(s)] /\ \A i, j \in 1..Len(s) : i < j => g[i] < g[j]
      /\ \A i \in 1..Len(s) : s[i] = s[g[i]]
  BY <1>2
<1> QED
  BY <1>3 DEF Embeds

LEMMA EmbedsThrough ==
  ASSUME NEW s \in Seq(Ids), NEW r \in Seq(Ids), NEW q \in Seq(Ids), Embeds(r, s), Embeds(q, r)
  PROVE  Embeds(q, s)
<1>0. Len(s) \in Nat /\ Len(r) \in Nat /\ Len(q) \in Nat
  BY LenProperties
<1>1. PICK g \in [1..Len(r) -> 1..Len(s)] :
        (\A i, j \in 1..Len(r) : i < j => g[i] < g[j]) /\ \A i \in 1..Len(r) : r[i] = s[g[i]]
  BY DEF Embeds
<1>2. PICK h \in [1..Len(q) -> 1..Len(r)] :
        (\A i, j \in 1..Len(q) : i < j => h[i] < h[j]) /\ \A i \in 1..Len(q) : q[i] = r[h[i]]
  BY DEF Embeds
<1>3. PICK f : f = [i \in 1..Len(q) |-> g[h[i]]]
  OBVIOUS
<1>4. \A i \in 1..Len(q) : f[i] = g[h[i]] /\ h[i] \in 1..Len(r) /\ g[h[i]] \in 1..Len(s)
  BY <1>1, <1>2, <1>3
<1>5. f \in [1..Len(q) -> 1..Len(s)]
  BY <1>3, <1>4
<1>6. \A i, j \in 1..Len(q) : i < j => f[i] < f[j]
  BY <1>1, <1>2, <1>4
<1>7. \A i \in 1..Len(q) : q[i] = s[f[i]]
  BY <1>1, <1>2, <1>4
<1> QED
  BY <1>5, <1>6, <1>7 DEF Embeds

\* InOrder goes up.
LEMMA InOrderGoesUp ==
  ASSUME NEW S, S \subseteq Nat, IsFiniteSet(S)
  PROVE  /\ Len(InOrder(S)) \in Nat /\ DOMAIN InOrder(S) = 1..Len(InOrder(S))
         /\ \A n \in 1..Len(InOrder(S)) : InOrder(S)[n] \in S
         /\ \A m, n \in 1..Len(InOrder(S)) : m < n => InOrder(S)[m] < InOrder(S)[n]
<1> DEFINE Upto(i) == {j \in S : j <= i}
           q == InOrder(S)
           N == Cardinality(S)
<1>1. N \in Nat
  BY FS_CardinalityType
<1>2. q \in Seq(S) /\ Distinct(q) /\ ToSet(q) = S
  BY InOrderProperties
<1>3. q = [n \in 1..N |-> CHOOSE i \in S : Cardinality(Upto(i)) = n]
  BY DEF InOrder
<1> HIDE DEF q, N, Upto
<1>4. Len(q) = N /\ DOMAIN q = 1..N /\ \A n \in 1..N : q[n] \in S
  <2>1. DOMAIN q = 1..N
    BY <1>3
  <2>2. Len(q) \in Nat /\ DOMAIN q = 1..Len(q) /\ q \in [1..Len(q) -> S]
    BY <1>2, LenProperties
  <2>3. Len(q) = N
    <3>1. \A a, b \in Nat : 1..a = 1..b => a <= b
      <4>1. ASSUME NEW a \in Nat, NEW b \in Nat, 1..a = 1..b PROVE a <= b
        <5>1. a \in 1..a \/ a = 0
          OBVIOUS
        <5> QED
          BY <4>1, <5>1
      <4> QED
        BY <4>1
    <3>2. 1..Len(q) = 1..N
      BY <2>1, <2>2
    <3>3. PICK m \in Nat : m = Len(q)
      BY <2>2
    <3>4. 1..m = 1..N /\ 1..N = 1..m
      BY <3>2, <3>3
    <3>5. m <= N /\ N <= m
      BY <1>1, <3>1, <3>4
    <3> QED
      BY <1>1, <3>3, <3>5
  <2> QED
    BY <2>1, <2>2, <2>3
<1>5. \A i \in S : i \in Nat /\ IsFiniteSet(Upto(i)) /\ Cardinality(Upto(i)) \in Nat
  BY FS_Subset, FS_CardinalityType DEF Upto
<1>6. \A i, j \in S : i < j => Cardinality(Upto(i)) < Cardinality(Upto(j))
  <2>1. SUFFICES ASSUME NEW i \in S, NEW j \in S, i < j PROVE Cardinality(Upto(i)) < Cardinality(Upto(j))
    OBVIOUS
  <2>2. i \in Nat /\ j \in Nat
    OBVIOUS
  <2>3. Upto(i) \subseteq Upto(j)
    <3>1. \A k \in S : k \in Nat /\ (k <= i => k <= j)
      BY <2>1, <2>2
    <3> QED
      BY <3>1 DEF Upto
  <2>4. j \in Upto(j) /\ j \notin Upto(i)
    BY <2>1, <2>2 DEF Upto
  <2> QED
    BY <1>5, <2>3, <2>4, FS_Subset
<1>7. \A n \in 1..N : Cardinality(Upto(q[n])) = n
  <2> DEFINE rank == [i \in S |-> Cardinality(Upto(i))]
  <2>1. \A i \in S : rank[i] = Cardinality(Upto(i))
    OBVIOUS
  <2>2. \A i, j \in S : rank[i] = rank[j] => i = j
    <3>1. \A i, j \in S : i = j \/ i < j \/ j < i
      OBVIOUS
    <3> QED
      BY <1>5, <1>6, <2>1, <3>1
  <2>3. \A i \in S : rank[i] \in 1..N
    <3>1. SUFFICES ASSUME NEW i \in S PROVE Cardinality(Upto(i)) \in 1..N
      BY <2>1
    <3>2. Upto(i) \subseteq S /\ i \in Upto(i)
      BY <1>5 DEF Upto
    <3>3. Cardinality(Upto(i)) # 0
      BY <1>5, <3>2, FS_EmptySet
    <3>4. Cardinality(Upto(i)) <= N
      BY <3>2, FS_Subset DEF N
    <3> QED
      BY <1>1, <1>5, <3>3, <3>4
  <2>4. rank \in [S -> 1..N]
    BY <2>3
  <2> HIDE DEF rank
  <2>5. rank \in Injection(S, 1..N)
    BY <2>2, <2>4 DEF Injection, IsInjective
  <2>6. IsFiniteSet(1..N) /\ Cardinality(S) = Cardinality(1..N)
    <3>1. IsFiniteSet(1..N) /\ Cardinality(1..N) = IF 1 > N THEN 0 ELSE N - 1 + 1
      BY <1>1, FS_Interval
    <3> QED
      BY <1>1, <3>1 DEF N
  <2>7. rank \in Surjection(S, 1..N)
    BY <2>5, <2>6, FS_Injection
  <2>8. \A n \in 1..N : \E i \in S : Cardinality(Upto(i)) = n
    BY <2>1, <2>7 DEF Surjection
  <2> QED
    BY <1>3, <2>8
<1>8. ASSUME NEW m \in 1..N, NEW n \in 1..N, m < n PROVE q[m] < q[n]
  <2>1. q[m] \in S /\ q[n] \in S /\ q[m] \in Nat /\ q[n] \in Nat
    BY <1>4, <1>5
  <2>2. CASE q[n] < q[m]
    BY <1>6, <1>7, <1>8, <2>1, <2>2
  <2>3. CASE q[m] = q[n]
    BY <1>2, <1>4, <1>8, <2>3 DEF Distinct
  <2> QED
    BY <2>1, <2>2, <2>3
<1>9. \A m, n \in 1..N : m < n => q[m] < q[n]
  BY <1>8
<1> QED
  BY <1>1, <1>4, <1>9 DEF q

\* What goes leaves a queue that embeds in the old one.
LEMMA WithoutEmbeds ==
  ASSUME NEW s \in Seq(Ids), NEW S
  PROVE  /\ Without(s, S) \in Seq(Ids)
         /\ \E g \in [1..Len(Without(s, S)) -> 1..Len(s)] :
              /\ \A i, j \in 1..Len(Without(s, S)) : i < j => g[i] < g[j]
              /\ \A i \in 1..Len(Without(s, S)) : Without(s, S)[i] = s[g[i]] /\ s[g[i]] \notin S
         /\ Embeds(Without(s, S), s)
<1> DEFINE P == {i \in DOMAIN s : s[i] \notin S}
           at == InOrder(P)
           w == Without(s, S)
<1>1. Len(s) \in Nat /\ DOMAIN s = 1..Len(s) /\ \A i \in 1..Len(s) : s[i] \in Ids
  BY LenProperties, ElementOfSeq
<1>2. P \subseteq 1..Len(s) /\ \A i \in 1..Len(s) : i \in P <=> s[i] \notin S
  BY <1>1
<1>3. w = [n \in DOMAIN at |-> s[at[n]]]
  BY DEF Without
<1> HIDE DEF P, w, at
<1>4. P \subseteq Nat /\ IsFiniteSet(P)
  <2>1. IsFiniteSet(1..Len(s))
    BY <1>1, FS_Interval
  <2>2. \A i \in 1..Len(s) : i \in Nat
    OBVIOUS
  <2> QED
    BY <1>2, <2>1, <2>2, FS_Subset
<1>5. /\ Len(at) \in Nat /\ DOMAIN at = 1..Len(at) /\ \A n \in 1..Len(at) : at[n] \in P
      /\ \A i, j \in 1..Len(at) : i < j => at[i] < at[j]
  BY <1>4, InOrderGoesUp DEF at
<1>6. at \in Seq(P)
  BY <1>4, InOrderProperties DEF at
<1>7. at \in [1..Len(at) -> 1..Len(s)]
  BY <1>2, <1>5, <1>6, LenProperties
<1>8. w \in [1..Len(at) -> Ids] /\ \A i \in 1..Len(at) : w[i] = s[at[i]] /\ s[at[i]] \notin S
  BY <1>1, <1>2, <1>3, <1>5
<1>9. w \in Seq(Ids) /\ Len(w) = Len(at)
  BY <1>5, <1>8, IsASeq, LenProperties
<1>10. Embeds(w, s)
  BY <1>5, <1>7, <1>8, <1>9 DEF Embeds
<1> QED
  BY <1>5, <1>7, <1>8, <1>9, <1>10 DEF w

\* A lighter book fits as well.
LEMMA LighterFits ==
  ASSUME NEW b, Sized(b), Fits(b), NEW c, Lighter(b, c)
  PROVE  Fits(c) /\ Sized(c)
<1>1. Total(c, c.kept) <= Total(b, b.kept)
  BY TotalEmbeds DEF Lighter, Sized
<1>2. Total(b, b.kept) \in Nat /\ Total(c, c.kept) \in Nat /\ PayloadLimit \in Nat
  BY TotalIsNatural, LimitsAssumption DEF Lighter, Sized
<1> QED
  BY <1>1, <1>2 DEF Fits, Lighter

LEMMA LighterThrough ==
  ASSUME NEW b, Sized(b), NEW c, Lighter(b, c), NEW d, Lighter(c, d)
  PROVE  Lighter(b, d)
<1>1. Embeds(d.kept, b.kept)
  BY EmbedsThrough DEF Lighter, Sized
<1>2. \A id \in Ids : d.records[id].size <= b.records[id].size
  BY DEF Lighter, Sized
<1> QED
  BY <1>1, <1>2 DEF Lighter

\* No payload is larger and the order is the same.
LEMMA SameKept ==
  ASSUME NEW b, Sized(b), NEW c, c.kept = b.kept,
         \A id \in Ids : c.records[id].size \in Nat /\ c.records[id].size <= b.records[id].size
  PROVE  Lighter(b, c)
BY EmbedsInItself DEF Sized, Lighter

LEMMA DropIsLighter ==
  ASSUME NEW b, b \in Books, NEW S
  PROVE  Lighter(b, DropPayloads(b, S)) /\ DropPayloads(b, S) \in Books
<1> DEFINE c == DropPayloads(b, S)
           f == [id \in Ids |-> IF id \in S THEN [b.records[id] EXCEPT !.size = 0] ELSE b.records[id]]
<1>1. c.kept = Without(b.kept, S) /\ c.records = f /\ c = [b EXCEPT !.records = f, !.kept = Without(b.kept, S)]
  BY DEF DropPayloads, Books
<1>2. \A id \in Ids : b.records[id] \in Record /\ b.records[id].size \in Nat
  BY BookTypes, RecordTypes
<1> HIDE DEF c
<1>3. \A id \in Ids : f[id] \in Record /\ f[id].size \in Nat /\ f[id].size <= b.records[id].size
  <2>1. SUFFICES ASSUME NEW id \in Ids PROVE f[id] \in Record /\ f[id].size \in Nat /\ f[id].size <= b.records[id].size
    OBVIOUS
  <2>2. b.records[id] \in Record /\ b.records[id].size \in Nat
    BY <1>2
  <2>3. CASE id \in S
    <3>1. f[id] = [b.records[id] EXCEPT !.size = 0]
      BY <2>3
    <3>2. f[id] \in Record /\ f[id].size = 0
      BY <2>2, <3>1 DEF Record
    <3> QED
      BY <2>2, <3>2
  <2>4. CASE id \notin S
    BY <2>2, <2>4
  <2> QED
    BY <2>3, <2>4
<1>4. Without(b.kept, S) \in Seq(Ids) /\ Embeds(Without(b.kept, S), b.kept)
  BY BookTypes, WithoutEmbeds
<1>5. f \in [Ids -> Record]
  BY <1>3
<1> HIDE DEF f
<1>6. c \in Books
  BY <1>1, <1>4, <1>5 DEF Books
<1> QED
  BY <1>1, <1>3, <1>4, <1>6 DEF Lighter, Sized, c

LEMMA ReleaseIsLighter ==
  ASSUME NEW b, b \in Books, NEW ids
  PROVE  Lighter(b, Release(b, ids))
<1> DEFINE all == b.released \o ids
           over == IF Len(all) > HistoryLimit THEN Len(all) - HistoryLimit ELSE 0
           old == ToSet(SubSeq(all, 1, over))
           f == [id \in Ids |-> IF id \in old THEN [b.records[id] EXCEPT !.size = 0] ELSE b.records[id]]
           c == Release(b, ids)
<1>1. c.kept = Without(b.kept, old) /\ c.records = f
  BY DEF Release
<1> HIDE DEF c, old
<1>2. \A id \in Ids : b.records[id] \in Record /\ b.records[id].size \in Nat
  BY BookTypes, RecordTypes
<1>3. \A id \in Ids : f[id].size \in Nat /\ f[id].size <= b.records[id].size
  <2>1. SUFFICES ASSUME NEW id \in Ids PROVE f[id].size \in Nat /\ f[id].size <= b.records[id].size
    OBVIOUS
  <2>2. b.records[id] \in Record /\ b.records[id].size \in Nat
    BY <1>2
  <2>3. CASE id \in old
    <3>1. f[id] = [b.records[id] EXCEPT !.size = 0]
      BY <2>3
    <3>2. f[id].size = 0
      BY <2>2, <3>1 DEF Record
    <3> QED
      BY <2>2, <3>2
  <2>4. CASE id \notin old
    BY <2>2, <2>4
  <2> QED
    BY <2>3, <2>4
<1>4. Without(b.kept, old) \in Seq(Ids) /\ Embeds(Without(b.kept, old), b.kept)
  BY BookTypes, WithoutEmbeds
<1> HIDE DEF f
<1> QED
  BY <1>1, <1>3, <1>4 DEF Lighter, Sized, c

\* A payload that is kept fits: one above the limit goes at once, leaving what
\* fitted before; otherwise the oldest go, as few as are enough, and what is
\* left embeds in the payloads after them.  The last of all suffices.
LEMMA KeptPayloadFits ==
  ASSUME NEW b, b \in Books, Fits(b), NEW id \in Ids, b.records[id].size = 0, NEW size \in Nat
  PROVE  Fits(KeepPayload(b, id, size)) /\ KeepPayload(b, id, size) \in Books
<1> DEFINE r == [b.records[id] EXCEPT !.size = size]
           k == IF size = 0 THEN b.kept ELSE Append(b.kept, id)
           c == [b EXCEPT !.records[id].size = size, !.kept = IF size = 0 THEN @ ELSE Append(@, id)]
           fits(n) == Total(c, SubSeq(c.kept, n + 1, Len(c.kept))) <= PayloadLimit
           n == CHOOSE n \in 0..Len(c.kept) : fits(n) /\ \A m \in 0..n - 1 : ~fits(m)
           d == KeepPayload(b, id, size)
<1>1. b \in Books
  OBVIOUS
<1>2. b.records[id] \in Record /\ b.records \in [Ids -> Record] /\ b.kept \in Seq(Ids)
  BY <1>1, BookTypes
<1>3. r \in Record /\ r.size = size
  BY <1>2 DEF Record
<1>4. k \in Seq(Ids) /\ (size # 0 => k = Append(b.kept, id)) /\ (size = 0 => k = b.kept)
  <2>1. CASE size = 0
    BY <1>2, <2>1
  <2>2. CASE size # 0
    BY <1>2, <2>2, AppendProperties
  <2> QED
    BY <2>1, <2>2
<1>5. c = [b EXCEPT !.records = [b.records EXCEPT ![id] = r], !.kept = k]
  BY <1>1 DEF Books
<1>6. d = IF size > PayloadLimit THEN DropPayloads(c, {id}) ELSE DropPayloads(c, ToSet(SubSeq(c.kept, 1, n)))
  BY DEF KeepPayload
<1> HIDE DEF r, k, c, d
<1>7. /\ c \in Books /\ c.kept = k /\ c.records = [b.records EXCEPT ![id] = r]
      /\ c.records[id] = r /\ \A i \in Ids : i # id => c.records[i] = b.records[i]
  BY <1>1, <1>2, <1>3, <1>4, <1>5 DEF Books
<1>8. Sized(b) /\ Sized(c)
  BY <1>1, <1>2, <1>7, BookTypes, RecordTypes DEF Sized
<1>9. PayloadLimit \in Nat
  BY LimitsAssumption
<1>12. d \in Books
  BY <1>6, <1>7, DropIsLighter
<1>10. CASE size > PayloadLimit
  <2>0. PICK S : S = {id}
    OBVIOUS
  <2>1. d = DropPayloads(c, S) /\ size # 0
    BY <1>6, <1>9, <1>10, <2>0
  <2>2. Lighter(c, d) /\ d.kept = Without(c.kept, S)
    BY <1>7, <2>1, DropIsLighter DEF DropPayloads, Books
  <2>3. Len(b.kept) \in Nat /\ Len(c.kept) = Len(b.kept) + 1 /\ c.kept[Len(b.kept) + 1] = id
        /\ \A i \in 1..Len(b.kept) : c.kept[i] = b.kept[i]
    BY <1>2, <1>4, <1>7, <2>1, AppendProperties, LenProperties
  <2>4. d.kept \in Seq(Ids) /\ Len(d.kept) \in Nat
    BY <2>2, LenProperties DEF Lighter, Sized
  <2>5. PICK g \in [1..Len(d.kept) -> 1..Len(c.kept)] :
          /\ \A i, j \in 1..Len(d.kept) : i < j => g[i] < g[j]
          /\ \A i \in 1..Len(d.kept) : d.kept[i] = c.kept[g[i]] /\ c.kept[g[i]] \notin S
    <3>1. c.kept \in Seq(Ids) /\ \A e, T : e \in Seq(Ids) =>
            \E g \in [1..Len(Without(e, T)) -> 1..Len(e)] :
              /\ \A i, j \in 1..Len(Without(e, T)) : i < j => g[i] < g[j]
              /\ \A i \in 1..Len(Without(e, T)) : Without(e, T)[i] = e[g[i]] /\ e[g[i]] \notin T
      BY <1>4, <1>7, WithoutEmbeds
    <3> QED
      BY <2>2, <3>1
  <2>6. ASSUME NEW i \in 1..Len(d.kept) PROVE g[i] \in 1..Len(b.kept)
    <3>1. PICK a \in 1..Len(b.kept) + 1 : a = g[i]
      BY <2>3, <2>5
    <3>2. a # Len(b.kept) + 1
      BY <2>0, <2>3, <2>5, <3>1
    <3>3. a \in 1..Len(b.kept)
      BY <2>3, <3>2
    <3> QED
      BY <3>1, <3>3
  <2>7. g \in [1..Len(d.kept) -> 1..Len(b.kept)] /\ \A i \in 1..Len(d.kept) : d.kept[i] = b.kept[g[i]]
    BY <2>3, <2>5, <2>6
  <2>8. Embeds(d.kept, b.kept)
    BY <2>5, <2>7 DEF Embeds
  <2>9. ASSUME NEW i \in Ids PROVE d.records[i].size <= b.records[i].size /\ d.records[i].size \in Nat
    <3>1. CASE i = id
      <4>1. d.records[id].size = 0
        <5>1. d.records[id] = [c.records[id] EXCEPT !.size = 0]
          BY <1>7, <2>0, <2>1 DEF DropPayloads, Books
        <5> QED
          BY <1>3, <1>7, <5>1 DEF Record
      <4> QED
        BY <3>1, <4>1
    <3>2. CASE i # id
      BY <1>7, <2>2, <3>2 DEF Lighter, Sized
    <3> QED
      BY <3>1, <3>2
  <2>10. Lighter(b, d)
    BY <2>4, <2>8, <2>9 DEF Lighter, Sized
  <2> QED
    BY <1>8, <1>12, <2>10, LighterFits DEF d
<1>11. CASE ~(size > PayloadLimit)
  <2> DEFINE N == Len(c.kept)
             rest(m) == SubSeq(c.kept, m + 1, N)
  <2>1. N \in Nat
    BY <1>4, <1>7, LenProperties
  <2>2. fits(N)
    <3>1. rest(N) \in Seq(Ids) /\ Len(rest(N)) = 0
      <4>1. N \in 0..N /\ c.kept \in Seq(Ids) /\ N - N = 0
        BY <1>4, <1>7, <2>1
      <4> QED
        BY <4>1, CutProperties
    <3>2. SizesOf(c, rest(N)) \in [1..Len(rest(N)) -> Nat] /\ Len(rest(N)) \in Nat
      BY <3>1 DEF SizesOf
    <3> HIDE DEF N, rest
    <3>3. PICK t : IsSum(t, Len(rest(N)), SizesOf(c, rest(N))) /\ Total(c, rest(N)) = t[Len(rest(N))]
      BY <3>2, TotalIsASum
    <3>4. Total(c, rest(N)) = 0
      BY <3>1, <3>3 DEF IsSum
    <3>5. Total(c, rest(N)) <= PayloadLimit
      BY <1>9, <3>4
    <3> QED
      BY <3>5 DEF rest, N
  <2>3. n \in 0..N /\ fits(n)
    <3> DEFINE Good == {m \in 0..N : fits(m)}
    <3> HIDE DEF fits
    <3>1. Good \subseteq Nat /\ N \in Good
      BY <2>1, <2>2
    <3>2. PICK m \in Good : \A i \in Good : m <= i
      BY <3>1, LeastNatural
    <3>3. \A i \in 0..m - 1 : i \in 0..N /\ ~(m <= i)
      BY <2>1, <3>2
    <3>4. m \in 0..N /\ fits(m) /\ \A i \in 0..m - 1 : ~fits(i)
      BY <3>2, <3>3
    <3> QED
      BY <3>4
  <2>4. PICK p \in 0..N : p = n /\ fits(p)
    BY <2>3
  <2>5. d = DropPayloads(c, ToSet(SubSeq(c.kept, 1, p)))
    BY <1>6, <1>11, <2>4
  <2> DEFINE S == ToSet(SubSeq(c.kept, 1, p))
             z == rest(p)
  <2>6. /\ z \in Seq(Ids) /\ Len(z) = N - p /\ \A i \in 1..N - p : z[i] = c.kept[p + i]
    <3>1. c.kept \in Seq(Ids) /\ p \in Nat /\ p <= N
      BY <1>4, <1>7, <2>1
    <3>2. Len(z) = N - p /\ z \in Seq(Ids)
      BY <3>1, CutProperties
    <3>3. \A i \in 1..N - p : z[i] = c.kept[p + i]
      BY <2>1, <3>1, SubSeqProperties
    <3> QED
      BY <3>2, <3>3
  <2>7. \A i \in 1..p : c.kept[i] \in S
    <3>1. /\ SubSeq(c.kept, 1, p) \in Seq(Ids) /\ Len(SubSeq(c.kept, 1, p)) = p
          /\ \A i \in 1..p : SubSeq(c.kept, 1, p)[i] = c.kept[i]
      <4>1. c.kept \in Seq(Ids) /\ p \in Nat /\ \A i \in 1..p : c.kept[i] \in Ids
        BY <1>4, <1>7, <2>1, ElementOfSeq
      <4> QED
        BY <4>1, SubSeqProperties
    <3>2. DOMAIN SubSeq(c.kept, 1, p) = 1..p
      BY <3>1, LenProperties
    <3> QED
      BY <3>1, <3>2 DEF ToSet
  <2>8. Lighter(c, d) /\ d.kept = Without(c.kept, S)
    BY <1>7, <2>5, DropIsLighter DEF DropPayloads, Books
  <2>9. Total(c, z) <= PayloadLimit
    BY <2>4
  <2> HIDE DEF S, z, N, rest, n, fits
  <2>10. d.kept \in Seq(Ids) /\ Len(d.kept) \in Nat
    BY <2>8, LenProperties DEF Lighter, Sized
  <2>11. PICK g \in [1..Len(d.kept) -> 1..N] :
          /\ \A i, j \in 1..Len(d.kept) : i < j => g[i] < g[j]
          /\ \A i \in 1..Len(d.kept) : d.kept[i] = c.kept[g[i]] /\ c.kept[g[i]] \notin S
    BY <1>4, <1>7, <2>8, WithoutEmbeds DEF N
  <2>12. \A i \in 1..Len(d.kept) : g[i] - p \in 1..N - p /\ g[i] = p + (g[i] - p)
    <3>1. SUFFICES ASSUME NEW i \in 1..Len(d.kept) PROVE g[i] - p \in 1..N - p /\ g[i] = p + (g[i] - p)
      OBVIOUS
    <3>2. PICK a \in 1..N : a = g[i]
      BY <2>11
    <3>3. a \notin 1..p
      BY <2>7, <2>11, <3>2
    <3> QED
      BY <2>1, <3>2, <3>3
  <2>13. PICK h : h = [i \in 1..Len(d.kept) |-> g[i] - p]
    OBVIOUS
  <2>14. h \in [1..Len(d.kept) -> 1..Len(z)]
    BY <2>6, <2>12, <2>13
  <2>15. \A i, j \in 1..Len(d.kept) : i < j => h[i] < h[j]
    BY <2>1, <2>4, <2>11, <2>13
  <2>16. \A i \in 1..Len(d.kept) : d.kept[i] = z[h[i]]
    <3>1. SUFFICES ASSUME NEW i \in 1..Len(d.kept) PROVE d.kept[i] = z[h[i]]
      OBVIOUS
    <3>2. PICK a \in 1..N - p : a = g[i] - p /\ g[i] = p + a
      BY <2>12
    <3>3. h[i] = a /\ z[a] = c.kept[p + a]
      BY <2>6, <2>13, <3>2
    <3> QED
      BY <2>11, <3>2, <3>3
  <2>17. Embeds(d.kept, z)
    BY <2>14, <2>15, <2>16 DEF Embeds
  <2>18. Total(d, d.kept) <= Total(c, z)
    BY <1>8, <2>6, <2>8, <2>10, <2>17, TotalEmbeds DEF Lighter, Sized
  <2>19. Total(d, d.kept) \in Nat /\ Total(c, z) \in Nat
    <3>1. Sized(d)
      BY <2>8 DEF Lighter
    <3> QED
      BY <1>8, <2>6, <2>10, <3>1, TotalIsNatural
  <2> QED
    BY <1>9, <1>12, <2>9, <2>18, <2>19 DEF Fits, d
<1> QED
  BY <1>10, <1>11

-----------------------------------------------------------------------------
(* Every step leaves payloads that fit                                     *)

LEMMA BookIsSized ==
  ASSUME ManagerIInv
  PROVE  /\ Book \in Books /\ Sized(Book) /\ Book.records = records /\ Book.kept = kept
         /\ records \in [Ids -> Record] /\ \A id \in Ids : records[id].size \in Nat
<1>1. Book \in Books /\ records \in [Ids -> Record] /\ kept \in Seq(Ids)
  BY InvariantParts, BookFacts
<1>2. \A id \in Ids : records[id].size \in Nat
  BY <1>1, RecordTypes
<1>3. Book.records = records /\ Book.kept = kept
  BY DEF Book
<1> QED
  BY <1>1, <1>2, <1>3 DEF Sized

\* A book that fits and is made the manager's.
LEMMA FitsNext ==
  ASSUME NEW d, Sized(d), Fits(d), kept' = d.kept,
         \A id \in Ids : records'[id].size \in Nat /\ records'[id].size <= d.records[id].size
  PROVE  PayloadsFit'
<1>1. PICK e : e = Book'
  OBVIOUS
<1>2. e.kept = kept' /\ e.records = records'
  BY <1>1 DEF Book
<1>3. Lighter(d, e)
  BY <1>2, SameKept
<1>4. Fits(e)
  BY <1>3, LighterFits
<1>5. Total(Book', kept') <= PayloadLimit
  BY <1>1, <1>2, <1>4 DEF Fits
<1> QED
  BY <1>5 DEF PayloadsFit

LEMMA TablesFit ==
  ASSUME NEW d, Sized(d), Fits(d), SetTables(d)
  PROVE  PayloadsFit'
<1>1. kept' = d.kept /\ records' = d.records
  BY DEF SetTables
<1>2. \A id \in Ids : d.records[id].size \in Nat /\ d.records[id].size <= d.records[id].size
  BY DEF Sized
<1> QED
  BY <1>1, <1>2, FitsNext

\* No payload grows and the order stays.
LEMMA NothingKept ==
  ASSUME ManagerIInv, ManagerIInv', PayloadsFit, kept' = kept,
         \A id \in Ids : records'[id].size <= records[id].size
  PROVE  PayloadsFit'
<1>1. PICK b : b = Book
  OBVIOUS
<1>2. Sized(b) /\ Fits(b) /\ b.records = records /\ b.kept = kept
  BY <1>1, BookIsSized DEF Fits, PayloadsFit
<1>3. \A id \in Ids : records'[id].size \in Nat
  <2>1. BookOK(Book)'
    BY DEF ManagerIInv
  <2>2. BookOK(Book')
    BY <2>1
  <2>3. Book'.records \in [Ids -> Record]
    BY <2>2, BookTypes DEF BookOK, TypedBook
  <2>4. Book'.records = records'
    BY DEF Book
  <2> QED
    BY <2>3, <2>4, RecordTypes
<1> QED
  BY <1>2, <1>3, FitsNext

\* One record of the manager's book, its payload kept.
LEMMA OneRecordFits ==
  ASSUME ManagerIInv, PayloadsFit, NEW j \in Ids, NEW r \in Record, r.size = records[j].size,
         NEW b, b = WithRecord(Book, j, r)
  PROVE  b \in Books /\ Sized(b) /\ Fits(b) /\ b.records[j] = r
<1>1. PICK a : a = Book
  OBVIOUS
<1>2. a \in Books /\ Sized(a) /\ Fits(a) /\ a.records = records /\ a.records \in [Ids -> Record]
  BY <1>1, BookIsSized DEF Fits, PayloadsFit
<1>3. [a.records EXCEPT ![j] = r] \in [Ids -> Record]
  BY <1>2
<1>4. b \in Books /\ b.records = [a.records EXCEPT ![j] = r] /\ b.kept = a.kept
  BY <1>1, <1>2, <1>3 DEF WithRecord, Books
<1>5. \A id \in Ids : b.records[id].size = a.records[id].size /\ a.records[id].size \in Nat
  BY <1>2, <1>4 DEF Sized
<1>6. Lighter(a, b)
  <2>1. \A id \in Ids : b.records[id].size \in Nat /\ b.records[id].size <= a.records[id].size
    BY <1>5
  <2> QED
    BY <1>2, <1>4, <2>1, SameKept
<1>7. b.records[j] = r
  BY <1>2, <1>4
<1> QED
  BY <1>2, <1>4, <1>6, <1>7, LighterFits

LEMMA ReleasedFits ==
  ASSUME NEW b, b \in Books, Sized(b), Fits(b), NEW ids
  PROVE  Sized(Release(b, ids)) /\ Fits(Release(b, ids))
BY ReleaseIsLighter, LighterFits

\* Jobs that fail keep no payload, and what is released takes none along.
LEMMA FailedFits ==
  ASSUME NEW b, b \in Books, Sized(b), Fits(b), NEW ids, NEW err \in Errors
  PROVE  Sized(Fail(b, ids, err)) /\ Fits(Fail(b, ids, err))
<1> DEFINE f == [id \in Ids |-> IF id \in ToSet(ids) THEN [b.records[id] EXCEPT !.state = "failed", !.err = err, !.out = "absent"]
                                ELSE b.records[id]]
<1>1. \A id \in Ids : b.records[id] \in Record /\ b.records[id].size \in Nat
  BY BookTypes, RecordTypes
<1>2. \A id \in Ids : f[id] \in Record /\ f[id].size = b.records[id].size
  <2>1. SUFFICES ASSUME NEW id \in Ids PROVE f[id] \in Record /\ f[id].size = b.records[id].size
    OBVIOUS
  <2>2. PICK r \in Record : r = b.records[id]
    BY <1>1
  <2>3. CASE id \in ToSet(ids)
    <3>1. f[id] = [r EXCEPT !.state = "failed", !.err = err, !.out = "absent"]
      BY <2>2, <2>3
    <3> QED
      BY <2>2, <3>1 DEF Record, States, Outputs
  <2>4. CASE id \notin ToSet(ids)
    BY <2>2, <2>4
  <2> QED
    BY <2>3, <2>4
<1>3. f \in [Ids -> Record]
  <2>1. f = [id \in Ids |-> f[id]]
    OBVIOUS
  <2> HIDE DEF f
  <2> QED
    BY <1>2, <2>1
<1>4. PICK m : m = [b EXCEPT !.records = f]
  OBVIOUS
<1>5. Fail(b, ids, err) = Release(m, ids)
  BY <1>4 DEF Fail, Books
<1> HIDE DEF f
<1>6. m \in Books /\ m.records = f /\ m.kept = b.kept
  BY <1>3, <1>4 DEF Books
<1>7. \A id \in Ids : m.records[id].size \in Nat /\ m.records[id].size <= b.records[id].size
  BY <1>1, <1>2, <1>6
<1>8. Sized(m) /\ Fits(m)
  BY <1>6, <1>7, SameKept, LighterFits
<1> QED
  BY <1>5, <1>6, <1>8, ReleasedFits

\* A payload that one record of the manager's book is given.
LEMMA OnePayloadFits ==
  ASSUME ManagerIInv, PayloadsFit, NEW j \in Ids, NEW r \in Record, r.size = 0, records[j].size = 0,
         NEW size \in Sizes, NEW c, c = KeepPayload(WithRecord(Book, j, r), j, size)
  PROVE  c \in Books /\ Sized(c) /\ Fits(c)
<1>1. PICK b : b = WithRecord(Book, j, r)
  OBVIOUS
<1>2. b \in Books /\ Sized(b) /\ Fits(b) /\ b.records[j].size = 0
  BY <1>1, OneRecordFits
<1>3. size \in Nat
  BY LimitsAssumption
<1>4. Fits(c) /\ c \in Books
  BY <1>1, <1>2, <1>3, KeptPayloadFits
<1>5. Sized(c)
  BY <1>4, BookTypes, RecordTypes DEF Sized
<1> QED
  BY <1>4, <1>5

LEMMA FinishFits ==
  ASSUME ManagerIInv, PayloadsFit, NEW size \in Sizes, Finish(size)
  PROVE  PayloadsFit'
<1>1. WorkerKnows
  BY InvariantParts
<1>2. PICK j \in Ids : j = worker.id
  BY <1>1 DEF WorkerKnows, Finish, At
<1>3. CASE records[j].state \notin Pending
  <2>1. kept' = kept /\ records' = records
    BY <1>2, <1>3 DEF Finish, tables
  <2>2. PICK b : b = Book
    OBVIOUS
  <2>3. Sized(b) /\ Fits(b) /\ b.records = records /\ b.kept = kept
    BY <2>2, BookIsSized DEF Fits, PayloadsFit
  <2>4. \A id \in Ids : records'[id].size \in Nat /\ records'[id].size <= b.records[id].size
    BY <2>1, <2>3 DEF Sized
  <2> QED
    BY <2>1, <2>3, <2>4, FitsNext
<1>4. CASE records[j].state \in Pending
  <2>1. /\ records[j] \in Record /\ Shape(records[j]) /\ IsJob(j) /\ records[j].size = 0
        /\ worker.err \in Errors /\ worker.out \in Outputs \union {None}
    BY <1>1, <1>2, <1>4, InvariantParts, BookFacts, WorkerTypes DEF WorkerKnows, Finish, At, Shape
  <2>2. PICK s : s = [Returned(records[j], worker.err, worker.out) EXCEPT !.bound = FALSE]
    OBVIOUS
  <2>3. s \in Record /\ s.size = 0
    <3>1. PICK r \in Record : r = records[j]
      BY <2>1
    <3>2. PICK err \in Errors, out \in Outputs \union {None} : err = worker.err /\ out = worker.out
      BY <2>1
    <3>3. PICK t : t = Returned(r, err, out)
      OBVIOUS
    <3>6. t = [r EXCEPT !.state = IF err = None THEN "succeeded" ELSE "failed", !.err = err, !.out = out]
      BY <3>3 DEF Returned
    <3>4. t \in Record /\ t.size = 0
      <4>1. r \in Record /\ r.size = 0 /\ err \in Errors /\ out \in Outputs \union {None}
        BY <2>1, <3>1, <3>2
      <4> QED
        BY <3>6, <4>1 DEF Record, States
    <3>5. s = [t EXCEPT !.bound = FALSE]
      BY <2>2, <3>1, <3>2, <3>3
    <3> QED
      BY <3>4, <3>5 DEF Record
  <2>4. PICK c : c = KeepPayload(WithRecord(Book, j, s), j, size)
    OBVIOUS
  <2>5. PICK d : d = IF FreesClaim(records[j].kind, worker.out) THEN Release(c, <<j>>) ELSE c
    OBVIOUS
  <2>6. SetTables(d)
    BY <1>2, <1>4, <2>2, <2>4, <2>5, FinishTables
  <2>7. c \in Books /\ Sized(c) /\ Fits(c)
    BY <2>1, <2>3, <2>4, OnePayloadFits
  <2>8. Sized(d) /\ Fits(d)
    BY <2>5, <2>7, ReleasedFits
  <2> QED
    BY <2>6, <2>8, TablesFit
<1> QED
  BY <1>3, <1>4

LEMMA FinishCallFits ==
  ASSUME ManagerIInv, PayloadsFit, NEW j \in Ids, NEW o \in CallOutcomes, NEW size \in Sizes,
         FinishCall(j, o[1], o[2], size)
  PROVE  PayloadsFit'
<1>1. PICK err, out : err = o[1] /\ out = o[2]
  OBVIOUS
<1>2. err \in Errors /\ out \in Outputs \union {None}
  BY <1>1 DEF CallOutcomes, Outcomes, Errors, Outputs
<1>3. records[j] \in Record /\ records[j].size = 0
  BY InvariantParts, BookFacts DEF FinishCall, RunningCalls, Shape, Pending
<1>4. PICK s : s = Returned(records[j], err, out)
  OBVIOUS
<1>5. s \in Record /\ s.size = 0
  <2>1. PICK r \in Record : r = records[j]
    BY <1>3
  <2>2. s = [r EXCEPT !.state = IF err = None THEN "succeeded" ELSE "failed", !.err = err, !.out = out]
    BY <1>4, <2>1 DEF Returned
  <2> QED
    BY <1>2, <1>3, <2>1, <2>2 DEF Record, States
<1>6. PICK c : c = KeepPayload(WithRecord(Book, j, s), j, size)
  OBVIOUS
<1>7. PICK d : d = Release(c, <<j>>)
  OBVIOUS
<1>8. SetTables(d)
  BY <1>1, <1>4, <1>6, <1>7, FinishCallTables
<1>9. Sized(d) /\ Fits(d)
  BY <1>3, <1>5, <1>6, <1>7, OnePayloadFits, ReleasedFits
<1> QED
  BY <1>8, <1>9, TablesFit

LEMMA CancelFits ==
  ASSUME ManagerIInv, PayloadsFit, NEW j \in Ids, Cancel(j)
  PROVE  PayloadsFit'
<1>1. /\ records[j] \in Record /\ Shape(records[j]) /\ records[j].state \in Pending /\ records[j].kind \in Kinds
      /\ SetTables(IF records[j].executing THEN WithRecord(Book, j, Asked(records[j]))
                   ELSE Fail(WithRecord(Book, j, Asked(records[j])), <<j>>, "cancelled"))
  BY CancelFacts DEF IsJob
<1>2. PICK s : s = Asked(records[j])
  OBVIOUS
<1>3. s \in Record /\ s.size = records[j].size
  <2>1. PICK r : r = records[j]
    OBVIOUS
  <2> QED
    BY <1>1, <1>2, <2>1, AskedProperties
<1>4. PICK b : b = WithRecord(Book, j, s)
  OBVIOUS
<1>5. b \in Books /\ Sized(b) /\ Fits(b)
  BY <1>3, <1>4, OneRecordFits
<1>6. PICK d : d = IF records[j].executing THEN b ELSE Fail(b, <<j>>, "cancelled")
  OBVIOUS
<1>7. SetTables(d)
  BY <1>1, <1>2, <1>4, <1>6
<1>8. "cancelled" \in Errors
  BY DEF Errors
<1>9. Sized(d) /\ Fits(d)
  BY <1>5, <1>6, <1>8, FailedFits
<1> QED
  BY <1>7, <1>9, TablesFit

LEMMA BreakFits ==
  ASSUME ManagerIInv, PayloadsFit, Break
  PROVE  PayloadsFit'
<1>1. PICK j \in Ids : j = worker.id
  BY InvariantParts DEF WorkerKnows, Break, At
<1>2. PICK own :
        /\ IsBrokenOwn(own, j)
        /\ SetTables(Fail(own, InOrder(QueuedJobs), "worker_failed"))
  BY <1>1, SMTT(60) DEF Break, IsBrokenOwn
<1>3. /\ BookOK(own)
      /\ \/ own = Book
         \/ \E s \in Record : /\ s.size = records[j].size
                              /\ own = WithRecord(Book, j, s) \/ own = Release(WithRecord(Book, j, s), <<j>>)
  BY <1>1, <1>2, BrokenOwn DEF Break
<1>4. own \in Books
  BY <1>3 DEF BookOK, TypedBook
<1>5. Sized(own) /\ Fits(own)
  <2>1. CASE own = Book
    <3>1. Fits(own)
      BY <2>1, BookIsSized DEF Fits, PayloadsFit
    <3> QED
      BY <2>1, <3>1, BookIsSized
  <2>2. CASE own # Book
    <3>1. PICK s \in Record : /\ s.size = records[j].size
                              /\ own = WithRecord(Book, j, s) \/ own = Release(WithRecord(Book, j, s), <<j>>)
      BY <1>3, <2>2
    <3>2. PICK b : b = WithRecord(Book, j, s)
      OBVIOUS
    <3>3. b \in Books /\ Sized(b) /\ Fits(b)
      BY <3>1, <3>2, OneRecordFits
    <3>4. own = b \/ own = Release(b, <<j>>)
      BY <3>1, <3>2
    <3> QED
      BY <3>3, <3>4, ReleasedFits
  <2> QED
    BY <2>1, <2>2
<1>6. "worker_failed" \in Errors
  BY DEF Errors
<1>7. PICK d : d = Fail(own, InOrder(QueuedJobs), "worker_failed")
  OBVIOUS
<1>8. Sized(d) /\ Fits(d) /\ SetTables(d)
  BY <1>2, <1>4, <1>5, <1>6, <1>7, FailedFits
<1> QED
  BY <1>8, TablesFit

LEMMA ShutdownFits ==
  ASSUME ManagerIInv, PayloadsFit, Shutdown
  PROVE  PayloadsFit'
<1>1. PICK b : b = Book
  OBVIOUS
<1>2. b \in Books /\ Sized(b) /\ Fits(b) /\ BookOK(b) /\ b.records = records
  BY <1>1, BookIsSized, InvariantParts DEF Fits, PayloadsFit
<1>3. PICK q : q = InOrder(QueuedJobs)
  OBVIOUS
<1>4. PICK d : d = Fail(b, q, "shutdown")
  OBVIOUS
<1>5. "shutdown" \in Errors
  BY DEF Errors
<1>6. Sized(d) /\ Fits(d)
  BY <1>2, <1>4, <1>5, FailedFits
<1>7. BookOK(d) /\ \A i \in Ids : d.records[i].kind = records[i].kind
  <2>1. \A i \in Waiting : Alike(records[i], b.records[i])
    BY <1>2 DEF Alike
  <2>2. /\ BookOK(d) /\ \A i \in Waiting : d.records[i].kind = records[i].kind
        /\ \A i \in Ids : i \notin Waiting => Alike(b.records[i], d.records[i])
    BY <1>1, <1>2, <1>3, <1>4, <1>5, <2>1, FailAll
  <2> QED
    BY <1>2, <2>2 DEF Alike
<1>8. d \in Books
  BY <1>7 DEF BookOK, TypedBook
<1>9. SetTables(ShutBook(d))
  BY <1>1, <1>3, <1>4, <1>7, <1>8, ShutdownTables
<1>10. PICK e : e = ShutBook(d)
  OBVIOUS
<1>11. e.kept = d.kept /\ \A i \in Ids : e.records[i].size = d.records[i].size
  BY <1>7, <1>10, ShutdownBook
<1>12. Lighter(d, e)
  <2>1. \A i \in Ids : e.records[i].size \in Nat /\ e.records[i].size <= d.records[i].size
    BY <1>6, <1>11 DEF Sized
  <2> QED
    BY <1>6, <1>11, <2>1, SameKept
<1>13. Sized(e) /\ Fits(e)
  BY <1>6, <1>12, LighterFits
<1> QED
  BY <1>9, <1>10, <1>13, TablesFit

\* The steps that keep no payload change one record at most, and not its size.
LEMMA OthersKeepNothing ==
  ASSUME ManagerIInv, [Next]_vars,
         ~Break, ~Shutdown, ~\E size \in Sizes : Finish(size), ~\E id \in Ids : Cancel(id),
         ~\E id \in Ids, o \in CallOutcomes, size \in Sizes : FinishCall(id, o[1], o[2], size)
  PROVE  kept' = kept /\ \A id \in Ids : records'[id].size <= records[id].size
<1>1. records \in [Ids -> Record] /\ \A id \in Ids : records[id].size \in Nat /\ records[id] \in Record
  BY BookIsSized
<1>2. \A id \in Ids : records[id].size <= records[id].size /\ 0 <= records[id].size
  BY <1>1
<1>3. CASE UNCHANGED tables
  BY <1>2, <1>3 DEF tables
<1>4. ASSUME NEW r, NEW j \in Ids, records' = [records EXCEPT ![j] = r], r.size = 0 \/ r.size = records[j].size
      PROVE  \A id \in Ids : records'[id].size <= records[id].size
  BY <1>1, <1>2, <1>4
<1>5. WorkerKnows
  BY InvariantParts
<1>6. CASE Worker
  <2>1. CASE Dequeue \/ IdleTimeout \/ IdleExit \/ Refused \/ Classify \/ NextJob
    BY <1>3, <2>1 DEF Dequeue, IdleTimeout, IdleExit, Refused, Classify, NextJob
  <2>2. ASSUME NEW o \in Outcomes, Return(o[1], o[2]) PROVE UNCHANGED tables
    BY <2>2 DEF Return
  <2>3. PICK w : w = worker.id
    OBVIOUS
  <2>4. CASE Start
    <3>1. UNCHANGED tables \/ (kept' = kept /\ w \in Ids /\ records' = [records EXCEPT ![w].state = "running"])
      BY <1>5, <2>3, <2>4, BookIsSized DEF Start, Skip, At, WorkerKnows, IsJob
    <3>2. CASE w \in Ids /\ kept' = kept /\ records' = [records EXCEPT ![w].state = "running"]
      <4>1. records' = [records EXCEPT ![w] = [records[w] EXCEPT !.state = "running"]]
        BY <3>2
      <4>2. [records[w] EXCEPT !.state = "running"].size = records[w].size
        BY <1>1, <3>2 DEF Record
      <4> QED
        BY <1>4, <3>2, <4>1, <4>2
    <3> QED
      BY <1>3, <3>1, <3>2
  <2>5. CASE Begin
    <3>1. w \in Ids /\ kept' = kept /\ records' = [records EXCEPT ![w] = [records[w] EXCEPT !.executing = TRUE]]
      BY <1>5, <2>3, <2>5 DEF Begin, At, WorkerKnows
    <3>2. [records[w] EXCEPT !.executing = TRUE].size = records[w].size
      BY <1>1, <3>1 DEF Record
    <3> QED
      BY <1>4, <3>1, <3>2
  <2>6. ASSUME NEW bind \in BOOLEAN, BindCancel(bind)
        PROVE  kept' = kept /\ \A id \in Ids : records'[id].size <= records[id].size
    <3>1. w \in Ids /\ kept' = kept
      BY <1>5, <2>3, <2>6 DEF BindCancel, At, WorkerKnows
    <3>2. PICK told : told = (bind /\ records[w].cancel # None)
      OBVIOUS
    <3>3. records' = [records EXCEPT ![w] = [records[w] EXCEPT !.bound = bind, !.told = told]]
      BY <1>1, <2>3, <2>6, <3>1, <3>2 DEF BindCancel
    <3>4. [records[w] EXCEPT !.bound = bind, !.told = told].size = records[w].size
      BY <1>1, <3>1 DEF Record
    <3> QED
      BY <1>4, <3>1, <3>3, <3>4
  <2> QED
    BY <1>3, <1>6, <2>1, <2>2, <2>4, <2>5, <2>6 DEF Worker
<1>7. CASE Client
  <2>1. ASSUME NEW q \in Requests, NEW r \in ReqIds \union {None}, Submit(q, r)
        PROVE  kept' = kept /\ \A id \in Ids : records'[id].size <= records[id].size
    <3>1. PICK id \in Ids : records' = [records EXCEPT ![id] =
            [NoRecord EXCEPT !.kind = q.kind, !.key = q.key, !.fp = q.fp, !.state = "queued",
                             !.reqs = IF r = None THEN {} ELSE {r}]]
      BY <2>1 DEF Submit
    <3>2. [NoRecord EXCEPT !.kind = q.kind, !.key = q.key, !.fp = q.fp, !.state = "queued",
                           !.reqs = IF r = None THEN {} ELSE {r}].size = 0
      BY DEF NoRecord
    <3>3. kept' = kept
      BY <2>1 DEF Submit
    <3> QED
      BY <1>4, <3>1, <3>2, <3>3
  <2>2. ASSUME NEW q \in Requests, NEW r \in ReqIds \union {None}, Join(q, r)
        PROVE  kept' = kept /\ \A id \in Ids : records'[id].size <= records[id].size
    <3>1. PICK id : id = Holder(q)
      OBVIOUS
    <3>2. kept' = kept /\ records' = [records EXCEPT ![id].reqs = @ \union {r}]
      BY <2>2, <3>1 DEF Join, Adopt
    <3>3. CASE id \in Ids
      <4>1. records' = [records EXCEPT ![id] = [records[id] EXCEPT !.reqs = @ \union {r}]]
        BY <3>2
      <4>2. [records[id] EXCEPT !.reqs = @ \union {r}].size = records[id].size
        BY <1>1, <3>3 DEF Record
      <4> QED
        BY <1>4, <3>2, <3>3, <4>1, <4>2
    <3>4. CASE id \notin Ids
      BY <1>1, <1>2, <3>2, <3>4
    <3> QED
      BY <3>3, <3>4
  <2>3. ASSUME NEW id \in Awaited, WaitFor(id) PROVE UNCHANGED tables
    BY <2>3 DEF WaitFor
  <2> QED
    BY <1>3, <1>7, <2>1, <2>2, <2>3 DEF Client
<1>8. CASE Call
  <2>1. ASSUME NEW j \in Ids, NEW fp, NEW reqs, NewCall(j, fp, reqs)
        PROVE  kept' = kept /\ \A id \in Ids : records'[id].size <= records[id].size
    <3>1. PICK r : r = [NoRecord EXCEPT !.kind = "call", !.fp = fp, !.state = "running", !.executing = TRUE, !.reqs = reqs]
      OBVIOUS
    <3>2. r.size = 0
      BY <3>1 DEF NoRecord
    <3>3. records' = [records EXCEPT ![j] = r] /\ kept' = kept
      BY <2>1, <3>1 DEF NewCall
    <3> QED
      BY <1>4, <3>2, <3>3
  <2>2. ASSUME NEW fp \in CallPrints, DeferCall(fp) \/ \E r \in ReqIds : ClaimCall(r, fp)
        PROVE  \E j \in Ids : \E reqs : NewCall(j, fp, reqs)
    BY <2>2 DEF DeferCall, ClaimCall
  <2> QED
    BY <1>8, <2>1, <2>2 DEF Call
<1>9. CASE Crash \/ TrackCall \/ UntrackCall \/ Joined \/ CallsDone \/ UNCHANGED vars
  BY <1>3, <1>9 DEF Crash, TrackCall, UntrackCall, Joined, CallsDone, vars
<1> QED
  BY <1>6, <1>7, <1>8, <1>9 DEF Next

\* The payloads kept are never more than the limit: one that would be above it
\* goes at once, and a new one takes the oldest along until the rest fits
\* (_keep_payload_locked, _drop_payload_locked).
THEOREM PayloadsAreBounded == Spec => []PayloadsFit
<1>1. Init => PayloadsFit
  <2>1. SUFFICES ASSUME Init PROVE PayloadsFit
    OBVIOUS
  <2>2. kept = <<>> /\ Len(kept) = 0
    BY <2>1 DEF Init
  <2>3. PICK b : b = Book
    OBVIOUS
  <2>4. SizesOf(b, kept) \in [1..Len(kept) -> Nat]
    BY <2>2 DEF SizesOf
  <2>5. PICK t : IsSum(t, Len(kept), SizesOf(b, kept)) /\ Total(b, kept) = t[Len(kept)]
    BY <2>2, <2>4, TotalIsASum
  <2> QED
    BY <2>2, <2>3, <2>5, LimitsAssumption DEF IsSum, PayloadsFit
<1>2. ManagerIInv /\ PayloadsFit /\ [Next]_vars => PayloadsFit'
  <2>1. SUFFICES ASSUME ManagerIInv, PayloadsFit, [Next]_vars PROVE PayloadsFit'
    OBVIOUS
  <2>2. ManagerIInv'
    BY <2>1, StepKeeps
  <2>3. CASE Break \/ Shutdown
    BY <2>1, <2>3, BreakFits, ShutdownFits
  <2>4. CASE \E size \in Sizes : Finish(size)
    BY <2>1, <2>4, FinishFits
  <2>5. CASE \E id \in Ids : Cancel(id)
    BY <2>1, <2>5, CancelFits
  <2>6. CASE \E id \in Ids, o \in CallOutcomes, size \in Sizes : FinishCall(id, o[1], o[2], size)
    BY <2>1, <2>6, FinishCallFits
  <2> QED
    BY <2>1, <2>2, <2>3, <2>4, <2>5, <2>6, OthersKeepNothing, NothingKept
<1> QED
  BY <1>1, <1>2, ManagerHolds, PTL DEF Spec

-----------------------------------------------------------------------------
(* The jobs' records implement the lifecycle                               *)

\* The lifecycle's variables are what clients see of the records.
PhaseMap == [id \in Ids |-> Phase(records[id])]
BegunSet == {id \in Ids : Begun(records[id])}
LeftMap == [id \in Ids |-> LeftBy(records[id])]

LEMMA LifecycleIsSeen ==
  /\ Jobs!Init <=> /\ PhaseMap = [j \in Ids |-> "new"] /\ BegunSet = {} /\ LeftMap = [j \in Ids |-> ""]
  /\ \A j \in Ids :
       Jobs!Accept(j) <=> /\ PhaseMap[j] = "new" /\ PhaseMap' = [PhaseMap EXCEPT ![j] = "pending"]
                          /\ BegunSet' = BegunSet /\ LeftMap' = LeftMap
  /\ \A j \in Ids :
       Jobs!Begin(j) <=> /\ PhaseMap[j] = "pending" /\ j \notin BegunSet
                         /\ \A i \in BegunSet : PhaseMap[i] = "ended"
                         /\ BegunSet' = BegunSet \union {j} /\ PhaseMap' = PhaseMap /\ LeftMap' = LeftMap
  /\ \A js \in SUBSET Ids :
       Jobs!End(js) <=>
         /\ \A j \in js : PhaseMap[j] = "pending"
         /\ PhaseMap' = [j \in Ids |-> IF j \in js THEN "ended" ELSE PhaseMap[j]]
         /\ DOMAIN LeftMap' = Ids
         /\ \A j \in js : LeftMap'[j] # "" /\ (j \notin BegunSet => LeftMap'[j] \in {"absent", "success"})
         /\ \A j \in Ids \ js : LeftMap'[j] = LeftMap[j]
         /\ BegunSet' = BegunSet
BY DEF Jobs!Init, Jobs!Accept, Jobs!Begin, Jobs!End, PhaseMap, BegunSet, LeftMap, Phase, Begun, LeftBy,
       IsCall, IsPending

LEMMA EndIsAbstract == JobsOnlyEnd => Jobs!Next
<1> SUFFICES ASSUME JobsOnlyEnd PROVE Jobs!Next
  OBVIOUS
<1>0. PICK js \in SUBSET Ids :
        \A i \in Ids : i \in js <=> Phase(records[i]) = "pending" /\ Phase(records'[i]) = "ended"
  <2>1. {i \in Ids : Phase(records[i]) = "pending" /\ Phase(records'[i]) = "ended"} \in SUBSET Ids
    OBVIOUS
  <2> QED
    BY <2>1
<1>1. \A i \in Ids :
        /\ PhaseMap[i] = Phase(records[i]) /\ PhaseMap'[i] = Phase(records'[i])
        /\ LeftMap[i] = LeftBy(records[i]) /\ LeftMap'[i] = LeftBy(records'[i])
  BY DEF PhaseMap, LeftMap
<1>2. \A i \in Ids :
        /\ Begun(records'[i]) <=> Begun(records[i])
        /\ i \notin js => Phase(records'[i]) = Phase(records[i]) /\ LeftBy(records'[i]) = LeftBy(records[i])
        /\ i \in js => /\ LeftBy(records'[i]) # ""
                       /\ ~Begun(records[i]) => LeftBy(records'[i]) \in {"absent", "success"}
  BY <1>0 DEF JobsOnlyEnd, MayBecome
<1>3. BegunSet' = BegunSet /\ \A i \in Ids : i \notin BegunSet <=> ~Begun(records[i])
  BY <1>2 DEF BegunSet
<1>4. \A i \in js : PhaseMap[i] = "pending" /\ PhaseMap'[i] = "ended"
  BY <1>0, <1>1
<1>5. PhaseMap' = [j \in Ids |-> IF j \in js THEN "ended" ELSE PhaseMap[j]]
  <2>1. \A i \in Ids : PhaseMap'[i] = IF i \in js THEN "ended" ELSE PhaseMap[i]
    BY <1>1, <1>2, <1>4
  <2>2. PhaseMap' = [i \in Ids |-> PhaseMap'[i]]
    BY DEF PhaseMap
  <2> QED
    BY <2>1, <2>2
<1>6. DOMAIN LeftMap' = Ids
  BY DEF LeftMap
<1>7. \A i \in js : LeftMap'[i] # "" /\ (i \notin BegunSet => LeftMap'[i] \in {"absent", "success"})
  BY <1>1, <1>2, <1>3, <1>6
<1>8. \A i \in Ids \ js : LeftMap'[i] = LeftMap[i]
  BY <1>1, <1>2
<1>9. Jobs!End(js)
  BY <1>3, <1>4, <1>5, <1>6, <1>7, <1>8, LifecycleIsSeen
<1> QED
  BY <1>6, <1>9 DEF Jobs!Next

\* Most steps change nothing that clients see of a job.
LEMMA SameIsAbstract ==
  ASSUME \A i \in Ids : /\ records'[i].kind = records[i].kind /\ records'[i].state = records[i].state
                        /\ records'[i].executing = records[i].executing /\ records'[i].out = records[i].out
  PROVE  Jobs!Next
BY SameSeen, EndIsAbstract DEF JobsOnlyEnd

LEMMA TablesSame == UNCHANGED tables => Jobs!Next
<1> SUFFICES ASSUME UNCHANGED tables PROVE Jobs!Next
  OBVIOUS
<1>1. records' = records
  BY DEF tables
<1> QED
  BY <1>1, SameIsAbstract

\* A new job's record is accepted.
LEMMA SubmitIsAccept ==
  ASSUME ManagerIInv, NEW q \in Requests, NEW p \in ReqIds \union {None}, Submit(q, p)
  PROVE  Jobs!Next
<1>0. BookOK(Book)
  BY InvariantParts
<1>1. PICK j \in Ids, reqs \in SUBSET ReqIds :
        /\ reqs = (IF p = None THEN {} ELSE {p})
        /\ records[j].state = "free" /\ records' = [records EXCEPT ![j] = JobRecord(q, reqs)]
        /\ table' = table \union {j} /\ reservations' = [reservations EXCEPT ![q.key] = j]
        /\ requests' = IF p = None THEN requests ELSE [requests EXCEPT ![p] = j]
        /\ queue' = Append(queue, j)
  BY SubmitFacts
<1>2. PICK r : r = JobRecord(q, reqs)
  OBVIOUS
<1>3. r.state = "queued" /\ r.kind \in Kinds /\ r \in Record /\ Shape(r)
  BY <1>2, JobRecordProperties
<1>4. records \in [Ids -> Record] /\ Shape(records[j])
  BY <1>0, BookFacts
<1>5. records'[j] = r /\ \A i \in Ids : i # j => records'[i] = records[i]
  BY <1>1, <1>2, <1>4
<1>6. /\ Phase(records[j]) = "new" /\ LeftBy(records[j]) = "" /\ ~Begun(records[j])
      /\ Phase(r) = "pending" /\ LeftBy(r) = "" /\ ~Begun(r)
  BY <1>1, <1>3, <1>4 DEF Phase, LeftBy, Begun, Shape, Kinds, Pending
<1>7. PhaseMap[j] = "new" /\ PhaseMap' = [PhaseMap EXCEPT ![j] = "pending"]
  <2>1. \A i \in Ids : Phase(records'[i]) = IF i = j THEN "pending" ELSE Phase(records[i])
    BY <1>5, <1>6
  <2>2. PhaseMap' = [i \in Ids |-> IF i = j THEN "pending" ELSE Phase(records[i])]
    BY <2>1 DEF PhaseMap
  <2> QED
    BY <1>6, <2>2 DEF PhaseMap
<1>8. LeftMap' = LeftMap
  <2>1. \A i \in Ids : LeftBy(records'[i]) = LeftBy(records[i])
    BY <1>5, <1>6
  <2> QED
    BY <2>1 DEF LeftMap
<1>9. BegunSet' = BegunSet
  <2>1. \A i \in Ids : Begun(records'[i]) <=> Begun(records[i])
    BY <1>5, <1>6
  <2> QED
    BY <2>1 DEF BegunSet
<1>10. Jobs!Accept(j)
  BY <1>7, <1>8, <1>9, LifecycleIsSeen
<1> QED
  BY <1>10 DEF Jobs!Next

\* Only the worker's job runs, so only its job has begun and not ended.
LEMMA BeginIsBegin == ManagerIInv /\ Begin => Jobs!Next
<1> SUFFICES ASSUME ManagerIInv, Begin PROVE Jobs!Next
  OBVIOUS
<1>0. BookOK(Book) /\ WorkerKnows /\ OneRunningJob
  BY InvariantParts
<1>1. PICK j \in Ids : j = worker.id
  BY <1>0 DEF WorkerKnows, Begin, At
<1>2. /\ worker.pc = "run" /\ Refusal(j) = None /\ records' = [records EXCEPT ![j].executing = TRUE]
      /\ ~records[j].executing
  BY <1>1 DEF Begin, At
<1>3. /\ records \in [Ids -> Record] /\ \A i \in Ids : records[i] \in Record /\ Shape(records[i])
  BY <1>0, BookFacts
<1>4. records[j].state = "running" /\ records[j].kind \in Kinds
  <2>1. records[j].cancel # "client" /\ ~stopping
    BY <1>2, NoneAssumption DEF Refusal
  <2> QED
    BY <1>0, <1>1, <1>2, <2>1 DEF WorkerKnows, IsPending, Pending, IsJob
<1>5. PICK r : r = [records[j] EXCEPT !.executing = TRUE]
  OBVIOUS
<1>6. r.executing /\ r.state = records[j].state /\ r.kind = records[j].kind /\ r.out = records[j].out
  BY <1>3, <1>5 DEF Record
<1>7. records'[j] = r /\ \A i \in Ids : i # j => records'[i] = records[i]
  BY <1>2, <1>3, <1>5
<1>8. /\ Phase(records[j]) = "pending" /\ Phase(r) = "pending" /\ LeftBy(r) = LeftBy(records[j])
      /\ ~Begun(records[j]) /\ Begun(r)
  BY <1>2, <1>4, <1>6 DEF Phase, LeftBy, Begun, Kinds, Pending
<1>9. PhaseMap[j] = "pending" /\ PhaseMap' = PhaseMap
  <2>1. \A i \in Ids : Phase(records'[i]) = Phase(records[i])
    BY <1>7, <1>8
  <2> QED
    BY <1>8, <2>1 DEF PhaseMap
<1>10. LeftMap' = LeftMap
  <2>1. \A i \in Ids : LeftBy(records'[i]) = LeftBy(records[i])
    BY <1>7, <1>8
  <2> QED
    BY <2>1 DEF LeftMap
<1>11. BegunSet' = BegunSet \union {j} /\ j \notin BegunSet
  <2>1. \A i \in Ids : Begun(records'[i]) <=> Begun(records[i]) \/ i = j
    BY <1>7, <1>8
  <2> QED
    BY <1>8, <2>1 DEF BegunSet
<1>12. \A i \in BegunSet : PhaseMap[i] = "ended"
  <2>1. ASSUME NEW i \in Ids, Begun(records[i]) PROVE Phase(records[i]) = "ended"
    <3>1. i # j /\ records[i].executing /\ records[i].kind # "call"
      BY <1>8, <2>1 DEF Begun
    <3>2. records[i].state # "free" /\ records[i].state # "queued"
      BY <1>3, <3>1 DEF Shape
    <3>3. records[i].kind \in Kinds
      BY <1>3, <3>1, <3>2, RecordTypes DEF Shape
    <3>4. records[i].state # "running"
      BY <1>0, <1>1, <3>1, <3>3 DEF OneRunningJob, IsJob
    <3> QED
      BY <3>1, <3>2, <3>4 DEF Phase, Pending
  <2> QED
    BY <2>1 DEF BegunSet, PhaseMap
<1>13. Jobs!Begin(j)
  BY <1>9, <1>10, <1>11, <1>12, LifecycleIsSeen
<1> QED
  BY <1>13 DEF Jobs!Next

LEMMA StartIsUnseen == ManagerIInv /\ Start => Jobs!Next
<1> SUFFICES ASSUME ManagerIInv, Start PROVE Jobs!Next
  OBVIOUS
<1>0. BookOK(Book) /\ WorkerKnows
  BY InvariantParts
<1>1. CASE UNCHANGED tables
  BY <1>1, TablesSame
<1>2. CASE records' = [records EXCEPT ![worker.id].state = "running"] /\ records[worker.id].state = "queued"
  <2>1. PICK j \in Ids : j = worker.id
    BY <1>0 DEF WorkerKnows, Start, At
  <2>2. records \in [Ids -> Record] /\ Shape(records[j]) /\ records[j] \in Record
    BY <1>0, BookFacts
  <2>3. PICK r : r = [records[j] EXCEPT !.state = "running"]
    OBVIOUS
  <2>4. r.executing = records[j].executing /\ r.state = "running" /\ r.kind = records[j].kind
    BY <2>2, <2>3 DEF Record
  <2>5. records'[j] = r /\ \A i \in Ids : i # j => records'[i] = records[i]
    BY <1>2, <2>1, <2>2, <2>3
  <2>6. MayBecome(records[j], r)
    BY <1>2, <2>1, <2>4 DEF MayBecome, Phase, LeftBy, Begun, Pending
  <2>7. \A i \in Ids : i # j => MayBecome(records[i], records'[i])
    BY <2>5, SameSeen
  <2>8. JobsOnlyEnd
    BY <2>5, <2>6, <2>7 DEF JobsOnlyEnd
  <2> QED
    BY <2>8, EndIsAbstract
<1> QED
  BY <1>1, <1>2 DEF Start, Skip

LEMMA BindIsUnseen ==
  ASSUME ManagerIInv, NEW bind \in BOOLEAN, BindCancel(bind)
  PROVE  Jobs!Next
<1>0. BookOK(Book) /\ WorkerKnows
  BY InvariantParts
<1>1. PICK j \in Ids : j = worker.id
  BY <1>0 DEF WorkerKnows, BindCancel, At
<1>2. records' = [records EXCEPT ![j].bound = bind, ![j].told = bind /\ records[j].cancel # None]
  BY <1>1 DEF BindCancel
<1>3. records[j] \in Record /\ records \in [Ids -> Record]
  BY <1>0, BookFacts
<1>4. PICK t \in BOOLEAN : t = (bind /\ records[j].cancel # None)
  OBVIOUS
<1>5. PICK r : r = [records[j] EXCEPT !.bound = bind, !.told = t]
  OBVIOUS
<1>6. r.executing = records[j].executing /\ r.state = records[j].state /\ r.kind = records[j].kind
      /\ r.out = records[j].out
  BY <1>3, <1>5 DEF Record
<1>7. records'[j] = r /\ \A i \in Ids : i # j => records'[i] = records[i]
  BY <1>2, <1>3, <1>4, <1>5
<1> QED
  BY <1>6, <1>7, SameIsAbstract

LEMMA JoinIsUnseen ==
  ASSUME ManagerIInv, NEW q \in Requests, NEW p \in ReqIds \union {None}, Join(q, p)
  PROVE  Jobs!Next
<1>0. BookOK(Book)
  BY InvariantParts
<1>1. PICK j : j = Holder(q)
  OBVIOUS
<1>2. j # None /\ records' = [records EXCEPT ![j].reqs = @ \union {p}]
  BY <1>1 DEF Join, MustJoin, Adopt
<1>3. records \in [Ids -> Record] /\ reservations \in [Keys -> Ids \union {None}]
  BY <1>0, BookFacts
<1>4. j \in Ids
  BY <1>1, <1>2, <1>3 DEF Holder, Keys
<1>5. PICK t : t = records[j].reqs \union {p}
  OBVIOUS
<1>6. PICK r : r = [records[j] EXCEPT !.reqs = t]
  OBVIOUS
<1>7. r.executing = records[j].executing /\ r.state = records[j].state /\ r.kind = records[j].kind
      /\ r.out = records[j].out
  BY <1>3, <1>4, <1>6 DEF Record
<1>8. records'[j] = r /\ \A i \in Ids : i # j => records'[i] = records[i]
  BY <1>2, <1>3, <1>4, <1>5, <1>6
<1> QED
  BY <1>7, <1>8, SameIsAbstract

LEMMA NewCallIsUnseen ==
  ASSUME ManagerIInv, NEW fp \in CallPrints, NEW j \in Ids, NEW reqs \in SUBSET ReqIds, NewCall(j, fp, reqs)
  PROVE  Jobs!Next
<1>0. BookOK(Book)
  BY InvariantParts
<1>1. PICK r : r = CallRecord(fp, reqs)
  OBVIOUS
<1>2. r.kind = "call"
  BY <1>1, CallRecordProperties
<1>3. records[j].state = "free" /\ records' = [records EXCEPT ![j] = r]
  BY <1>1 DEF NewCall, Fresh, CallRecord
<1>4. records \in [Ids -> Record] /\ Shape(records[j])
  BY <1>0, BookFacts
<1>5. records'[j] = r /\ \A i \in Ids : i # j => records'[i] = records[i]
  BY <1>3, <1>4
<1>6. MayBecome(records[j], r)
  BY <1>2, <1>3, <1>4 DEF MayBecome, Phase, LeftBy, Begun, Shape
<1>7. \A i \in Ids : i # j => MayBecome(records[i], records'[i])
  BY <1>5, SameSeen
<1>8. JobsOnlyEnd
  BY <1>5, <1>6, <1>7 DEF JobsOnlyEnd
<1> QED
  BY <1>8, EndIsAbstract

LEMMA StepIsAbstract == ManagerIInv /\ [Next]_vars => Jobs!Next
<1> SUFFICES ASSUME ManagerIInv, [Next]_vars PROVE Jobs!Next
  OBVIOUS
<1>1. CASE Worker
  <2>1. CASE Dequeue \/ IdleTimeout \/ IdleExit \/ Refused \/ Classify \/ NextJob
    BY <2>1, TablesSame DEF Dequeue, IdleTimeout, IdleExit, Refused, Classify, NextJob
  <2>2. CASE Start \/ Begin
    BY <2>2, StartIsUnseen, BeginIsBegin
  <2>3. CASE Break
    BY <2>3, BreakStep, EndIsAbstract
  <2>4. ASSUME NEW bind \in BOOLEAN, BindCancel(bind) PROVE Jobs!Next
    BY <2>4, BindIsUnseen
  <2>5. ASSUME NEW o \in Outcomes, Return(o[1], o[2]) PROVE Jobs!Next
    BY <2>5, TablesSame DEF Return
  <2>6. ASSUME NEW size \in Sizes, Finish(size) PROVE Jobs!Next
    BY <2>6, FinishStep, EndIsAbstract
  <2> QED
    BY <1>1, <2>1, <2>2, <2>3, <2>4, <2>5, <2>6 DEF Worker
<1>2. CASE Client
  <2>1. ASSUME NEW q \in Requests, NEW r \in ReqIds \union {None}, Submit(q, r) \/ Join(q, r) PROVE Jobs!Next
    BY <2>1, SubmitIsAccept, JoinIsUnseen
  <2>2. ASSUME NEW id \in Ids, Cancel(id) PROVE Jobs!Next
    BY <2>2, CancelStep, EndIsAbstract
  <2>3. ASSUME NEW id \in Awaited, WaitFor(id) PROVE Jobs!Next
    BY <2>3, TablesSame DEF WaitFor
  <2> QED
    BY <1>2, <2>1, <2>2, <2>3 DEF Client
<1>3. CASE Call
  <2>1. ASSUME NEW fp \in CallPrints, DeferCall(fp) PROVE Jobs!Next
    BY <2>1, NewCallIsUnseen DEF DeferCall
  <2>2. ASSUME NEW fp \in CallPrints, NEW r \in ReqIds, ClaimCall(r, fp) PROVE Jobs!Next
    <3>1. PICK j \in Ids : NewCall(j, fp, {r})
      BY <2>2 DEF ClaimCall
    <3> QED
      BY <3>1, NewCallIsUnseen
  <2>3. ASSUME NEW id \in Ids, NEW o \in CallOutcomes, NEW size \in Sizes, FinishCall(id, o[1], o[2], size)
        PROVE  Jobs!Next
    BY <2>3, FinishCallStep, EndIsAbstract
  <2> QED
    BY <1>3, <2>1, <2>2, <2>3 DEF Call
<1>4. CASE Crash \/ TrackCall \/ UntrackCall \/ Joined \/ CallsDone
  BY <1>4, TablesSame DEF Crash, TrackCall, UntrackCall, Joined, CallsDone
<1>5. CASE Shutdown
  BY <1>5, ShutdownStep, EndIsAbstract
<1>6. CASE UNCHANGED vars
  BY <1>6, TablesSame DEF vars
<1> QED
  BY <1>1, <1>2, <1>3, <1>4, <1>5, <1>6 DEF Next

LEMMA InitIsAbstract == Init => Jobs!Init
<1> SUFFICES ASSUME Init PROVE Jobs!Init
  OBVIOUS
<1>1. \A i \in Ids : records[i] = NoRecord
  BY DEF Init
<1>2. NoRecord.state = "free" /\ ~NoRecord.executing
  BY DEF NoRecord
<1>3. \A i \in Ids : Phase(records[i]) = "new" /\ ~Begun(records[i]) /\ LeftBy(records[i]) = ""
  BY <1>1, <1>2 DEF Phase, Begun, LeftBy
<1>4. PhaseMap = [j \in Ids |-> "new"] /\ LeftMap = [j \in Ids |-> ""] /\ BegunSet = {}
  BY <1>3 DEF PhaseMap, LeftMap, BegunSet
<1> QED
  BY <1>4, LifecycleIsSeen

\* What clients rely on, whatever happens to the manager: a job waits, may begin
\* to change its program while no other job does, ends once, and leaves nothing
\* behind if it never began (the results that _finish, cancel, shutdown and
\* _break_worker give to the job tools).
THEOREM JobsImplementLifecycle == Spec => JobsSpec
<1>1. ManagerIInv /\ [Next]_vars => [Jobs!Next]_(Jobs!vars)
  BY StepIsAbstract
<1> QED
  BY <1>1, InitIsAbstract, ManagerHolds, PTL DEF Spec, JobsSpec, Jobs!Spec

-----------------------------------------------------------------------------
(* A write that is sent again with its request_id (ToolCalls).  Of a send    *)
(* SendProgress tells what it has by the place it reached, EntryIsTrue what  *)
(* the record of its call says of it, and BeganInTurn that only the last     *)
(* call with the request_id may not have spent itself (Spent): the next is   *)
(* claimed when the holder failed and left nothing, or is forgotten.         *)

Stages == {"new", "claim", "slot", "wait", "await", "fetch", "discarded", "ended"}

ToolTyped ==
  /\ stage \in [Sends -> Stages] /\ entry \in [Sends -> Entries \cup {Nothing}] /\ run \in [Sends -> CallRuns \cup {Nothing}]
  /\ awaited \in [Sends -> Sends \cup {Nothing}] /\ holder \in Sends \cup {Nothing} /\ began \in Seq(Sends)

\* What is known of a send by the place it has reached.
SendProgress(s) ==
  /\ entry[s] # Nothing => stage[s] \in {"slot", "wait", "ended"}
  /\ stage[s] = "slot" => entry[s] = Running /\ run[s] = Nothing
  /\ run[s] # Nothing => entry[s] # Nothing /\ stage[s] \in {"wait", "ended"}
  /\ stage[s] = "wait" => entry[s] # Nothing
  /\ awaited[s] # Nothing => entry[awaited[s]] # Nothing /\ Fingerprint[awaited[s]] = Fingerprint[s]
  /\ stage[s] \in {"await", "fetch", "discarded"} => awaited[s] # Nothing
  /\ stage[s] \in {"fetch", "discarded"} => entry[awaited[s]].gone \/ IsOver(entry[awaited[s]])

\* A record tells what its call did, once its call is over.
EntryIsTrue(s) == entry[s] # Nothing =>
  /\ entry[s].gone => ~IsOver(entry[s])
  /\ entry[s].kept => IsOver(entry[s])
  /\ entry[s].gone \/ IsOver(entry[s]) => stage[s] # "slot" /\ (run[s] # Nothing => run[s].over)
  /\ IsOver(entry[s]) =>
       LET a == entry[s].answer IN
       /\ a.is \in {"value", "unshown", "error", "cancelled"}
       /\ a.is \in {"value", "unshown"} => run[s] # Nothing /\ run[s].returned
       /\ a.is = "cancelled" => run[s] = Nothing
       /\ a.state = "absent" /\ run[s] # Nothing => ~run[s].changed

\* A call with the request_id that another may follow.
Spent(w) ==
  \/ entry[w].gone
  \/ IsOver(entry[w]) /\ run[w] = Nothing /\ entry[w].answer.is # "cancelled"
  \/ IsOver(entry[w]) /\ run[w] # Nothing /\ ~run[w].changed

BeganInTurn ==
  /\ \A i \in DOMAIN began : entry[began[i]] # Nothing /\ (began[i] # holder => Spent(began[i]))
  /\ \A i, j \in DOMAIN began : began[i] = began[j] => i = j
  /\ holder # Nothing => began # <<>> /\ holder = began[Len(began)] /\ ~entry[holder].gone

ToolIInv ==
  /\ ToolTyped /\ BeganInTurn /\ AnswersAreTrue
  /\ \A s \in Sends : SendProgress(s) /\ EntryIsTrue(s)

LEMMA ToolInitIInv == ASSUME ToolInit PROVE ToolIInv
BY NothingElse
DEF ToolInit, ToolIInv, ToolTyped, Stages, BeganInTurn, AnswersAreTrue, SendProgress, EntryIsTrue

\* A step that answers or goes on, and leaves the records alone.
LEMMA SendStep ==
  ASSUME ToolIInv, NEW s \in Sends, NEW where \in Stages, SendGoes(s, where), AnswersAreTrue',
         UNCHANGED <<holder, entry, run, began>>, awaited' \in [Sends -> Sends \cup {Nothing}],
         \A t \in Sends : awaited'[t] = awaited[t] \/ (t = s /\ SendProgress(s)'), SendProgress(s)', EntryIsTrue(s)'
  PROVE  ToolIInv'
<1> USE DEF ToolIInv, ToolTyped
<1>1. stage' \in [Sends -> Stages] /\ \A t \in Sends \ {s} : stage'[t] = stage[t]
  BY DEF SendGoes
<1>2. BeganInTurn'
  BY DEF BeganInTurn, Spent
<1>3. ASSUME NEW t \in Sends, t # s PROVE SendProgress(t)' /\ EntryIsTrue(t)'
  BY <1>1, <1>3 DEF SendProgress, EntryIsTrue
<1> QED
  BY <1>1, <1>2, <1>3

\* Steps of a request before its call, and of its reply.
LEMMA RequestStep ==
  ASSUME ToolIInv, NEW s \in Sends, Admit(s) \/ Reply(s) \/ Look(s) \/ Fetch(s) \/ Discarded(s)
  PROVE  ToolIInv'
<1> USE NothingElse DEF ToolIInv, ToolTyped
<1>1. UNCHANGED <<holder, entry, awaited, run, began>> /\ SendProgress(s) /\ EntryIsTrue(s)
  BY DEF Admit, Reply, Look, Fetch, Discarded
<1>2. ASSUME NEW where \in Stages, SendGoes(s, where), AnswersAreTrue', SendProgress(s)', EntryIsTrue(s)'
      PROVE  ToolIInv'
  BY <1>1, <1>2, SendStep
<1>3. ASSUME SendGoes(s, "ended"), stage[s] # "slot", AnswersAreTrue' PROVE ToolIInv'
  <2>1. stage'[s] = "ended" /\ "ended" \in Stages
    BY <1>3 DEF SendGoes, Stages
  <2>2. SendProgress(s)' /\ EntryIsTrue(s)'
    BY <1>1, <1>3, <2>1 DEF SendProgress, EntryIsTrue
  <2> QED
    BY <1>2, <1>3, <2>1, <2>2
<1>4. CASE Admit(s)
  <2>1. CASE SendGoes(s, "claim") /\ Quiet
    <3>1. stage'[s] = "claim" /\ "claim" \in Stages /\ stage[s] = "new" /\ AnswersAreTrue'
      BY <1>4, <2>1 DEF SendGoes, Stages, Admit, Quiet, AnswersAreTrue
    <3>2. SendProgress(s)' /\ EntryIsTrue(s)'
      BY <1>1, <3>1 DEF SendProgress, EntryIsTrue
    <3> QED
      BY <1>2, <2>1, <3>1, <3>2
  <2>2. CASE Tell(s, TurnedAway("absent"), Nothing)
    <3>1. stage[s] = "new" /\ run[s] = Nothing /\ said' = [to |-> s, answer |-> TurnedAway("absent"), of |-> Nothing]
      BY <1>1, <1>4, <2>2 DEF Admit, Tell, SendProgress
    <3>2. AnswersAreTrue'
      BY <1>1, <3>1 DEF AnswersAreTrue, TurnedAway, Answer
    <3> QED
      BY <1>3, <2>2, <3>1, <3>2 DEF Tell
  <2> QED
    BY <1>4, <2>1, <2>2 DEF Admit
<1>5. ASSUME NEW w \in Sends, NEW a \in Answers, Tell(s, a, w), stage[s] # "slot", Fingerprint[w] = Fingerprint[s],
             a.state = "absent" /\ run[w] # Nothing => run[w].over /\ ~run[w].changed,
             a.is \in {"value", "unshown", "discarded"} => run[w] # Nothing /\ run[w].over /\ run[w].returned,
             a.is = "cancelled" => run[w] = Nothing,
             a.is \notin {"deferred", "discarded"} => a = entry[w].answer \/ entry[w].gone
      PROVE  ToolIInv'
  <2>1. said' = [to |-> s, answer |-> a, of |-> w]
    BY <1>5 DEF Tell
  <2>2. said'.answer = a /\ said'.of = w /\ said'.to = s
    BY <2>1
  <2>3. AnswersAreTrue'
    BY <1>1, <1>5, <2>2 DEF AnswersAreTrue
  <2> QED
    BY <1>3, <1>5, <2>3 DEF Tell
<1>6. ASSUME NEW w \in Sends, entry[w] # Nothing, IsOver(entry[w]), Fingerprint[w] = Fingerprint[s], stage[s] # "slot",
             Tell(s, entry[w].answer, w)
      PROVE  ToolIInv'
  <2>1. entry[w].answer \in Answers /\ EntryIsTrue(w)
    BY <1>6 DEF Entries, IsOver
  <2> QED
    BY <1>5, <1>6, <2>1 DEF EntryIsTrue
<1>7. Answer("deferred", Nothing) \in Answers /\ TurnedAway("uncertain") \in Answers /\ Answer("discarded", "uncertain") \in Answers
  BY DEF Answer, Answers, TurnedAway
<1>8. ASSUME NEW w \in Sends, Tell(s, Answer("deferred", Nothing), w), Fingerprint[w] = Fingerprint[s], stage[s] # "slot"
      PROVE  ToolIInv'
  BY <1>5, <1>7, <1>8 DEF Answer
<1>9. CASE Reply(s)
  <2>1. stage[s] = "wait" /\ entry[s] # Nothing
    BY <1>1, <1>9 DEF Reply, SendProgress
  <2>2. CASE SendGoes(s, "ended") /\ Quiet
    BY <1>3, <2>1, <2>2 DEF Quiet, AnswersAreTrue
  <2> QED
    BY <1>6, <1>8, <1>9, <2>1, <2>2 DEF Reply
<1> DEFINE w == awaited[s]
<1>10. ASSUME stage[s] \in {"await", "fetch", "discarded"}
       PROVE  w \in Sends /\ entry[w] # Nothing /\ Fingerprint[w] = Fingerprint[s] /\ stage[s] # "slot"
  BY <1>1, <1>10 DEF SendProgress
<1>11. ASSUME stage[s] \in {"await", "fetch", "discarded"}, entry[w].gone, LostRecord(s) PROVE ToolIInv'
  BY <1>5, <1>7, <1>10, <1>11 DEF LostRecord, TurnedAway, Answer
<1>12. ASSUME NEW where \in {"fetch", "discarded"}, stage[s] \in {"await", "fetch"}, SendGoes(s, where), Quiet,
              entry[w].gone \/ IsOver(entry[w])
       PROVE  ToolIInv'
  <2>1. stage'[s] = where /\ where \in Stages /\ AnswersAreTrue'
    BY <1>12 DEF SendGoes, Stages, Quiet, AnswersAreTrue
  <2>2. SendProgress(s)' /\ EntryIsTrue(s)'
    BY <1>1, <1>12, <2>1 DEF SendProgress, EntryIsTrue
  <2> QED
    BY <1>2, <1>12, <2>1, <2>2
<1>13. CASE Look(s)
  BY <1>8, <1>10, <1>11, <1>12, <1>13 DEF Look
<1>14. CASE Fetch(s)
  <2>1. entry[w].gone \/ IsOver(entry[w])
    BY <1>1, <1>14 DEF Fetch, SendProgress
  <2> QED
    BY <1>6, <1>10, <1>12, <1>14, <2>1 DEF Fetch
<1>15. CASE Discarded(s)
  <2>1. stage[s] = "discarded" /\ (entry[w].gone \/ IsOver(entry[w]))
    BY <1>1, <1>15 DEF Discarded, SendProgress
  <2>2. CASE entry[w].gone
    BY <1>11, <1>15, <2>1, <2>2 DEF Discarded
  <2>3. CASE ~entry[w].gone /\ KeptError(entry[w])
    BY <1>6, <1>10, <1>15, <2>1, <2>3 DEF Discarded
  <2>4. CASE ~entry[w].gone /\ ~KeptError(entry[w])
    <3>1. Tell(s, Answer("discarded", "uncertain"), w)
      BY <1>15, <2>4 DEF Discarded
    <3>2. run[w] # Nothing /\ run[w].returned /\ run[w].over
      BY <1>10, <2>1, <2>4 DEF EntryIsTrue, KeptError
    <3> QED
      BY <1>5, <1>7, <1>10, <2>1, <3>1, <3>2 DEF Answer
  <2> QED
    BY <2>2, <2>3, <2>4
<1> QED
  BY <1>4, <1>9, <1>13, <1>14, <1>15

\* A step at one record or call, beside which the others stay as they were.
LEMMA RecordStep ==
  ASSUME ToolIInv, ToolTyped', NEW s \in Sends, entry[s] # Nothing, entry'[s] # Nothing,
         \A t \in Sends \ {s} : entry'[t] = entry[t] /\ run'[t] = run[t] /\ stage'[t] = stage[t],
         UNCHANGED <<awaited, began>>, holder' = holder \/ (holder = s /\ holder' = Nothing /\ entry'[s].gone),
         entry[s].gone \/ IsOver(entry[s]) => entry'[s].gone \/ IsOver(entry'[s]),
         holder' = s => ~entry'[s].gone,
         Spent(s) => Spent(s)', SendProgress(s)', EntryIsTrue(s)', AnswersAreTrue'
  PROVE  ToolIInv'
<1> USE NothingElse DEF ToolIInv, ToolTyped
<1>1. ASSUME NEW t \in Sends, t # s PROVE SendProgress(t)' /\ EntryIsTrue(t)' /\ (Spent(t) => Spent(t)')
  BY <1>1 DEF SendProgress, EntryIsTrue, Spent
<1>2. \A t \in Sends : entry[t] # Nothing => entry'[t] # Nothing /\ (Spent(t) => Spent(t)')
  BY <1>1
<1>3. \A i \in DOMAIN began : began[i] \in Sends
  OBVIOUS
<1>4. entry'[s].gone => Spent(s)'
  BY DEF Spent
<1>5. BeganInTurn'
  <2>1. \A i \in DOMAIN began' : entry'[began'[i]] # Nothing /\ (began'[i] # holder' => Spent(began[i])')
    BY <1>2, <1>3, <1>4 DEF BeganInTurn
  <2>2. holder' # Nothing => began' # <<>> /\ holder' = began'[Len(began')] /\ ~entry'[holder'].gone
    BY DEF BeganInTurn
  <2> QED
    BY <2>1, <2>2 DEF BeganInTurn, Spent
<1> QED
  BY <1>1, <1>5

\* The entries of a call that runs, of one that ended, and of one that was forgotten.
LEMMA RunningEntry ==
  Running \in Entries /\ Running # Nothing /\ ~IsOver(Running) /\ Running.gone = FALSE /\ Running.kept = FALSE
<1>1. Running \in Entries
  BY DEF Running, Entries
<1>2. Running.answer = Nothing /\ Running.gone = FALSE /\ Running.kept = FALSE
  BY DEF Running
<1> QED
  BY <1>1, <1>2, NothingElse DEF IsOver

LEMMA EndedEntry ==
  ASSUME NEW a \in Answers
  PROVE  /\ EndedWith(a) \in Entries /\ EndedWith(a).answer = a /\ EndedWith(a).gone = FALSE
         /\ EndedWith(a) # Nothing /\ a # Nothing /\ IsOver(EndedWith(a))
<1>1. EndedWith(a) \in Entries /\ EndedWith(a).answer = a /\ EndedWith(a).gone = FALSE
  BY DEF EndedWith, Entries
<1> QED
  BY <1>1, NothingElse DEF IsOver

LEMMA GoneIsEntry ==
  GoneEntry \in Entries /\ GoneEntry # Nothing /\ GoneEntry.answer = Nothing /\ GoneEntry.gone /\ GoneEntry.kept = FALSE
<1>1. GoneEntry \in Entries
  BY DEF GoneEntry, Entries
<1>2. GoneEntry.answer = Nothing /\ GoneEntry.gone /\ GoneEntry.kept = FALSE
  BY DEF GoneEntry
<1> QED
  BY <1>1, <1>2, NothingElse

LEMMA ClaimStep == ASSUME ToolIInv, NEW s \in Sends, Claim(s) PROVE ToolIInv'
<1> USE NothingElse DEF ToolIInv, ToolTyped
<1>1. stage[s] = "claim" /\ entry[s] = Nothing /\ run[s] = Nothing /\ run' = run
  BY DEF Claim, SendProgress
<1>2. CASE holder = Nothing \/ LeftNothing(holder)
  <2>1. /\ holder' = s /\ entry' = [entry EXCEPT ![s] = Running] /\ began' = Append(began, s)
        /\ stage' = [stage EXCEPT ![s] = "slot"] /\ said' = Nothing /\ awaited' = awaited
    BY <1>2 DEF Claim, SendGoes, Quiet
  <2>2. Running \in Entries /\ Running # Nothing /\ ~IsOver(Running) /\ Running.gone = FALSE /\ Running.kept = FALSE
    BY RunningEntry
  <2>3. ToolTyped'
    BY <1>1, <2>1, <2>2 DEF Stages
  <2>4. holder # Nothing => Spent(holder)
    BY <1>2 DEF LeftNothing, FailedAtAll, IsOver, BeganInTurn, EntryIsTrue, Spent
  <2>5. BeganInTurn'
    <3>1. /\ \A i \in DOMAIN began : began'[i] = began[i] /\ began[i] \in Sends \ {s} /\ Spent(began[i])
          /\ DOMAIN began' = DOMAIN began \cup {Len(began) + 1} /\ began'[Len(began) + 1] = s
          /\ Len(began') = Len(began) + 1
      BY <1>1, <2>1, <2>4 DEF BeganInTurn
    <3>2. \A t \in Sends \ {s} : entry'[t] = entry[t] /\ (Spent(t) => Spent(t)')
      BY <1>1, <2>1 DEF Spent
    <3>3. \A i \in DOMAIN began' : entry'[began'[i]] # Nothing /\ (began'[i] # holder' => Spent(began[i])')
      BY <2>1, <2>2, <3>1, <3>2 DEF BeganInTurn
    <3>5. \A i, j \in DOMAIN began' : began'[i] = began'[j] => i = j
      BY <3>1 DEF BeganInTurn
    <3>6. holder' = began'[Len(began')] /\ entry'[holder'] = Running
      BY <2>1, <3>1
    <3> QED
      BY <2>1, <2>2, <3>1, <3>3, <3>5, <3>6 DEF BeganInTurn, Spent
  <2>6. ASSUME NEW t \in Sends PROVE SendProgress(t)' /\ EntryIsTrue(t)'
    <3>1. CASE t = s
      BY <1>1, <2>1, <2>2, <3>1 DEF SendProgress, EntryIsTrue
    <3>2. CASE t # s
      BY <1>1, <2>1, <2>2, <3>2 DEF SendProgress, EntryIsTrue
    <3> QED
      BY <3>1, <3>2
  <2> QED
    BY <2>1, <2>3, <2>5, <2>6 DEF AnswersAreTrue
<1>3. CASE ~(holder = Nothing \/ LeftNothing(holder)) /\ Fingerprint[holder] # Fingerprint[s]
  <2>1. Tell(s, TurnedAway("absent"), Nothing) /\ UNCHANGED <<holder, entry, awaited, run, began>>
    BY <1>3 DEF Claim
  <2>2. stage' = [stage EXCEPT ![s] = "ended"] /\ said' = [to |-> s, answer |-> Answer("error", "absent"), of |-> Nothing]
    BY <2>1 DEF Tell, SendGoes, TurnedAway
  <2>3. AnswersAreTrue'
    BY <1>1, <2>1, <2>2 DEF AnswersAreTrue, Answer
  <2>4. SendProgress(s)' /\ EntryIsTrue(s)'
    BY <1>1, <2>1, <2>2 DEF SendProgress, EntryIsTrue
  <2>5. "ended" \in Stages
    BY DEF Stages
  <2> QED
    BY <2>1, <2>3, <2>4, <2>5, SendStep DEF Tell
<1>4. CASE ~(holder = Nothing \/ LeftNothing(holder)) /\ Fingerprint[holder] = Fingerprint[s]
  <2>1. /\ awaited' = [awaited EXCEPT ![s] = holder] /\ SendGoes(s, "await") /\ said' = Nothing
        /\ UNCHANGED <<holder, entry, run, began>>
    BY <1>4 DEF Claim, Quiet
  <2>2. holder \in Sends /\ entry[holder] # Nothing
    BY <1>4 DEF BeganInTurn
  <2>3. SendProgress(s)' /\ EntryIsTrue(s)'
    BY <1>1, <1>4, <2>1, <2>2 DEF SendProgress, EntryIsTrue, SendGoes
  <2>4. "await" \in Stages /\ AnswersAreTrue'
    BY <2>1 DEF Stages, AnswersAreTrue
  <2> QED
    BY <2>1, <2>2, <2>3, <2>4, SendStep
<1> QED
  BY <1>2, <1>3, <1>4

\* The call that never starts, or does.
LEMMA SlotStep ==
  ASSUME ToolIInv, NEW s \in Sends, SlotsBusy(s) \/ CancelBeforeStart(s) \/ StartTool(s)
  PROVE  ToolIInv'
<1> USE NothingElse DEF ToolIInv, ToolTyped
<1>1. /\ stage[s] = "slot" /\ entry[s] = Running /\ run[s] = Nothing /\ UNCHANGED <<holder, awaited, began>>
      /\ ~IsOver(entry[s]) /\ ~entry[s].gone /\ entry[s] # Nothing /\ ~Spent(s)
  BY RunningEntry DEF SlotsBusy, CancelBeforeStart, StartTool, SendProgress, Spent
<1>2. ASSUME NEW a \in Answers, RecordOutcome(s, a), SendGoes(s, "ended"), UNCHANGED run, AnswersAreTrue',
             a.is \in {"error", "cancelled"}
      PROVE  ToolIInv'
  <2>1. entry' = [entry EXCEPT ![s] = EndedWith(a)]
    BY <1>1, <1>2 DEF RecordOutcome, IsOver
  <2>2. EndedWith(a) \in Entries /\ EndedWith(a).answer = a /\ a # Nothing /\ EndedWith(a).gone = FALSE /\ EndedWith(a) # Nothing
    BY EndedEntry
  <2>3. ToolTyped' /\ stage'[s] = "ended" /\ entry'[s] = EndedWith(a) /\ IsOver(entry'[s])
    BY <1>1, <1>2, <2>1, <2>2 DEF SendGoes, Stages, IsOver
  <2>4. SendProgress(s)' /\ EntryIsTrue(s)'
    BY <1>1, <1>2, <2>1, <2>2, <2>3 DEF SendProgress, EntryIsTrue
  <2>5. \A t \in Sends \ {s} : entry'[t] = entry[t] /\ run'[t] = run[t] /\ stage'[t] = stage[t]
    BY <1>2, <2>1 DEF SendGoes
  <2> QED
    BY <1>1, <1>2, <2>2, <2>3, <2>4, <2>5, RecordStep
<1>3. CASE SlotsBusy(s)
  <2>1. TurnedAway("absent") \in Answers /\ TurnedAway("absent").is = "error" /\ TurnedAway("absent").state = "absent"
    BY DEF TurnedAway, Answer, Answers
  <2>2. run' = run /\ RecordOutcome(s, TurnedAway("absent")) /\ said' = [to |-> s, answer |-> TurnedAway("absent"), of |-> s]
    BY <1>3 DEF SlotsBusy, Tell
  <2>3. entry'[s].answer = TurnedAway("absent")
    BY <1>1, <2>2 DEF RecordOutcome, IsOver, EndedWith
  <2>4. AnswersAreTrue'
    BY <1>1, <2>1, <2>2, <2>3 DEF AnswersAreTrue
  <2> QED
    BY <1>2, <1>3, <2>1, <2>2, <2>4 DEF SlotsBusy, Tell
<1>4. CASE CancelBeforeStart(s)
  <2>1. Answer("cancelled", "absent") \in Answers /\ Answer("cancelled", "absent").is = "cancelled"
    BY DEF Answer, Answers
  <2> QED
    BY <1>2, <1>4, <2>1 DEF CancelBeforeStart, Quiet, AnswersAreTrue
<1>5. CASE StartTool(s)
  <2>1. /\ run' = [run EXCEPT ![s] = RunsNow] /\ stage' = [stage EXCEPT ![s] = "wait"] /\ said' = Nothing /\ entry' = entry
    BY <1>5 DEF StartTool, SendGoes, Quiet
  <2>2. RunsNow \in CallRuns
    BY DEF RunsNow, CallRuns
  <2>3. ToolTyped' /\ AnswersAreTrue'
    BY <1>1, <2>1, <2>2 DEF Stages, AnswersAreTrue
  <2>4. SendProgress(s)' /\ EntryIsTrue(s)'
    BY <1>1, <2>1 DEF SendProgress, EntryIsTrue, Running, IsOver
  <2>5. \A t \in Sends \ {s} : entry'[t] = entry[t] /\ run'[t] = run[t] /\ stage'[t] = stage[t]
    BY <2>1
  <2> QED
    BY <1>1, <2>1, <2>3, <2>4, <2>5, RecordStep
<1> QED
  BY <1>3, <1>4, <1>5

\* What the record of a call that ran says is true of it.
LEMMA PresentedIsTrue ==
  ASSUME NEW o \in ToolOutcomes, NEW a \in Presented(o)
  PROVE  /\ a \in Answers /\ a.is \in {"value", "unshown", "error"}
         /\ a.is \in {"value", "unshown"} => o.ends = "value"
         /\ a.state = "absent" => ~o.changed
<1> USE NothingElse
<1>1. Answer("error", Nothing) \in Answers /\ Answer("value", Nothing) \in Answers /\ Answer("unshown", Nothing) \in Answers
  BY DEF Answer, Answers
<1>2. ErrorOf(o) \in Answers /\ ErrorOf(o).is = "error"
  BY DEF ErrorOf, StateOf, Answer, Answers
<1>3. CASE o.ends = "value"
  BY <1>1, <1>3 DEF Presented, Answer
<1>4. CASE o.ends # "value"
  <2>1. ErrorOf(o).state = "absent" => ~o.changed
    <3> SUFFICES ASSUME ErrorOf(o).state = "absent", o.changed PROVE FALSE
      OBVIOUS
    <3>1. o.ends # "raised" /\ o.ends # "input" /\ StateOf(o) = "absent"
      BY ToolsAreHonest DEF ErrorOf, Answer
    <3>2. o.told = Nothing /\ o.by # "core"
      <4>1. o.told # "absent" /\ Nothing # "absent"
        BY ToolsAreHonest
      <4>2. o.told # Nothing \/ o.by = "core" => StateOf(o) = o.told
        BY DEF StateOf
      <4> QED
        BY <3>1, <4>1, <4>2
    <3>3. o.by = "gui" \/ o.ends \in {"refusal", "retryable"}
      BY <3>1, <3>2 DEF StateOf
    <3> QED
      BY <1>4, <3>1, <3>2, <3>3, ToolsAreHonest
  <2> QED
    BY <1>1, <1>2, <1>4, <2>1 DEF Presented, Answer
<1> QED
  BY <1>3, <1>4

LEMMA ExecuteStep == ASSUME ToolIInv, NEW s \in Sends, Execute(s) PROVE ToolIInv'
<1> USE NothingElse DEF ToolIInv, ToolTyped
<1>1. PICK o \in ToolOutcomes : \E a \in Presented(o) :
        /\ run' = [run EXCEPT ![s] = [over |-> TRUE, changed |-> o.changed, returned |-> o.ends = "value"]]
        /\ RecordOutcome(s, a)
  BY DEF Execute
<1>0. PICK a \in Presented(o) :
        /\ run' = [run EXCEPT ![s] = [over |-> TRUE, changed |-> o.changed, returned |-> o.ends = "value"]]
        /\ RecordOutcome(s, a)
  BY <1>1
<1>2. /\ run[s] = RunsNow /\ run[s] # Nothing /\ run[s].over = FALSE /\ said' = Nothing
      /\ UNCHANGED <<stage, holder, awaited, began>>
  <2>1. RunsNow \in CallRuns /\ RunsNow.over = FALSE
    BY DEF RunsNow, CallRuns
  <2> QED
    BY <2>1 DEF Execute, Quiet
<1>3. entry[s] # Nothing /\ stage[s] \in {"wait", "ended"} /\ ~IsOver(entry[s]) /\ ~entry[s].gone /\ ~Spent(s)
  BY <1>2 DEF SendProgress, EntryIsTrue, Spent
<1>4. /\ a \in Answers /\ a.is \in {"value", "unshown", "error"} /\ a # Nothing
      /\ a.is \in {"value", "unshown"} => o.ends = "value"
      /\ a.state = "absent" => ~o.changed
  BY PresentedIsTrue
<1>5. entry' = [entry EXCEPT ![s] = EndedWith(a)]
  BY <1>0, <1>3 DEF RecordOutcome, IsOver
<1>6. EndedWith(a) \in Entries /\ EndedWith(a).answer = a /\ EndedWith(a).gone = FALSE /\ EndedWith(a) # Nothing
  BY <1>4, EndedEntry
<1>7. PICK r : r = [over |-> TRUE, changed |-> o.changed, returned |-> o.ends = "value"]
  OBVIOUS
<1>8. r \in CallRuns /\ r.over /\ (r.changed <=> o.changed) /\ (r.returned <=> o.ends = "value") /\ r # Nothing /\ run'[s] = r
  <2>1. r \in CallRuns
    BY <1>7, ToolsAreHonest DEF CallRuns
  <2>2. r.over /\ (r.changed <=> o.changed) /\ (r.returned <=> o.ends = "value")
    BY <1>7
  <2> QED
    BY <1>0, <1>7, <2>1, <2>2
<1>9. ToolTyped' /\ IsOver(entry'[s]) /\ entry'[s] = EndedWith(a) /\ AnswersAreTrue'
  BY <1>0, <1>2, <1>4, <1>5, <1>6, <1>7, <1>8 DEF IsOver, AnswersAreTrue
<1>10. SendProgress(s)' /\ EntryIsTrue(s)'
  <2>1. \A t \in Sends : entry[t] # Nothing => entry'[t] # Nothing
    BY <1>5, <1>6
  <2>2. SendProgress(s)'
    BY <1>2, <1>3, <1>6, <1>8, <1>9, <2>1 DEF SendProgress
  <2> QED
    BY <1>2, <1>3, <1>4, <1>6, <1>8, <1>9, <2>2 DEF EntryIsTrue
<1>11. \A t \in Sends \ {s} : entry'[t] = entry[t] /\ run'[t] = run[t] /\ stage'[t] = stage[t]
  BY <1>0, <1>2, <1>5
<1> QED
  BY <1>2, <1>3, <1>6, <1>9, <1>10, <1>11, RecordStep

\* The manager drops a reply, or a record.
LEMMA ForgetStep == ASSUME ToolIInv, NEW s \in Sends, DropReply(s) \/ Evict(s) PROVE ToolIInv'
<1> USE NothingElse DEF ToolIInv, ToolTyped
<1>1. /\ entry[s] # Nothing /\ IsOver(entry[s]) /\ entry[s].gone = FALSE /\ said' = Nothing
      /\ UNCHANGED <<stage, awaited, run, began>>
  BY DEF DropReply, Evict, Quiet, EntryIsTrue, Entries
<1>2. AnswersAreTrue'
  BY <1>1 DEF AnswersAreTrue
<1>3. PICK e : entry' = [entry EXCEPT ![s] = e] /\ e = IF DropReply(s) THEN [entry[s] EXCEPT !.kept = FALSE] ELSE GoneEntry
  BY DEF DropReply, Evict
<1>4. entry[s] \in Entries /\ entry[s].answer # Nothing
  BY <1>1 DEF IsOver
<1>0. stage[s] \in {"wait", "ended"}
  BY <1>1 DEF SendProgress, EntryIsTrue
<1>5. CASE DropReply(s)
  <2>1. e \in Entries /\ e.answer = entry[s].answer /\ e.gone = FALSE /\ e.kept = FALSE /\ e # Nothing
    BY <1>3, <1>4, <1>5, <1>1 DEF Entries
  <2>2. ToolTyped' /\ entry'[s] = e /\ holder' = holder
    BY <1>1, <1>3, <1>5, <2>1 DEF DropReply
  <2>0. \A t \in Sends : entry[t] # Nothing => entry'[t] # Nothing
    BY <1>3, <1>5, <2>1
  <2>3. SendProgress(s)'
    BY <1>0, <1>1, <1>3, <2>1, <2>2, <2>0 DEF SendProgress
  <2>4. EntryIsTrue(s)' /\ (Spent(s) => Spent(s)')
    BY <1>1, <1>4, <2>1, <2>2 DEF EntryIsTrue, IsOver, Spent
  <2> QED
    BY <1>1, <1>2, <1>3, <1>4, <2>1, <2>2, <2>3, <2>4, RecordStep DEF IsOver
<1>6. CASE ~DropReply(s)
  <2>1. Evict(s) /\ e = GoneEntry /\ e \in Entries /\ e.gone /\ e.answer = Nothing /\ e.kept = FALSE /\ e # Nothing
    BY <1>3, <1>6, GoneIsEntry
  <2>2. ToolTyped' /\ entry'[s] = e /\ (holder' = holder \/ (holder = s /\ holder' = Nothing)) /\ holder' # s
    BY <1>1, <1>3, <2>1 DEF Evict
  <2>0. \A t \in Sends : entry[t] # Nothing => entry'[t] # Nothing
    BY <1>3, <2>1
  <2>3. stage[s] # "slot" /\ SendProgress(s)'
    BY <1>0, <1>1, <1>3, <2>0, <2>1, <2>2 DEF SendProgress
  <2>4. EntryIsTrue(s)' /\ Spent(s)'
    BY <1>1, <2>1, <2>2, <2>3 DEF EntryIsTrue, IsOver, Spent
  <2> QED
    BY <1>1, <1>2, <1>3, <2>1, <2>2, <2>3, <2>4, RecordStep
<1> QED
  BY <1>5, <1>6

LEMMA ToolStep == ASSUME ToolIInv, [ToolNext]_toolVars PROVE ToolIInv'
<1>1. CASE UNCHANGED toolVars
  BY <1>1 DEF toolVars, ToolIInv, ToolTyped, BeganInTurn, Spent, AnswersAreTrue, SendProgress, EntryIsTrue
<1>2. ASSUME NEW s \in Sends, Admit(s) \/ Reply(s) \/ Look(s) \/ Fetch(s) \/ Discarded(s) PROVE ToolIInv'
  BY <1>2, RequestStep
<1>3. ASSUME NEW s \in Sends, Claim(s) PROVE ToolIInv'
  BY <1>3, ClaimStep
<1>4. ASSUME NEW s \in Sends, SlotsBusy(s) \/ CancelBeforeStart(s) \/ StartTool(s) PROVE ToolIInv'
  BY <1>4, SlotStep
<1>5. ASSUME NEW s \in Sends, Execute(s) PROVE ToolIInv'
  BY <1>5, ExecuteStep
<1>6. ASSUME NEW s \in Sends, DropReply(s) \/ Evict(s) PROVE ToolIInv'
  BY <1>6, ForgetStep
<1> QED
  BY <1>1, <1>2, <1>3, <1>4, <1>5, <1>6 DEF ToolNext

LEMMA SpentOnce == ASSUME ToolIInv PROVE ToolInvariant
<1> USE DEF ToolIInv, ToolTyped
<1> SUFFICES ASSUME NEW i \in DOMAIN began, NEW j \in DOMAIN began, i < j PROVE Spent(began[i])
  BY DEF ToolInvariant, RunsOnce, Spent
<1>1. DOMAIN began = 1..Len(began) /\ Len(began) \in Nat
  OBVIOUS
<1>2. began[i] # began[Len(began)] /\ began[i] \in Sends
  BY <1>1 DEF BeganInTurn
<1> QED
  BY <1>2, NothingElse DEF BeganInTurn

\* However its copies overlap, a write sent again with its request_id runs again
\* only when the calls before it are known to have changed nothing or are no longer
\* on record, and every reply is true of the call that it is about, for any
\* sends, fingerprints and ways in which the tool may end.
THEOREM ToolsHold == ToolSpec => []ToolInvariant
<1>1. ToolInit => ToolIInv
  BY ToolInitIInv
<1>2. ToolIInv /\ [ToolNext]_toolVars => ToolIInv'
  BY ToolStep
<1>3. ToolIInv => ToolInvariant
  BY SpentOnce
<1> QED
  BY <1>1, <1>2, <1>3, PTL DEF ToolSpec
=============================================================================
