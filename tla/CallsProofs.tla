----------------------------- MODULE CallsProofs -----------------------------
(***************************************************************************)
(* Proofs about the two ways a call of a client is taken on, DeferredCalls *)
(* and JobAdmission, and about the programs that calls share with the      *)
(* human in the GUI, GuiPrograms.                                          *)
(*                                                                         *)
(* DeferredCalls, for any finite set of calls and any number of slots: the *)
(* inductive invariant adds to the slots' conservation where a call is in  *)
(* each phase of its request (Progress), and that the queue has each       *)
(* waiting request once (Queue).                                           *)
(*                                                                         *)
(* JobAdmission, for any requests, request_ids and number of threads: the  *)
(* limiter's tokens are conserved, a request_id has one job, and what a    *)
(* client was told stays true.  That a refused request is never admitted   *)
(* later is not inductive: it needs that a thread which goes on after its  *)
(* request was answered has been told of the expiry (JobProgress), and     *)
(* that only threads with a receipt have had a job accepted (Ledger).      *)
(***************************************************************************)
EXTENDS DeferredCalls, JobAdmission, GuiPrograms, QueueLemmas

\* Where a call is: a thread runs only a call whose request took a slot, and
\* what is known of a call before that.
Phase(c) ==
  /\ request[c] = "new" => future[c] = "none" /\ record[c] = "none"
  /\ request[c] \in {"new", "queued", "timed_out", "cancelled"} =>
       thread[c] = "none" /\ reply[c] = "none"
  /\ request[c] = "queued" => future[c] \in {"pending", "granted"}
  /\ future[c] = "pending" => request[c] = "queued"
  /\ request[c] = "awaiting" => thread[c] # "none" /\ reply[c] = "none"
  /\ thread[c] = "none" => c \notin deferred

\* The record and the reply of a call that has not started, or never will.
NotStarted(c) ==
  thread[c] = "none" =>
    /\ reply[c] \in {"none", "busy"}
    /\ c \notin Claimed => record[c] = "none"
    /\ c \in Claimed /\ request[c] \in {"queued", "timed_out", "cancelled"} => record[c] = "running"
    /\ c \in Claimed /\ request[c] = "ended" =>
         record[c] \in {"busy", "cancelled"} /\ (reply[c] # "none" => record[c] = reply[c])

\* The record and the reply of a call that a thread runs or has run.
StartedBooks(c) ==
  thread[c] # "none" =>
    /\ reply[c] # "busy"
    /\ c \in Claimed => c \in deferred
    /\ c \notin Claimed => (c \in deferred <=> reply[c] = "deferred")
    /\ c \notin deferred => record[c] = "none" /\ thread[c] # "recording"
    /\ c \in deferred => record[c] = IF thread[c] \in {"leaving", "returned"} THEN "value" ELSE "running"
    /\ c \in Claimed /\ reply[c] = "value" => thread[c] = "returned"

Progress == \A c \in Calls : Phase(c) /\ NotStarted(c) /\ StartedBooks(c)

\* The queue has each request once, and each that still waits.
Distinct(s) == \A i, j \in DOMAIN s : s[i] = s[j] => i = j

Queue ==
  /\ Distinct(waiters)
  /\ \A i \in DOMAIN waiters : request[waiters[i]] # "new"
  /\ \A c \in Calls : future[c] = "pending" => \E i \in DOMAIN waiters : waiters[i] = c

CallsIInv == SlotInvariant /\ Progress /\ Queue
-----------------------------------------------------------------------------
(* Handing out slots                                                       *)

\* The waiters that _dispatch gives a slot.
Winners(ws, fs, n) == {ws[i] : i \in Lucky(ws, fs, n)}

\* There are as many of them as slots handed out.
LEMMA WinnersCount ==
  ASSUME NEW ws \in Seq(Calls), NEW fs, NEW n \in Nat, Distinct(ws)
  PROVE  /\ IsFiniteSet(Winners(ws, fs, n))
         /\ Cardinality(Winners(ws, fs, n)) = Cardinality(Lucky(ws, fs, n))
<1> DEFINE L == Lucky(ws, fs, n)
           W == Winners(ws, fs, n)
           f == [i \in L |-> ws[i]]
<1>1. L \subseteq DOMAIN ws
  BY DEF Lucky, Open
<1>2. IsFiniteSet(L)
  <2>1. DOMAIN ws = 1..Len(ws) /\ Len(ws) \in Nat
    BY LenProperties
  <2>2. IsFiniteSet(1..Len(ws))
    BY <2>1, FS_Interval
  <2> HIDE DEF L
  <2> QED
    BY <1>1, <2>1, <2>2, FS_Subset
<1>3. W = {ws[i] : i \in L}
  BY DEF Winners
<1>4. \A i, j \in L : ws[i] = ws[j] => i = j
  BY <1>1 DEF Distinct
<1> HIDE DEF L, W
<1>5. f \in Bijection(L, W)
  BY <1>3, <1>4 DEF Bijection, Injection, Surjection, IsInjective
<1>6. ExistsBijection(L, W)
  BY <1>5 DEF ExistsBijection
<1> QED
  BY <1>2, <1>6, FS_Bijection DEF L, W

\* What _dispatch leaves: a queue of those that still wait, who got nothing
\* only if no slot is left, and came after everyone who got one.
LEMMA HandOutProperties ==
  ASSUME NEW ws \in Seq(Calls),
         NEW fs \in [Calls -> {"none", "pending", "granted", "cancelled"}],
         NEW n \in Nat, Distinct(ws)
  PROVE  LET h == HandOut(ws, fs, n)
             W == Winners(ws, fs, n)
         IN /\ h.waiters \in Seq(Calls) /\ Distinct(h.waiters)
            /\ \A i \in DOMAIN h.waiters : \E j \in DOMAIN ws : h.waiters[i] = ws[j]
            /\ W \subseteq Calls /\ \A c \in W : fs[c] = "pending"
            /\ h.future = [c \in Calls |-> IF c \in W THEN "granted" ELSE fs[c]]
            /\ Cardinality(W) \in Nat /\ h.slots \in Nat /\ h.slots = n - Cardinality(W)
            /\ \A j \in DOMAIN ws : fs[ws[j]] = "pending" /\ ws[j] \notin W =>
                 /\ h.slots = 0
                 /\ \E i \in DOMAIN h.waiters : h.waiters[i] = ws[j]
                 /\ \A i \in DOMAIN ws : ws[i] \in W => i < j
<1> DEFINE h == HandOut(ws, fs, n)
           W == Winners(ws, fs, n)
           O == Open(ws, fs)
           L == Lucky(ws, fs, n)
           N == Len(ws)
<1>1. N \in Nat /\ DOMAIN ws = 1..N /\ \A i \in 1..N : ws[i] \in Calls
  BY LenProperties, ElementOfSeq
<1>2. O \subseteq 1..N /\ \A i \in 1..N : i \in O <=> fs[ws[i]] = "pending"
  BY <1>1 DEF Open
<1>3. L = FirstFew(O, n)
  BY DEF Lucky, FirstFew
<1>4. W = {ws[i] : i \in L}
  BY DEF Winners
<1>5. /\ h.waiters = IF O \ L = {} THEN <<>> ELSE SubSeq(ws, Min(O \ L), Len(ws))
      /\ h.future = [c \in Calls |-> IF \E i \in L : ws[i] = c THEN "granted" ELSE fs[c]]
      /\ h.slots = n - Cardinality(L)
  BY DEF HandOut
<1>6. Cardinality(W) = Cardinality(L)
  BY WinnersCount
<1> HIDE DEF h, W, O, L, N
<1>7. /\ Cardinality(L) \in Nat /\ Cardinality(L) <= n
      /\ O \ L # {} => Cardinality(L) = n
      /\ \A i \in L, j \in O \ L : i < j
      /\ L \subseteq O
  <2>1. L \subseteq O
    BY <1>3 DEF FirstFew
  <2> QED
    BY <1>1, <1>2, <1>3, <2>1, FirstFewProperties
<1>8. /\ W \subseteq Calls /\ \A c \in W : fs[c] = "pending"
      /\ h.future = [c \in Calls |-> IF c \in W THEN "granted" ELSE fs[c]]
  <2>1. \A c : c \in W <=> \E i \in L : ws[i] = c
    BY <1>4
  <2>2. \A i \in L : i \in 1..N /\ ws[i] \in Calls /\ fs[ws[i]] = "pending"
    BY <1>1, <1>2, <1>7
  <2>3. h.future = [c \in Calls |-> IF c \in W THEN "granted" ELSE fs[c]]
    BY <1>5, <2>1
  <2> QED
    BY <2>1, <2>2, <2>3
<1>9. h.slots \in Nat /\ h.slots = n - Cardinality(W) /\ Cardinality(W) \in Nat
  BY <1>5, <1>6, <1>7
<1>10. \A i \in 1..N : ws[i] \in W => i \in L
  <2>1. SUFFICES ASSUME NEW i \in 1..N, ws[i] \in W PROVE i \in L
    OBVIOUS
  <2>2. PICK k \in L : ws[k] = ws[i]
    BY <1>4, <2>1
  <2>3. k \in DOMAIN ws /\ i \in DOMAIN ws
    BY <1>1, <1>2, <1>7
  <2>4. k = i
    BY <2>2, <2>3 DEF Distinct
  <2> QED
    BY <2>4
<1>11. CASE O \ L = {}
  <2>1. h.waiters = <<>>
    BY <1>5, <1>11
  <2>2. h.waiters \in Seq(Calls) /\ DOMAIN h.waiters = {}
    BY <2>1, EmptySeq
  <2>3. \A j \in 1..N : ~(fs[ws[j]] = "pending" /\ ws[j] \notin W)
    BY <1>2, <1>4, <1>11
  <2> QED
    BY <1>1, <1>8, <1>9, <2>2, <2>3 DEF Distinct, h, W
<1>12. CASE O \ L # {}
  <2> DEFINE m == Min(O \ L)
  <2>1. m \in O \ L /\ \A i \in O \ L : m <= i
    <3>0. O \subseteq 1..N /\ N \in Nat
      BY <1>1, <1>2
    <3>00. \A i \in O : i \in Nat
      BY <3>0
    <3>1. O \ L \subseteq Nat
      BY <3>00, Zenon
    <3> QED
      BY <1>12, <3>1, MinOfNaturals
  <2>2. h.waiters = SubSeq(ws, m, Len(ws))
    BY <1>5, <1>12
  <2> HIDE DEF m
  <2>3. m \in 1..N
    BY <1>2, <2>1
  <2>4. /\ h.waiters \in Seq(Calls)
        /\ DOMAIN h.waiters = 1..(N - m + 1)
        /\ \A i \in 1..(N - m + 1) : h.waiters[i] = ws[m + i - 1]
    BY <1>1, <2>2, <2>3, SuffixProperties DEF N
  <2>5. Distinct(h.waiters)
    <3>1. SUFFICES ASSUME NEW i \in 1..(N - m + 1), NEW j \in 1..(N - m + 1), h.waiters[i] = h.waiters[j]
                   PROVE  i = j
      BY <2>4 DEF Distinct
    <3>2. m + i - 1 \in DOMAIN ws /\ m + j - 1 \in DOMAIN ws
      BY <1>1, <2>3
    <3>3. ws[m + i - 1] = ws[m + j - 1]
      BY <2>4, <3>1
    <3>4. m + i - 1 = m + j - 1
      BY <3>2, <3>3 DEF Distinct
    <3> QED
      BY <1>1, <2>3, <3>4
  <2>6. \A i \in DOMAIN h.waiters : \E j \in DOMAIN ws : h.waiters[i] = ws[j]
    <3>1. SUFFICES ASSUME NEW i \in 1..(N - m + 1) PROVE \E j \in DOMAIN ws : h.waiters[i] = ws[j]
      BY <2>4
    <3>2. m + i - 1 \in DOMAIN ws
      BY <1>1, <2>3
    <3> QED
      BY <2>4, <3>2
  <2>7. ASSUME NEW j \in 1..N, fs[ws[j]] = "pending", ws[j] \notin W
        PROVE  /\ h.slots = 0
               /\ \E i \in DOMAIN h.waiters : h.waiters[i] = ws[j]
               /\ \A i \in DOMAIN ws : ws[i] \in W => i < j
    <3>1. j \in O \ L
      BY <1>2, <1>4, <2>7
    <3>2. m <= j
      BY <2>1, <3>1
    <3>3. j - m + 1 \in DOMAIN h.waiters /\ h.waiters[j - m + 1] = ws[j]
      <4>1. j - m + 1 \in 1..(N - m + 1) /\ m + (j - m + 1) - 1 = j
        BY <1>1, <2>3, <3>2
      <4> QED
        BY <2>4, <4>1
    <3>4. h.slots = 0
      BY <1>5, <1>7, <1>12
    <3>5. \A i \in DOMAIN ws : ws[i] \in W => i < j
      BY <1>1, <1>7, <1>10, <3>1
    <3> QED
      BY <3>3, <3>4, <3>5
  <2> QED
    BY <1>1, <1>8, <1>9, <2>4, <2>5, <2>6, <2>7 DEF h, W
<1> QED
  BY <1>11, <1>12
-----------------------------------------------------------------------------
(* Types                                                                   *)

RequestStates == {"new", "queued", "timed_out", "cancelled", "awaiting", "ended"}
FutureStates == {"none", "pending", "granted", "cancelled"}
ThreadStates == {"none", "scheduled", "running", "recording", "leaving", "returned"}
RecordStates == {"none", "running", "value", "busy", "cancelled"}
ReplyStates == {"none", "value", "deferred", "busy"}

\* What _dispatch does to the variables, for a given queue.
LEMMA DispatchedProperties ==
  ASSUME NEW ws \in Seq(Calls), NEW fs \in [Calls -> FutureStates], slots \in Nat,
         Distinct(ws), Dispatched(ws, fs, slots)
  PROVE  \E W \in SUBSET Calls :
           /\ waiters' \in Seq(Calls) /\ Distinct(waiters')
           /\ \A i \in DOMAIN waiters' : \E j \in DOMAIN ws : waiters'[i] = ws[j]
           /\ \A c \in W : fs[c] = "pending" /\ \E i \in DOMAIN ws : ws[i] = c
           /\ future' = [c \in Calls |-> IF c \in W THEN "granted" ELSE fs[c]]
           /\ slots' \in Nat /\ Cardinality(W) \in Nat /\ slots' = slots - Cardinality(W)
           /\ \A j \in DOMAIN ws : fs[ws[j]] = "pending" /\ ws[j] \notin W =>
                /\ slots' = 0
                /\ \E i \in DOMAIN waiters' : waiters'[i] = ws[j]
                /\ \A i \in DOMAIN ws : ws[i] \in W => i < j
<1> DEFINE W == Winners(ws, fs, slots)
           h == HandOut(ws, fs, slots)
<1>1. waiters' = h.waiters /\ future' = h.future /\ slots' = h.slots
  BY DEF Dispatched
<1>2. \A c \in W : \E i \in DOMAIN ws : ws[i] = c
  BY DEF Winners, Lucky, Open
<1>3. /\ h.waiters \in Seq(Calls) /\ Distinct(h.waiters)
      /\ \A i \in DOMAIN h.waiters : \E j \in DOMAIN ws : h.waiters[i] = ws[j]
      /\ W \subseteq Calls /\ \A c \in W : fs[c] = "pending"
      /\ h.future = [c \in Calls |-> IF c \in W THEN "granted" ELSE fs[c]]
      /\ Cardinality(W) \in Nat /\ h.slots \in Nat /\ h.slots = slots - Cardinality(W)
      /\ \A j \in DOMAIN ws : fs[ws[j]] = "pending" /\ ws[j] \notin W =>
           /\ h.slots = 0
           /\ \E i \in DOMAIN h.waiters : h.waiters[i] = ws[j]
           /\ \A i \in DOMAIN ws : ws[i] \in W => i < j
  BY HandOutProperties DEF FutureStates
<1> HIDE DEF W, h
<1> QED
  BY <1>1, <1>2, <1>3, SMTT(60)

\* The queue that a request joins.
LEMMA JoinedQueue ==
  ASSUME TypeOK, Queue, NEW c \in Calls, request[c] = "new"
  PROVE  LET ws == Append(waiters, c)
             fs == [future EXCEPT ![c] = "pending"]
         IN /\ ws \in Seq(Calls) /\ fs \in [Calls -> FutureStates] /\ Distinct(ws)
            /\ DOMAIN waiters = 1..Len(waiters) /\ Len(waiters) \in Nat
            /\ DOMAIN ws = 1..Len(waiters) + 1
            /\ \A i \in DOMAIN waiters : ws[i] = waiters[i]
            /\ ws[Len(waiters) + 1] = c
            /\ \A i \in DOMAIN waiters : waiters[i] \in Calls /\ waiters[i] # c
<1> DEFINE ws == Append(waiters, c)
           fs == [future EXCEPT ![c] = "pending"]
<1>0. waiters \in Seq(Calls) /\ future \in [Calls -> FutureStates]
  BY DEF TypeOK, FutureStates
<1>1. DOMAIN waiters = 1..Len(waiters) /\ Len(waiters) \in Nat /\ \A i \in DOMAIN waiters : waiters[i] \in Calls
  BY <1>0, LenProperties, ElementOfSeq
<1>2. \A i \in DOMAIN waiters : waiters[i] # c
  BY DEF Queue
<1>3. ws \in Seq(Calls) /\ \A i, j \in DOMAIN ws : ws[i] = ws[j] => i = j
  <2>1. c \notin {waiters[i] : i \in DOMAIN waiters}
    BY <1>2
  <2>2. \A i, j \in DOMAIN waiters : waiters[i] = waiters[j] => i = j
    BY DEF Queue, Distinct
  <2> QED
    BY <1>0, <2>1, <2>2, AppendDistinct
<1>4. Len(ws) = Len(waiters) + 1 /\ (\A i \in 1..Len(waiters) : ws[i] = waiters[i]) /\ ws[Len(waiters) + 1] = c
  BY <1>0, AppendProperties
<1>5. DOMAIN ws = 1..Len(waiters) + 1
  BY <1>3, <1>4, LenProperties
<1>6. fs \in [Calls -> FutureStates]
  BY <1>0 DEF FutureStates
<1> HIDE DEF ws, fs
<1> QED
  BY <1>1, <1>2, <1>3, <1>4, <1>5, <1>6 DEF ws, fs, Distinct

\* The calls W are handed slots: waiters that came before any that gets none.
Served(W) ==
  /\ waiters' \in Seq(Calls) /\ Distinct(waiters')
  /\ \A i \in DOMAIN waiters' : \E j \in DOMAIN waiters : waiters'[i] = waiters[j]
  /\ \A c \in W : future[c] = "pending" /\ \E i \in DOMAIN waiters : waiters[i] = c
  /\ future' = [c \in Calls |-> IF c \in W THEN "granted" ELSE future[c]]
  /\ slots' \in Nat /\ Cardinality(W) \in Nat /\ slots' = slots - Cardinality(W)
  /\ \A j \in DOMAIN waiters : future[waiters[j]] = "pending" /\ waiters[j] \notin W =>
       /\ slots' = 0
       /\ \E i \in DOMAIN waiters' : waiters'[i] = waiters[j]
       /\ \A i \in DOMAIN waiters : waiters[i] \in W => i < j

LEMMA DispatchStep ==
  ASSUME TypeOK, Queue, Dispatch
  PROVE  \E W \in SUBSET Calls : Served(W)
<1>1. waiters \in Seq(Calls) /\ future \in [Calls -> FutureStates] /\ slots \in Nat
  BY DEF TypeOK, FutureStates
<1>2. Distinct(waiters) /\ Dispatched(waiters, future, slots)
  BY DEF Queue, Dispatch
<1> QED
  BY <1>1, <1>2, DispatchedProperties DEF Served

\* The same when c joins the queue: it comes last.
Joined(c, W) ==
  /\ waiters' \in Seq(Calls) /\ Distinct(waiters')
  /\ \A i \in DOMAIN waiters' : waiters'[i] = c \/ \E j \in DOMAIN waiters : waiters'[i] = waiters[j]
  /\ \A d \in W : d # c => future[d] = "pending" /\ \E i \in DOMAIN waiters : waiters[i] = d
  /\ future' = [d \in Calls |-> IF d \in W THEN "granted" ELSE IF d = c THEN "pending" ELSE future[d]]
  /\ slots' \in Nat /\ Cardinality(W) \in Nat /\ slots' = slots - Cardinality(W)
  /\ \A j \in DOMAIN waiters : future[waiters[j]] = "pending" /\ waiters[j] \notin W =>
       /\ slots' = 0 /\ c \notin W
       /\ \E i \in DOMAIN waiters' : waiters'[i] = waiters[j]
       /\ \A i \in DOMAIN waiters : waiters[i] \in W => i < j
  /\ c \notin W => slots' = 0 /\ \E i \in DOMAIN waiters' : waiters'[i] = c

\* A request that finds no free slot or a queue joins it, and may get a slot at
\* once: the slots of a queue that was about to be served.
LEMMA ArriveStep ==
  ASSUME TypeOK, Queue, NEW c \in Calls, Arrive(c), ~(waiters = <<>> /\ slots > 0)
  PROVE  \E W \in SUBSET Calls : Joined(c, W)
<1> DEFINE ws == Append(waiters, c)
           fs == [future EXCEPT ![c] = "pending"]
           N == Len(waiters)
<1>1. slots \in Nat /\ future \in [Calls -> FutureStates]
  BY DEF TypeOK, FutureStates
<1>2. Dispatched(ws, fs, slots) /\ request[c] = "new"
  BY DEF Arrive
<1>3. /\ ws \in Seq(Calls) /\ fs \in [Calls -> FutureStates] /\ Distinct(ws)
      /\ DOMAIN waiters = 1..N /\ N \in Nat
      /\ DOMAIN ws = 1..N + 1
      /\ \A i \in DOMAIN waiters : ws[i] = waiters[i]
      /\ ws[N + 1] = c
      /\ \A i \in DOMAIN waiters : waiters[i] \in Calls /\ waiters[i] # c
  BY <1>2, JoinedQueue
<1>4. \A d \in Calls : fs[d] = IF d = c THEN "pending" ELSE future[d]
  BY <1>1
<1> HIDE DEF ws, fs, N
<1>30. /\ ws \in Seq(Calls) /\ fs \in [Calls -> FutureStates] /\ slots \in Nat
       /\ Distinct(ws) /\ Dispatched(ws, fs, slots)
  BY <1>1, <1>2, <1>3
<1>5. PICK W \in SUBSET Calls :
        /\ waiters' \in Seq(Calls) /\ Distinct(waiters')
        /\ \A i \in DOMAIN waiters' : \E j \in DOMAIN ws : waiters'[i] = ws[j]
        /\ \A d \in W : fs[d] = "pending" /\ \E i \in DOMAIN ws : ws[i] = d
        /\ future' = [d \in Calls |-> IF d \in W THEN "granted" ELSE fs[d]]
        /\ slots' \in Nat /\ Cardinality(W) \in Nat /\ slots' = slots - Cardinality(W)
        /\ \A j \in DOMAIN ws : fs[ws[j]] = "pending" /\ ws[j] \notin W =>
             /\ slots' = 0
             /\ \E i \in DOMAIN waiters' : waiters'[i] = ws[j]
             /\ \A i \in DOMAIN ws : ws[i] \in W => i < j
  BY <1>30, DispatchedProperties
<1>6. \A i \in DOMAIN ws : i \in DOMAIN waiters \/ i = N + 1
  BY <1>3
<1>7. ASSUME NEW i \in DOMAIN waiters' PROVE waiters'[i] = c \/ \E j \in DOMAIN waiters : waiters'[i] = waiters[j]
  BY <1>3, <1>5, <1>6
<1>8. ASSUME NEW d \in W, d # c PROVE future[d] = "pending" /\ \E i \in DOMAIN waiters : waiters[i] = d
  BY <1>3, <1>4, <1>5, <1>6, <1>8
<1>9. future' = [d \in Calls |-> IF d \in W THEN "granted" ELSE IF d = c THEN "pending" ELSE future[d]]
  BY <1>4, <1>5
<1>10. ASSUME NEW j \in DOMAIN waiters, future[waiters[j]] = "pending", waiters[j] \notin W
       PROVE  /\ slots' = 0 /\ c \notin W
              /\ \E i \in DOMAIN waiters' : waiters'[i] = waiters[j]
              /\ \A i \in DOMAIN waiters : waiters[i] \in W => i < j
  <2>1. j \in DOMAIN ws /\ ws[j] = waiters[j] /\ fs[ws[j]] = "pending"
    BY <1>3, <1>4, <1>10
  <2>2. /\ slots' = 0
        /\ \E i \in DOMAIN waiters' : waiters'[i] = waiters[j]
        /\ \A i \in DOMAIN ws : ws[i] \in W => i < j
    BY <1>5, <1>10, <2>1
  <2>3. N + 1 \in DOMAIN ws /\ ~(N + 1 < j)
    BY <1>3
  <2>4. \A i \in DOMAIN waiters : i \in DOMAIN ws
    BY <1>3
  <2> QED
    BY <1>3, <2>2, <2>3, <2>4
<1>11. ASSUME c \notin W PROVE slots' = 0 /\ \E i \in DOMAIN waiters' : waiters'[i] = c
  <2>1. N + 1 \in DOMAIN ws /\ fs[ws[N + 1]] = "pending"
    BY <1>3, <1>4
  <2> QED
    BY <1>3, <1>5, <1>11, <2>1
<1> QED
  BY <1>5, <1>7, <1>8, <1>9, <1>10, <1>11 DEF Joined

LEMMA TypeStep ==
  ASSUME TypeOK, Queue, [Next]_vars
  PROVE  TypeOK'
<1> DEFINE Types == /\ request \in [Calls -> RequestStates]
                    /\ future \in [Calls -> FutureStates]
                    /\ waiters \in Seq(Calls)
                    /\ slots \in Nat /\ wakeups \in Nat
                    /\ thread \in [Calls -> ThreadStates]
                    /\ deferred \subseteq Calls
                    /\ record \in [Calls -> RecordStates]
                    /\ reply \in [Calls -> ReplyStates]
<1>0. TypeOK <=> Types
  BY DEF TypeOK, RequestStates, FutureStates, ThreadStates, RecordStates, ReplyStates
<1>00. Types
  BY <1>0
<1> SUFFICES Types'
  BY DEF TypeOK, RequestStates, FutureStates, ThreadStates, RecordStates, ReplyStates
<1> USE DEF RequestStates, FutureStates, ThreadStates, RecordStates, ReplyStates
<1>1. CASE Dispatch
  <2>1. PICK W \in SUBSET Calls :
          /\ waiters' \in Seq(Calls)
          /\ future' = [c \in Calls |-> IF c \in W THEN "granted" ELSE future[c]]
          /\ slots' \in Nat
    BY <1>1, DispatchStep DEF Served
  <2>2. future' \in [Calls -> FutureStates]
    BY <1>00, <2>1
  <2>3. wakeups' \in Nat /\ UNCHANGED <<request, thread, deferred, record, reply>>
    BY <1>00, <1>1 DEF Dispatch
  <2> QED
    BY <1>00, <2>1, <2>2, <2>3
<1>2. ASSUME NEW c \in Calls, Arrive(c) PROVE Types'
  <2>1. record' \in [Calls -> RecordStates]
    BY <1>00, <1>2 DEF Arrive
  <2>2. UNCHANGED <<wakeups, reply>> /\ request[c] = "new"
    BY <1>2 DEF Arrive
  <2>3. CASE waiters = <<>> /\ slots > 0
    BY <1>00, <1>2, <2>1, <2>2, <2>3 DEF Arrive, Started
  <2>4. CASE ~(waiters = <<>> /\ slots > 0)
    <3>3. PICK W \in SUBSET Calls :
            /\ waiters' \in Seq(Calls)
            /\ future' = [d \in Calls |-> IF d \in W THEN "granted" ELSE IF d = c THEN "pending" ELSE future[d]]
            /\ slots' \in Nat
      BY <1>2, <2>4, ArriveStep DEF Joined
    <3>4. future' \in [Calls -> FutureStates]
      BY <1>00, <3>3
    <3>5. /\ request' \in [Calls -> RequestStates]
          /\ thread' \in [Calls -> ThreadStates]
          /\ deferred' \subseteq Calls
      BY <1>00, <1>2, <2>4, SMTT(60) DEF Arrive, Started
    <3> QED
      BY <1>00, <2>1, <2>2, <3>3, <3>4, <3>5
  <2> QED
    BY <2>3, <2>4
<1>3. ASSUME NEW c \in Calls, Granted(c) PROVE Types'
  BY <1>00, <1>3 DEF Granted, Started
<1>4. ASSUME NEW c \in Calls, NEW why \in {"timed_out", "cancelled"}, Interrupt(c, why) PROVE Types'
  BY <1>00, <1>4 DEF Interrupt
<1>5. ASSUME NEW c \in Calls, Unwind(c) PROVE Types'
  <2>1. waiters' \in Seq(Calls)
    <3>1. CASE future[c] = "granted"
      BY <1>00, <1>5, <3>1 DEF Unwind, PassOn
    <3>2. CASE future[c] # "granted"
      <4>1. waiters' = RemoveFirst(waiters, c)
        BY <1>5, <3>2 DEF Unwind, PassOn
      <4>2. \/ RemoveFirst(waiters, c) = waiters
            \/ \E k \in DOMAIN waiters : RemoveFirst(waiters, c) = RemoveAt(waiters, k)
        BY <1>00, RemoveFirstProperties
      <4> QED
        BY <1>00, <4>1, <4>2, RemoveAtProperties
    <3> QED
      BY <3>1, <3>2
  <2>2. slots' \in Nat /\ wakeups' \in Nat
    BY <1>00, <1>5 DEF Unwind, PassOn, ReleaseSlot
  <2>3. record' \in [Calls -> RecordStates] /\ reply' \in [Calls -> ReplyStates]
    BY <1>00, <1>5 DEF Unwind, NotRun
  <2>4. request' \in [Calls -> RequestStates] /\ UNCHANGED <<future, thread, deferred>>
    BY <1>00, <1>5 DEF Unwind
  <2> QED
    BY <1>00, <2>1, <2>2, <2>3, <2>4
<1>6. ASSUME NEW c \in Calls, Reply(c) PROVE Types'
  BY <1>00, <1>6 DEF Reply
<1>7. ASSUME NEW c \in Calls, WaitOver(c) PROVE Types'
  BY <1>00, <1>7 DEF WaitOver
<1>8. ASSUME NEW c \in Calls, CancelRequest(c) PROVE Types'
  BY <1>00, <1>8 DEF CancelRequest
<1>9. ASSUME NEW c \in Calls, Run(c) \/ Finish(c) \/ Record(c) PROVE Types'
  BY <1>00, <1>9 DEF Run, Finish, Record
<1>10. ASSUME NEW c \in Calls, Leave(c) PROVE Types'
  BY <1>00, <1>10 DEF Leave, ReleaseSlot
<1>11. CASE UNCHANGED vars
  BY <1>00, <1>11 DEF vars
<1> QED
  BY <1>1, <1>2, <1>3, <1>4, <1>5, <1>6, <1>7, <1>8, <1>9, <1>10, <1>11 DEF Next
-----------------------------------------------------------------------------
(* Each call's progress                                                    *)

CallOK(c) == Phase(c) /\ NotStarted(c) /\ StartedBooks(c)

\* A step in which a call takes no part, or is handed a slot.
LEMMA Bystander ==
  ASSUME NEW c \in Calls, CallOK(c),
         request'[c] = request[c], thread'[c] = thread[c],
         record'[c] = record[c], reply'[c] = reply[c],
         c \in deferred' <=> c \in deferred,
         future'[c] = future[c] \/ (future[c] = "pending" /\ future'[c] = "granted")
  PROVE  CallOK(c)'
<1>1. Phase(c)'
  BY DEF CallOK, Phase
<1>2. NotStarted(c)'
  BY DEF CallOK, NotStarted
<1>3. StartedBooks(c)'
  BY DEF CallOK, StartedBooks
<1> QED
  BY <1>1, <1>2, <1>3 DEF CallOK

Untouched(c) ==
  /\ request'[c] = request[c] /\ thread'[c] = thread[c]
  /\ record'[c] = record[c] /\ reply'[c] = reply[c]
  /\ c \in deferred' <=> c \in deferred
  /\ future'[c] = future[c] \/ (future[c] = "pending" /\ future'[c] = "granted")

LEMMA Bystanders ==
  ASSUME NEW c \in Calls, \A d \in Calls : CallOK(d), CallOK(c)',
         \A d \in Calls : d # c => Untouched(d)
  PROVE  \A d \in Calls : CallOK(d)'
<1>1. ASSUME NEW d \in Calls, d # c PROVE CallOK(d)'
  <2>1. CallOK(d) /\ Untouched(d)
    BY <1>1
  <2> QED
    BY <2>1, Bystander DEF Untouched
<1> QED
  BY <1>1

LEMMA ProgressStep ==
  ASSUME TypeOK, Queue, Progress, [Next]_vars
  PROVE  Progress'
<1>0. /\ request \in [Calls -> RequestStates] /\ future \in [Calls -> FutureStates]
      /\ thread \in [Calls -> ThreadStates] /\ record \in [Calls -> RecordStates]
      /\ reply \in [Calls -> ReplyStates] /\ deferred \subseteq Calls
  BY DEF TypeOK, RequestStates, FutureStates, ThreadStates, RecordStates, ReplyStates
<1>00. \A c \in Calls : CallOK(c)
  BY DEF Progress, CallOK
<1> SUFFICES \A c \in Calls : CallOK(c)'
  BY DEF Progress, CallOK
<1>1. CASE Dispatch
  <2>1. PICK W \in SUBSET Calls :
          /\ \A c \in W : future[c] = "pending"
          /\ future' = [c \in Calls |-> IF c \in W THEN "granted" ELSE future[c]]
    BY <1>1, DispatchStep DEF Served
  <2>2. UNCHANGED <<request, thread, deferred, record, reply>>
    BY <1>1 DEF Dispatch
  <2>3. ASSUME NEW c \in Calls PROVE CallOK(c)'
    BY <1>00, <2>1, <2>2, Bystander
  <2> QED
    BY <2>3
<1>2. ASSUME NEW c \in Calls, Arrive(c) PROVE \A d \in Calls : CallOK(d)'
  <2>1. /\ request[c] = "new" /\ future[c] = "none" /\ record[c] = "none"
        /\ thread[c] = "none" /\ reply[c] = "none" /\ c \notin deferred
    BY <1>00, <1>2 DEF CallOK, Phase, Arrive
  <2>2. /\ record' = IF c \in Claimed THEN [record EXCEPT ![c] = "running"] ELSE record
        /\ UNCHANGED reply
    BY <1>2 DEF Arrive
  <2>3. /\ record'[c] = IF c \in Claimed THEN "running" ELSE "none"
        /\ \A d \in Calls : d # c => record'[d] = record[d]
    BY <1>0, <2>1, <2>2
  <2>4. /\ \/ future'[c] \in {"none", "granted"} /\ Started(c)
           \/ /\ future'[c] = "pending"
              /\ request' = [request EXCEPT ![c] = "queued"]
              /\ UNCHANGED <<thread, deferred>>
        /\ \A d \in Calls : d # c =>
             future'[d] = future[d] \/ (future[d] = "pending" /\ future'[d] = "granted")
    <3>1. CASE waiters = <<>> /\ slots > 0
      <4>1. UNCHANGED <<future, waiters>> /\ Started(c)
        BY <1>2, <3>1 DEF Arrive
      <4> QED
        BY <2>1, <4>1
    <3>2. CASE ~(waiters = <<>> /\ slots > 0)
      <4>0. PICK W \in SUBSET Calls : Joined(c, W)
        BY <1>2, <3>2, ArriveStep
      <4>1. /\ \A d \in W : d # c => future[d] = "pending"
            /\ future' = [d \in Calls |-> IF d \in W THEN "granted" ELSE IF d = c THEN "pending" ELSE future[d]]
        BY <4>0, Zenon DEF Joined
      <4>2. IF future'[c] = "granted" THEN Started(c)
            ELSE request' = [request EXCEPT ![c] = "queued"] /\ UNCHANGED <<thread, deferred>>
        BY <1>2, <3>2 DEF Arrive
      <4>3. future'[c] \in {"pending", "granted"}
        BY <4>1
      <4>4. \A d \in Calls : d # c =>
              future'[d] = future[d] \/ (future[d] = "pending" /\ future'[d] = "granted")
        BY <4>1
      <4> QED
        BY <4>2, <4>3, <4>4
    <3> QED
      BY <3>1, <3>2
  <2>5. ASSUME NEW d \in Calls, d # c PROVE CallOK(d)'
    <3>1. request'[d] = request[d] /\ thread'[d] = thread[d] /\ (d \in deferred' <=> d \in deferred)
      BY <1>0, <2>4, <2>5 DEF Started
    <3> QED
      BY <1>00, <2>2, <2>3, <2>4, <2>5, <3>1, Bystander
  <2>6. CallOK(c)'
    <3>1. CASE future'[c] \in {"none", "granted"} /\ Started(c)
      <4>1. /\ request'[c] = "awaiting" /\ thread'[c] = "scheduled"
            /\ c \in deferred' <=> c \in Claimed
        BY <1>0, <2>1, <3>1 DEF Started
      <4> QED
        BY <2>1, <2>2, <2>3, <3>1, <4>1 DEF CallOK, Phase, NotStarted, StartedBooks
    <3>2. CASE /\ future'[c] = "pending"
               /\ request' = [request EXCEPT ![c] = "queued"]
               /\ UNCHANGED <<thread, deferred>>
      BY <1>0, <2>1, <2>2, <2>3, <3>2 DEF CallOK, Phase, NotStarted, StartedBooks
    <3> QED
      BY <2>4, <3>1, <3>2
  <2> QED
    BY <2>5, <2>6
<1>3. ASSUME NEW c \in Calls, Granted(c) PROVE \A d \in Calls : CallOK(d)'
  <2>1. /\ request'[c] = "awaiting" /\ thread'[c] = "scheduled" /\ (c \in deferred' <=> c \in Claimed)
        /\ future'[c] = "granted" /\ record'[c] = record[c] /\ reply'[c] = "none"
        /\ record[c] = IF c \in Claimed THEN "running" ELSE "none"
    BY <1>0, <1>00, <1>3 DEF Granted, Started, CallOK, Phase, NotStarted
  <2>2. CallOK(c)'
    BY <2>1 DEF CallOK, Phase, NotStarted, StartedBooks
  <2>3. \A d \in Calls : d # c =>
          /\ request'[d] = request[d] /\ thread'[d] = thread[d] /\ (d \in deferred' <=> d \in deferred)
          /\ UNCHANGED <<future, record, reply>>
    BY <1>0, <1>3 DEF Granted, Started
  <2> QED
    BY <1>00, <2>2, <2>3, Bystanders DEF Untouched
<1>4. ASSUME NEW c \in Calls, NEW why \in {"timed_out", "cancelled"}, Interrupt(c, why)
      PROVE  \A d \in Calls : CallOK(d)'
  <2>1. /\ request[c] = "queued" /\ request'[c] = why
        /\ future'[c] = (IF future[c] = "pending" THEN "cancelled" ELSE future[c])
        /\ UNCHANGED <<thread, deferred, record, reply>>
        /\ \A d \in Calls : d # c => request'[d] = request[d] /\ future'[d] = future[d]
    BY <1>0, <1>4 DEF Interrupt
  <2>2. Phase(c) /\ NotStarted(c) /\ StartedBooks(c)
    BY <1>00 DEF CallOK
  <2>3. Phase(c)'
    BY <2>1, <2>2 DEF Phase
  <2>4. NotStarted(c)' /\ StartedBooks(c)'
    BY <2>1, <2>2 DEF Phase, NotStarted, StartedBooks
  <2>10. CallOK(c)'
    BY <2>3, <2>4 DEF CallOK
  <2> QED
    BY <1>00, <2>1, <2>10, Bystanders DEF Untouched
<1>5. ASSUME NEW c \in Calls, Unwind(c) PROVE \A d \in Calls : CallOK(d)'
  <2>1. /\ request[c] \in {"timed_out", "cancelled"} /\ request'[c] = "ended"
        /\ reply'[c] = (IF request[c] = "timed_out" THEN "busy" ELSE reply[c])
        /\ record'[c] = IF c \notin Claimed THEN record[c]
                        ELSE IF request[c] = "timed_out" THEN "busy" ELSE "cancelled"
        /\ UNCHANGED <<future, thread, deferred>>
        /\ \A d \in Calls : d # c =>
             request'[d] = request[d] /\ reply'[d] = reply[d] /\ record'[d] = record[d]
    BY <1>0, <1>5 DEF Unwind, NotRun
  <2>2. Phase(c) /\ NotStarted(c) /\ StartedBooks(c)
    BY <1>00 DEF CallOK
  <2>3. Phase(c)'
    BY <2>1, <2>2 DEF Phase
  <2>4. NotStarted(c)' /\ StartedBooks(c)'
    BY <2>1, <2>2 DEF Phase, NotStarted, StartedBooks
  <2>10. CallOK(c)'
    BY <2>3, <2>4 DEF CallOK
  <2> QED
    BY <1>00, <2>1, <2>10, Bystanders DEF Untouched
<1>6. ASSUME NEW c \in Calls, Reply(c) PROVE \A d \in Calls : CallOK(d)'
  <2>1. /\ request[c] = "awaiting" /\ thread[c] = "returned" /\ request'[c] = "ended" /\ reply'[c] = "value"
        /\ UNCHANGED <<future, thread, deferred, record>>
        /\ \A d \in Calls : d # c => request'[d] = request[d] /\ reply'[d] = reply[d]
    BY <1>0, <1>6 DEF Reply
  <2>2. Phase(c) /\ NotStarted(c) /\ StartedBooks(c)
    BY <1>00 DEF CallOK
  <2>3. Phase(c)' /\ NotStarted(c)' /\ StartedBooks(c)'
    BY <2>1, <2>2 DEF Phase, NotStarted, StartedBooks
  <2>10. CallOK(c)'
    BY <2>3 DEF CallOK
  <2> QED
    BY <1>00, <2>1, <2>10, Bystanders DEF Untouched
<1>7. ASSUME NEW c \in Calls, WaitOver(c) PROVE \A d \in Calls : CallOK(d)'
  <2>1. /\ request[c] = "awaiting" /\ request'[c] = "ended"
        /\ UNCHANGED <<future, thread>>
        /\ \A d \in Calls : d # c => request'[d] = request[d] /\ reply'[d] = reply[d]
             /\ record'[d] = record[d] /\ (d \in deferred' <=> d \in deferred)
    BY <1>0, <1>7 DEF WaitOver
  <2>2. Phase(c) /\ NotStarted(c) /\ StartedBooks(c) /\ thread[c] \in ThreadStates
    BY <1>0, <1>00 DEF CallOK
  <2>3. \/ /\ c \in Claimed /\ UNCHANGED <<deferred, record>>
           /\ reply'[c] = IF thread[c] = "returned" THEN "value" ELSE "deferred"
        \/ /\ c \notin Claimed /\ HasFinished(c) /\ UNCHANGED <<deferred, record>>
           /\ reply'[c] = "value"
        \/ /\ c \notin Claimed /\ ~HasFinished(c) /\ c \in deferred' /\ record'[c] = "running"
           /\ reply'[c] = "deferred"
    BY <1>0, <1>7 DEF WaitOver
  <2>4. Phase(c)' /\ NotStarted(c)'
    BY <2>1, <2>2 DEF Phase, NotStarted
  <2>5. StartedBooks(c)'
    BY <2>1, <2>2, <2>3 DEF Phase, StartedBooks, HasFinished, ThreadStates
  <2>10. CallOK(c)'
    BY <2>4, <2>5 DEF CallOK
  <2> QED
    BY <1>00, <2>1, <2>10, Bystanders DEF Untouched
<1>8. ASSUME NEW c \in Calls, CancelRequest(c) PROVE \A d \in Calls : CallOK(d)'
  <2>1. /\ request[c] = "awaiting" /\ request'[c] = "ended"
        /\ UNCHANGED <<future, thread, deferred, record, reply>>
        /\ \A d \in Calls : d # c => request'[d] = request[d]
    BY <1>0, <1>8 DEF CancelRequest
  <2>2. Phase(c) /\ NotStarted(c) /\ StartedBooks(c)
    BY <1>00 DEF CallOK
  <2>3. Phase(c)' /\ NotStarted(c)' /\ StartedBooks(c)'
    BY <2>1, <2>2 DEF Phase, NotStarted, StartedBooks
  <2>10. CallOK(c)'
    BY <2>3 DEF CallOK
  <2> QED
    BY <1>00, <2>1, <2>10, Bystanders DEF Untouched
<1>9. ASSUME NEW c \in Calls, Run(c) \/ Finish(c) \/ Record(c) \/ Leave(c)
      PROVE  \A d \in Calls : CallOK(d)'
  <2>1. /\ UNCHANGED <<request, future, deferred, reply>>
        /\ \A d \in Calls : d # c => thread'[d] = thread[d] /\ record'[d] = record[d]
    BY <1>0, <1>9 DEF Run, Finish, Record, Leave
  <2>2. Phase(c) /\ NotStarted(c) /\ StartedBooks(c)
    BY <1>00 DEF CallOK
  <2>3. \/ thread[c] = "scheduled" /\ thread'[c] = "running" /\ record'[c] = record[c]
        \/ /\ thread[c] = "running" /\ record'[c] = record[c]
           /\ thread'[c] = IF c \in deferred THEN "recording" ELSE "leaving"
        \/ /\ thread[c] = "recording" /\ thread'[c] = "leaving"
           /\ record'[c] = IF record[c] = "running" THEN "value" ELSE record[c]
        \/ thread[c] = "leaving" /\ thread'[c] = "returned" /\ record'[c] = record[c]
    BY <1>0, <1>9 DEF Run, Finish, Record, Leave
  <2>4. thread[c] # "none" /\ thread'[c] # "none"
    BY <2>3
  <2>5. Phase(c)' /\ NotStarted(c)'
    BY <2>1, <2>2, <2>4 DEF Phase, NotStarted
  <2>6. StartedBooks(c)'
    BY <2>1, <2>2, <2>3, <2>4 DEF StartedBooks
  <2>10. CallOK(c)'
    BY <2>5, <2>6 DEF CallOK
  <2> QED
    BY <1>00, <2>1, <2>10, Bystanders DEF Untouched
<1>10. CASE UNCHANGED vars
  <2>1. ASSUME NEW c \in Calls PROVE CallOK(c)'
    BY <1>00, <1>10, Bystander DEF vars
  <2> QED
    BY <2>1
<1> QED
  BY <1>1, <1>2, <1>3, <1>4, <1>5, <1>6, <1>7, <1>8, <1>9, <1>10 DEF Next

-----------------------------------------------------------------------------
(* The queue                                                               *)

LEMMA QueueStep ==
  ASSUME TypeOK, Queue, Progress, [Next]_vars
  PROVE  Queue'
<1>0. /\ request \in [Calls -> RequestStates] /\ future \in [Calls -> FutureStates]
      /\ waiters \in Seq(Calls)
  BY DEF TypeOK, RequestStates, FutureStates
<1>1. \A i \in DOMAIN waiters : waiters[i] \in Calls /\ request[waiters[i]] # "new"
  BY <1>0, LenProperties, ElementOfSeq DEF Queue
<1>2. Distinct(waiters) /\ \A c \in Calls : future[c] = "pending" => \E i \in DOMAIN waiters : waiters[i] = c
  BY DEF Queue
\* A step that leaves the queue alone and makes nobody wait.
<1>3. ASSUME waiters' = waiters,
             \A c \in Calls : request[c] # "new" => request'[c] # "new",
             \A c \in Calls : future'[c] = "pending" => future[c] = "pending"
      PROVE  Queue'
  BY <1>1, <1>2, <1>3 DEF Queue, Distinct
<1>4. CASE Dispatch
  <2>1. PICK W \in SUBSET Calls :
          /\ Distinct(waiters')
          /\ \A i \in DOMAIN waiters' : \E j \in DOMAIN waiters : waiters'[i] = waiters[j]
          /\ future' = [c \in Calls |-> IF c \in W THEN "granted" ELSE future[c]]
          /\ \A j \in DOMAIN waiters : future[waiters[j]] = "pending" /\ waiters[j] \notin W =>
               \E i \in DOMAIN waiters' : waiters'[i] = waiters[j]
    BY <1>4, DispatchStep DEF Served
  <2>2. request' = request
    BY <1>4 DEF Dispatch
  <2>3. \A i \in DOMAIN waiters' : request'[waiters'[i]] # "new"
    BY <1>1, <2>1, <2>2
  <2>4. ASSUME NEW c \in Calls, future'[c] = "pending" PROVE \E i \in DOMAIN waiters' : waiters'[i] = c
    <3>1. future[c] = "pending" /\ c \notin W
      BY <2>1, <2>4
    <3>2. PICK j \in DOMAIN waiters : waiters[j] = c
      BY <1>2, <3>1
    <3> QED
      BY <2>1, <3>1, <3>2
  <2> QED
    BY <2>1, <2>3, <2>4 DEF Queue, Distinct
<1>5. ASSUME NEW c \in Calls, Arrive(c) PROVE Queue'
  <2>1. request[c] = "new" /\ request'[c] # "new" /\ \A d \in Calls : d # c => request'[d] = request[d]
    BY <1>0, <1>5 DEF Arrive, Started
  <2>2. CASE waiters = <<>> /\ slots > 0
    <3>1. UNCHANGED <<future, waiters>>
      BY <1>5, <2>2 DEF Arrive
    <3> QED
      BY <1>3, <2>1, <3>1
  <2>3. CASE ~(waiters = <<>> /\ slots > 0)
    <3>1. PICK W \in SUBSET Calls :
            /\ Distinct(waiters')
            /\ \A i \in DOMAIN waiters' : waiters'[i] = c \/ \E j \in DOMAIN waiters : waiters'[i] = waiters[j]
            /\ future' = [d \in Calls |-> IF d \in W THEN "granted" ELSE IF d = c THEN "pending" ELSE future[d]]
            /\ \A j \in DOMAIN waiters : future[waiters[j]] = "pending" /\ waiters[j] \notin W =>
                 \E i \in DOMAIN waiters' : waiters'[i] = waiters[j]
            /\ c \notin W => \E i \in DOMAIN waiters' : waiters'[i] = c
      BY <1>5, <2>3, ArriveStep DEF Joined
    <3>2. ASSUME NEW i \in DOMAIN waiters' PROVE request'[waiters'[i]] # "new"
      BY <1>1, <2>1, <3>1
    <3>3. ASSUME NEW d \in Calls, future'[d] = "pending" PROVE \E i \in DOMAIN waiters' : waiters'[i] = d
      <4>1. d \notin W /\ (d # c => future[d] = "pending")
        BY <3>1, <3>3
      <4>2. CASE d = c
        BY <3>1, <4>1, <4>2
      <4>3. CASE d # c
        <5>1. PICK j \in DOMAIN waiters : waiters[j] = d
          BY <1>2, <4>1, <4>3
        <5> QED
          BY <3>1, <4>1, <4>3, <5>1
      <4> QED
        BY <4>2, <4>3
    <3> QED
      BY <3>1, <3>2, <3>3 DEF Queue, Distinct
  <2> QED
    BY <2>2, <2>3
<1>6. ASSUME NEW c \in Calls, Unwind(c) PROVE Queue'
  <2>1. /\ request[c] \in {"timed_out", "cancelled"} /\ UNCHANGED future
        /\ \A d \in Calls : request[d] # "new" => request'[d] # "new"
    BY <1>0, <1>6 DEF Unwind
  <2>2. CASE waiters' = waiters
    BY <1>3, <2>1, <2>2
  <2>3. CASE waiters' # waiters
    <3>1. waiters' = RemoveFirst(waiters, c)
      BY <1>6, <2>3 DEF Unwind, PassOn
    <3>2. PICK k \in DOMAIN waiters : waiters[k] = c /\ waiters' = RemoveAt(waiters, k)
      BY <1>0, <2>3, <3>1, RemoveFirstProperties
    <3>3. /\ \A i, j \in DOMAIN waiters' : waiters'[i] = waiters'[j] => i = j
          /\ {waiters'[i] : i \in DOMAIN waiters'} = {waiters[i] : i \in DOMAIN waiters} \ {c}
      <4>1. \A i, j \in DOMAIN waiters : waiters[i] = waiters[j] => i = j
        BY <1>2 DEF Distinct
      <4>2. /\ \A i, j \in DOMAIN RemoveAt(waiters, k) :
                 RemoveAt(waiters, k)[i] = RemoveAt(waiters, k)[j] => i = j
            /\ {RemoveAt(waiters, k)[i] : i \in DOMAIN RemoveAt(waiters, k)}
                 = {waiters[i] : i \in DOMAIN waiters} \ {waiters[k]}
        BY <1>0, <4>1, RemoveAtDistinct
      <4> QED
        BY <3>2, <4>2
    <3>4. \A i \in DOMAIN waiters' : \E j \in DOMAIN waiters : waiters'[i] = waiters[j]
      BY <3>3
    <3>5. \A i \in DOMAIN waiters' : request'[waiters'[i]] # "new"
      BY <1>1, <2>1, <3>4
    <3>6. ASSUME NEW d \in Calls, future'[d] = "pending" PROVE \E i \in DOMAIN waiters' : waiters'[i] = d
      <4>1. d # c /\ future[d] = "pending"
        BY <2>1, <3>6 DEF Progress, Phase
      <4>2. d \in {waiters[i] : i \in DOMAIN waiters} \ {c}
        BY <1>2, <4>1
      <4> QED
        BY <3>3, <4>2
    <3> QED
      BY <3>3, <3>5, <3>6 DEF Queue, Distinct
  <2> QED
    BY <2>2, <2>3
<1>7. ASSUME NEW c \in Calls, NEW why \in {"timed_out", "cancelled"}, Interrupt(c, why) PROVE Queue'
  BY <1>0, <1>3, <1>7 DEF Interrupt
<1>8. ASSUME NEW c \in Calls, Granted(c) \/ Reply(c) \/ WaitOver(c) \/ CancelRequest(c) PROVE Queue'
  <2>1. UNCHANGED <<waiters, future>> /\ \A d \in Calls : request[d] # "new" => request'[d] # "new"
    BY <1>0, <1>8 DEF Granted, Started, Reply, WaitOver, CancelRequest
  <2> QED
    BY <1>3, <2>1
<1>9. ASSUME NEW c \in Calls, Run(c) \/ Finish(c) \/ Record(c) \/ Leave(c) PROVE Queue'
  <2>1. UNCHANGED <<request, waiters, future>>
    BY <1>9 DEF Run, Finish, Record, Leave
  <2> QED
    BY <1>3, <2>1
<1>10. CASE UNCHANGED vars
  BY <1>3, <1>10 DEF vars
<1> QED
  BY <1>4, <1>5, <1>6, <1>7, <1>8, <1>9, <1>10 DEF Next
-----------------------------------------------------------------------------
(* Slots                                                                   *)

Holders == {c \in Calls : Holds(c)}

\* Slots that leave the semaphore are held, and those that come back are not.
LEMMA SlotsTaken ==
  ASSUME IsFiniteSet(Calls), slots \in Nat, SlotsConserved,
         NEW W \in SUBSET Calls, W \cap Holders = {},
         Holders' = Holders \union W, slots' = slots - Cardinality(W)
  PROVE  SlotsConserved'
<1>1. IsFiniteSet(Holders) /\ IsFiniteSet(W)
  BY FS_Subset DEF Holders
<1>2. Cardinality(Holders \union W) = Cardinality(Holders) + Cardinality(W)
  <2>1. Cardinality(Holders \union W) = Cardinality(Holders) + Cardinality(W) - Cardinality(Holders \cap W)
    BY <1>1, FS_Union
  <2>2. Holders \cap W = {}
    OBVIOUS
  <2>3. Cardinality(Holders \cap W) = 0
    BY <2>2, FS_EmptySet
  <2>4. Cardinality(Holders) \in Nat /\ Cardinality(W) \in Nat
    BY <1>1, FS_CardinalityType
  <2> QED
    BY <2>1, <2>3, <2>4
<1>3. Cardinality(Holders) \in Nat /\ Cardinality(W) \in Nat
  BY <1>1, FS_CardinalityType
<1>4. slots + Cardinality(Holders) = Slots
  BY DEF SlotsConserved, Holders
<1>5. slots' + Cardinality(Holders') = Slots
  BY <1>2, <1>3, <1>4
<1> QED
  BY <1>5 DEF SlotsConserved, Holders

LEMMA SlotReturned ==
  ASSUME IsFiniteSet(Calls), slots \in Nat, SlotsConserved,
         NEW c \in Holders, Holders' = Holders \ {c}, slots' = slots + 1
  PROVE  SlotsConserved'
<1>1. IsFiniteSet(Holders)
  BY FS_Subset DEF Holders
<1>2. Cardinality(Holders \ {c}) = Cardinality(Holders) - 1
  BY <1>1, FS_RemoveElement
<1>3. Cardinality(Holders) \in Nat
  BY <1>1, FS_CardinalityType
<1>4. slots + Cardinality(Holders) = Slots
  BY DEF SlotsConserved, Holders
<1>5. slots' + Cardinality(Holders') = Slots
  BY <1>2, <1>3, <1>4
<1> QED
  BY <1>5 DEF SlotsConserved, Holders

LEMMA SlotsUntouched ==
  ASSUME SlotsConserved, slots' = slots, \A c \in Calls : Holds(c)' <=> Holds(c)
  PROVE  SlotsConserved'
<1>1. Holders' = Holders
  BY DEF Holders
<1> QED
  BY <1>1 DEF SlotsConserved, Holders

LEMMA SlotsStep ==
  ASSUME IsFiniteSet(Calls), TypeOK, Queue, Progress, SlotsConserved, [Next]_vars
  PROVE  SlotsConserved'
<1>0. /\ request \in [Calls -> RequestStates] /\ future \in [Calls -> FutureStates]
      /\ thread \in [Calls -> ThreadStates] /\ slots \in Nat
  BY DEF TypeOK, RequestStates, FutureStates, ThreadStates
<1>00. \A c \in Calls : Phase(c)
  BY DEF Progress
<1>1. CASE Dispatch
  <2>0. PICK W \in SUBSET Calls : Served(W)
    BY <1>1, DispatchStep
  <2>1. /\ \A c \in W : future[c] = "pending"
        /\ future' = [c \in Calls |-> IF c \in W THEN "granted" ELSE future[c]]
        /\ slots' = slots - Cardinality(W)
    BY <2>0, Zenon DEF Served
  <2>2. UNCHANGED <<request, thread>>
    BY <1>1 DEF Dispatch
  <2>3. \A c \in Calls : Holds(c)' <=> Holds(c) \/ c \in W
    BY <1>00, <2>1, <2>2 DEF Holds, Phase
  <2>4. \A c \in W : ~Holds(c)
    BY <1>00, <2>1 DEF Holds, Phase
  <2>5. W \cap Holders = {} /\ Holders' = Holders \union W
    BY <2>3, <2>4 DEF Holders
  <2> QED
    BY <1>0, <2>1, <2>5, SlotsTaken
<1>2. ASSUME NEW c \in Calls, Arrive(c) PROVE SlotsConserved'
  <2>1. request[c] = "new" /\ future[c] = "none" /\ thread[c] = "none"
    BY <1>00, <1>2 DEF Phase, Arrive
  <2>2. CASE waiters = <<>> /\ slots > 0
    <3>1. /\ slots' = slots - 1 /\ UNCHANGED future
          /\ request' = [request EXCEPT ![c] = "awaiting"]
          /\ thread' = [thread EXCEPT ![c] = "scheduled"]
      BY <1>2, <2>2 DEF Arrive, Started
    <3>2. \A d \in Calls : Holds(d)' <=> Holds(d) \/ d \in {c}
      BY <1>0, <2>1, <3>1 DEF Holds
    <3>3. ~Holds(c)
      BY <2>1 DEF Holds
    <3>4. {c} \cap Holders = {} /\ Holders' = Holders \union {c}
      BY <3>2, <3>3 DEF Holders
    <3>5. Cardinality({c}) = 1
      BY FS_Singleton
    <3> QED
      BY <1>0, <3>1, <3>4, <3>5, SlotsTaken
  <2>3. CASE ~(waiters = <<>> /\ slots > 0)
    <3>0. PICK W \in SUBSET Calls : Joined(c, W)
      BY <1>2, <2>3, ArriveStep
    <3>1. /\ \A d \in W : d # c => future[d] = "pending"
          /\ future' = [d \in Calls |-> IF d \in W THEN "granted" ELSE IF d = c THEN "pending" ELSE future[d]]
          /\ slots' = slots - Cardinality(W)
      BY <3>0, Zenon DEF Joined
    <3>2. IF c \in W
          THEN request'[c] = "awaiting" /\ thread'[c] = "scheduled"
          ELSE request'[c] = "queued" /\ thread'[c] = "none"
      <4>1. future'[c] = IF c \in W THEN "granted" ELSE "pending"
        BY <3>1
      <4>2. IF future'[c] = "granted" THEN Started(c)
            ELSE request' = [request EXCEPT ![c] = "queued"] /\ UNCHANGED <<thread, deferred>>
        BY <1>2, <2>3 DEF Arrive
      <4> QED
        BY <1>0, <2>1, <4>1, <4>2 DEF Started
    <3>3. \A d \in Calls : d # c => request'[d] = request[d] /\ thread'[d] = thread[d]
      BY <1>0, <1>2, <2>3 DEF Arrive, Started
    <3>4. ASSUME NEW d \in Calls PROVE Holds(d)' <=> Holds(d) \/ d \in W
      <4>1. CASE d = c
        BY <2>1, <3>1, <3>2, <4>1 DEF Holds
      <4>2. CASE d # c
        BY <1>00, <3>1, <3>3, <4>2 DEF Holds, Phase
      <4> QED
        BY <4>1, <4>2
    <3>5. \A d \in W : ~Holds(d)
      BY <1>00, <2>1, <3>1 DEF Holds, Phase
    <3>6. W \cap Holders = {} /\ Holders' = Holders \union W
      BY <3>4, <3>5 DEF Holders
    <3> QED
      BY <1>0, <3>1, <3>6, SlotsTaken
  <2> QED
    BY <2>2, <2>3
<1>3. ASSUME NEW c \in Calls, Granted(c) PROVE SlotsConserved'
  <2>1. slots' = slots /\ \A d \in Calls : Holds(d)' <=> Holds(d)
    BY <1>0, <1>3 DEF Granted, Started, Holds
  <2> QED
    BY <2>1, SlotsUntouched
<1>4. ASSUME NEW c \in Calls, NEW why \in {"timed_out", "cancelled"}, Interrupt(c, why) PROVE SlotsConserved'
  <2>1. slots' = slots /\ \A d \in Calls : Holds(d)' <=> Holds(d)
    BY <1>0, <1>4 DEF Interrupt, Holds
  <2> QED
    BY <2>1, SlotsUntouched
<1>5. ASSUME NEW c \in Calls, Unwind(c) PROVE SlotsConserved'
  <2>1. /\ request[c] \in {"timed_out", "cancelled"} /\ thread[c] = "none"
        /\ request' = [request EXCEPT ![c] = "ended"] /\ UNCHANGED <<future, thread>>
    BY <1>00, <1>5 DEF Phase, Unwind
  <2>2. \A d \in Calls : Holds(d)' <=> Holds(d) /\ d # c
    BY <1>0, <2>1 DEF Holds
  <2>3. CASE future[c] = "granted"
    <3>1. slots' = slots + 1
      BY <1>5, <2>3 DEF Unwind, PassOn, ReleaseSlot
    <3>2. c \in Holders /\ Holders' = Holders \ {c}
      BY <2>1, <2>2, <2>3 DEF Holders, Holds
    <3> QED
      BY <1>0, <3>1, <3>2, SlotReturned
  <2>4. CASE future[c] # "granted"
    <3>1. slots' = slots
      BY <1>5, <2>4 DEF Unwind, PassOn
    <3>2. ~Holds(c)
      BY <2>1, <2>4 DEF Holds
    <3> QED
      BY <2>2, <3>1, <3>2, SlotsUntouched
  <2> QED
    BY <2>3, <2>4
<1>6. ASSUME NEW c \in Calls, Reply(c) \/ WaitOver(c) \/ CancelRequest(c) PROVE SlotsConserved'
  <2>1. slots' = slots /\ \A d \in Calls : Holds(d)' <=> Holds(d)
    BY <1>0, <1>6 DEF Reply, WaitOver, CancelRequest, Holds
  <2> QED
    BY <2>1, SlotsUntouched
<1>7. ASSUME NEW c \in Calls, Run(c) \/ Finish(c) \/ Record(c) PROVE SlotsConserved'
  <2>1. /\ UNCHANGED <<slots, request, future>>
        /\ thread[c] \in {"scheduled", "running", "recording"}
        /\ thread'[c] \in {"running", "recording", "leaving"}
        /\ \A d \in Calls : d # c => thread'[d] = thread[d]
    BY <1>0, <1>7 DEF Run, Finish, Record
  <2>2. \A d \in Calls : Holds(d)' <=> Holds(d)
    BY <2>1 DEF Holds
  <2> QED
    BY <2>1, <2>2, SlotsUntouched
<1>8. ASSUME NEW c \in Calls, Leave(c) PROVE SlotsConserved'
  <2>1. /\ thread[c] = "leaving" /\ thread'[c] = "returned" /\ UNCHANGED <<request, future>>
        /\ slots' = slots + 1
        /\ \A d \in Calls : d # c => thread'[d] = thread[d]
    BY <1>0, <1>8 DEF Leave, ReleaseSlot
  <2>2. request[c] \in {"awaiting", "ended"}
    BY <1>0, <1>00, <2>1 DEF Phase, RequestStates
  <2>3. \A d \in Calls : Holds(d)' <=> Holds(d) /\ d # c
    BY <2>1, <2>2 DEF Holds
  <2>4. c \in Holders /\ Holders' = Holders \ {c}
    BY <2>1, <2>3 DEF Holders, Holds
  <2> QED
    BY <1>0, <2>1, <2>4, SlotReturned
<1>9. CASE UNCHANGED vars
  <2>1. slots' = slots /\ \A d \in Calls : Holds(d)' <=> Holds(d)
    BY <1>9 DEF vars, Holds
  <2> QED
    BY <2>1, SlotsUntouched
<1> QED
  BY <1>1, <1>2, <1>3, <1>4, <1>5, <1>6, <1>7, <1>8, <1>9 DEF Next

\* After slots are handed out, none is left or nobody waits; a slot that comes
\* back schedules the next time.
LEMMA NoIdleStep ==
  ASSUME TypeOK, Queue, Progress, NoIdleSlot, [Next]_vars
  PROVE  NoIdleSlot'
<1>0. /\ request \in [Calls -> RequestStates] /\ future \in [Calls -> FutureStates]
      /\ slots \in Nat /\ wakeups \in Nat
  BY DEF TypeOK, RequestStates, FutureStates
<1>00. \A c \in Calls : Phase(c)
  BY DEF Progress
<1>01. \A c \in Calls : future[c] = "pending" => \E i \in DOMAIN waiters : waiters[i] = c
  BY DEF Queue
<1>1. ASSUME UNCHANGED <<slots, wakeups>>, \A c \in Calls : Waiting(c)' => Waiting(c)
      PROVE  NoIdleSlot'
  BY <1>1 DEF NoIdleSlot
<1>2. ASSUME slots' = 0 \/ \A c \in Calls : ~Waiting(c)'
      PROVE  NoIdleSlot'
  BY <1>2 DEF NoIdleSlot
<1>3. CASE Dispatch
  <2>0. PICK W \in SUBSET Calls : Served(W)
    BY <1>3, DispatchStep
  <2>1. /\ future' = [c \in Calls |-> IF c \in W THEN "granted" ELSE future[c]]
        /\ \A j \in DOMAIN waiters : future[waiters[j]] = "pending" /\ waiters[j] \notin W => slots' = 0
    BY <2>0, Zenon DEF Served
  <2>2. ASSUME NEW c \in Calls, Waiting(c)' PROVE slots' = 0
    <3>1. future[c] = "pending" /\ c \notin W
      BY <2>1, <2>2 DEF Waiting
    <3>2. PICK j \in DOMAIN waiters : waiters[j] = c
      BY <1>01, <3>1
    <3> QED
      BY <2>1, <3>1, <3>2
  <2> QED
    BY <1>2, <2>2
<1>4. ASSUME NEW c \in Calls, Arrive(c) PROVE NoIdleSlot'
  <2>1. CASE waiters = <<>> /\ slots > 0
    <3>1. UNCHANGED future
      BY <1>4, <2>1 DEF Arrive
    <3>2. DOMAIN waiters = {}
      BY <2>1, EmptySeq
    <3>3. \A d \in Calls : ~Waiting(d)'
      BY <1>01, <3>1, <3>2 DEF Waiting
    <3> QED
      BY <1>2, <3>3
  <2>2. CASE ~(waiters = <<>> /\ slots > 0)
    <3>0. PICK W \in SUBSET Calls : Joined(c, W)
      BY <1>4, <2>2, ArriveStep
    <3>1. /\ future' = [d \in Calls |-> IF d \in W THEN "granted" ELSE IF d = c THEN "pending" ELSE future[d]]
          /\ \A j \in DOMAIN waiters : future[waiters[j]] = "pending" /\ waiters[j] \notin W => slots' = 0
          /\ c \notin W => slots' = 0
      BY <3>0, Zenon DEF Joined
    <3>2. ASSUME NEW d \in Calls, Waiting(d)' PROVE slots' = 0
      <4>1. d \notin W /\ (d = c \/ future[d] = "pending")
        BY <3>1, <3>2 DEF Waiting
      <4>2. CASE d = c
        BY <3>1, <4>1, <4>2
      <4>3. CASE future[d] = "pending"
        <5>1. PICK j \in DOMAIN waiters : waiters[j] = d
          BY <1>01, <4>3
        <5> QED
          BY <3>1, <4>1, <4>3, <5>1
      <4> QED
        BY <4>1, <4>2, <4>3
    <3> QED
      BY <1>2, <3>2
  <2> QED
    BY <2>1, <2>2
<1>5. ASSUME NEW c \in Calls, NEW why \in {"timed_out", "cancelled"}, Interrupt(c, why) PROVE NoIdleSlot'
  <2>1. UNCHANGED <<slots, wakeups>> /\ \A d \in Calls : Waiting(d)' => Waiting(d)
    BY <1>0, <1>5 DEF Interrupt, Waiting
  <2> QED
    BY <1>1, <2>1
<1>6. ASSUME NEW c \in Calls, Unwind(c) PROVE NoIdleSlot'
  <2>1. \A d \in Calls : Waiting(d)' => Waiting(d)
    BY <1>0, <1>6 DEF Unwind, Waiting
  <2>2. UNCHANGED <<slots, wakeups>> \/ wakeups' = wakeups + 1
    BY <1>6 DEF Unwind, PassOn, ReleaseSlot
  <2>3. wakeups' = wakeups + 1 => NoIdleSlot'
    BY <1>0 DEF NoIdleSlot
  <2> QED
    BY <1>1, <2>1, <2>2, <2>3
<1>7. ASSUME NEW c \in Calls, Granted(c) \/ Reply(c) \/ WaitOver(c) \/ CancelRequest(c) PROVE NoIdleSlot'
  <2>1. UNCHANGED <<slots, wakeups>> /\ \A d \in Calls : Waiting(d)' => Waiting(d)
    BY <1>0, <1>7 DEF Granted, Started, Reply, WaitOver, CancelRequest, Waiting
  <2> QED
    BY <1>1, <2>1
<1>8. ASSUME NEW c \in Calls, Run(c) \/ Finish(c) \/ Record(c) PROVE NoIdleSlot'
  <2>1. UNCHANGED <<slots, wakeups, request, future>>
    BY <1>8 DEF Run, Finish, Record
  <2> QED
    BY <1>1, <2>1 DEF Waiting
<1>9. ASSUME NEW c \in Calls, Leave(c) PROVE NoIdleSlot'
  BY <1>0, <1>9 DEF Leave, ReleaseSlot, NoIdleSlot
<1>10. CASE UNCHANGED vars
  BY <1>1, <1>10 DEF vars, Waiting
<1> QED
  BY <1>3, <1>4, <1>5, <1>6, <1>7, <1>8, <1>9, <1>10 DEF Next

-----------------------------------------------------------------------------
(* Theorems                                                                *)

LEMMA CallsInit == ASSUME IsFiniteSet(Calls), Init PROVE CallsIInv
<1>1. TypeOK
  <2>1. waiters \in Seq(Calls)
    BY EmptySeq DEF Init
  <2> QED
    BY <2>1, CallsAssumption DEF Init, TypeOK
<1>2. SlotsConserved
  <2>1. {c \in Calls : Holds(c)} = {}
    BY DEF Init, Holds
  <2>2. Cardinality({c \in Calls : Holds(c)}) = 0
    BY <2>1, FS_EmptySet
  <2>3. slots = Slots /\ Slots \in Nat
    BY CallsAssumption DEF Init
  <2>4. slots + 0 = Slots
    BY <2>3
  <2> QED
    BY <2>2, <2>4 DEF SlotsConserved
<1>3. NoIdleSlot
  BY DEF Init, NoIdleSlot, Waiting
<1>4. Progress
  BY DEF Init, Progress, Phase, NotStarted, StartedBooks
<1>5. Queue
  <2>1. DOMAIN waiters = {}
    BY EmptySeq DEF Init
  <2> QED
    BY <2>1 DEF Init, Queue, Distinct
<1> QED
  BY <1>1, <1>2, <1>3, <1>4, <1>5 DEF CallsIInv, SlotInvariant

LEMMA CallsStep == ASSUME IsFiniteSet(Calls), CallsIInv, [Next]_vars PROVE CallsIInv'
BY TypeStep, ProgressStep, QueueStep, SlotsStep, NoIdleStep DEF CallsIInv, SlotInvariant

LEMMA CallsInvariant == ASSUME IsFiniteSet(Calls) PROVE Spec => []CallsIInv
BY CallsInit, CallsStep, PTL DEF Spec

\* No slot is lost or made up and none is idle while a call waits, whatever
\* waits end while slots change hands (_acquire_slot, _release_slot, _dispatch).
THEOREM SlotsAreKept == ASSUME IsFiniteSet(Calls) PROVE Spec => []SlotInvariant
<1>1. CallsIInv => SlotInvariant
  BY DEF CallsIInv
<1> QED
  BY <1>1, CallsInvariant, PTL

\* A refused call never runs, and each call's outcome is told once: in the reply
\* or in the record, which agree (run, _finish, defer, _slots_busy).
THEOREM OutcomesAreTold == ASSUME IsFiniteSet(Calls) PROVE Spec => []OutcomesAreTrue
<1>1. ASSUME CallsIInv PROVE OutcomesAreTrue
  <2>1. \A c \in Calls : /\ record[c] \in RecordStates /\ request[c] \in RequestStates
                         /\ thread[c] \in ThreadStates /\ reply[c] \in ReplyStates
    BY <1>1 DEF CallsIInv, SlotInvariant, TypeOK, RecordStates, RequestStates, ThreadStates, ReplyStates
  <2>2. \A c \in Calls : Phase(c) /\ NotStarted(c) /\ StartedBooks(c)
    BY <1>1 DEF CallsIInv, Progress
  <2>3. Claimed \subseteq Calls
    BY CallsAssumption
  <2>4. RefusedNeverRuns
    BY <2>1, <2>2 DEF RefusedNeverRuns, StartedBooks
  <2>5. ASSUME NEW c \in Calls
        PROVE  /\ reply[c] = "deferred" => record[c] \in {"running", "value"}
               /\ c \notin Claimed /\ reply[c] = "value" => record[c] = "none"
               /\ thread[c] = "returned" /\ record[c] # "none" => record[c] = "value"
               /\ c \in Claimed /\ reply[c] # "none" /\ reply[c] # "deferred" => record[c] = reply[c]
    BY <2>1, <2>2 DEF Phase, NotStarted, StartedBooks, RecordStates, RequestStates, ThreadStates, ReplyStates
  <2>6. RecordsEnd
    BY <2>2, <2>3 DEF RecordsEnd, NotStarted, StartedBooks
  <2> QED
    BY <2>4, <2>5, <2>6 DEF OutcomesAreTrue, OneOutcome
<1> QED
  BY <1>1, CallsInvariant, PTL

\* Slots are taken in the order of arrival (_acquire_slot, _dispatch).
THEOREM OrderOfArrival == ASSUME IsFiniteSet(Calls) PROVE Spec => NoOvertaking
<1> DEFINE InOrder ==
      \A c, d \in Calls : Waiting(c) /\ Waiting(c)' /\ ~Holds(d) /\ Holds(d)' =>
        /\ request[d] = "queued"
        /\ \E i, j \in DOMAIN waiters : i < j /\ waiters[i] = d /\ waiters[j] = c
<1>1. ASSUME CallsIInv, [Next]_vars PROVE InOrder
  <2>0. /\ request \in [Calls -> RequestStates] /\ future \in [Calls -> FutureStates]
        /\ thread \in [Calls -> ThreadStates] /\ TypeOK /\ Queue
        /\ \A c \in Calls : Phase(c)
        /\ \A c \in Calls : future[c] = "pending" => \E i \in DOMAIN waiters : waiters[i] = c
    BY <1>1 DEF CallsIInv, SlotInvariant, TypeOK, Progress, Queue, RequestStates, FutureStates, ThreadStates
  <2> SUFFICES ASSUME NEW c \in Calls, NEW d \in Calls, Waiting(c), Waiting(c)', ~Holds(d), Holds(d)'
               PROVE  /\ request[d] = "queued"
                      /\ \E i, j \in DOMAIN waiters : i < j /\ waiters[i] = d /\ waiters[j] = c
    OBVIOUS
  <2>1. PICK j \in DOMAIN waiters : waiters[j] = c
    BY <2>0 DEF Waiting
  <2>2. CASE Dispatch
    <3>0. PICK W \in SUBSET Calls : Served(W)
      BY <2>0, <2>2, DispatchStep
    <3>1. /\ \A e \in W : future[e] = "pending" /\ \E i \in DOMAIN waiters : waiters[i] = e
          /\ future' = [e \in Calls |-> IF e \in W THEN "granted" ELSE future[e]]
          /\ \A k \in DOMAIN waiters : future[waiters[k]] = "pending" /\ waiters[k] \notin W =>
               \A i \in DOMAIN waiters : waiters[i] \in W => i < k
      BY <3>0, Zenon DEF Served
    <3>2. UNCHANGED <<request, thread>>
      BY <2>2 DEF Dispatch
    <3>3. d \in W
      BY <3>1, <3>2 DEF Holds
    <3>4. c \notin W /\ future[c] = "pending"
      BY <3>1 DEF Waiting
    <3> QED
      BY <2>0, <2>1, <3>1, <3>3, <3>4 DEF Phase
  <2>3. ASSUME NEW e \in Calls, Arrive(e)
        PROVE  /\ request[d] = "queued"
               /\ \E i, k \in DOMAIN waiters : i < k /\ waiters[i] = d /\ waiters[k] = c
    <3>1. ~(waiters = <<>>)
      <4>1. waiters = <<>> => DOMAIN waiters = {}
        BY EmptySeq
      <4> QED
        BY <2>1, <4>1
    <3>0. PICK W \in SUBSET Calls : Joined(e, W)
      BY <2>0, <2>3, <3>1, ArriveStep
    <3>2. /\ \A f \in W : f # e => future[f] = "pending" /\ \E i \in DOMAIN waiters : waiters[i] = f
          /\ future' = [f \in Calls |-> IF f \in W THEN "granted" ELSE IF f = e THEN "pending" ELSE future[f]]
          /\ \A k \in DOMAIN waiters : future[waiters[k]] = "pending" /\ waiters[k] \notin W =>
               e \notin W /\ \A i \in DOMAIN waiters : waiters[i] \in W => i < k
      BY <3>0, Zenon DEF Joined
    <3>3. request[e] = "new"
      BY <2>3 DEF Arrive
    <3>4. c # e /\ c \notin W /\ future[c] = "pending"
      BY <3>2, <3>3 DEF Waiting
    <3>5. e \notin W
      BY <2>1, <3>2, <3>4
    <3>6. future'[e] = "pending"
      BY <3>2, <3>5
    <3>7. request' = [request EXCEPT ![e] = "queued"] /\ UNCHANGED thread
      BY <2>3, <3>1, <3>6 DEF Arrive
    <3>8. d \in W
      BY <2>0, <3>2, <3>3, <3>6, <3>7 DEF Holds, Phase
    <3> QED
      BY <2>0, <2>1, <3>2, <3>4, <3>5, <3>8 DEF Phase
  <2>4. ASSUME NEW e \in Calls, Granted(e) \/ Unwind(e) \/ Reply(e) \/ WaitOver(e) \/ CancelRequest(e)
        PROVE  FALSE
    <3>1. ~Holds(d) => ~Holds(d)'
      BY <2>0, <2>4 DEF Granted, Started, Unwind, Reply, WaitOver, CancelRequest, Holds, Phase
    <3> QED
      BY <3>1
  <2>5. ASSUME NEW e \in Calls, NEW why \in {"timed_out", "cancelled"}, Interrupt(e, why) PROVE FALSE
    BY <2>0, <2>5 DEF Interrupt, Holds
  <2>6. ASSUME NEW e \in Calls, Run(e) \/ Finish(e) \/ Record(e) \/ Leave(e) PROVE FALSE
    <3>1. /\ UNCHANGED <<request, future>> /\ thread[e] \in {"scheduled", "running", "recording", "leaving"}
          /\ \A f \in Calls : f # e => thread'[f] = thread[f]
      BY <2>0, <2>6 DEF Run, Finish, Record, Leave
    <3> QED
      BY <3>1 DEF Holds
  <2>7. CASE UNCHANGED vars
    BY <2>7 DEF vars, Holds
  <2> QED
    BY <1>1, <2>2, <2>3, <2>4, <2>5, <2>6, <2>7 DEF Next
<1>2. CallsIInv /\ [Next]_vars => [InOrder]_vars
  BY <1>1
<1> QED
  BY <1>2, CallsInvariant, PTL DEF Spec, NoOvertaking

-----------------------------------------------------------------------------
(* Job admission                                                           *)

\* A thread that may yet have a job accepted.
Undecided(r) == jobThread[r] \in {"queued", "ready", "replay", "resolve", "commit"}

\* Where a request's coroutine, its thread and its admission are together.
JobProgress ==
  \A r \in Requests :
    /\ answer[r] # "none" => jobRequest[r] = "ended"
    /\ jobRequest[r] \in {"new", "replaying", "admitting"} => jobThread[r] = "none" /\ r \notin receipt
    /\ jobRequest[r] = "awaiting" => jobThread[r] # "none"
    /\ Undecided(r) \/ jobThread[r] = "refused" => r \notin receipt
    /\ Undecided(r) /\ jobRequest[r] = "ended" => r \in expired
    /\ jobThread[r] = "receipt" => r \in receipt
    /\ r \notin started => jobThread[r] \in {"none", "queued", "ready", "refused"}
    /\ answer[r] = "refused" => r \notin receipt

\* A job of the request, or of another request with its request_id, was accepted.
Backed(r) == r \in admitted \/ \E s \in admitted : RequestId[s] = RequestId[r] /\ RequestId[r] # None

\* The receipts and the request_ids agree with the jobs that were accepted.
Ledger ==
  /\ admitted \subseteq receipt
  /\ \A r \in receipt : Backed(r)
  /\ \A r \in admitted : RequestId[r] # None => RequestId[r] \in known \union evicted
  /\ \A i \in known : \E s \in admitted : RequestId[s] = i

AdmissionIInv ==
  /\ AdmissionTypeOK /\ JobProgress /\ Ledger /\ ThreadsAreBounded
  /\ OneJobPerRequestId /\ ReceiptsAreTrue

-----------------------------------------------------------------------------
\* A thread that is taken adds one, and one that is given back takes one away.
LEMMA AddThread ==
  ASSUME NEW S, NEW r, IsFiniteSet(S), r \notin S
  PROVE  Cardinality(S \union {r}) = Cardinality(S) + 1 /\ Cardinality(S) \in Nat
BY FS_AddElement, FS_CardinalityType

LEMMA DropThread ==
  ASSUME NEW S, NEW r \in S, IsFiniteSet(S)
  PROVE  Cardinality(S \ {r}) = Cardinality(S) - 1 /\ Cardinality(S) \in Nat
BY FS_RemoveElement, FS_CardinalityType

Runners == {r \in Requests : Running(r)}

\* Whether the tokens are still right is a matter of the threads' number alone.
LEMMA TokensAgain ==
  ASSUME IsFiniteSet(Requests), Threads \in Nat, AdmissionTypeOK, ThreadsAreBounded, NEW r \in Requests,
         \A s \in Requests \ {r} : jobThread'[s] = jobThread[s],
         \/ (Running(r) <=> Running(r)') /\ free' = free
         \/ ~Running(r) /\ Running(r)' /\ free' = free - 1
         \/ Running(r) /\ ~Running(r)' /\ free' = free + 1
  PROVE  ThreadsAreBounded'
<1>1. IsFiniteSet(Runners)
  BY FS_Subset DEF Runners
<1>2. Cardinality(Runners) \in Nat /\ free \in Nat
  BY <1>1, FS_CardinalityType DEF AdmissionTypeOK
<1>3. free + Cardinality(Runners) = Threads
  BY DEF ThreadsAreBounded, Runners
<1>4. CASE (Running(r) <=> Running(r)') /\ free' = free
  <2>1. Runners' = Runners
    BY <1>4 DEF Runners, Running
  <2> QED
    BY <1>3, <1>4, <2>1 DEF ThreadsAreBounded, Runners
<1>5. CASE ~Running(r) /\ Running(r)' /\ free' = free - 1
  <2>1. Runners' = Runners \union {r} /\ r \notin Runners
    BY <1>5 DEF Runners, Running
  <2>2. Cardinality(Runners') = Cardinality(Runners) + 1
    BY <1>1, <2>1, AddThread
  <2>3. free' + Cardinality(Runners') = Threads
    BY <1>2, <1>3, <1>5, <2>2
  <2> QED
    BY <2>3 DEF ThreadsAreBounded, Runners
<1>6. CASE Running(r) /\ ~Running(r)' /\ free' = free + 1
  <2>1. Runners' = Runners \ {r} /\ r \in Runners
    BY <1>6 DEF Runners, Running
  <2>2. Cardinality(Runners') = Cardinality(Runners) - 1
    BY <1>1, <2>1, DropThread
  <2>3. free' + Cardinality(Runners') = Threads
    BY <1>2, <1>3, <1>6, <2>2
  <2> QED
    BY <2>3 DEF ThreadsAreBounded, Runners
<1> QED
  BY <1>4, <1>5, <1>6

-----------------------------------------------------------------------------
LEMMA InitAdmissionIInv ==
  ASSUME IsFiniteSet(Requests), Threads \in Nat
  PROVE  AdmissionInit => AdmissionIInv
<1> SUFFICES ASSUME AdmissionInit PROVE AdmissionIInv
  OBVIOUS
<1>1. AdmissionTypeOK /\ JobProgress /\ Ledger /\ OneJobPerRequestId /\ ReceiptsAreTrue
  BY DEF AdmissionInit, AdmissionTypeOK, JobProgress, Ledger, Undecided, Backed, OneJobPerRequestId, ReceiptsAreTrue
<1>2. {r \in Requests : Running(r)} = {}
  BY DEF AdmissionInit, Running
<1>3. ThreadsAreBounded
  BY <1>2, FS_EmptySet DEF AdmissionInit, ThreadsAreBounded
<1> QED
  BY <1>1, <1>3 DEF AdmissionIInv

\* Types, one action at a time.
LEMMA JobTypeStep ==
  ASSUME AdmissionTypeOK, AdmissionNext, ThreadsAreBounded, Threads \in Nat
  PROVE  AdmissionTypeOK'
<1> USE DEF AdmissionTypeOK, Go, Step, Answer, admission, manager
<1>1. ASSUME NEW r \in Requests, ArriveForJob(r) \/ ReplayInline(r) \/ Admit(r) \/ Deadline(r)
      PROVE  AdmissionTypeOK'
  BY <1>1 DEF ArriveForJob, ReplayInline, Admit, Deadline
<1>2. ASSUME NEW r \in Requests, GetThread(r) \/ Return(r)
      PROVE  AdmissionTypeOK'
  BY <1>2 DEF GetThread, Return
<1>3. ASSUME NEW r \in Requests, Expire(r)
      PROVE  AdmissionTypeOK'
  BY <1>3 DEF Expire, CancelTask
<1>4. ASSUME NEW r \in Requests, Enter(r) \/ Replay(r) \/ Resolve(r)
      PROVE  AdmissionTypeOK'
  BY <1>4 DEF Enter, Replay, Resolve, Replayed, Refused
<1>5. ASSUME NEW r \in Requests, Commit(r)
      PROVE  AdmissionTypeOK'
  BY <1>5 DEF Commit, Replayed, Refused, Accept, Ids
<1>6. ASSUME NEW i \in Ids, Evict(i)
      PROVE  AdmissionTypeOK'
  BY <1>6 DEF Evict
<1> QED
  BY <1>1, <1>2, <1>3, <1>4, <1>5, <1>6 DEF AdmissionNext

\* The limiter's tokens, one action at a time.
LEMMA TokenStep ==
  ASSUME IsFiniteSet(Requests), Threads \in Nat, AdmissionTypeOK, JobProgress, ThreadsAreBounded, AdmissionNext
  PROVE  ThreadsAreBounded'
<1>1. ASSUME UNCHANGED <<jobThread, free>>
      PROVE  ThreadsAreBounded'
  BY <1>1 DEF ThreadsAreBounded, Running
<1>2. ASSUME NEW r \in Requests, ArriveForJob(r) \/ ReplayInline(r) \/ Deadline(r)
      PROVE  ThreadsAreBounded'
  BY <1>1, <1>2 DEF ArriveForJob, ReplayInline, Deadline
<1>3. ASSUME NEW i \in Ids, Evict(i)
      PROVE  ThreadsAreBounded'
  BY <1>1, <1>3 DEF Evict
<1>4. ASSUME NEW r \in Requests, Admit(r) \/ GetThread(r)
      PROVE  ThreadsAreBounded'
  BY <1>4, TokensAgain DEF Admit, GetThread, Running, Step, AdmissionTypeOK, JobProgress
<1>5. ASSUME NEW r \in Requests, Return(r)
      PROVE  ThreadsAreBounded'
  BY <1>5, TokensAgain DEF Return, Running, Step, AdmissionTypeOK
<1>6. ASSUME NEW r \in Requests, Expire(r)
      PROVE  ThreadsAreBounded'
  <2>1. CASE r \in started
    BY <1>1, <1>6, <2>1 DEF Expire, CancelTask
  <2>2. CASE r \notin started
    <3>1. jobThread[r] \in {"queued", "ready", "refused"}
      BY <1>6, <2>2 DEF Expire, JobProgress
    <3>2. jobThread' = [jobThread EXCEPT ![r] = "none"] /\ free' = IF jobThread[r] = "queued" THEN free ELSE free + 1
      BY <1>6, <2>2 DEF Expire, CancelTask, Step
    <3> QED
      BY <3>1, <3>2, TokensAgain DEF Running, AdmissionTypeOK
  <2> QED
    BY <2>1, <2>2
<1>7. ASSUME NEW r \in Requests, Enter(r) \/ Replay(r) \/ Resolve(r) \/ Commit(r)
      PROVE  ThreadsAreBounded'
  <2>1. /\ free' = free /\ Running(r) /\ Running(r)'
        /\ \A s \in Requests \ {r} : jobThread'[s] = jobThread[s]
    BY <1>7 DEF Enter, Replay, Resolve, Commit, Replayed, Refused, Accept, Running, Step, AdmissionTypeOK
  <2> QED
    BY <2>1, TokensAgain
<1> QED
  BY <1>2, <1>3, <1>4, <1>5, <1>6, <1>7 DEF AdmissionNext

\* Coroutines and threads, one action at a time.
LEMMA JobProgressStep ==
  ASSUME AdmissionTypeOK, JobProgress, AdmissionNext
  PROVE  JobProgress'
<1> USE DEF AdmissionTypeOK, JobProgress, Undecided, Go, Step, Answer, admission, manager
<1>1. ASSUME NEW r \in Requests, ArriveForJob(r) \/ ReplayInline(r)
      PROVE  JobProgress'
  BY <1>1 DEF ArriveForJob, ReplayInline
<1>2. ASSUME NEW r \in Requests, Admit(r) \/ Deadline(r) \/ GetThread(r)
      PROVE  JobProgress'
  BY <1>2 DEF Admit, Deadline, GetThread
<1>3. ASSUME NEW r \in Requests, Return(r)
      PROVE  JobProgress'
  BY <1>3 DEF Return
<1>4. ASSUME NEW r \in Requests, Expire(r)
      PROVE  JobProgress'
  BY <1>4 DEF Expire, CancelTask
<1>5. ASSUME NEW r \in Requests, Enter(r) \/ Resolve(r)
      PROVE  JobProgress'
  BY <1>5 DEF Enter, Resolve
<1>6. ASSUME NEW r \in Requests, Replay(r)
      PROVE  JobProgress'
  BY <1>6 DEF Replay, Replayed, Refused, Checked
<1>7. ASSUME NEW r \in Requests, Commit(r)
      PROVE  JobProgress'
  BY <1>7 DEF Commit, Replayed, Refused, Accept, Checked
<1>8. ASSUME NEW i \in Ids, Evict(i)
      PROVE  JobProgress'
  BY <1>8 DEF Evict
<1> QED
  BY <1>1, <1>2, <1>3, <1>4, <1>5, <1>6, <1>7, <1>8 DEF AdmissionNext

\* What is known of jobs, one action at a time.
LEMMA LedgerStep ==
  ASSUME AdmissionTypeOK, JobProgress, Ledger, OneJobPerRequestId, ReceiptsAreTrue, AdmissionNext
  PROVE  Ledger' /\ OneJobPerRequestId' /\ ReceiptsAreTrue'
<1> USE DEF AdmissionTypeOK, Go, Step, Answer, admission, manager
<1>1. ASSUME UNCHANGED <<receipt, known, admitted, evicted>>,
             \A r \in Requests : answer'[r] = "receipt" => answer[r] = "receipt" \/ Backed(r)
      PROVE  Ledger' /\ OneJobPerRequestId' /\ ReceiptsAreTrue'
  BY <1>1 DEF Ledger, OneJobPerRequestId, ReceiptsAreTrue, Backed
<1>2. ASSUME NEW r \in Requests, ArriveForJob(r) \/ Admit(r) \/ Deadline(r) \/ GetThread(r) \/ Enter(r) \/ Resolve(r)
      PROVE  Ledger' /\ OneJobPerRequestId' /\ ReceiptsAreTrue'
  BY <1>1, <1>2 DEF ArriveForJob, Admit, Deadline, GetThread, Enter, Resolve
<1>3. ASSUME NEW r \in Requests, ReplayInline(r)
      PROVE  Ledger' /\ OneJobPerRequestId' /\ ReceiptsAreTrue'
  <2>1. RequestId[r] \in known => Backed(r)
    BY DEF Ledger, Backed, Ids
  <2> QED
    BY <1>1, <1>3, <2>1 DEF ReplayInline
<1>4. ASSUME NEW r \in Requests, Return(r)
      PROVE  Ledger' /\ OneJobPerRequestId' /\ ReceiptsAreTrue'
  <2>1. jobThread[r] = "receipt" => Backed(r)
    BY DEF Ledger, JobProgress
  <2> QED
    BY <1>1, <1>4, <2>1 DEF Return
<1>5. ASSUME NEW r \in Requests, Expire(r)
      PROVE  Ledger' /\ OneJobPerRequestId' /\ ReceiptsAreTrue'
  <2>1. r \in receipt => Backed(r)
    BY DEF Ledger
  <2> QED
    BY <1>1, <1>5, <2>1 DEF Expire
<1>6. ASSUME NEW r \in Requests, Refused(r)
      PROVE  Ledger' /\ OneJobPerRequestId' /\ ReceiptsAreTrue'
  BY <1>1, <1>6 DEF Refused
<1>7. ASSUME NEW r \in Requests, RequestId[r] \in known, Replayed(r)
      PROVE  Ledger' /\ OneJobPerRequestId' /\ ReceiptsAreTrue'
  <2>1. Backed(r)
    BY <1>7 DEF Ledger, Backed, Ids
  <2> QED
    BY <1>7, <2>1 DEF Replayed, Ledger, OneJobPerRequestId, ReceiptsAreTrue, Backed
<1>8. ASSUME NEW r \in Requests, Replay(r)
      PROVE  Ledger' /\ OneJobPerRequestId' /\ ReceiptsAreTrue'
  BY <1>1, <1>6, <1>7, <1>8 DEF Replay
<1>9. ASSUME NEW r \in Requests, RequestId[r] \notin known, Accept(r)
      PROVE  Ledger' /\ OneJobPerRequestId' /\ ReceiptsAreTrue'
  <2>1. \A s \in admitted : RequestId[s] = RequestId[r] /\ RequestId[r] # None => RequestId[r] \in evicted
    BY <1>9 DEF Ledger
  <2>2. OneJobPerRequestId'
    BY <1>9, <2>1 DEF Accept, OneJobPerRequestId
  <2>3. Ledger'
    BY <1>9 DEF Accept, Ledger, Backed
  <2>4. ReceiptsAreTrue'
    BY <1>9 DEF Accept, ReceiptsAreTrue
  <2> QED
    BY <2>2, <2>3, <2>4
<1>10. ASSUME NEW r \in Requests, Commit(r)
       PROVE  Ledger' /\ OneJobPerRequestId' /\ ReceiptsAreTrue'
  BY <1>6, <1>7, <1>9, <1>10 DEF Commit
<1>11. ASSUME NEW i \in Ids, Evict(i)
       PROVE  Ledger' /\ OneJobPerRequestId' /\ ReceiptsAreTrue'
  BY <1>11 DEF Evict, Ledger, OneJobPerRequestId, ReceiptsAreTrue, Backed
<1> QED
  BY <1>2, <1>3, <1>4, <1>5, <1>8, <1>10, <1>11 DEF AdmissionNext

LEMMA AdmissionIInvStep ==
  ASSUME IsFiniteSet(Requests), Threads \in Nat, AdmissionIInv, [AdmissionNext]_admissionVars
  PROVE  AdmissionIInv'
<1>1. CASE AdmissionNext
  BY <1>1, JobTypeStep, TokenStep, JobProgressStep, LedgerStep DEF AdmissionIInv
<1>2. CASE UNCHANGED admissionVars
  BY <1>2 DEF admissionVars, admission, manager, AdmissionIInv, AdmissionTypeOK, JobProgress, Undecided, Ledger, Backed,
              ThreadsAreBounded, Running, OneJobPerRequestId, ReceiptsAreTrue
<1> QED
  BY <1>1, <1>2

\* A refused request has no receipt, so no job of its own was accepted.
LEMMA AdmissionIInvImplies == AdmissionIInv => AdmissionInvariant
BY DEF AdmissionIInv, AdmissionInvariant, JobProgress, Ledger, RefusedAdmitsNothing

\* The limiter bounds the threads, a request_id has one job, and what a client was
\* told of its request is true, then and later, however many requests race their
\* deadlines on however many threads (JobAdmission, _admit_until).
THEOREM AdmissionHolds ==
  ASSUME IsFiniteSet(Requests), Threads \in Nat
  PROVE  AdmissionSpec => []AdmissionInvariant
<1>1. AdmissionInit => AdmissionIInv
  BY InitAdmissionIInv
<1>2. AdmissionIInv /\ [AdmissionNext]_admissionVars => AdmissionIInv'
  BY AdmissionIInvStep
<1>3. AdmissionIInv => AdmissionInvariant
  BY AdmissionIInvImplies
<1> QED
  BY <1>1, <1>2, <1>3, PTL DEF AdmissionSpec

-----------------------------------------------------------------------------
\* The programs of the GUI (GuiPrograms).  A call that runs has a program, or a
\* file; one that saves has its program unsaved or saved since it began; one that
\* works holds its program; what it will answer is true already.
Places == {"idle", "look", "post_tool", "post_tab", "tool", "tab", "see", "bind", "check", "hold", "work",
           "find", "await_idle", "post_save", "saving", "confirm"}
Named == Files \X (0..MaxPrograms)
GuiCalls ==
  [pc : Places, op : {"none", "load", "command", "show", "close", "save"}, program : {<<>>} \cup Named,
   done : BOOLEAN, answer : {"ok", "failed", "never", "saved"}]
WorkStates == {"none", "queued", "given_up", "runs", "asks", "busy", "done"}

GhidraTyped ==
  /\ running \in BOOLEAN /\ project \in BOOLEAN /\ tabs \subseteq alive /\ alive \subseteq Files /\ busy \subseteq alive
  /\ born \in [Files -> 0..MaxPrograms] /\ unsaved \subseteq Programs
  /\ \A f \in alive : born[f] # 0
BooksTyped == keys \subseteq Files /\ bound \subseteq Programs /\ IsFiniteSet(bound)
GuiTyped ==
  /\ queue \in Seq(Works) /\ stack \in Seq(Works) /\ work \in [Works -> WorkStates]
  /\ GhidraTyped /\ BooksTyped
  /\ holders \subseteq Callers \X Programs
  /\ call \in [Callers -> GuiCalls]

CallFits(c) ==
  /\ call[c].pc # "idle" => call[c].answer = "ok" /\ call[c].program \in Named
  /\ call[c].pc # "idle" /\ (call[c].op # "load" \/ call[c].pc = "bind") => call[c].program \in Programs
  /\ call[c].op = "save" /\ call[c].pc # "idle" => call[c].program \in unsaved \/ c \in wrote
  /\ call[c].op = "save" /\ call[c].answer = "saved" => c \in wrote
  /\ call[c].op \in {"command", "show"} /\ call[c].pc = "work" => <<c, call[c].program>> \in holders

WorkHasFile ==
  /\ \A w \in Works : work[w] # "none" => call[w[1]].program \in Named
  /\ \A i \in DOMAIN queue : call[queue[i][1]].program \in Named

InLoad(c) == call[c].op = "load" /\ call[c].pc # "idle"
LoadsApart ==
  \A c \in Callers : InLoad(c) =>
    /\ \A p \in bound : p[1] # File(c)
    /\ \A d \in Callers : InLoad(d) /\ File(d) = File(c) => c = d

GuiProgramsIInv ==
  /\ GuiTyped /\ (\A c \in Callers : CallFits(c)) /\ WorkHasFile /\ LoadsApart
  /\ GivenUpStaysShut /\ BooksAgree /\ HeldIsOpen /\ forced = FALSE

\* A step of a call that goes on, or answers what is so already.
LEMMA CallGoesOn ==
  ASSUME GuiProgramsIInv, NEW c \in Callers, NEW r \in GuiCalls, call' = [call EXCEPT ![c] = r],
         call[c].pc # "idle", r.op = call[c].op, r.op = "load" => r.pc # "idle",
         r.program \in Named, r.program[1] = File(c), r.answer # "never", CallFits(c)',
         UNCHANGED <<ghidra, books, history>>,
         holders \subseteq holders', holders' \subseteq Callers \X Programs, HeldIsOpen',
         UNCHANGED edt \/ \E k \in {"tool", "tab", "save"} : Post(<<c, k>>)
  PROVE  GuiProgramsIInv'
<1> USE DEF GuiProgramsIInv, GuiTyped
<1>1. call' \in [Callers -> GuiCalls] /\ call'[c] = r /\ \A d \in Callers \ {c} : call'[d] = call[d]
  OBVIOUS
<1>2. GhidraTyped' /\ BooksTyped' /\ forced' = forced
  BY DEF GhidraTyped, BooksTyped, ghidra, books, history
<1>3. \A d \in Callers : CallFits(d)'
  <2> SUFFICES ASSUME NEW d \in Callers, d # c PROVE CallFits(d)'
    OBVIOUS
  <2> QED
    BY <1>1 DEF CallFits, ghidra, history
<1>4. \A d \in Callers : call[d].program \in Named => call'[d].program \in Named
  BY <1>1
<1>5. /\ queue' \in Seq(Works) /\ stack' \in Seq(Works) /\ work' \in [Works -> WorkStates]
      /\ WorkHasFile'
      /\ \A w \in Works : w[1] # c => work'[w] = work[w]
  <2>1. CASE UNCHANGED edt
    BY <1>4, <2>1 DEF WorkHasFile, edt, Works
  <2>2. ASSUME NEW k \in {"tool", "tab", "save"}, Post(<<c, k>>)
        PROVE  /\ queue' \in Seq(Works) /\ stack' \in Seq(Works) /\ work' \in [Works -> WorkStates]
               /\ WorkHasFile'
               /\ \A w \in Works : w[1] # c => work'[w] = work[w]
    <3>1. <<c, k>> \in Works
      BY DEF Works
    <3>2. queue' = Append(queue, <<c, k>>) /\ work' = [work EXCEPT ![<<c, k>>] = "queued"] /\ stack' = stack
      BY <2>2 DEF Post
    <3>3. queue' \in Seq(Works) /\ DOMAIN queue' = 1..(Len(queue) + 1) /\ DOMAIN queue = 1..Len(queue)
          /\ \A i \in DOMAIN queue' : queue'[i] = IF i = Len(queue) + 1 THEN <<c, k>> ELSE queue[i]
      BY <3>1, <3>2
    <3>4. \A i \in DOMAIN queue' : queue'[i] = <<c, k>> \/ (i \in DOMAIN queue /\ queue'[i] = queue[i])
      BY <3>3
    <3>5. \A w \in Works : work'[w] = work[w] \/ (w = <<c, k>> /\ work'[w] = "queued")
      BY <3>1, <3>2
    <3>6. \A d \in Callers : \A i \in DOMAIN queue : queue[i][1] \in Callers
      BY <3>3 DEF Works
    <3>7. \A i \in DOMAIN queue' : call'[queue'[i][1]].program \in Named
      BY <1>1, <1>4, <3>4, <3>6 DEF WorkHasFile
    <3>8. \A w \in Works : work'[w] # "none" => call'[w[1]].program \in Named
      BY <1>1, <1>4, <3>5 DEF WorkHasFile, Works
    <3> QED
      BY <3>1, <3>2, <3>3, <3>5, <3>7, <3>8 DEF WorkHasFile, WorkStates
  <2> QED
    BY <2>1, <2>2
<1>6. GivenUpStaysShut'
  <2> SUFFICES ASSUME NEW d \in Callers, call'[d].answer = "never"
               PROVE  \E w \in Works : w[1] = d /\ work'[w] = "given_up"
    BY DEF GivenUpStaysShut
  <2>1. d # c /\ call'[d] = call[d]
    BY <1>1
  <2> QED
    BY <2>1, <1>5 DEF GivenUpStaysShut
<1>7. \A d \in Callers : (InLoad(d)' <=> InLoad(d)) /\ (InLoad(d) => File(d)' = File(d))
  BY <1>1 DEF InLoad, File
<1>8. BooksAgree'
  <2>1. {File(d)' : d \in {e \in Callers : call'[e].op = "load" /\ call'[e].pc # "idle"}}
          = {File(d) : d \in {e \in Callers : call[e].op = "load" /\ call[e].pc # "idle"}}
    BY <1>7 DEF InLoad
  <2> QED
    BY <2>1 DEF BooksAgree, books
<1>9. LoadsApart'
  BY <1>7 DEF LoadsApart, books
<1> QED
  BY <1>1, <1>2, <1>3, <1>5, <1>6, <1>8, <1>9

LEMMA AnswersShape ==
  ASSUME call \in [Callers -> GuiCalls], NEW c \in Callers, NEW said \in {"ok", "failed", "never", "saved"},
         Answers(c, said)
  PROVE  /\ call' \in [Callers -> GuiCalls] /\ \A d \in Callers \ {c} : call'[d] = call[d]
         /\ call'[c].pc = "idle" /\ call'[c].op = call[c].op
         /\ call'[c].program = call[c].program /\ call'[c].answer = said
<1> DEFINE r == [call[c] EXCEPT !.pc = "idle", !.done = FALSE, !.answer = said]
<1>1. call[c] \in GuiCalls
  OBVIOUS
<1>2. call' = [call EXCEPT ![c] = r]
  BY <1>1 DEF Answers, GuiCalls
<1>3. r \in GuiCalls /\ r.pc = "idle" /\ r.op = call[c].op /\ r.program = call[c].program /\ r.answer = said
  BY <1>1 DEF GuiCalls, Places
<1> QED
  BY <1>2, <1>3

\* A load that fails gives its reservation back.
LEMMA LoadGivesUp ==
  ASSUME GuiProgramsIInv, NEW c \in Callers, InLoad(c), NEW said \in {"failed", "never"}, LoadFails(c, said),
         UNCHANGED <<ghidra, holders, history>>,
         \/ UNCHANGED edt /\ said = "failed"
         \/ \E w \in Works : w[1] = c /\ Abandon(w) /\ (said = "never" => work[w] = "queued")
  PROVE  GuiProgramsIInv'
<1> USE DEF GuiProgramsIInv, GuiTyped
<1>1. /\ call' \in [Callers -> GuiCalls] /\ \A d \in Callers \ {c} : call'[d] = call[d]
      /\ call'[c].pc = "idle" /\ call'[c].op = "load" /\ call'[c].program = call[c].program /\ call'[c].answer = said
  BY AnswersShape DEF LoadFails, InLoad
<1>2. GhidraTyped' /\ forced' = forced /\ HeldIsOpen'
  BY DEF GhidraTyped, ghidra, history, HeldIsOpen, IsOpen, Live
<1>3. keys' = keys \ {File(c)} /\ UNCHANGED <<bound, refcount>>
  BY DEF LoadFails
<1>4. \A d \in Callers : CallFits(d)'
  <2> SUFFICES ASSUME NEW d \in Callers PROVE CallFits(d)'
    OBVIOUS
  <2> QED
    BY <1>1 DEF CallFits, ghidra, history
<1>5. \A d \in Callers : call[d].program \in Named => call'[d].program \in Named
  BY <1>1
<1>6. /\ queue' = queue /\ stack' = stack /\ work' \in [Works -> WorkStates]
      /\ \A w \in Works : work[w] = "given_up" => work'[w] = "given_up"
      /\ \A w \in Works : work'[w] # "none" => work[w] # "none"
      /\ said = "never" => \E w \in Works : w[1] = c /\ work'[w] = "given_up"
  BY DEF edt, Abandon, WorkStates
<1>7. WorkHasFile'
  <2>1. \A i \in DOMAIN queue : queue[i][1] \in Callers
    BY DEF Works
  <2> QED
    BY <1>5, <1>6, <2>1 DEF WorkHasFile, Works
<1>8. GivenUpStaysShut'
  BY <1>1, <1>6 DEF GivenUpStaysShut
<1>9. \A d \in Callers : (InLoad(d)' <=> InLoad(d) /\ d # c) /\ File(d)' = File(d)
  BY <1>1 DEF InLoad, File
<1>10. BooksAgree'
  <2>1. keys = {p[1] : p \in bound} \cup {File(d) : d \in {e \in Callers : InLoad(e)}}
    BY DEF BooksAgree, InLoad
  <2>2. \A d \in Callers : InLoad(d) /\ d # c => File(d) # File(c)
    BY DEF LoadsApart
  <2>3. \A p \in bound : p[1] # File(c)
    BY DEF LoadsApart
  <2>4. keys' = {p[1] : p \in bound} \cup {File(d) : d \in {e \in Callers : InLoad(e) /\ e # c}}
    BY <1>3, <2>1, <2>2, <2>3
  <2>5. {File(d)' : d \in {e \in Callers : InLoad(e)'}} = {File(d) : d \in {e \in Callers : InLoad(e) /\ e # c}}
    BY <1>9
  <2>6. keys' = {p[1] : p \in bound'} \cup {File(d)' : d \in {e \in Callers : InLoad(e)'}}
    BY <1>3, <2>4, <2>5
  <2> QED
    BY <1>3, <2>6 DEF BooksAgree, InLoad
<1>11. LoadsApart'
  BY <1>3, <1>9 DEF LoadsApart
<1>12. BooksTyped' /\ holders' \subseteq Callers \X Programs
  BY <1>3 DEF BooksTyped
<1> QED
  BY <1>1, <1>2, <1>4, <1>6, <1>7, <1>8, <1>10, <1>11, <1>12

\* The steps of a load.
LEMMA LoadStep ==
  ASSUME GuiProgramsIInv, NEW c \in Callers,
         LoadLooks(c) \/ LoadPosts(c) \/ AwaitTool(c) \/ PollTab(c) \/ SeeTab(c)
  PROVE  GuiProgramsIInv'
<1> USE DEF GuiProgramsIInv, GuiTyped
<1>1. InLoad(c) /\ call[c].op = "load" /\ call[c].pc # "idle"
  BY DEF InLoad, LoadLooks, LoadPosts, AwaitTool, PollTab, SeeTab, Loading
<1>2. call[c] \in GuiCalls /\ call[c].program \in Named /\ call[c].answer = "ok" /\ File(c) = call[c].program[1] /\ File(c) \in Files
  BY <1>1 DEF CallFits, File, Named
<1>3. UNCHANGED <<ghidra, holders, history>>
  BY DEF LoadLooks, LoadPosts, AwaitTool, PollTab, SeeTab
<1>4. HeldIsOpen'
  BY <1>3 DEF ghidra, HeldIsOpen, IsOpen, Live
<1>5. ASSUME NEW pc \in Places, NEW done \in BOOLEAN, pc \notin {"idle", "bind"},
             call' = [call EXCEPT ![c].pc = pc, ![c].done = done],
             UNCHANGED books, UNCHANGED edt \/ \E k \in {"tool", "tab", "save"} : Post(<<c, k>>)
      PROVE  GuiProgramsIInv'
  <2> DEFINE r == [call[c] EXCEPT !.pc = pc, !.done = done]
  <2>1. r \in GuiCalls /\ call' = [call EXCEPT ![c] = r] /\ call'[c] = r
    BY <1>2, <1>5 DEF GuiCalls
  <2>2. r.op = "load" /\ r.pc = pc /\ r.program = call[c].program /\ r.answer = "ok"
    BY <1>1, <1>2 DEF GuiCalls
  <2> HIDE DEF r
  <2>3. CallFits(c)'
    BY <1>2, <1>5, <2>1, <2>2 DEF CallFits
  <2> QED
    BY <1>1, <1>2, <1>3, <1>4, <1>5, <2>1, <2>2, <2>3, CallGoesOn
<1>6. ASSUME NEW pc \in Places, pc \notin {"idle", "bind"}, GoesOn(c, pc), UNCHANGED books,
             UNCHANGED edt \/ \E k \in {"tool", "tab", "save"} : Post(<<c, k>>)
      PROVE  GuiProgramsIInv'
  <2>1. call' = [call EXCEPT ![c].pc = pc, ![c].done = call[c].done] /\ call[c].done \in BOOLEAN
    BY <1>2, <1>6 DEF GoesOn, GuiCalls
  <2> QED
    BY <1>5, <1>6, <2>1
<1>7. ASSUME LooksAt(c), File(c) \in tabs, UNCHANGED <<edt, books>>
      PROVE  GuiProgramsIInv'
  <2> DEFINE p == Live(File(c))
             r == [call[c] EXCEPT !.pc = "bind", !.program = p]
  <2>1. born[File(c)] \in 1..MaxPrograms /\ born[File(c)] \in 0..MaxPrograms
    BY <1>2, <1>7 DEF GhidraTyped
  <2>2. p \in Programs /\ p \in Named /\ p[1] = File(c)
    BY <1>2, <2>1 DEF Live, Programs, Named
  <2> HIDE DEF p
  <2>3. r \in GuiCalls /\ call' = [call EXCEPT ![c] = r] /\ call'[c] = r
    BY <1>2, <1>7, <2>2 DEF GuiCalls, LooksAt, Places, p
  <2>4. r.op = "load" /\ r.pc = "bind" /\ r.program = p /\ r.answer = "ok"
    BY <1>1, <1>2 DEF GuiCalls
  <2> HIDE DEF r
  <2>5. CallFits(c)'
    BY <2>2, <2>3, <2>4 DEF CallFits
  <2> QED
    BY <1>1, <1>2, <1>3, <1>4, <1>7, <2>2, <2>3, <2>4, <2>5, CallGoesOn
<1>8. ASSUME LoadFails(c, "failed"), UNCHANGED edt PROVE GuiProgramsIInv'
  BY <1>1, <1>3, <1>8, LoadGivesUp
<1>9. CASE LoadLooks(c)
  BY <1>6, <1>7, <1>8, <1>9 DEF LoadLooks, Places
<1>10. CASE LoadPosts(c)
  BY <1>6, <1>10 DEF LoadPosts, Places
<1>11. CASE AwaitTool(c)
  BY <1>6, <1>8, <1>11 DEF AwaitTool, Places
<1>12. CASE PollTab(c)
  BY <1>5, <1>12 DEF PollTab, Places
<1>13. CASE SeeTab(c)
  BY <1>6, <1>7, <1>8, <1>13 DEF SeeTab, Places
<1> QED
  BY <1>9, <1>10, <1>11, <1>12, <1>13

LEMMA LoadExpiresStep ==
  ASSUME GuiProgramsIInv, NEW c \in Callers, LoadExpires(c)
  PROVE  GuiProgramsIInv'
<1>1. InLoad(c) /\ call[c].pc \in {"tool", "tab"} /\ UNCHANGED <<ghidra, holders, history>>
  BY DEF LoadExpires, InLoad
<1> DEFINE w == <<c, call[c].pc>>
           said == IF work[w] = "queued" THEN "never" ELSE "failed"
<1>2. w \in Works /\ w[1] = c /\ Abandon(w) /\ LoadFails(c, said)
  BY <1>1 DEF LoadExpires, Works
<1>3. said \in {"failed", "never"} /\ (said = "never" => work[w] = "queued")
  OBVIOUS
<1> HIDE DEF w, said
<1> QED
  BY <1>1, <1>2, <1>3, LoadGivesUp

LEMMA LoadBindsStep ==
  ASSUME GuiProgramsIInv, NEW c \in Callers, LoadBinds(c)
  PROVE  GuiProgramsIInv'
<1> USE DEF GuiProgramsIInv, GuiTyped
<1>1. InLoad(c) /\ call[c].op = "load" /\ call[c].pc = "bind" /\ UNCHANGED <<edt, ghidra, holders, history>>
  BY DEF InLoad, LoadBinds, Loading
<1>2. CASE LoadFails(c, "failed")
  BY <1>1, <1>2, LoadGivesUp
<1>3. CASE bound' = bound \cup {call[c].program} /\ refcount' = refcount + 1 /\ UNCHANGED keys /\ Answers(c, "ok")
  <2> DEFINE p == call[c].program
  <2>1. p \in Programs /\ p \in Named /\ p[1] = File(c)
    BY <1>1 DEF CallFits, File
  <2>2. /\ call' \in [Callers -> GuiCalls] /\ \A d \in Callers \ {c} : call'[d] = call[d]
        /\ call'[c].pc = "idle" /\ call'[c].op = "load" /\ call'[c].program = p /\ call'[c].answer = "ok"
    BY <1>1, <1>3, AnswersShape
  <2>3. GhidraTyped' /\ forced' = forced /\ HeldIsOpen' /\ holders' = holders
    BY <1>1 DEF GhidraTyped, ghidra, history, HeldIsOpen, IsOpen, Live
  <2>4. \A d \in Callers : CallFits(d)'
    <3> SUFFICES ASSUME NEW d \in Callers PROVE CallFits(d)'
      OBVIOUS
    <3> QED
      BY <1>1, <2>2 DEF CallFits, ghidra, history
  <2>5. queue' = queue /\ stack' = stack /\ work' = work
    BY <1>1 DEF edt
  <2>6. WorkHasFile' /\ GivenUpStaysShut'
    <3>1. \A d \in Callers : call[d].program \in Named => call'[d].program \in Named
      BY <2>1, <2>2
    <3>2. \A i \in DOMAIN queue : queue[i][1] \in Callers
      BY DEF Works
    <3>3. WorkHasFile'
      BY <2>5, <3>1, <3>2 DEF WorkHasFile, Works
    <3> QED
      BY <2>2, <2>5, <3>3 DEF GivenUpStaysShut
  <2>7. \A d \in Callers : (InLoad(d)' <=> InLoad(d) /\ d # c) /\ File(d)' = File(d)
    BY <2>2 DEF InLoad, File
  <2>8. \A q \in bound : q[1] # File(c)
    BY <1>1 DEF LoadsApart
  <2>9. LoadsApart'
    BY <1>1, <1>3, <2>1, <2>7 DEF LoadsApart
  <2>10. BooksTyped'
    BY <1>3, <2>1, FS_AddElement DEF BooksTyped
  <2>11. refcount' = Cardinality(bound')
    BY <1>3, <2>1, <2>8, FS_AddElement DEF BooksTyped, BooksAgree
  <2>12. BooksAgree'
    <3>1. keys = {q[1] : q \in bound} \cup {File(d) : d \in {e \in Callers : InLoad(e)}}
      BY DEF BooksAgree, InLoad
    <3>2. {File(d) : d \in {e \in Callers : InLoad(e)}} = {File(c)} \cup {File(d) : d \in {e \in Callers : InLoad(e) /\ e # c}}
      BY <1>1
    <3>3. {q[1] : q \in bound'} = {q[1] : q \in bound} \cup {File(c)}
      BY <1>3, <2>1
    <3>4. {File(d)' : d \in {e \in Callers : InLoad(e)'}} = {File(d) : d \in {e \in Callers : InLoad(e) /\ e # c}}
      BY <2>7
    <3>5. keys' = {q[1] : q \in bound'} \cup {File(d)' : d \in {e \in Callers : InLoad(e)'}}
      BY <1>3, <3>1, <3>2, <3>3, <3>4
    <3>6. \A q1, q2 \in bound' : q1[1] = q2[1] => q1 = q2
      BY <1>3, <2>1, <2>8 DEF BooksAgree
    <3> QED
      BY <2>11, <3>5, <3>6 DEF BooksAgree, InLoad
  <2> QED
    BY <2>2, <2>3, <2>4, <2>5, <2>6, <2>9, <2>10, <2>12
<1> QED
  BY <1>2, <1>3 DEF LoadBinds

\* A step of the event thread with what was posted.
LEMMA EdtStep ==
  ASSUME GuiProgramsIInv, UNCHANGED <<ghidra, books, holders, call, wrote, forced>>,
         queue' \in Seq(Works), stack' \in Seq(Works), work' \in [Works -> WorkStates],
         \A i \in DOMAIN queue' : \E j \in DOMAIN queue : queue'[i] = queue[j],
         \A w \in Works : work'[w] # work[w] =>
           work[w] # "given_up" /\ (work[w] # "none" \/ \E j \in DOMAIN queue : queue[j] = w)
  PROVE  GuiProgramsIInv'
<1> USE DEF GuiProgramsIInv, GuiTyped
<1>1. GhidraTyped' /\ BooksTyped' /\ holders' \subseteq Callers \X Programs
  BY DEF ghidra, books, GhidraTyped, BooksTyped
<1>2. \A c \in Callers : CallFits(c)'
  BY DEF CallFits, ghidra
<1>3. WorkHasFile'
  BY DEF WorkHasFile
<1>4. GivenUpStaysShut'
  BY DEF GivenUpStaysShut
<1>5. BooksAgree' /\ LoadsApart' /\ HeldIsOpen'
  BY DEF BooksAgree, LoadsApart, HeldIsOpen, InLoad, File, IsOpen, Live, ghidra, books
<1> QED
  BY <1>1, <1>2, <1>3, <1>4, <1>5

LEMMA EdtBeginsStep == ASSUME GuiProgramsIInv, EdtBegins PROVE GuiProgramsIInv'
<1> USE DEF GuiProgramsIInv, GuiTyped
<1> DEFINE w == Head(queue)
<1>1. /\ queue # <<>> /\ queue' = Tail(queue) /\ Begin(w)
      /\ UNCHANGED <<ghidra, books, holders, call, wrote>>
  BY DEF EdtBegins
<1>2. /\ w \in Works /\ w = queue[1] /\ 1 \in DOMAIN queue
      /\ queue' \in Seq(Works) /\ \A i \in DOMAIN queue' : i + 1 \in DOMAIN queue /\ queue'[i] = queue[i + 1]
  BY <1>1, HeadTailProperties
<1> HIDE DEF w
<1>3. /\ forced' = forced /\ stack' \in Seq(Works) /\ work' \in [Works -> WorkStates]
      /\ \A v \in Works : work'[v] # work[v] => v = w /\ work[v] # "given_up"
  <2>1. CASE work[w] = "given_up"
    BY <1>1, <2>1 DEF Begin
  <2>2. CASE work[w] # "given_up" /\ w[2] = "save" /\ call[w[1]].program[1] \in busy
    BY <1>1, <1>2, <2>2 DEF Begin, WorkStates
  <2>3. CASE work[w] # "given_up" /\ ~(w[2] = "save" /\ call[w[1]].program[1] \in busy)
    <3>1. BeginsRegardless(w)
      BY <1>1, <2>3 DEF Begin
    <3>2. forced' = forced \/ (w[2] = "save" /\ forced' = (forced \/ call[w[1]].program[1] \in busy))
      BY <3>1 DEF BeginsRegardless
    <3>3. forced' = FALSE
      BY <2>3, <3>2
    <3>4. work' = [work EXCEPT ![w] = "runs"] /\ stack' = Append(stack, w)
      BY <3>1 DEF BeginsRegardless, Begins
    <3>5. stack' \in Seq(Works)
      BY <1>2, <3>4
    <3> QED
      BY <1>2, <2>3, <3>2, <3>3, <3>4, <3>5 DEF WorkStates
  <2> QED
    BY <2>1, <2>2, <2>3
<1> QED
  BY <1>1, <1>2, <1>3, EdtStep

LEMMA EdtGoesOn == ASSUME GuiProgramsIInv, NEW w \in Works, Asks(w) \/ Ends(w) PROVE GuiProgramsIInv'
<1> USE DEF GuiProgramsIInv, GuiTyped
<1>1. /\ stack # <<>> /\ work[w] \in {"runs", "asks"} /\ queue' = queue
      /\ UNCHANGED <<ghidra, books, holders, call, wrote, forced>>
      /\ work' \in [Works -> WorkStates] /\ \A v \in Works : work'[v] # work[v] => v = w
  BY DEF Asks, Ends, Innermost, history, WorkStates
<1>2. stack' \in Seq(Works)
  <2>1. Front(stack) \in Seq(Works)
    BY <1>1 DEF Front
  <2> QED
    BY <2>1 DEF Asks, Ends
<1> QED
  BY <1>1, <1>2, EdtStep

\* What somebody else does to the programs: he closes none that is held, and tells
\* whoever saves that he saved.
LEMMA GhidraStep ==
  ASSUME GuiProgramsIInv, UNCHANGED <<edt, books, holders, call, forced>>, GhidraTyped', HeldIsOpen', wrote \subseteq wrote',
         \A p \in unsaved : p \in unsaved' \/ Savers(p) \subseteq wrote'
  PROVE  GuiProgramsIInv'
<1> USE DEF GuiProgramsIInv, GuiTyped
<1>1. /\ queue' \in Seq(Works) /\ stack' \in Seq(Works) /\ work' \in [Works -> WorkStates]
      /\ BooksTyped' /\ holders' \subseteq Callers \X Programs /\ call' \in [Callers -> GuiCalls]
  BY DEF BooksTyped, edt, books
<1>2. \A c \in Callers : CallFits(c)'
  BY DEF CallFits, Savers
<1>3. WorkHasFile' /\ GivenUpStaysShut'
  BY DEF WorkHasFile, GivenUpStaysShut, edt
<1>4. BooksAgree' /\ LoadsApart'
  BY DEF BooksAgree, LoadsApart, InLoad, File, books
<1> QED
  BY <1>1, <1>2, <1>3, <1>4

\* Opening a file leaves what is open open.
LEMMA OpensFile ==
  ASSUME MaxPrograms \in Nat, GhidraTyped, HeldIsOpen, NEW f \in Files, Opens(f), UNCHANGED <<holders, unsaved, project, running, busy>>
  PROVE  GhidraTyped' /\ HeldIsOpen'
<1> USE DEF GhidraTyped
<1>1. CASE f \in alive
  BY <1>1 DEF Opens, HeldIsOpen, IsOpen, Live
<1>2. CASE f \notin alive
  <2>1. /\ running /\ f \notin tabs /\ tabs' = tabs \cup {f} /\ born[f] < MaxPrograms
        /\ born' = [born EXCEPT ![f] = @ + 1] /\ alive' = alive \cup {f}
    BY <1>2 DEF Opens
  <2>2. born[f] \in 0..MaxPrograms /\ born[f] + 1 \in 0..MaxPrograms /\ born[f] + 1 # 0
    BY <2>1
  <2>3. GhidraTyped'
    BY <2>1, <2>2
  <2>4. HeldIsOpen'
    BY <1>2, <2>1 DEF HeldIsOpen, IsOpen, Live
  <2> QED
    BY <2>3, <2>4
<1> QED
  BY <1>1, <1>2

LEMMA ActsStep == ASSUME MaxPrograms \in Nat, GuiProgramsIInv, NEW w \in Works, Acts(w) PROVE GuiProgramsIInv'
<1> USE DEF GuiProgramsIInv, GuiTyped
<1> DEFINE p == call[w[1]].program
<1>1. work[w] = "runs" /\ UNCHANGED <<edt, busy, project, books, holders, call, forced>>
  BY DEF Acts
<1>2. p \in Named /\ p[1] \in Files
  BY <1>1 DEF WorkHasFile, Named
<1>3. w[2] \in {"tool", "tab", "save"}
  BY DEF Works
<1>4. CASE w[2] = "tool"
  <2>1. running' = TRUE /\ UNCHANGED <<tabs, born, alive, unsaved, wrote>>
    BY <1>4 DEF Acts
  <2>2. GhidraTyped' /\ HeldIsOpen'
    BY <1>1, <2>1 DEF GhidraTyped, HeldIsOpen, IsOpen, Live
  <2> QED
    BY <1>1, <2>1, <2>2, GhidraStep
<1>5. CASE w[2] = "tab" /\ call[w[1]].op = "show"
  <2>1. IsOpen(p) /\ tabs' = tabs \cup {p[1]} /\ UNCHANGED <<running, born, alive, unsaved, wrote>>
    BY <1>5 DEF Acts
  <2>2. GhidraTyped' /\ HeldIsOpen'
    BY <1>1, <2>1 DEF GhidraTyped, HeldIsOpen, IsOpen, Live
  <2> QED
    BY <1>1, <2>1, <2>2, GhidraStep
<1>6. CASE w[2] = "tab" /\ call[w[1]].op # "show"
  <2>1. Opens(p[1]) /\ UNCHANGED <<running, unsaved, wrote>>
    BY <1>6 DEF Acts
  <2>2. GhidraTyped' /\ HeldIsOpen'
    BY <1>1, <1>2, <2>1, OpensFile
  <2> QED
    BY <1>1, <2>1, <2>2, GhidraStep
<1>7. CASE w[2] = "save"
  <2>1. unsaved' = unsaved \ {p} /\ wrote' = wrote \cup Savers(p) /\ UNCHANGED <<running, tabs, born, alive>>
    BY <1>7 DEF Acts
  <2>2. GhidraTyped' /\ HeldIsOpen'
    BY <1>1, <2>1 DEF GhidraTyped, HeldIsOpen, IsOpen, Live
  <2> QED
    BY <1>1, <2>1, <2>2, GhidraStep
<1> QED
  BY <1>3, <1>4, <1>5, <1>6, <1>7

LEMMA HumanStep == ASSUME MaxPrograms \in Nat, GuiProgramsIInv, HumanActs \/ Transacts PROVE GuiProgramsIInv'
<1> USE DEF GuiProgramsIInv, GuiTyped
<1>1. UNCHANGED <<edt, books, holders, call, forced>>
  BY DEF HumanActs, Transacts, history
<1>2. ASSUME NEW f \in Shut, NEW h \in holders, h[2][1] = f PROVE ~IsOpen(h[2])
  <2>1. h[1] \in Callers /\ h = <<h[1], h[2]>>
    OBVIOUS
  <2>2. <<h[1], Live(f)>> \notin holders
    BY <2>1 DEF Shut
  <2> QED
    BY <1>2, <2>1, <2>2 DEF IsOpen
<1>3. ASSUME NEW f \in Files, Opens(f), UNCHANGED <<running, unsaved, busy, project, wrote>> PROVE GuiProgramsIInv'
  <2>1. GhidraTyped' /\ HeldIsOpen'
    BY <1>1, <1>3, OpensFile
  <2> QED
    BY <1>1, <1>3, <2>1, GhidraStep
<1>4. ASSUME NEW f \in tabs, tabs' = tabs \ {f}, alive' = alive \ (Shut \cap {f}), busy' = busy \ (Shut \cap {f}),
             UNCHANGED <<running, born, unsaved, project, wrote>>
      PROVE  GuiProgramsIInv'
  <2>1. GhidraTyped'
    BY <1>4 DEF GhidraTyped
  <2>2. HeldIsOpen'
    BY <1>1, <1>2, <1>4 DEF HeldIsOpen, IsOpen, Live
  <2> QED
    BY <1>1, <1>4, <2>1, <2>2, GhidraStep
<1>5. ASSUME NEW f \in tabs, unsaved' = unsaved \cup {Live(f)}, UNCHANGED <<running, tabs, born, alive, busy, project, wrote>>
      PROVE  GuiProgramsIInv'
  <2>1. Live(f) \in Programs
    BY DEF Live, Programs, GhidraTyped
  <2>2. GhidraTyped' /\ HeldIsOpen'
    BY <1>1, <1>5, <2>1 DEF GhidraTyped, HeldIsOpen, IsOpen, Live
  <2> QED
    BY <1>1, <1>5, <2>2, GhidraStep
<1>6. ASSUME NEW f \in tabs, unsaved' = unsaved \ {Live(f)}, wrote' = wrote \cup Savers(Live(f)),
             UNCHANGED <<running, tabs, born, alive, busy, project>>
      PROVE  GuiProgramsIInv'
  <2>1. GhidraTyped' /\ HeldIsOpen'
    BY <1>1, <1>6 DEF GhidraTyped, HeldIsOpen, IsOpen, Live
  <2> QED
    BY <1>1, <1>6, <2>1, GhidraStep
<1>7. ASSUME project' = FALSE, running' = FALSE, tabs' = {}, alive' = alive \ Shut, busy' = busy \ Shut,
             UNCHANGED <<born, unsaved, wrote>>
      PROVE  GuiProgramsIInv'
  <2>1. GhidraTyped'
    BY <1>7 DEF GhidraTyped
  <2>2. HeldIsOpen'
    BY <1>1, <1>2, <1>7 DEF HeldIsOpen, IsOpen, Live
  <2> QED
    BY <1>1, <1>7, <2>1, <2>2, GhidraStep
<1>8. CASE Transacts
  <2>1. /\ \E f \in alive : busy' = IF f \in busy THEN busy \ {f} ELSE busy \cup {f}
        /\ UNCHANGED <<running, tabs, born, alive, unsaved, project, wrote>>
    BY <1>8 DEF Transacts, history
  <2>2. GhidraTyped' /\ HeldIsOpen'
    BY <1>1, <2>1 DEF GhidraTyped, HeldIsOpen, IsOpen, Live
  <2> QED
    BY <1>1, <2>1, <2>2, GhidraStep
<1>9. CASE HumanActs
  BY <1>3, <1>4, <1>5, <1>6, <1>7, <1>9 DEF HumanActs
<1> QED
  BY <1>8, <1>9

\* A call begins: it gets an answer and a program of its own, and no work.
LEMMA StartsShape ==
  ASSUME GuiProgramsIInv, NEW c \in Callers, Fresh(c), NEW op \in {"load", "command", "show", "close", "save"},
         NEW p \in Named, NEW pc \in Places, Starts(c, op, p, pc), UNCHANGED <<queue, stack, ghidra, holders, forced>>,
         pc # "idle" /\ (op # "load" \/ pc = "bind") => p \in Programs,
         op = "save" => p \in unsaved, pc # "work"
  PROVE  /\ call' \in [Callers -> GuiCalls] /\ \A d \in Callers \ {c} : call'[d] = call[d]
         /\ call'[c].pc = pc /\ call'[c].op = op /\ call'[c].program = p
         /\ GhidraTyped' /\ HeldIsOpen' /\ forced' = FALSE
         /\ queue' \in Seq(Works) /\ stack' \in Seq(Works) /\ work' \in [Works -> WorkStates]
         /\ holders' \subseteq Callers \X Programs
         /\ (\A d \in Callers : CallFits(d)') /\ WorkHasFile' /\ GivenUpStaysShut'
<1> USE DEF GuiProgramsIInv, GuiTyped
<1> DEFINE r == [pc |-> pc, op |-> op, program |-> p, done |-> FALSE, answer |-> "ok"]
<1>1. r \in GuiCalls /\ r.pc = pc /\ r.op = op /\ r.program = p /\ r.answer = "ok"
  BY DEF GuiCalls
<1>2. call' = [call EXCEPT ![c] = r] /\ wrote' = wrote \ {c}
      /\ work' = [w \in Works |-> IF w[1] = c THEN "none" ELSE work[w]]
  BY DEF Starts
<1> HIDE DEF r
<1>3. call' \in [Callers -> GuiCalls] /\ call'[c] = r /\ \A d \in Callers \ {c} : call'[d] = call[d]
  BY <1>1, <1>2
<1>4. work' \in [Works -> WorkStates] /\ \A w \in Works : work'[w] = IF w[1] = c THEN "none" ELSE work[w]
  BY <1>2 DEF WorkStates
<1>5. GhidraTyped' /\ HeldIsOpen' /\ UNCHANGED unsaved
  BY DEF GhidraTyped, HeldIsOpen, IsOpen, Live, ghidra
<1>6. ASSUME NEW d \in Callers PROVE CallFits(d)'
  <2>1. CASE d = c
    BY <1>1, <1>3, <1>5, <2>1 DEF CallFits
  <2>2. CASE d # c
    BY <1>2, <1>3, <1>5, <2>2 DEF CallFits
  <2> QED
    BY <2>1, <2>2
<1>7. WorkHasFile'
  <2>1. \A i \in DOMAIN queue : queue[i][1] \in Callers
    BY DEF Works
  <2>2. \A d \in Callers : call[d].program \in Named => call'[d].program \in Named
    BY <1>1, <1>3
  <2> QED
    BY <1>4, <2>1, <2>2 DEF WorkHasFile, Works
<1>8. GivenUpStaysShut'
  <2> SUFFICES ASSUME NEW d \in Callers, call'[d].answer = "never"
               PROVE  \E w \in Works : w[1] = d /\ work'[w] = "given_up"
    BY DEF GivenUpStaysShut
  <2>1. d # c /\ call'[d] = call[d]
    BY <1>1, <1>3
  <2> QED
    BY <1>4, <2>1 DEF GivenUpStaysShut
<1> QED
  BY <1>1, <1>3, <1>4, <1>5, <1>6, <1>7, <1>8

LEMMA LoadStartsStep ==
  ASSUME MaxPrograms \in Nat, GuiProgramsIInv, NEW c \in Callers, NEW f \in Files, LoadStarts(c, f)
  PROVE  GuiProgramsIInv'
<1> USE DEF GuiProgramsIInv, GuiTyped
<1>1. /\ f \notin keys /\ keys' = keys \cup {f} /\ Fresh(c) /\ UNCHANGED <<bound, refcount>>
      /\ Starts(c, "load", <<f, 0>>, "look") /\ UNCHANGED <<queue, stack, ghidra, holders, forced>>
  BY DEF LoadStarts
<1>2. <<f, 0>> \in Named /\ "look" \in Places
  BY DEF Named, Places
<1>3. /\ call' \in [Callers -> GuiCalls] /\ \A d \in Callers \ {c} : call'[d] = call[d]
      /\ call'[c].pc = "look" /\ call'[c].op = "load" /\ call'[c].program = <<f, 0>>
      /\ GhidraTyped' /\ HeldIsOpen' /\ forced' = FALSE
      /\ queue' \in Seq(Works) /\ stack' \in Seq(Works) /\ work' \in [Works -> WorkStates]
      /\ holders' \subseteq Callers \X Programs
      /\ (\A d \in Callers : CallFits(d)') /\ WorkHasFile' /\ GivenUpStaysShut'
  BY <1>1, <1>2, StartsShape
<1>4. /\ \A d \in Callers \ {c} : (InLoad(d)' <=> InLoad(d)) /\ File(d)' = File(d)
      /\ InLoad(c)' /\ File(c)' = f /\ ~InLoad(c)
  BY <1>1, <1>3 DEF InLoad, File, Fresh
<1>5. keys = {p[1] : p \in bound} \cup {File(d) : d \in {e \in Callers : InLoad(e)}}
  BY DEF BooksAgree, InLoad
<1>6. LoadsApart'
  BY <1>1, <1>4, <1>5 DEF LoadsApart
<1>7. BooksAgree'
  <2>1. {File(d)' : d \in {e \in Callers : InLoad(e)'}} = {f} \cup {File(d) : d \in {e \in Callers : InLoad(e)}}
    BY <1>4
  <2>2. keys' = {p[1] : p \in bound'} \cup {File(d)' : d \in {e \in Callers : InLoad(e)'}}
    BY <1>1, <1>5, <2>1
  <2> QED
    BY <1>1, <2>2 DEF BooksAgree, InLoad
<1>8. BooksTyped'
  BY <1>1 DEF BooksTyped
<1> QED
  BY <1>3, <1>6, <1>7, <1>8

\* A command, a view or a save of a bound program begins.
LEMMA UseStarts ==
  ASSUME GuiProgramsIInv, NEW c \in Callers, NEW p \in bound,
         HoldStarts(c, p, "command") \/ ShowStarts(c, p) \/ SaveStarts(c, p)
  PROVE  GuiProgramsIInv'
<1>1. ASSUME NEW op \in {"command", "show", "save"}, NEW pc \in {"check", "find"},
             Fresh(c), UNCHANGED books, Starts(c, op, p, pc), UNCHANGED <<queue, stack, ghidra, holders, forced>>,
             op = "save" => p \in unsaved
      PROVE  GuiProgramsIInv'
  <2>1. p \in Programs /\ p \in Named /\ pc \in Places /\ pc # "idle" /\ pc # "work" /\ op # "load"
        /\ op \in {"load", "command", "show", "close", "save"}
    BY DEF GuiProgramsIInv, GuiTyped, BooksTyped, Programs, Named, Places
  <2>2. /\ call' \in [Callers -> GuiCalls] /\ \A d \in Callers \ {c} : call'[d] = call[d]
        /\ call'[c].pc = pc /\ call'[c].op = op
        /\ GhidraTyped' /\ HeldIsOpen' /\ forced' = FALSE
        /\ queue' \in Seq(Works) /\ stack' \in Seq(Works) /\ work' \in [Works -> WorkStates]
        /\ holders' \subseteq Callers \X Programs
        /\ (\A d \in Callers : CallFits(d)') /\ WorkHasFile' /\ GivenUpStaysShut'
    BY <1>1, <2>1, StartsShape
  <2>3. \A d \in Callers : (InLoad(d)' <=> InLoad(d)) /\ (InLoad(d) => File(d)' = File(d))
    BY <1>1, <2>1, <2>2 DEF InLoad, File, Fresh
  <2>4. LoadsApart' /\ BooksTyped'
    BY <1>1, <2>3 DEF GuiProgramsIInv, GuiTyped, LoadsApart, BooksTyped, books
  <2>5. BooksAgree'
    <3>1. {File(d)' : d \in {e \in Callers : InLoad(e)'}} = {File(d) : d \in {e \in Callers : InLoad(e)}}
      BY <2>3
    <3> QED
      BY <1>1, <3>1 DEF GuiProgramsIInv, BooksAgree, InLoad, books
  <2> QED
    BY <2>2, <2>4, <2>5 DEF GuiProgramsIInv, GuiTyped
<1> QED
  BY <1>1 DEF HoldStarts, ShowStarts, SaveStarts

LEMMA UnbindsStep ==
  ASSUME GuiProgramsIInv, NEW c \in Callers, NEW p \in bound, Unbinds(c, p)
  PROVE  GuiProgramsIInv'
<1> USE DEF GuiProgramsIInv, GuiTyped
<1>1. /\ Fresh(c) /\ bound' = bound \ {p} /\ keys' = keys \ {p[1]} /\ refcount' = refcount - 1
      /\ Starts(c, "close", p, "idle") /\ UNCHANGED <<queue, stack, ghidra, holders, forced>>
  BY DEF Unbinds
<1>2. p \in Programs /\ p \in Named /\ "idle" \in Places
  BY DEF BooksTyped, Programs, Named, Places
<1>3. /\ call' \in [Callers -> GuiCalls] /\ \A d \in Callers \ {c} : call'[d] = call[d]
      /\ call'[c].pc = "idle" /\ call'[c].op = "close"
      /\ GhidraTyped' /\ HeldIsOpen' /\ forced' = FALSE
      /\ queue' \in Seq(Works) /\ stack' \in Seq(Works) /\ work' \in [Works -> WorkStates]
      /\ holders' \subseteq Callers \X Programs
      /\ (\A d \in Callers : CallFits(d)') /\ WorkHasFile' /\ GivenUpStaysShut'
  BY <1>1, <1>2, StartsShape
<1>4. \A d \in Callers : (InLoad(d)' <=> InLoad(d)) /\ (InLoad(d) => File(d)' = File(d))
  BY <1>1, <1>3 DEF InLoad, File, Fresh
<1>5. LoadsApart'
  BY <1>1, <1>4 DEF LoadsApart
<1>6. BooksAgree'
  <2>1. {File(d)' : d \in {e \in Callers : InLoad(e)'}} = {File(d) : d \in {e \in Callers : InLoad(e)}}
    BY <1>4
  <2>2. keys = {q[1] : q \in bound} \cup {File(d) : d \in {e \in Callers : InLoad(e)}}
    BY DEF BooksAgree, InLoad
  <2>3. \A d \in Callers : InLoad(d) => File(d) # p[1]
    BY DEF LoadsApart
  <2>4. \A q \in bound : q[1] = p[1] => q = p
    BY DEF BooksAgree
  <2>5. keys' = {q[1] : q \in bound'} \cup {File(d)' : d \in {e \in Callers : InLoad(e)'}}
    BY <1>1, <2>1, <2>2, <2>3, <2>4
  <2>6. refcount' = Cardinality(bound')
    BY <1>1, FS_RemoveElement DEF BooksTyped, BooksAgree
  <2> QED
    BY <1>1, <2>5, <2>6 DEF BooksAgree, InLoad
<1>7. BooksTyped'
  BY <1>1, FS_Subset DEF BooksTyped
<1> QED
  BY <1>3, <1>5, <1>6, <1>7

\* The steps of a save, and the checks of a command or a view.
LEMMA SaveStep ==
  ASSUME GuiProgramsIInv, NEW c \in Callers,
         HoldChecks(c) \/ FindsTool(c) \/ AwaitsIdle(c) \/ PostsSave(c) \/ AwaitsSave(c) \/ Confirms(c)
  PROVE  GuiProgramsIInv'
<1> USE DEF GuiProgramsIInv, GuiTyped
<1>1. call[c].op \in {"command", "show", "save"} /\ call[c].pc # "idle"
      /\ UNCHANGED <<ghidra, books, holders, history>>
  BY DEF HoldChecks, FindsTool, AwaitsIdle, PostsSave, AwaitsSave, Confirms, Saving
<1>2. call[c] \in GuiCalls /\ call[c].program \in Named /\ call[c].program \in Programs /\ call[c].answer = "ok"
      /\ File(c) = call[c].program[1]
  BY <1>1 DEF CallFits, File
<1>3. HeldIsOpen'
  BY <1>1 DEF ghidra, HeldIsOpen, IsOpen, Live
<1>4. ASSUME NEW pc \in Places, pc # "work", GoesOn(c, pc), UNCHANGED edt \/ \E k \in {"tool", "tab", "save"} : Post(<<c, k>>)
      PROVE  GuiProgramsIInv'
  <2> DEFINE r == [call[c] EXCEPT !.pc = pc]
  <2>1. r \in GuiCalls /\ call' = [call EXCEPT ![c] = r] /\ call'[c] = r
    BY <1>2, <1>4 DEF GuiCalls, GoesOn
  <2>2. r.op = call[c].op /\ r.pc = pc /\ r.program = call[c].program /\ r.answer = "ok"
    BY <1>1, <1>2 DEF GuiCalls
  <2> HIDE DEF r
  <2>3. CallFits(c)'
    BY <1>1, <1>2, <1>4, <2>1, <2>2 DEF CallFits, ghidra, history
  <2> QED
    BY <1>1, <1>2, <1>3, <1>4, <2>1, <2>2, <2>3, CallGoesOn
<1>5. ASSUME NEW said \in {"failed", "saved"}, Answers(c, said), UNCHANGED edt,
             said = "saved" => call[c].program \notin unsaved
      PROVE  GuiProgramsIInv'
  <2> DEFINE r == [call[c] EXCEPT !.pc = "idle", !.done = FALSE, !.answer = said]
  <2>1. r \in GuiCalls /\ call' = [call EXCEPT ![c] = r] /\ call'[c] = r
    BY <1>2, <1>5 DEF GuiCalls, Answers, Places
  <2>2. r.op = call[c].op /\ r.pc = "idle" /\ r.program = call[c].program /\ r.answer = said
    BY <1>1, <1>2 DEF GuiCalls
  <2> HIDE DEF r
  <2>3. CallFits(c)'
    BY <1>1, <1>2, <1>5, <2>1, <2>2 DEF CallFits, ghidra, history
  <2> QED
    BY <1>1, <1>2, <1>3, <1>5, <2>1, <2>2, <2>3, CallGoesOn
<1>6. CASE HoldChecks(c)
  BY <1>4, <1>5, <1>6 DEF HoldChecks, Places
<1>7. CASE FindsTool(c)
  BY <1>4, <1>5, <1>7 DEF FindsTool, Places
<1>8. CASE AwaitsIdle(c)
  BY <1>4, <1>5, <1>8 DEF AwaitsIdle, Places
<1>9. CASE PostsSave(c)
  BY <1>4, <1>9 DEF PostsSave, Places
<1>10. CASE AwaitsSave(c)
  BY <1>4, <1>5, <1>10 DEF AwaitsSave, Places
<1>11. CASE Confirms(c)
  BY <1>5, <1>11 DEF Confirms
<1> QED
  BY <1>6, <1>7, <1>8, <1>9, <1>10, <1>11

LEMMA AddConsumerStep == ASSUME GuiProgramsIInv, NEW c \in Callers, AddConsumer(c) PROVE GuiProgramsIInv'
<1> USE DEF GuiProgramsIInv, GuiTyped
<1>1. call[c].op \in {"command", "show"} /\ call[c].pc = "hold" /\ UNCHANGED <<edt, ghidra, books, history>>
  BY DEF AddConsumer
<1>2. call[c] \in GuiCalls /\ call[c].program \in Named /\ call[c].program \in Programs /\ call[c].answer = "ok"
      /\ File(c) = call[c].program[1]
  BY <1>1 DEF CallFits, File
<1> DEFINE pc == IF IsOpen(call[c].program) THEN "work" ELSE "idle"
           said == IF IsOpen(call[c].program) THEN "ok" ELSE "failed"
<1>4. /\ holders' = holders \/ (IsOpen(call[c].program) /\ holders' = holders \cup {<<c, call[c].program>>})
      /\ IsOpen(call[c].program) => <<c, call[c].program>> \in holders'
  BY DEF AddConsumer
<1>5. HeldIsOpen'
  BY <1>1, <1>4 DEF ghidra, HeldIsOpen, IsOpen, Live
<1>6. pc \in {"work", "idle"} /\ said \in {"ok", "failed"} /\ (pc # "idle" => said = "ok" /\ IsOpen(call[c].program))
  OBVIOUS
<1> DEFINE r == IF IsOpen(call[c].program) THEN [call[c] EXCEPT !.pc = "work"]
                ELSE [call[c] EXCEPT !.pc = "idle", !.done = FALSE, !.answer = "failed"]
<1>3. call' = [call EXCEPT ![c] = r]
  <2>1. CASE IsOpen(call[c].program)
    BY <1>2, <2>1 DEF AddConsumer, GoesOn, GuiCalls
  <2>2. CASE ~IsOpen(call[c].program)
    BY <1>2, <2>2 DEF AddConsumer, Answers, GuiCalls
  <2> QED
    BY <2>1, <2>2
<1>8. r \in GuiCalls /\ r.op = call[c].op /\ r.pc = pc /\ r.program = call[c].program /\ r.answer = said
  BY <1>1, <1>2 DEF GuiCalls, Places
<1> HIDE DEF pc, said
<1>7. r \in GuiCalls /\ call' = [call EXCEPT ![c] = r] /\ call'[c] = r
  BY <1>3, <1>8
<1> HIDE DEF r
<1>9. CallFits(c)'
  BY <1>1, <1>2, <1>4, <1>6, <1>7, <1>8 DEF CallFits, ghidra, history
<1>10. holders \subseteq holders' /\ holders' \subseteq Callers \X Programs
  BY <1>2, <1>4
<1> QED
  BY <1>1, <1>2, <1>5, <1>6, <1>7, <1>8, <1>9, <1>10, CallGoesOn

LEMMA ShowPostsStep == ASSUME GuiProgramsIInv, NEW c \in Callers, ShowPosts(c) PROVE GuiProgramsIInv'
<1> USE DEF GuiProgramsIInv, GuiTyped
<1>1. /\ call[c].op = "show" /\ call[c].pc = "work" /\ Post(<<c, "tab">>)
      /\ UNCHANGED <<ghidra, books, holders, call, history>>
  BY DEF ShowPosts
<1>2. call[c] \in GuiCalls /\ call[c].program \in Named /\ call[c].answer = "ok" /\ File(c) = call[c].program[1]
  BY <1>1 DEF CallFits, File
<1>3. HeldIsOpen' /\ CallFits(c)' /\ call' = [call EXCEPT ![c] = call[c]]
  BY <1>1 DEF ghidra, history, HeldIsOpen, IsOpen, Live, CallFits
<1> QED
  BY <1>1, <1>2, <1>3, CallGoesOn

LEMMA EditsStep == ASSUME GuiProgramsIInv, NEW c \in Callers, Edits(c) PROVE GuiProgramsIInv'
<1> USE DEF GuiProgramsIInv, GuiTyped
<1>1. /\ call[c].op = "command" /\ call[c].pc = "work" /\ unsaved' = unsaved \cup {call[c].program}
      /\ UNCHANGED <<edt, running, tabs, born, alive, busy, project, books, holders, call, wrote, forced>>
  BY DEF Edits, history
<1>2. call[c].program \in Programs
  BY <1>1 DEF CallFits
<1>3. GhidraTyped' /\ HeldIsOpen'
  BY <1>1, <1>2 DEF GhidraTyped, HeldIsOpen, IsOpen, Live
<1> QED
  BY <1>1, <1>3, GhidraStep

\* The last to let a program go that no tab shows closes it.
LEMMA ReleaseConsumerStep == ASSUME GuiProgramsIInv, NEW c \in Callers, ReleaseConsumer(c) PROVE GuiProgramsIInv'
<1> USE DEF GuiProgramsIInv, GuiTyped
<1> DEFINE p == call[c].program
           f == File(c)
           last == f \notin tabs /\ ~\E other \in Callers \ {c} : <<other, p>> \in holders
<1>1. /\ call[c].op \in {"command", "show"} /\ call[c].pc = "work" /\ Answers(c, "ok")
      /\ holders' = holders \ {<<c, p>>}
      /\ alive' = (IF last THEN alive \ {f} ELSE alive) /\ busy' = (IF last THEN busy \ {f} ELSE busy)
      /\ UNCHANGED <<edt, running, tabs, born, unsaved, project, books, wrote, forced>>
  BY DEF ReleaseConsumer, history
<1>2. p \in Named /\ p \in Programs /\ <<c, p>> \in holders /\ f = p[1]
  BY <1>1 DEF CallFits, File
<1>3. /\ call' \in [Callers -> GuiCalls] /\ \A d \in Callers \ {c} : call'[d] = call[d]
      /\ call'[c].pc = "idle" /\ call'[c].op = call[c].op /\ call'[c].program = p /\ call'[c].answer = "ok"
  BY <1>1, AnswersShape
<1>4. GhidraTyped'
  BY <1>1 DEF GhidraTyped
<1>5. HeldIsOpen'
  <2> SUFFICES ASSUME NEW h \in holders' PROVE IsOpen(h[2])'
    BY DEF HeldIsOpen
  <2>1. h \in holders /\ h # <<c, p>> /\ h = <<h[1], h[2]>> /\ h[1] \in Callers /\ h[2] \in Programs
    BY <1>1
  <2>2. IsOpen(h[2]) /\ IsOpen(p)
    BY <1>2, <2>1 DEF HeldIsOpen
  <2>3. CASE last /\ h[2][1] = f
    <3>1. h[2] = p
      BY <1>2, <2>2, <2>3 DEF IsOpen, Live
    <3>2. h[1] # c
      BY <2>1, <3>1
    <3> QED
      BY <2>1, <2>3, <3>1, <3>2
  <2>4. CASE ~(last /\ h[2][1] = f)
    BY <1>1, <2>2, <2>4 DEF IsOpen, Live
  <2> QED
    BY <2>3, <2>4
<1> HIDE DEF last
<1>6. \A d \in Callers : CallFits(d)'
  <2> SUFFICES ASSUME NEW d \in Callers PROVE CallFits(d)'
    OBVIOUS
  <2>1. CASE d = c
    BY <1>1, <1>2, <1>3, <2>1 DEF CallFits
  <2>2. CASE d # c
    <3>1. call'[d] = call[d] /\ \A q : <<d, q>> \in holders => <<d, q>> \in holders'
      BY <1>1, <1>3, <2>2
    <3> QED
      BY <1>1, <3>1 DEF CallFits
  <2> QED
    BY <2>1, <2>2
<1>7. queue' = queue /\ stack' = stack /\ work' = work
  BY <1>1 DEF edt
<1>8. WorkHasFile' /\ GivenUpStaysShut'
  <2>1. \A d \in Callers : call[d].program \in Named => call'[d].program \in Named
    BY <1>2, <1>3
  <2>2. \A i \in DOMAIN queue : queue[i][1] \in Callers
    BY DEF Works
  <2>3. WorkHasFile'
    BY <1>7, <2>1, <2>2 DEF WorkHasFile, Works
  <2> QED
    BY <1>3, <1>7, <2>3 DEF GivenUpStaysShut
<1>9. \A d \in Callers : (InLoad(d)' <=> InLoad(d)) /\ (InLoad(d) => File(d)' = File(d))
  BY <1>1, <1>3 DEF InLoad, File
<1>10. LoadsApart' /\ BooksTyped'
  BY <1>1, <1>9 DEF LoadsApart, BooksTyped, books
<1>11. BooksAgree'
  <2>1. {File(d)' : d \in {e \in Callers : InLoad(e)'}} = {File(d) : d \in {e \in Callers : InLoad(e)}}
    BY <1>9
  <2> QED
    BY <1>1, <2>1 DEF BooksAgree, InLoad, books
<1>12. holders' \subseteq Callers \X Programs /\ forced' = FALSE
  BY <1>1
<1> QED
  BY <1>3, <1>4, <1>5, <1>6, <1>7, <1>8, <1>10, <1>11, <1>12

LEMMA GuiProgramsInit == ASSUME MaxPrograms \in Nat, GuiInit PROVE GuiProgramsIInv
<1> USE DEF GuiInit
<1>1. GuiTyped
  BY FS_EmptySet DEF GuiTyped, GhidraTyped, BooksTyped, WorkStates, GuiCalls, Places
<1>2. (\A c \in Callers : CallFits(c)) /\ WorkHasFile /\ LoadsApart
  BY DEF CallFits, WorkHasFile, LoadsApart, InLoad
<1>3. GivenUpStaysShut /\ BooksAgree /\ HeldIsOpen /\ forced = FALSE
  BY FS_EmptySet DEF GivenUpStaysShut, BooksAgree, HeldIsOpen
<1> QED
  BY <1>1, <1>2, <1>3 DEF GuiProgramsIInv

LEMMA GuiProgramsNext == ASSUME MaxPrograms \in Nat, GuiProgramsIInv, [GuiNext]_guiVars PROVE GuiProgramsIInv'
<1>1. CASE EdtBegins
  BY <1>1, EdtBeginsStep
<1>2. CASE \E w \in Works : Asks(w) \/ Acts(w) \/ Ends(w)
  BY <1>2, EdtGoesOn, ActsStep
<1>3. ASSUME NEW c \in Callers, CallSteps(c) PROVE GuiProgramsIInv'
  <2>1. CASE \E f \in Files : LoadStarts(c, f)
    BY <2>1, LoadStartsStep
  <2>2. CASE LoadLooks(c) \/ LoadPosts(c) \/ AwaitTool(c) \/ PollTab(c) \/ SeeTab(c) \/ LoadExpires(c) \/ LoadBinds(c)
    BY <2>2, LoadStep, LoadExpiresStep, LoadBindsStep
  <2>3. CASE \E p \in bound : HoldStarts(c, p, "command") \/ ShowStarts(c, p) \/ Unbinds(c, p) \/ SaveStarts(c, p)
    BY <2>3, UseStarts, UnbindsStep
  <2>4. CASE HoldChecks(c) \/ AddConsumer(c) \/ Edits(c) \/ ShowPosts(c) \/ ReleaseConsumer(c)
    BY <2>4, SaveStep, AddConsumerStep, EditsStep, ShowPostsStep, ReleaseConsumerStep
  <2>5. CASE FindsTool(c) \/ AwaitsIdle(c) \/ PostsSave(c) \/ AwaitsSave(c) \/ Confirms(c)
    BY <2>5, SaveStep
  <2> QED
    BY <1>3, <2>1, <2>2, <2>3, <2>4, <2>5 DEF CallSteps
<1>4. CASE HumanActs \/ Transacts
  BY <1>4, HumanStep
<1>5. CASE UNCHANGED guiVars
  BY <1>5, EdtStep DEF guiVars, ghidra, books, GuiProgramsIInv, GuiTyped
<1> QED
  BY <1>1, <1>2, <1>3, <1>4, <1>5 DEF GuiNext

LEMMA GuiProgramsImplied == GuiProgramsIInv => GuiProgramsInvariant
<1> SUFFICES ASSUME GuiProgramsIInv PROVE GuiProgramsInvariant
  OBVIOUS
<1> USE DEF GuiProgramsIInv, GuiTyped
<1>1. GuiTypeOK
  <2>1. Range(queue) \subseteq Works /\ Range(stack) \subseteq Works
    BY DEF Range
  <2> QED
    BY <2>1 DEF GuiTypeOK, GhidraTyped, BooksTyped, WorkStates
<1>2. SavesAreTrue
  BY DEF SavesAreTrue, CallFits
<1> QED
  BY <1>1, <1>2 DEF GuiProgramsInvariant

\* Calls and the human may share the programs of the GUI, whatever he closes, saves
\* and answers, and however many calls run: work a load gave up opens nothing, a
\* file has one target, a program that is held stays open, and what a save answers
\* is so (gui/programs.py, gui/project_handle.py, gui/edt.py).
THEOREM GuiProgramsHold == ASSUME MaxPrograms \in Nat PROVE GuiSpec => []GuiProgramsInvariant
BY GuiProgramsInit, GuiProgramsNext, GuiProgramsImplied, PTL DEF GuiSpec
=============================================================================
