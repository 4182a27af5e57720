---------------------------- MODULE RuntimeLocks ----------------------------
(***************************************************************************)
(* The locks a call takes on its way to the program it works on            *)
(* (application/locks.py): LockManager reserves one lock per target and    *)
(* per project key and acquires them in that order under one deadline,     *)
(* CallLocks notes which ones a call holds, and OperationLock is the       *)
(* runtime-wide reader/writer lock with a writer that never holds readers  *)
(* off.  A call runs again and again; its plan is fixed.                   *)
(***************************************************************************)
EXTENDS Naturals, Sequences, FiniteSets

CONSTANTS
  Calls,
  Plans,   \* the possible plans: each call's keys in lock order, and its kind
  Keys,    \* target names and project keys
  Locks,   \* lock objects
  None

Kinds == {"read", "write", "bounded", "long"}

ASSUME LocksAssumption ==
  /\ None \notin Locks /\ None \notin Calls /\ IsFiniteSet(Calls)
  /\ \A p \in Plans : \A c \in Calls : p[c].keys \in Seq(Keys) /\ p[c].kind \in Kinds

VARIABLES
  plan,
  at,        \* where each call is
  pool,      \* _entries: of each key, its lock
  users,     \* of each lock, the users of its entry
  owner,     \* the call that holds a lock
  lockOf,    \* of each call, the locks it has reserved
  held,      \* keys whose lock a call has acquired
  noted,     \* keys a call reports as held
  tardy,     \* calls whose deadline has passed
  readers, writer, pendingWriters   \* the runtime lock

keyed == <<pool, users, owner, lockOf, held, noted>>
runtimeLock == <<readers, writer, pendingWriters>>
lockVars == <<plan, at, keyed, tardy, runtimeLock>>

LocksInit ==
  /\ plan \in Plans
  /\ at = [c \in Calls |-> "idle"]
  /\ pool = [k \in Keys |-> None]
  /\ users = [l \in Locks |-> 0]
  /\ owner = [l \in Locks |-> None]
  /\ lockOf = [c \in Calls |-> [k \in Keys |-> None]]
  /\ held = [c \in Calls |-> {}] /\ noted = [c \in Calls |-> {}]
  /\ tardy = {}
  /\ readers = {} /\ writer = None /\ pendingWriters = <<>>

Move(c, to) == at' = [at EXCEPT ![c] = to]
Wanted(c) == {plan[c].keys[i] : i \in DOMAIN plan[c].keys}
Reserved(c) == {k \in Keys : lockOf[c][k] # None}

\* k is the first of the call's keys that is not in done; the last one that is.
IsNext(c, k, done) ==
  \E i \in DOMAIN plan[c].keys :
     plan[c].keys[i] = k /\ k \notin done /\ \A j \in 1..(i - 1) : plan[c].keys[j] \in done
IsLast(c, k, done) ==
  \E i \in DOMAIN plan[c].keys :
     plan[c].keys[i] = k /\ k \in done /\ \A j \in DOMAIN plan[c].keys : j > i => plan[c].keys[j] \notin done

-----------------------------------------------------------------------------
(* The locks per target and project                                        *)

Begin(c) ==
  /\ at[c] = "idle"
  /\ Move(c, "reserving")
  /\ UNCHANGED <<plan, keyed, tardy, runtimeLock>>

\* Another thread's entry is shared; a new one has a lock nobody uses.
EntryFor(k, l) ==
  IF pool[k] # None THEN l = pool[k]
  ELSE l \in Locks /\ users[l] = 0 /\ \A j \in Keys : pool[j] # l

Reserve(c, k, l) ==
  /\ at[c] = "reserving" /\ IsNext(c, k, Reserved(c))
  /\ EntryFor(k, l)
  /\ pool' = [pool EXCEPT ![k] = l]
  /\ users' = [users EXCEPT ![l] = @ + 1]
  /\ lockOf' = [lockOf EXCEPT ![c][k] = l]
  /\ UNCHANGED <<plan, at, owner, held, noted, tardy, runtimeLock>>

StartLocking(c) ==
  /\ at[c] = "reserving" /\ Reserved(c) = Wanted(c)
  /\ Move(c, "locking")
  /\ UNCHANGED <<plan, keyed, tardy, runtimeLock>>

Lock(c, k) ==
  /\ at[c] = "locking" /\ noted[c] = held[c] /\ IsNext(c, k, held[c])
  /\ owner[lockOf[c][k]] = None
  /\ owner' = [owner EXCEPT ![lockOf[c][k]] = c]
  /\ held' = [held EXCEPT ![c] = @ \cup {k}]
  /\ UNCHANGED <<plan, at, pool, users, lockOf, noted, tardy, runtimeLock>>

NoteAcquired(c) ==
  /\ at[c] = "locking" /\ noted[c] # held[c]
  /\ noted' = [noted EXCEPT ![c] = held[c]]
  /\ UNCHANGED <<plan, at, pool, users, owner, lockOf, held, tardy, runtimeLock>>

Deadline(c) ==
  /\ at[c] \in {"locking", "waiting"} /\ c \notin tardy
  /\ tardy' = tardy \cup {c}
  /\ UNCHANGED <<plan, at, keyed, runtimeLock>>

\* At the deadline a lock that is free is still taken.
LockTimeout(c, k) ==
  /\ at[c] = "locking" /\ noted[c] = held[c] /\ IsNext(c, k, held[c])
  /\ c \in tardy /\ owner[lockOf[c][k]] # None
  /\ Move(c, "unlocking")
  /\ UNCHANGED <<plan, keyed, tardy, runtimeLock>>

NoteReleased(c, k) ==
  /\ at[c] = "unlocking" /\ noted[c] = held[c] /\ IsLast(c, k, held[c])
  /\ noted' = [noted EXCEPT ![c] = @ \ {k}]
  /\ UNCHANGED <<plan, at, pool, users, owner, lockOf, held, tardy, runtimeLock>>

Unlock(c, k) ==
  /\ at[c] = "unlocking" /\ noted[c] # held[c] /\ IsLast(c, k, held[c])
  /\ owner' = [owner EXCEPT ![lockOf[c][k]] = None]
  /\ held' = [held EXCEPT ![c] = @ \ {k}]
  /\ UNCHANGED <<plan, at, pool, users, lockOf, noted, tardy, runtimeLock>>

\* Mutant: any user drops the entry.
PoppedByAnyUser(k, l) == [pool EXCEPT ![k] = None]

\* The last user drops the entry, if it is still the key's.
Popped(k, l) ==
  IF users[l] = 1 /\ pool[k] = l THEN [pool EXCEPT ![k] = None] ELSE pool

Unreserve(c, k) ==
  /\ at[c] = "unlocking" /\ held[c] = {} /\ noted[c] = {} /\ IsLast(c, k, Reserved(c))
  /\ pool' = Popped(k, lockOf[c][k])
  /\ users' = [users EXCEPT ![lockOf[c][k]] = @ - 1]
  /\ lockOf' = [lockOf EXCEPT ![c][k] = None]
  /\ UNCHANGED <<plan, at, owner, held, noted, tardy, runtimeLock>>

End(c) ==
  /\ at[c] = "unlocking" /\ Reserved(c) = {}
  /\ Move(c, "idle")
  /\ tardy' = tardy \ {c}
  /\ UNCHANGED <<plan, keyed, runtimeLock>>

-----------------------------------------------------------------------------
(* The runtime-wide lock                                                   *)

\* The wait for it has a deadline of its own, which only a bounded writer has.
\* fasteners queues a writer; a bounded one stays out of the queue.
Locked(c) ==
  /\ at[c] = "locking" /\ held[c] = Wanted(c) /\ noted[c] = held[c]
  /\ Move(c, "waiting")
  /\ tardy' = tardy \ {c}
  /\ pendingWriters' = IF plan[c].kind = "write" THEN Append(pendingWriters, c) ELSE pendingWriters
  /\ UNCHANGED <<plan, keyed, readers, writer>>

EnterAsReader(c) ==
  /\ at[c] = "waiting" /\ plan[c].kind \in {"read", "long"}
  /\ writer = None /\ pendingWriters = <<>>
  /\ readers' = readers \cup {c}
  /\ Move(c, "working")
  /\ UNCHANGED <<plan, keyed, tardy, writer, pendingWriters>>

EnterAsWriter(c) ==
  /\ at[c] = "waiting" /\ plan[c].kind = "write"
  /\ readers = {} /\ writer = None /\ Head(pendingWriters) = c
  /\ writer' = c
  /\ pendingWriters' = Tail(pendingWriters)
  /\ Move(c, "working")
  /\ UNCHANGED <<plan, keyed, tardy, readers>>

Taken == readers # {} \/ writer # None \/ pendingWriters # <<>>

EnterBounded(c) ==
  /\ at[c] = "waiting" /\ plan[c].kind = "bounded" /\ ~Taken
  /\ writer' = c
  /\ Move(c, "working")
  /\ UNCHANGED <<plan, keyed, tardy, readers, pendingWriters>>

GiveUp(c) ==
  /\ at[c] = "waiting" /\ plan[c].kind = "bounded" /\ Taken /\ c \in tardy
  /\ Move(c, "unlocking")
  /\ UNCHANGED <<plan, keyed, tardy, runtimeLock>>

Finish(c) ==
  /\ at[c] = "working"
  /\ readers' = readers \ {c}
  /\ writer' = IF writer = c THEN None ELSE writer
  /\ Move(c, "unlocking")
  /\ UNCHANGED <<plan, keyed, tardy, pendingWriters>>

-----------------------------------------------------------------------------
Forward(c) ==
  \/ \E k \in Keys, l \in Locks : Reserve(c, k, l)
  \/ \E k \in Keys : Lock(c, k) \/ LockTimeout(c, k) \/ NoteReleased(c, k) \/ Unlock(c, k) \/ Unreserve(c, k)
  \/ StartLocking(c) \/ NoteAcquired(c) \/ Locked(c) \/ End(c)
  \/ EnterAsReader(c) \/ EnterAsWriter(c) \/ EnterBounded(c) \/ GiveUp(c)

LocksNext == \E c \in Calls : Begin(c) \/ Deadline(c) \/ Forward(c) \/ Finish(c)

LocksSpec == LocksInit /\ [][LocksNext]_lockVars

-----------------------------------------------------------------------------
(* Properties                                                              *)

LocksTypeOK ==
  /\ plan \in Plans
  /\ at \in [Calls -> {"idle", "reserving", "locking", "waiting", "working", "unlocking"}]
  /\ pool \in [Keys -> Locks \cup {None}]
  /\ users \in [Locks -> Nat]
  /\ owner \in [Locks -> Calls \cup {None}]
  /\ lockOf \in [Calls -> [Keys -> Locks \cup {None}]]
  /\ held \in [Calls -> SUBSET Keys] /\ noted \in [Calls -> SUBSET Keys]
  /\ tardy \subseteq Calls
  /\ readers \subseteq Calls /\ writer \in Calls \cup {None}
  /\ pendingWriters \in Seq(Calls)

\* Two calls that name the same key have the same lock, although the entry goes
\* with its last user and another may be made (locks.py:430, "evict them after
\* the last user exits"); nothing is kept for a key nobody uses.
OneLockPerKey ==
  /\ \A c \in Calls, k \in Keys : lockOf[c][k] # None => lockOf[c][k] = pool[k]
  /\ \A k \in Keys : pool[k] # None => users[pool[k]] > 0
  /\ \A j, k \in Keys : pool[j] = pool[k] /\ pool[j] # None => j = k

\* No two calls work under the same key.
KeysAreExclusive ==
  \A c, d \in Calls : c # d => held[c] \cap held[d] = {}

\* A call reports only what it holds (locks.py:41, "locks actually acquired").
ReportsWhatItHolds == \A c \in Calls : noted[c] \subseteq held[c]

\* A writer works alone.
RuntimeExclusive == writer # None => readers = {} /\ at[writer] = "working"

LocksInvariant ==
  LocksTypeOK /\ OneLockPerKey /\ KeysAreExclusive /\ ReportsWhatItHolds /\ RuntimeExclusive

\* Calls that return although the locks are not fair to them; beside an operation
\* that never ends, a bounded writer and every reader do as long as no other kind
\* of writer waits (locks.py:326-335).
MustReturn(c) ==
  /\ at[c] # "idle" /\ plan[c].kind # "long"
  /\ (\E d \in Calls : plan[d].kind = "long") => \A d \in Calls : plan[d].kind # "write"
=============================================================================
