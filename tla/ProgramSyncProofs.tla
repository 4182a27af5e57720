--------------------------- MODULE ProgramSyncProofs ---------------------------
(***************************************************************************)
(* Proofs about ProgramSync, for any edits, any number of versions that    *)
(* peers bring about and any number of failing Ghidra calls: what every    *)
(* guard reads of local edits is true, an edit is given up only by a call  *)
(* told to discard it, and a reply says truly what the call did.           *)
(*                                                                         *)
(* None of it is inductive alone.  SyncIInv adds which steps belong to     *)
(* which operation and lease (Shape, LeaseShape), what the file, the       *)
(* session and the marks say of each other (Tables, Places), that what a   *)
(* step closes or undoes without saving has nothing to lose                *)
(* (NothingToLose), and what a call that has not had its effect yet, or    *)
(* has had it, found and left (Quiet, Reports, Follows).                   *)
(*                                                                         *)
(* The theorems are about the worlds of Careful: where the status lags     *)
(* behind a save, no close fails and no command fails late.                *)
(***************************************************************************)
EXTENDS ProgramSync, TLAPS

\* A call whose lease runs (_run_sync_operation_for_domain_locked).
InLease(c) == c.pc \in {"lease", "close", "work", "reopen"}

\* Which steps belong to which operation, and which work to which lease.
Shape(c) ==
  /\ c.op # "none" => c.before \in BeforeType
  /\ c.pc # "done" => c.op # "none"
  /\ c.op \notin {"edit", "save", "load", "close"} => c.path = "orig"
  /\ c.op \in {"save", "load", "close"} => c.pc \in {"begin", "done"}
  /\ c.op = "pull" => c.how \in {"abort", "discard"}
  /\ c.op = "edit" => c.edit \in Edits
  /\ c.op = "undo" => c.how \in {"keep", "discard"}
  /\ c.op = "commit" => c.how \in {"abort", "keep", "discard"}
  /\ c.pc = "begin" => c.work = "none" /\ ~c.done
  /\ c.pc = "reread" => c.op \in {"checkout", "commit", "edit"}
  /\ c.pc = "checkout" => c.op \in {"checkout", "commit"}
  /\ c.pc \in {"save", "recheck"} => c.op = "commit"
  /\ c.pc = "edit" => c.op = "edit"
  /\ c.pc = "ok" => c.op = "checkout"
  /\ c.pc \in {"begin", "reread", "checkout", "save", "recheck", "edit", "ok"} =>
       c.work \in {"none", "reload"} /\ ~c.wraps
  /\ c.made => c.op = "commit" /\ (c.pc # "done" => c.work \in {"reload", "undo", "drop"})
  /\ c.made /\ c.pc # "done" /\ c.work # "reload" => c.taken
  /\ c.pc = "rolledback" => c.op = "commit" /\ c.work = "rollback" /\ c.wraps
LeaseShape(c) ==
  /\ InLease(c) =>
       /\ \/ c.work = "reload" /\ c.op = "checkout" /\ (c.then \in {"reread", "ok"} \/ (c.then = "posted" /\ c.wraps))
          \/ c.work = "reload" /\ c.op = "commit"
             /\ (c.then \in {"reread", "recheck"} \/ (c.then = "posted" /\ c.wraps /\ c.made))
          \/ c.work = "reload" /\ c.op = "edit" /\ c.then = "reread"
          \/ c.work = c.op /\ c.op \in {"add", "undo"} /\ c.then = "posted"
          \/ c.work \in {"unhijack", "pull", "follow"} /\ c.op = "pull" /\ c.then = "posted"
          \/ c.work \in {"undo", "drop", "checkin"} /\ c.op = "commit" /\ c.then = "posted"
          \/ c.work = "rollback" /\ c.op = "commit" /\ c.then = "rolledback"
       /\ c.wraps <=> c.work = "rollback" \/ (c.work = "reload" /\ c.then = "posted")
       /\ c.work \in {"drop", "unhijack"} => c.how = "discard"
       /\ c.op = "commit" /\ c.work = "undo" => c.how = "keep"
       /\ c.keeps => c.work = "undo"
       /\ c.save <=> c.work \in {"add", "checkin"} \/ c.keeps
       /\ c.active <=> c.pc \in {"work", "reopen"}
       /\ c.pc = "close" => c.save
       /\ c.pc # "reopen" => c.error = "none" /\ ~c.done
       /\ c.pc = "reopen" /\ SaysNothingChanged(c.error) => ~c.done
       /\ c.pc = "reopen" /\ c.error = "none" => c.done
  /\ c.pc = "posted" =>
       /\ \/ c.op = "checkout" /\ c.work = "reload" /\ c.wraps
          \/ c.op = "commit" /\ c.work = "reload" /\ c.wraps /\ c.made
          \/ c.op = "add" /\ c.work = "add"
          \/ c.op = "undo" /\ c.work = "undo"
          \/ c.op = "pull" /\ c.work \in {"none", "unhijack", "pull", "follow"}
          \/ c.op = "commit" /\ c.work \in {"drop", "checkin"}
          \/ c.op = "commit" /\ c.work = "undo" /\ c.how = "keep"
       /\ c.done <=> c.work # "none"
       /\ c.wraps => c.work = "reload"

\* What the file, the session and the marks say of each other.
Tables ==
  /\ file.kind = "versioned" => file.edits = {} /\ ~(LoadedAt("orig") /\ session.writable)
  /\ world.lags /\ session # None /\ session.unsaved # {} => session.path \in marks.dirty

\* The open program has no edits of its own; a status that lags is marked.
Clean == LoadedAt("orig") => session.unsaved = {} /\ "orig" \notin marks.dirty
LagIsMarked == file.lags => "orig" \in marks.pending

\* What the files, the session and the marks are at each place of a call.
Places(c) ==
  /\ c.pc \in {"work", "reopen"} => session = None
  /\ c.op \in {"edit", "save", "close"} /\ c.pc \in {"begin", "reread", "edit", "lease"} => LoadedAt(c.path)
  /\ c.pc = "checkout" => file.kind = "versioned" /\ Clean
  /\ c.pc \in {"save", "recheck"} \/ (InLease(c) /\ c.then = "recheck") => file.kind # "versioned"
  /\ c.pc = "close" => LoadedAt(c.path) /\ session.unsaved = {}
  /\ LagIsMarked \/ c.pc = "close" \/ (c.pc = "lease" /\ c.then = "recheck")

\* What was checked out for this call only has nothing to lose, and neither has what
\* a lease closes without saving it.
TookOnly(c) == file.edits = {} /\ Clean /\ c.before.kind = "versioned"
NothingToLose(c) ==
  /\ c.made /\ c.pc # "done" => TookOnly(c)
  /\ c.work = "rollback" /\ InLease(c) => TookOnly(c)
  /\ (c.made \/ c.work = "rollback") /\ c.pc \in {"work", "reopen"} => "orig" \notin marks.dirty
  /\ c.pc = "lease" /\ ~c.save /\ (c.how # "discard" \/ c.work \in {"reload", "rollback"}) /\ LoadedAt(c.path) =>
       session.unsaved = {}
  /\ c.pc \in {"lease", "close", "work"} /\ c.work = "undo" /\ ~c.keeps /\ c.how # "discard" /\ file.kind = "checkedout" =>
       file.edits = {}

\* A call that has changed nothing yet.
Harmless(c) ==
  /\ c.pc \notin {"done", "rolledback"}
  /\ c.pc \in {"reopen", "posted"} /\ c.done => c.work \in {"reload", "follow"}
\* What a call that says it changed nothing leaves, or its automatic checkout did.
SameFile(c) ==
  /\ repo.edits = c.before.repo.edits /\ kept = c.before.kept /\ c.before.edits \subseteq file.edits
SameKind(c) == file.kind \in {c.before.kind, "private"}
TookCheckout(c) == file.kind = "checkedout" /\ c.before.kind = "versioned"
Quiet(c) ==
  /\ Harmless(c) => SameFile(c) /\ (SameKind(c) \/ (TookCheckout(c) /\ (c.made \/ c.wraps)))
  /\ c.work = "rollback" /\ (c.pc = "rolledback" \/ (c.pc = "reopen" /\ c.done)) => SameFile(c) /\ SameKind(c)
  /\ c.pc = "done" /\ c.reply \in {"refused", "retry", "noop"} => SameFile(c) /\ SameKind(c)

\* The local edits when the call began, and now; what a commit says of them.
Before(c) == c.before.edits \union (IF c.before.here THEN c.before.unsaved ELSE {})
Here == file.edits \union (IF LoadedAt("orig") THEN session.unsaved ELSE {})
Succeeds(c) == (c.pc = "reopen" /\ c.error = "none") \/ c.pc = "posted" \/ (c.pc = "done" /\ c.reply = "ok")
Reports(c) ==
  c.op = "commit" =>
    /\ Harmless(c) /\ (c.work # "drop" \/ c.made) => Before(c) \subseteq Here
    /\ c.work = "checkin" /\ Succeeds(c) => Before(c) \subseteq repo.edits
    /\ c.work = "undo" /\ Succeeds(c) => Before(c) \subseteq kept
    /\ (c.work = "rollback" /\ c.pc # "done" /\ c.after = "noop") \/ (c.pc = "done" /\ c.reply = "noop") =>
         Before(c) = {} \/ file.kind = "private"

\* Versions never go back, and a pull has followed them.
Follows(c) ==
  /\ c.op # "none" => c.before.repo.version <= repo.version
  /\ c.op = "pull" /\ c.pc = "posted" /\ LoadedAt("orig") =>
       \/ session.base >= c.before.repo.version
       \/ file.kind = "checkedout" /\ session.base = file.base
       \/ file.kind = "private"
  /\ c.op = "pull" /\ c.pc = "done" /\ c.reply = "ok" =>
       /\ LoadedAt("orig") => session.base >= c.before.repo.version
       /\ file.kind = "versioned" => repo.version >= c.before.repo.version
       /\ file.kind = "checkedout" => file.base >= c.before.repo.version

Fits(c) == Shape(c) /\ LeaseShape(c) /\ Places(c) /\ NothingToLose(c) /\ Quiet(c) /\ Reports(c) /\ Follows(c)

\* The inductive invariant.
SyncIInv == SyncTypeOK /\ Tables /\ Fits(call)

-----------------------------------------------------------------------------
(* Replies, leases and errors                                              *)

SameRequest(d, c) ==
  /\ d.op = c.op /\ d.path = c.path /\ d.how = c.how /\ d.auto = c.auto /\ d.out = c.out /\ d.edit = c.edit
  /\ d.before = c.before

\* What Reply and Lease make of a call.
ReplyOf(d, c, r) ==
  /\ d \in CallType /\ SameRequest(d, c)
  /\ d.pc = "done" /\ d.reply = r /\ d.error = "none"
  /\ d.made = c.made /\ d.taken = c.taken
  /\ d.work = c.work /\ d.save = c.save /\ d.then = c.then /\ d.keeps = c.keeps /\ d.done = c.done
  /\ d.active = c.active /\ d.wraps = c.wraps /\ d.after = c.after

LeaseOf(d, c, work, save, then) ==
  /\ d \in CallType /\ SameRequest(d, c)
  /\ d.pc = "lease" /\ d.work = work /\ d.save = save /\ d.then = then
  /\ ~d.active /\ ~d.keeps /\ ~d.done /\ d.error = "none"
  /\ d.made = c.made /\ d.taken = c.taken
  /\ d.wraps = c.wraps /\ d.after = c.after /\ d.reply = c.reply

LEMMA ReplyFields ==
  \A c \in CallType, r \in Replies : ReplyOf(Reply(c, r), c, r)
<1>1. SUFFICES ASSUME NEW c \in CallType, NEW r \in Replies
               PROVE  ReplyOf(Reply(c, r), c, r)
  OBVIOUS
<1> DEFINE d == Reply(c, r)
<1>2. d = [c EXCEPT !.pc = "done", !.reply = r, !.error = "none"]
  BY DEF Reply
<1> HIDE DEF d
<1>3. d \in CallType
  <2>1. "done" \in Pcs /\ "none" \in Errors
    BY DEF Pcs, Errors
  <2> QED
    BY <1>2, <2>1 DEF CallType
<1>4. ReplyOf(d, c, r)
  BY <1>2, <1>3 DEF CallType, SameRequest, ReplyOf
<1> QED
  BY <1>4 DEF d

LEMMA LeaseFields ==
  \A c \in CallType, work \in WorkKinds, save \in BOOLEAN, then \in Thens :
    LeaseOf(Lease(c, work, save, then), c, work, save, then)
<1>1. SUFFICES ASSUME NEW c \in CallType, NEW work \in WorkKinds, NEW save \in BOOLEAN, NEW then \in Thens
               PROVE  LeaseOf(Lease(c, work, save, then), c, work, save, then)
  OBVIOUS
<1> DEFINE b == [c EXCEPT !.pc = "lease", !.work = work, !.save = save, !.then = then]
           d == Lease(c, work, save, then)
<1>2. d = [b EXCEPT !.active = FALSE, !.keeps = FALSE, !.done = FALSE, !.error = "none"]
  BY DEF Lease, CallType
<1>3. /\ b \in CallType
      /\ b.pc = "lease" /\ b.work = work /\ b.save = save /\ b.then = then
      /\ SameRequest(b, c) /\ b.made = c.made /\ b.taken = c.taken
      /\ b.wraps = c.wraps /\ b.after = c.after /\ b.reply = c.reply
  <2>1. "lease" \in Pcs
    BY DEF Pcs
  <2>2. b \in CallType
    BY <2>1 DEF CallType
  <2> QED
    BY <2>2 DEF CallType, SameRequest
<1> HIDE DEF b, d
<1>4. d \in CallType
  <2>1. "none" \in Errors
    BY DEF Errors
  <2> QED
    BY <1>2, <1>3, <2>1, ZenonT(60) DEF CallType
<1>5. LeaseOf(d, c, work, save, then)
  BY <1>2, <1>3, <1>4 DEF CallType, SameRequest, LeaseOf
<1> QED
  BY <1>5 DEF d

\* What stays true of a call until it ends, and is enough for it to reply.
Knows(c) ==
  /\ c.op # "none" /\ c.before \in BeforeType /\ c.before.repo.version <= repo.version
  /\ c.op \notin {"edit", "save", "load", "close"} => c.path = "orig"
  /\ c.op = "pull" => c.how \in {"abort", "discard"}
  /\ c.op = "edit" => c.edit \in Edits
  /\ c.op = "undo" => c.how \in {"keep", "discard"}
  /\ c.op = "commit" => c.how \in {"abort", "keep", "discard"}
  /\ c.made => c.op = "commit"
Known(c) == Knows(c) /\ LagIsMarked
IsQuiet(r) == r \in {"refused", "retry", "noop"}

LEMMA ReplyFits ==
  ASSUME NEW c \in CallType, NEW r \in Replies, Known(c),
         IsQuiet(r) => SameFile(c) /\ SameKind(c),
         c.op = "commit" /\ r = "noop" => Before(c) = {} \/ file.kind = "private",
         c.op = "commit" /\ r = "ok" /\ c.work = "checkin" => Before(c) \subseteq repo.edits,
         c.op = "commit" /\ r = "ok" /\ c.work = "undo" => Before(c) \subseteq kept,
         c.op = "pull" /\ r = "ok" =>
           /\ LoadedAt("orig") => session.base >= c.before.repo.version
           /\ file.kind = "versioned" => repo.version >= c.before.repo.version
           /\ file.kind = "checkedout" => file.base >= c.before.repo.version
  PROVE  Reply(c, r) \in CallType /\ Fits(Reply(c, r))
<1> DEFINE d == Reply(c, r)
<1>1. ReplyOf(d, c, r)
  BY ReplyFields
<1> HIDE DEF d
<1>2. Shape(d) /\ LeaseShape(d)
  BY <1>1 DEF Known, Knows, Shape, LeaseShape, InLease, SameRequest, ReplyOf
<1>3. Places(d) /\ NothingToLose(d) /\ Quiet(d)
  BY <1>1 DEF Known, Knows, Places, NothingToLose, Quiet, InLease, Harmless, SameFile, SameKind, IsQuiet, SameRequest, ReplyOf
<1>4. Reports(d) /\ Follows(d)
  <2>1. /\ SameRequest(d, c) /\ d.pc = "done" /\ d.reply = r /\ d.work = c.work /\ d.made = c.made
    BY <1>1 DEF ReplyOf
  <2>2. Reports(d)
    <3>1. Before(d) = Before(c) /\ d.op = c.op /\ ~Harmless(d)
      BY <2>1 DEF Before, SameRequest, Harmless
    <3> QED
      BY <2>1, <3>1 DEF Reports, Succeeds
  <2>3. Follows(d)
    BY <2>1 DEF Known, Knows, Follows, SameRequest
  <2> QED
    BY <2>2, <2>3
<1> QED
  BY <1>1, <1>2, <1>3, <1>4 DEF Fits, d, ReplyOf

\* Whatever the call did so far, its automatic checkout alone.
Untouched(c) ==
  /\ SameFile(c) /\ (SameKind(c) \/ (TookCheckout(c) /\ (c.made \/ c.wraps)))
  /\ c.op = "commit" /\ (c.work # "drop" \/ c.made) => Before(c) \subseteq Here

LEMMA LeaseFits ==
  ASSUME NEW d \in CallType, Knows(d), LagIsMarked \/ d.then = "recheck", d.pc = "lease", LeaseShape(d), Untouched(d),
         d.made => d.work \in {"reload", "undo", "drop"} /\ TookOnly(d) /\ (d.taken \/ d.work = "reload"),
         d.work = "rollback" => TookOnly(d) /\ (d.after = "noop" => Before(d) = {} \/ file.kind = "private"),
         d.then = "recheck" => file.kind # "versioned", d.op = "edit" => LoadedAt(d.path),
         ~d.save /\ (d.how # "discard" \/ d.work \in {"reload", "rollback"}) /\ LoadedAt(d.path) => session.unsaved = {},
         d.work = "undo" /\ ~d.keeps /\ d.how # "discard" /\ file.kind = "checkedout" => file.edits = {}
  PROVE  Fits(d)
<1>1. Shape(d)
  BY DEF Known, Knows, Shape, LeaseShape, InLease
<1>2. Places(d) /\ NothingToLose(d)
  BY DEF Known, Knows, Places, NothingToLose, InLease, LeaseShape
<1>3. Quiet(d)
  BY DEF Untouched, Quiet, Harmless
<1>4. Reports(d) /\ Follows(d)
  BY DEF Known, Knows, Untouched, Reports, Follows, Succeeds, Harmless, LeaseShape, InLease
<1> QED
  BY <1>1, <1>2, <1>3, <1>4 DEF Fits

LEMMA RollBackFits ==
  ASSUME NEW c \in CallType, NEW r \in Replies, Known(c), c.made, Untouched(c), TookOnly(c),
         r = "noop" => Before(c) = {} \/ file.kind = "private"
  PROVE  RollBack(c, r) \in CallType /\ Fits(RollBack(c, r))
<1> DEFINE b == [c EXCEPT !.made = FALSE, !.wraps = TRUE, !.after = r]
           d == Lease(b, "rollback", FALSE, "rolledback")
<1>1. b \in CallType /\ SameRequest(b, c) /\ b.made = FALSE /\ b.wraps = TRUE /\ b.after = r
  BY ZenonT(60) DEF CallType, SameRequest
<1> HIDE DEF b
<1>2. LeaseOf(d, b, "rollback", FALSE, "rolledback")
  <2>1. "rollback" \in WorkKinds /\ "rolledback" \in Thens
    BY DEF WorkKinds, Thens
  <2> QED
    BY <1>1, <2>1, LeaseFields
<1>3. RollBack(c, r) = d
  BY DEF RollBack, b
<1> HIDE DEF d
<1>4. Known(d) /\ LeaseShape(d) /\ Untouched(d) /\ TookOnly(d)
  <2>1. c.op = "commit"
    BY DEF Known, Knows
  <2>2. Known(d)
    BY <1>1, <1>2 DEF Known, Knows, SameRequest, LeaseOf
  <2>3. LeaseShape(d)
    BY <1>1, <1>2, <2>1 DEF LeaseShape, InLease, SameRequest, SaysNothingChanged, LeaseOf
  <2>4. Untouched(d)
    BY <1>1, <1>2 DEF Untouched, SameFile, SameKind, TookCheckout, Before, SameRequest, LeaseOf
  <2>5. TookOnly(d)
    BY <1>1, <1>2 DEF TookOnly, SameRequest, LeaseOf
  <2> QED
    BY <2>2, <2>3, <2>4, <2>5
<1>5. LoadedAt(d.path) => session.unsaved = {}
  BY <1>1, <1>2 DEF Known, Knows, TookOnly, Clean, SameRequest, LeaseOf
<1>6. d.after = "noop" => Before(d) = {} \/ file.kind = "private"
  BY <1>1, <1>2 DEF Before, SameRequest, LeaseOf
<1> QED
  <2>1. d.op # "edit"
    BY <1>1, <1>2 DEF Known, Knows, LeaseOf, SameRequest
  <2> QED
    BY <1>1, <1>2, <1>3, <1>4, <1>5, <1>6, <2>1, LeaseFits DEF LeaseOf, Known

LEMMA RaiseFits ==
  ASSUME NEW c \in CallType, NEW error \in {"refused", "retry", "failed", "partial"}, Known(c),
         c.made => TookOnly(c),
         \/ c.wraps \/ Untouched(c)
         \/ c.op # "edit" /\ (error = "partial" \/ (error = "failed" /\ (c.made => c.taken)))
  PROVE  Raise(c, error) \in CallType /\ Fits(Raise(c, error))
<1> DEFINE raised == IF c.wraps THEN "partial" ELSE IF c.op = "edit" THEN "refused" ELSE error
<1>1. raised \in {"refused", "retry", "failed", "partial"} /\ raised \in Replies
  BY DEF Replies, Errors
<1>2. CASE UndoesAfter(c, raised)
  <2>1. c.made /\ Untouched(c) /\ TookOnly(c)
    BY <1>2 DEF UndoesAfter, SaysNothingChanged, Known, Knows
  <2>2. Raise(c, error) = RollBack(c, raised)
    BY <1>2 DEF Raise
  <2>3. raised # "noop"
    OBVIOUS
  <2> HIDE DEF raised
  <2> QED
    BY <1>1, <2>1, <2>2, <2>3, RollBackFits
<1>3. CASE ~UndoesAfter(c, raised)
  <2>1. Raise(c, error) = Reply(c, raised)
    BY <1>3 DEF Raise
  <2>2. raised \in {"refused", "retry"} => SameFile(c) /\ SameKind(c)
    BY <1>3 DEF UndoesAfter, SaysNothingChanged, Untouched
  <2> HIDE DEF raised
  <2> QED
    BY <1>1, <2>1, <2>2, ReplyFits DEF IsQuiet
<1> QED
  BY <1>2, <1>3

\* A call that raises before it changed anything.
LEMMA HarmlessRaises ==
  ASSUME NEW c \in CallType, NEW error \in {"refused", "retry", "failed", "partial"},
         Fits(c), Harmless(c), LagIsMarked
  PROVE  Raise(c, error) \in CallType /\ Fits(Raise(c, error))
<1>1. Known(c)
  BY DEF Fits, Shape, Known, Knows, Follows, Harmless
<1>2. Untouched(c)
  BY DEF Fits, Quiet, Reports, Untouched
<1>3. c.made => TookOnly(c)
  BY DEF Fits, NothingToLose, Harmless
<1> QED
  BY <1>1, <1>2, <1>3, RaiseFits

-----------------------------------------------------------------------------
(* Steps of a call between its leases                                      *)

LEMMA FaultsBounded ==
  ASSUME SyncTypeOK, Fault \/ NoFault
  PROVE  faults' \in 0..MaxFaults
BY WorldsAssumption DEF SyncTypeOK, Fault, NoFault

\* A step of the call alone.
LEMMA Continues ==
  ASSUME SyncIInv, NEW d \in CallType, Fits(d), call' = d, Fault \/ NoFault,
         UNCHANGED <<repo, file, kept, session, marks, world>>
  PROVE  SyncIInv'
<1>1. call' = d /\ UNCHANGED <<repo, file, kept, session, marks, world>> /\ faults' \in 0..MaxFaults
  BY FaultsBounded DEF SyncIInv
<1>2. SyncTypeOK'
  BY <1>1 DEF SyncIInv, SyncTypeOK, LoadedAt
<1>3. Tables'
  BY <1>1 DEF SyncIInv, Tables, LoadedAt
<1>4. Fits(call)'
  <2>1. Shape(call)' /\ LeaseShape(call)'
    BY <1>1 DEF Fits, Shape, LeaseShape, InLease
  <2>2. Places(call)' /\ NothingToLose(call)'
    BY <1>1 DEF Fits, Places, NothingToLose, LoadedAt, Clean, LagIsMarked, TookOnly, InLease
  <2>3. Quiet(call)'
    BY <1>1 DEF Fits, Quiet, Harmless, SameFile, SameKind, TookCheckout
  <2>4. Reports(call)'
    BY <1>1 DEF Fits, Reports, Harmless, Before, Here, LoadedAt, Succeeds
  <2>5. Follows(call)'
    BY <1>1 DEF Fits, Follows, LoadedAt
  <2> QED
    BY <2>1, <2>2, <2>3, <2>4, <2>5 DEF Fits
<1> QED
  BY <1>2, <1>3, <1>4 DEF SyncIInv

LEMMA Stays ==
  ASSUME SyncIInv, NEW d \in CallType, Fits(d), Goes(d)
  PROVE  SyncIInv'
BY Continues DEF Goes, NoFault, AllFiles

IsSteady(pc) == pc \in {"begin", "reread", "checkout", "save", "recheck", "edit", "ok"}

\* A call between leases that has done nothing but check out so far.
Steady(c) ==
  /\ c \in CallType /\ Known(c) /\ Untouched(c) /\ c.work \in {"none", "reload"} /\ ~c.wraps
  /\ c.made => TookOnly(c) /\ c.work = "reload"

LEMMA SteadyFacts ==
  ASSUME SyncIInv, IsSteady(call.pc)
  PROVE  Steady(call) /\ Harmless(call) /\ Fits(call)
<1>1. call \in CallType /\ Fits(call)
  BY DEF SyncIInv, SyncTypeOK
<1>2. Harmless(call)
  BY DEF IsSteady, Harmless
<1>3. LagIsMarked
  BY <1>1 DEF Fits, Places, IsSteady
<1>4. Known(call)
  BY <1>1, <1>2, <1>3 DEF Fits, Shape, Known, Knows, Follows, Harmless
<1>5. Untouched(call)
  BY <1>1, <1>2 DEF Fits, Quiet, Reports, Untouched
<1>6. call.made => TookOnly(call) /\ call.work = "reload"
  BY <1>1, <1>2 DEF Fits, Shape, NothingToLose, Harmless, IsSteady
<1>7. ~call.wraps /\ call.work \in {"none", "reload"}
  BY <1>1 DEF Fits, Shape, IsSteady
<1> QED
  BY <1>1, <1>2, <1>4, <1>5, <1>6, <1>7 DEF Steady

LEMMA SteadyRaises ==
  ASSUME NEW c, Steady(c), NEW error \in {"refused", "retry", "failed", "partial"}
  PROVE  Raise(c, error) \in CallType /\ Fits(Raise(c, error))
BY RaiseFits DEF Steady

LEMMA SteadyLeases ==
  ASSUME NEW c, Steady(c), NEW d \in CallType, SameRequest(d, c), d.made = c.made, d.wraps = c.wraps,
         d.pc = "lease", LeaseShape(d), d.work # "rollback",
         d.made => d.work \in {"reload", "undo", "drop"} /\ (d.taken \/ d.work = "reload"),
         d.then = "recheck" => file.kind # "versioned", d.op = "edit" => LoadedAt(d.path),
         ~d.save /\ (d.how # "discard" \/ d.work = "reload") /\ LoadedAt(d.path) => session.unsaved = {},
         d.work = "undo" /\ ~d.keeps /\ d.how # "discard" /\ file.kind = "checkedout" => file.edits = {}
  PROVE  Fits(d)
<1>1. Known(d)
  BY DEF Known, Knows, SameRequest, Steady
<1>2. Untouched(d)
  BY DEF Untouched, SameFile, SameKind, TookCheckout, Before, SameRequest, Steady
<1>3. d.made => TookOnly(d)
  BY DEF TookOnly, SameRequest, Steady
<1> QED
  BY <1>1, <1>2, <1>3, LeaseFits DEF Known

LEMMA StartsReload ==
  ASSUME NEW c, Steady(c), NEW then \in {"reread", "ok"},
         \/ then = "reread" /\ c.op \in {"checkout", "commit", "edit"}
         \/ then = "ok" /\ c.op = "checkout",
         LoadedAt(c.path) => session.unsaved = {}, c.op = "edit" => LoadedAt(c.path)
  PROVE  Lease(c, "reload", FALSE, then) \in CallType /\ Fits(Lease(c, "reload", FALSE, then))
<1> DEFINE d == Lease(c, "reload", FALSE, then)
<1>1. LeaseOf(d, c, "reload", FALSE, then)
  BY LeaseFields DEF WorkKinds, Thens, Steady
<1> HIDE DEF d
<1>2. LeaseShape(d)
  BY <1>1 DEF LeaseOf, LeaseShape, InLease, SameRequest, SaysNothingChanged, Steady
<1>3. d \in CallType /\ Fits(d)
  BY <1>1, <1>2, SteadyLeases DEF LeaseOf, SameRequest, Steady
<1> QED
  BY <1>3 DEF d

LEMMA NotModified ==
  ASSUME SyncTypeOK, LagIsMarked, call.path = "orig", Status.out, ~Modified(Status)
  PROVE  file.edits = {} /\ (LoadedAt("orig") => session.unsaved = {} /\ "orig" \notin marks.dirty)
<1>1. file.kind = "checkedout" /\ (file.edits # {} => file.lags)
  BY DEF Modified, Status, SyncTypeOK, FileType
<1>2. ~Changed
  BY DEF Modified
<1> QED
  BY <1>1, <1>2 DEF Changed, Loaded, SyncTypeOK, LagIsMarked

LEMMA RereadsFits ==
  ASSUME SyncIInv, IsSteady(call.pc), call.op \in {"checkout", "commit", "edit"}
  PROVE  Rereads \in CallType /\ Fits(Rereads)
<1>1. CASE Changed
  BY <1>1, SteadyFacts, SteadyRaises DEF Rereads
<1>2. CASE ~Changed
  <2>1. LoadedAt(call.path) => session.unsaved = {}
    BY <1>2 DEF Changed, Loaded
  <2>3. call.op = "edit" => LoadedAt(call.path)
    BY SteadyFacts DEF Fits, Shape, Places, IsSteady
  <2>2. Lease(call, "reload", FALSE, "reread") \in CallType /\ Fits(Lease(call, "reload", FALSE, "reread"))
    BY <2>1, <2>3, SteadyFacts, StartsReload
  <2> QED
    BY <1>2, <2>2 DEF Rereads
<1> QED
  BY <1>1, <1>2

LEMMA ChecksOutFits ==
  ASSUME SyncIInv, IsSteady(call.pc), call.op \in {"checkout", "commit"}, Status.versioned, ~Status.out
  PROVE  ChecksOut(call) \in CallType /\ Fits(ChecksOut(call))
<1>1. CASE Changed
  BY <1>1, SteadyFacts, SteadyRaises DEF ChecksOut
<1>2. CASE ~Changed
  <2> DEFINE d == [call EXCEPT !.pc = "checkout"]
  <2>1. file.kind = "versioned" /\ Clean
    BY <1>2, SteadyFacts DEF SyncIInv, SyncTypeOK, FileType, FileKinds, Status, Clean, Changed, Loaded, Steady, Known, Knows
  <2>2. call \in CallType /\ Fits(call) /\ Harmless(call)
    BY SteadyFacts DEF Steady
  <2>3. d \in CallType
    BY <2>2 DEF CallType, Pcs
  <2>4. /\ SameRequest(d, call) /\ d.pc = "checkout"
        /\ d.made = call.made /\ d.work = call.work /\ d.wraps = call.wraps /\ d.reply = call.reply /\ d.after = call.after
    BY <2>2 DEF SameRequest, CallType
  <2> HIDE DEF d
  <2>5. Shape(d) /\ LeaseShape(d)
    BY <2>2, <2>4 DEF IsSteady, Fits, Shape, LeaseShape, SameRequest, InLease
  <2>6. Places(d) /\ NothingToLose(d)
    BY <2>1, <2>2, <2>4 DEF IsSteady, Fits, Places, NothingToLose, SameRequest, InLease, TookOnly, Harmless
  <2>7. Quiet(d) /\ Reports(d) /\ Follows(d)
    BY <2>2, <2>4 DEF IsSteady, Fits, Quiet, Reports, Follows, SameRequest, Harmless, SameFile, SameKind, TookCheckout, Before, Succeeds
  <2>8. d \in CallType /\ Fits(d)
    BY <2>3, <2>5, <2>6, <2>7 DEF Fits
  <2> QED
    BY <1>2, <2>8 DEF ChecksOut, d
<1> QED
  BY <1>1, <1>2

\* The steps that only say what comes next.
LEMMA SteadyMoves ==
  ASSUME NEW c, Steady(c), NEW pc \in {"save", "recheck", "edit"},
         pc # "edit" => c.op = "commit" /\ file.kind # "versioned",
         pc = "edit" => c.op = "edit" /\ LoadedAt(c.path)
  PROVE  [c EXCEPT !.pc = pc] \in CallType /\ Fits([c EXCEPT !.pc = pc])
<1> DEFINE d == [c EXCEPT !.pc = pc]
<1>1. c \in CallType
  BY DEF Steady
<1>2. d \in CallType
  BY <1>1 DEF CallType, Pcs
<1>3. /\ SameRequest(d, c) /\ d.pc = pc
      /\ d.made = c.made /\ d.work = c.work /\ d.wraps = c.wraps
  BY <1>1 DEF SameRequest, CallType
<1> HIDE DEF d
<1>4. Shape(d) /\ LeaseShape(d)
  BY <1>3 DEF Steady, Known, Knows, Shape, LeaseShape, SameRequest, InLease
<1>5. Places(d) /\ NothingToLose(d)
  BY <1>3 DEF Steady, Known, Knows, Places, NothingToLose, SameRequest, InLease, TookOnly
<1>6. Quiet(d) /\ Reports(d) /\ Follows(d)
  BY <1>3 DEF Steady, Known, Knows, Untouched, Quiet, Reports, Follows, SameRequest, Harmless, SameFile, SameKind, TookCheckout,
              Before, Succeeds
<1> QED
  BY <1>2, <1>4, <1>5, <1>6 DEF Fits, d

LEMMA ConflictFits ==
  ASSUME SyncIInv, NEW c, Steady(c), c.op = "commit", c.path = call.path, Status.out,
         NEW next, next \in CallType /\ Fits(next)
  PROVE  Conflict(c, Status, next) \in CallType /\ Fits(Conflict(c, Status, next))
<1> DEFINE b == [c EXCEPT !.taken = TRUE]
<1>1. c \in CallType /\ LagIsMarked /\ c.path = "orig" /\ SyncTypeOK /\ file.kind = "checkedout"
  BY DEF Steady, Known, Knows, SyncIInv, Status
<1>2. /\ b \in CallType /\ SameRequest(b, c) /\ b.taken /\ b.made = c.made /\ b.work = c.work /\ b.wraps = c.wraps
  BY <1>1 DEF CallType, SameRequest
<1>3. CASE ~Status.merge
  BY <1>3 DEF Conflict
<1>4. CASE Status.merge /\ c.how = "abort"
  <2>1. Conflict(c, Status, next) = RollBackFirst(c, "refused")
    BY <1>4 DEF Conflict
  <2>2. "refused" \in Replies
    BY DEF Replies, Errors
  <2>3. CASE c.made
    BY <2>1, <2>2, <2>3, RollBackFits DEF RollBackFirst, Steady
  <2>4. CASE ~c.made
    <3>1. SameFile(c) /\ SameKind(c)
      BY <2>4 DEF Steady, Untouched
    <3>2. Reply(c, "refused") \in CallType /\ Fits(Reply(c, "refused"))
      BY <2>2, <3>1, ReplyFits DEF Steady
    <3> QED
      BY <2>1, <2>4, <3>2 DEF RollBackFirst
  <2> QED
    BY <2>3, <2>4
<1>5. CASE Status.merge /\ c.how = "keep"
  <2> DEFINE keep == Modified(Status)
             e == Lease(b, "undo", keep, "posted")
             d == [e EXCEPT !.keeps = keep]
  <2>1. Conflict(c, Status, next) = d
    BY <1>5 DEF Conflict, Undoes
  <2>2. keep \in BOOLEAN
    BY <1>1 DEF Modified, Changed, Loaded, LoadedAt, Status, SyncTypeOK, FileType
  <2>3. ~keep => file.edits = {} /\ (LoadedAt("orig") => session.unsaved = {})
    BY <1>1, NotModified
  <2> HIDE DEF keep, b
  <2>4. LeaseOf(e, b, "undo", keep, "posted")
    BY <1>2, <2>2, LeaseFields DEF WorkKinds, Thens
  <2> HIDE DEF e
  <2>5. d \in CallType /\ d.keeps = keep /\ SameRequest(d, c) /\ d.made = c.made /\ d.wraps = c.wraps
        /\ d.pc = "lease" /\ d.work = "undo" /\ d.save = keep /\ d.then = "posted"
        /\ ~d.active /\ ~d.done /\ d.error = "none" /\ d.taken
    <3>1. e \in CallType /\ e.taken
      BY <1>2, <2>4 DEF LeaseOf
    <3>2. d \in CallType
      BY <2>2, <3>1 DEF CallType
    <3>3. /\ d.keeps = keep /\ SameRequest(d, e) /\ d.made = e.made /\ d.wraps = e.wraps /\ d.pc = e.pc
          /\ d.work = e.work /\ d.save = e.save /\ d.then = e.then /\ d.active = e.active /\ d.done = e.done
          /\ d.error = e.error /\ d.taken = e.taken
      BY <3>1, <3>2 DEF CallType, SameRequest
    <3> HIDE DEF d
    <3> QED
      BY <1>2, <2>4, <3>1, <3>2, <3>3 DEF LeaseOf, SameRequest
  <2> HIDE DEF d
  <2>6. LeaseShape(d)
    BY <1>5, <2>5 DEF LeaseShape, InLease, SameRequest, SaysNothingChanged, Steady
  <2>7. d.path = "orig" /\ d.how = "keep" /\ d.op = "commit"
    BY <1>1, <1>5, <2>5 DEF SameRequest
  <2>8. Fits(d)
    BY <2>3, <2>5, <2>6, <2>7, SteadyLeases
  <2> QED
    BY <2>1, <2>5, <2>8
<1>6. CASE Status.merge /\ c.how = "discard"
  <2> DEFINE d == Lease(b, "drop", FALSE, "posted")
  <2>1. Conflict(c, Status, next) = d
    BY <1>6 DEF Conflict
  <2> HIDE DEF b
  <2>2. LeaseOf(d, b, "drop", FALSE, "posted")
    BY <1>2, LeaseFields DEF WorkKinds, Thens
  <2> HIDE DEF d
  <2>3. d \in CallType /\ SameRequest(d, c) /\ d.made = c.made /\ d.wraps = c.wraps
    BY <1>2, <2>2 DEF LeaseOf, SameRequest
  <2>4. LeaseShape(d)
    BY <1>6, <2>2, <2>3 DEF LeaseOf, LeaseShape, InLease, SameRequest, SaysNothingChanged, Steady
  <2>5. Fits(d)
    BY <1>2, <1>6, <2>2, <2>3, <2>4, SteadyLeases, ZenonT(60) DEF LeaseOf, SameRequest
  <2> QED
    BY <2>1, <2>3, <2>5
<1>7. c.how \in {"abort", "keep", "discard"}
  BY DEF Steady, Known, Knows
<1> QED
  BY <1>3, <1>4, <1>5, <1>6, <1>7

LEMMA BeginAddKeeps ==
  ASSUME SyncIInv, BeginAdd
  PROVE  SyncIInv'
<1> DEFINE x == CASE Status.versioned -> Reply(call, "noop")
            [] ~Status.versioned /\ ~Status.canAdd -> Raise(call, "refused")
            [] OTHER -> Lease(call, "add", TRUE, "posted")
<1>1. Goes(x) /\ call.op = "add" /\ IsSteady(call.pc)
  BY DEF BeginAdd, BeginReads, IsSteady
<1>2. Steady(call)
  BY <1>1, SteadyFacts
<1>3. x \in CallType /\ Fits(x)
  <2>1. CASE Status.versioned
    <3>1. SameFile(call) /\ SameKind(call) /\ ~call.made
      BY <1>1, <1>2 DEF Steady, Untouched, Known, Knows
    <3>2. "noop" \in Replies
      BY DEF Replies
    <3>3. Reply(call, "noop") \in CallType /\ Fits(Reply(call, "noop"))
      BY <1>1, <1>2, <3>1, <3>2, ReplyFits DEF Steady
    <3> QED
      BY <2>1, <3>3
  <2>2. CASE ~Status.versioned /\ ~Status.canAdd
    BY <2>2, <1>2, SteadyRaises
  <2>3. CASE ~Status.versioned /\ Status.canAdd
    <3> DEFINE d == Lease(call, "add", TRUE, "posted")
    <3>1. LeaseOf(d, call, "add", TRUE, "posted")
      BY <1>2, LeaseFields DEF WorkKinds, Thens, Steady
    <3> HIDE DEF d
    <3>2. LeaseShape(d)
      BY <1>1, <1>2, <3>1 DEF LeaseOf, LeaseShape, InLease, SameRequest, SaysNothingChanged, Steady
    <3>3. d \in CallType /\ Fits(d)
      BY <1>1, <1>2, <3>1, <3>2, SteadyLeases DEF LeaseOf, Steady, Known, Knows, SameRequest
    <3> QED
      BY <2>3, <3>3 DEF d
  <2> QED
    BY <2>1, <2>2, <2>3
<1> QED
  BY <1>1, <1>3, Stays

LEMMA BeginUndoKeeps ==
  ASSUME SyncIInv, BeginUndo
  PROVE  SyncIInv'
<1> DEFINE keep == call.how = "keep" /\ Modified(Status)
           x == CASE NotVersioned(Status) -> Raise(call, "refused")
            [] Status.versioned /\ ~Status.out -> Reply(call, "noop")
            [] OTHER -> Undoes(call, keep)
<1>1. Goes(x) /\ call.op = "undo" /\ IsSteady(call.pc)
  BY DEF BeginUndo, BeginReads, IsSteady
<1>2. Steady(call) /\ SyncTypeOK
  BY <1>1, SteadyFacts DEF SyncIInv
<1>3. LagIsMarked /\ call.path = "orig"
  BY <1>1, <1>2 DEF Steady, Known, Knows
<1>4. x \in CallType /\ Fits(x)
  <2>1. CASE NotVersioned(Status)
    BY <2>1, <1>2, SteadyRaises DEF NotVersioned
  <2>2. CASE Status.versioned /\ ~Status.out
    <3>1. SameFile(call) /\ SameKind(call) /\ ~call.made
      BY <1>1, <1>2 DEF Steady, Untouched, Known, Knows
    <3>2. "noop" \in Replies
      BY DEF Replies
    <3>3. Reply(call, "noop") \in CallType /\ Fits(Reply(call, "noop"))
      BY <1>1, <1>2, <3>1, <3>2, ReplyFits DEF Steady
    <3> QED
      BY <2>2, <3>3 DEF NotVersioned
  <2>3. CASE Status.versioned /\ Status.out
    <3> DEFINE e == Lease(call, "undo", keep, "posted")
               d == [e EXCEPT !.keeps = keep]
    <3>1. x = d
      BY <2>3 DEF Undoes, NotVersioned
    <3>2. keep \in BOOLEAN
      OBVIOUS
    <3>3. ~keep /\ call.how = "keep" => file.edits = {} /\ (LoadedAt("orig") => session.unsaved = {})
      BY <1>2, <1>3, <2>3, NotModified
    <3>4. keep => call.how = "keep"
      OBVIOUS
    <3> HIDE DEF x, keep
    <3>5. LeaseOf(e, call, "undo", keep, "posted")
      BY <1>2, <3>2, LeaseFields DEF WorkKinds, Thens, Steady
    <3> HIDE DEF e
    <3>6. d \in CallType /\ d.keeps = keep /\ SameRequest(d, call) /\ d.made = call.made /\ d.wraps = call.wraps
          /\ d.pc = "lease" /\ d.work = "undo" /\ d.save = keep /\ d.then = "posted"
          /\ ~d.active /\ ~d.done /\ d.error = "none"
      BY <3>2, <3>5 DEF LeaseOf, CallType, SameRequest
    <3> HIDE DEF d
    <3>7. LeaseShape(d)
      BY <1>1, <1>2, <3>6 DEF LeaseShape, InLease, SameRequest, SaysNothingChanged, Steady
    <3>8. d.path = "orig" /\ d.how = call.how /\ d.op = "undo" /\ ~d.made
      BY <1>1, <1>2, <1>3, <3>6 DEF SameRequest, Steady, Known, Knows
    <3>9. d.how # "discard" => d.how = "keep"
      BY <1>1, <1>2, <3>8 DEF Steady, Known, Knows
    <3>10. Fits(d)
      BY <1>2, <3>3, <3>6, <3>7, <3>8, <3>9, SteadyLeases
    <3> QED
      BY <3>1, <3>6, <3>10
  <2> QED
    BY <2>1, <2>2, <2>3 DEF NotVersioned
<1> QED
  BY <1>1, <1>4, Stays

LEMMA BeginCheckoutKeeps ==
  ASSUME SyncIInv, BeginCheckout
  PROVE  SyncIInv'
<1> DEFINE x == CASE MustReread(Status) -> Rereads
            [] ~MustReread(Status) /\ NotVersioned(Status) -> Raise(call, "refused")
            [] Status.out /\ Changed -> Reply(call, "ok")
            [] Status.out /\ ~Changed -> Lease(call, "reload", FALSE, "ok")
            [] OTHER -> ChecksOut(call)
<1>1. Goes(x) /\ call.op = "checkout" /\ IsSteady(call.pc)
  BY DEF BeginCheckout, BeginReads, IsSteady
<1>2. Steady(call)
  BY <1>1, SteadyFacts
<1>3. Status.out => Status.versioned
  BY DEF Status
<1>4. x \in CallType /\ Fits(x)
  <2>1. CASE MustReread(Status)
    <3>1. x = Rereads
      BY <2>1, <1>3 DEF MustReread, NotVersioned
    <3> QED
      BY <3>1, <1>1, RereadsFits
  <2>2. CASE ~MustReread(Status) /\ NotVersioned(Status)
    <3>1. x = Raise(call, "refused")
      BY <2>2, <1>3 DEF NotVersioned
    <3> QED
      BY <3>1, <1>2, SteadyRaises
  <2>3. CASE Status.out /\ Changed
    <3>1. x = Reply(call, "ok")
      BY <2>3, <1>3 DEF MustReread, NotVersioned
    <3>2. "ok" \in Replies
      BY DEF Replies
    <3>3. Reply(call, "ok") \in CallType /\ Fits(Reply(call, "ok"))
      BY <1>1, <1>2, <3>2, ReplyFits DEF Steady, IsQuiet
    <3> QED
      BY <3>1, <3>3
  <2>4. CASE Status.out /\ ~Changed
    <3>1. x = Lease(call, "reload", FALSE, "ok")
      BY <2>4, <1>3 DEF MustReread, NotVersioned
    <3>2. LoadedAt(call.path) => session.unsaved = {}
      BY <2>4 DEF Changed, Loaded
    <3>3. Lease(call, "reload", FALSE, "ok") \in CallType /\ Fits(Lease(call, "reload", FALSE, "ok"))
      BY <1>1, <1>2, <3>2, StartsReload
    <3> QED
      BY <3>1, <3>3
  <2>5. CASE Status.versioned /\ ~Status.out
    <3>1. x = ChecksOut(call)
      BY <2>5 DEF MustReread, NotVersioned
    <3> QED
      BY <3>1, <2>5, <1>1, ChecksOutFits
  <2> QED
    BY <2>1, <2>2, <2>3, <2>4, <2>5, <1>3 DEF NotVersioned
<1> QED
  BY <1>1, <1>4, Stays

LEMMA BeginPullKeeps ==
  ASSUME SyncIInv, BeginPull
  PROVE  SyncIInv'
<1> DEFINE st == Status
           idle == [call EXCEPT !.pc = "posted"]
           blocked == (Modified(st) \/ Changed) /\ call.how = "abort"
           x == CASE st.hijacked /\ call.how = "discard" -> Lease(call, "unhijack", FALSE, "posted")
            [] NotVersioned(st) /\ ~(st.hijacked /\ call.how = "discard") -> Raise(call, "refused")
            [] st.versioned /\ blocked -> Raise(call, "refused")
            [] st.versioned /\ ~blocked ->
                 IF Modified(st) \/ st.merge THEN Lease(call, "pull", FALSE, "posted")
                 ELSE IF Loaded THEN Lease(call, "follow", FALSE, "posted")
                 ELSE idle
<1>1. Goes(x) /\ call.op = "pull" /\ IsSteady(call.pc)
  BY DEF BeginPull, BeginReads, IsSteady
<1>2. Steady(call) /\ Fits(call)
  BY <1>1, SteadyFacts
<1>3. st.hijacked => ~st.versioned
  BY DEF Status
<1>4. call.path = "orig" /\ call.how \in {"abort", "discard"} /\ call.pc = "begin" /\ call.work = "none" /\ ~call.done
      /\ LagIsMarked
  BY <1>1, <1>2 DEF Steady, Known, Knows, Fits, Shape, BeginPull, BeginReads, IsSteady
<1>5. \A work \in {"unhijack", "pull", "follow"} :
        (LoadedAt("orig") /\ call.how # "discard" => session.unsaved = {}) /\ (work = "unhijack" => call.how = "discard") =>
          Lease(call, work, FALSE, "posted") \in CallType /\ Fits(Lease(call, work, FALSE, "posted"))
  <2>1. SUFFICES ASSUME NEW work \in {"unhijack", "pull", "follow"},
                        LoadedAt("orig") /\ call.how # "discard" => session.unsaved = {},
                        work = "unhijack" => call.how = "discard"
                 PROVE  Lease(call, work, FALSE, "posted") \in CallType /\ Fits(Lease(call, work, FALSE, "posted"))
    OBVIOUS
  <2> DEFINE d == Lease(call, work, FALSE, "posted")
  <2>2. LeaseOf(d, call, work, FALSE, "posted")
    BY <1>2, LeaseFields DEF WorkKinds, Thens, Steady
  <2> HIDE DEF d
  <2>3. LeaseShape(d)
    BY <1>1, <1>2, <2>1, <2>2 DEF LeaseOf, LeaseShape, InLease, SameRequest, SaysNothingChanged, Steady
  <2>4. ~d.made
    BY <1>1, <1>2, <2>2 DEF LeaseOf, Steady, Known, Knows
  <2>5. d \in CallType /\ Fits(d)
    BY <1>1, <1>2, <1>4, <2>1, <2>2, <2>3, <2>4, SteadyLeases DEF LeaseOf, SameRequest
  <2> QED
    BY <2>5 DEF d
<1>6. x \in CallType /\ Fits(x)
  <2>1. CASE st.hijacked /\ call.how = "discard"
    <3>1. x = Lease(call, "unhijack", FALSE, "posted")
      BY <2>1, <1>3
    <3> HIDE DEF x, st, blocked
    <3> QED
      BY <3>1, <2>1, <1>5
  <2>2. CASE NotVersioned(st) /\ ~(st.hijacked /\ call.how = "discard")
    <3>1. x = Raise(call, "refused")
      BY <2>2, <1>3 DEF NotVersioned
    <3> HIDE DEF x
    <3> QED
      BY <3>1, <1>2, SteadyRaises
  <2>3. CASE st.versioned /\ blocked
    <3>1. x = Raise(call, "refused")
      BY <2>3, <1>3 DEF NotVersioned
    <3> HIDE DEF x
    <3> QED
      BY <3>1, <1>2, SteadyRaises
  <2>4. CASE st.versioned /\ ~blocked
    <3>1. x = IF Modified(st) \/ st.merge THEN Lease(call, "pull", FALSE, "posted")
                 ELSE IF Loaded THEN Lease(call, "follow", FALSE, "posted")
                 ELSE idle
      BY <2>4, <1>3 DEF NotVersioned
    <3>2. LoadedAt("orig") /\ call.how # "discard" => session.unsaved = {}
      BY <2>4, <1>4 DEF Changed, Loaded
    <3>3. ~Loaded => idle \in CallType /\ Fits(idle)
      <4>1. SUFFICES ASSUME ~Loaded PROVE idle \in CallType /\ Fits(idle)
        OBVIOUS
      <4>2. call \in CallType
        BY <1>2 DEF Steady
      <4>3. idle \in CallType
        BY <4>2 DEF CallType, Pcs
      <4>4. /\ SameRequest(idle, call) /\ idle.pc = "posted"
            /\ idle.made = call.made /\ idle.work = call.work /\ idle.wraps = call.wraps /\ idle.done = call.done
        BY <4>2 DEF SameRequest, CallType
      <4> HIDE DEF idle
      <4>5. Shape(idle) /\ LeaseShape(idle)
        BY <1>1, <1>2, <1>4, <4>4 DEF Steady, Known, Knows, Shape, LeaseShape, SameRequest, InLease
      <4>6. Places(idle) /\ NothingToLose(idle)
        BY <1>1, <1>2, <1>4, <4>4 DEF Steady, Known, Knows, Places, NothingToLose, SameRequest, InLease, TookOnly
      <4>7. Quiet(idle) /\ Reports(idle)
        BY <1>1, <1>2, <1>4, <4>4 DEF Steady, Known, Knows, Untouched, Quiet, Reports, SameRequest, Harmless, SameFile, SameKind,
              TookCheckout, Before, Succeeds
      <4>8. Follows(idle)
        BY <1>1, <1>2, <1>4, <4>1, <4>4 DEF Steady, Known, Knows, Follows, SameRequest, Loaded
      <4> QED
        BY <4>3, <4>5, <4>6, <4>7, <4>8 DEF Fits
    <3> HIDE DEF x, idle, st, blocked
    <3> QED
      BY <3>1, <3>2, <3>3, <1>5
  <2>5. NotVersioned(st) <=> ~st.versioned
    BY DEF NotVersioned
  <2> HIDE DEF x, st, blocked
  <2> QED
    BY <2>1, <2>2, <2>3, <2>4, <2>5
<1> HIDE DEF x
<1> QED
  BY <1>1, <1>6, Stays

LEMMA BeginCommitKeeps ==
  ASSUME SyncIInv, BeginCommit
  PROVE  SyncIInv'
<1> DEFINE st == Status
           next == [call EXCEPT !.pc = "save"]
           x == CASE MustReread(st) -> Rereads
            [] ~MustReread(st) /\ NotVersioned(st) -> IF st.canAdd THEN Reply(call, "noop") ELSE Raise(call, "refused")
            [] st.versioned /\ ~st.out -> IF call.auto THEN ChecksOut(call) ELSE Raise(call, "refused")
            [] st.out -> Conflict(call, st, next)
<1>1. Goes(x) /\ call.op = "commit" /\ IsSteady(call.pc)
  BY DEF BeginCommit, BeginReads, IsSteady
<1>2. Steady(call) /\ Fits(call)
  BY <1>1, SteadyFacts
<1>3. st.out => st.versioned
  BY DEF Status
<1>4. x \in CallType /\ Fits(x)
  <2>1. CASE MustReread(st)
    <3>1. x = Rereads
      BY <2>1, <1>3 DEF MustReread, NotVersioned
    <3> HIDE DEF x, st
    <3> QED
      BY <3>1, <1>1, RereadsFits
  <2>2. CASE ~MustReread(st) /\ NotVersioned(st)
    <3>1. x = IF st.canAdd THEN Reply(call, "noop") ELSE Raise(call, "refused")
      BY <2>2, <1>3 DEF NotVersioned
    <3>2. Raise(call, "refused") \in CallType /\ Fits(Raise(call, "refused"))
      BY <1>2, SteadyRaises
    <3>3. st.canAdd => Reply(call, "noop") \in CallType /\ Fits(Reply(call, "noop"))
      <4>1. SUFFICES ASSUME st.canAdd PROVE Reply(call, "noop") \in CallType /\ Fits(Reply(call, "noop"))
        OBVIOUS
      <4>2. file.kind = "private"
        BY <4>1 DEF Status
      <4>3. SameFile(call) /\ SameKind(call)
        BY <1>2, <4>2 DEF Steady, Untouched, SameKind
      <4>4. "noop" \in Replies
        BY DEF Replies
      <4> QED
        BY <1>2, <4>2, <4>3, <4>4, ReplyFits DEF Steady
    <3> HIDE DEF x, st
    <3> QED
      BY <3>1, <3>2, <3>3
  <2>3. CASE st.versioned /\ ~st.out
    <3>1. x = IF call.auto THEN ChecksOut(call) ELSE Raise(call, "refused")
      BY <2>3, <1>3 DEF MustReread, NotVersioned
    <3>2. Raise(call, "refused") \in CallType /\ Fits(Raise(call, "refused"))
      BY <1>2, SteadyRaises
    <3>3. ChecksOut(call) \in CallType /\ Fits(ChecksOut(call))
      BY <2>3, <1>1, ChecksOutFits
    <3> HIDE DEF x, st
    <3> QED
      BY <3>1, <3>2, <3>3
  <2>4. CASE st.out
    <3>1. x = Conflict(call, st, next)
      BY <2>4, <1>3 DEF MustReread, NotVersioned
    <3>2. next \in CallType /\ Fits(next)
      <4>1. file.kind # "versioned"
        BY <2>4 DEF Status
      <4> QED
        BY <1>1, <1>2, <4>1, SteadyMoves
    <3> HIDE DEF x, next
    <3>3. Conflict(call, Status, next) \in CallType /\ Fits(Conflict(call, Status, next))
      BY <1>1, <1>2, <2>4, <3>2, ConflictFits
    <3> QED
      BY <3>1, <3>3
  <2> HIDE DEF x, st
  <2> QED
    BY <2>1, <2>2, <2>3, <2>4 DEF NotVersioned
<1> HIDE DEF x
<1> QED
  BY <1>1, <1>4, Stays

LEMMA CommitRechecksKeeps ==
  ASSUME SyncIInv, CommitRechecks
  PROVE  SyncIInv'
<1> DEFINE st == Status
           quiet == IF Modified(st) THEN "refused" ELSE "noop"
           next == IF CanCheckIn(st) THEN ChecksIn(call, st) ELSE RollBackFirst(call, quiet)
           x == Conflict(call, st, next)
<1>1. Goes(x) /\ call.pc = "recheck" /\ IsSteady(call.pc)
  BY DEF CommitRechecks, IsSteady
<1>2. Steady(call) /\ Fits(call) /\ call.op = "commit" /\ SyncTypeOK
  BY <1>1, SteadyFacts DEF Fits, Shape, SyncIInv
<1>3. LagIsMarked /\ call.path = "orig" /\ call \in CallType
  BY <1>2 DEF Steady, Known, Knows
<1>4. quiet = "noop" => Before(call) = {} \/ file.kind = "private"
  <2> HIDE DEF st
  <2>0. file.kind \in {"private", "checkedout"}
    BY <1>1, <1>2 DEF Fits, Places, SyncTypeOK, FileType, FileKinds
  <2>1. SUFFICES ASSUME ~Modified(st), file.kind = "checkedout" PROVE Before(call) = {}
    BY <2>0
  <2> USE DEF st
  <2>2. Status.out
    BY <2>1 DEF Status
  <2>3. file.edits = {} /\ (LoadedAt("orig") => session.unsaved = {})
    BY <1>2, <1>3, <2>1, <2>2, NotModified
  <2>4. Before(call) \subseteq Here
    BY <1>2 DEF Steady, Untouched
  <2> QED
    BY <2>3, <2>4 DEF Here
<1>5. RollBackFirst(call, quiet) \in CallType /\ Fits(RollBackFirst(call, quiet))
  <2>1. quiet \in Replies
    BY DEF Replies, Errors
  <2> HIDE DEF quiet
  <2>2. CASE call.made
    BY <2>1, <2>2, <1>2, <1>4, RollBackFits DEF RollBackFirst, Steady
  <2>3. CASE ~call.made
    <3>1. SameFile(call) /\ SameKind(call)
      BY <1>2, <2>3 DEF Steady, Untouched
    <3>2. quiet # "ok"
      BY DEF quiet
    <3>3. Reply(call, quiet) \in CallType /\ Fits(Reply(call, quiet))
      BY <1>2, <1>4, <2>1, <3>1, <3>2, ReplyFits DEF Steady
    <3> QED
      BY <2>3, <3>3 DEF RollBackFirst
  <2> QED
    BY <2>2, <2>3
<1>6. CanCheckIn(st) => ChecksIn(call, st) \in CallType /\ Fits(ChecksIn(call, st))
  <2>1. SUFFICES ASSUME CanCheckIn(st) PROVE ChecksIn(call, st) \in CallType /\ Fits(ChecksIn(call, st))
    OBVIOUS
  <2>2. ~call.made
    BY <1>2, <1>3, <2>1 DEF Steady, TookOnly, Clean, CanCheckIn, Status, Changed, Loaded
  <2> HIDE DEF st
  <2> DEFINE e == Lease(call, "checkin", TRUE, "posted")
             d == [e EXCEPT !.seen = repo.version]
  <2>3. ChecksIn(call, st) = d
    BY DEF ChecksIn
  <2>4. LeaseOf(e, call, "checkin", TRUE, "posted")
    BY <1>3, LeaseFields DEF WorkKinds, Thens
  <2>5. repo.version \in Nat
    BY <1>2 DEF SyncTypeOK, RepoType
  <2> HIDE DEF e
  <2>6. d \in CallType /\ LeaseOf(d, call, "checkin", TRUE, "posted")
    BY <2>4, <2>5 DEF LeaseOf, CallType, SameRequest
  <2> HIDE DEF d
  <2>7. LeaseShape(d)
    BY <1>2, <2>6 DEF LeaseOf, LeaseShape, InLease, SameRequest, SaysNothingChanged, Steady
  <2>8. Fits(d)
    BY <1>2, <2>2, <2>6, <2>7, SteadyLeases DEF LeaseOf, SameRequest
  <2> QED
    BY <2>3, <2>6, <2>8
<1>7. x \in CallType /\ Fits(x)
  <2>1. next \in CallType /\ Fits(next)
    BY <1>5, <1>6
  <2> HIDE DEF next
  <2>2. CASE Status.out
    BY <1>2, <2>1, <2>2, ConflictFits
  <2>3. CASE ~Status.out
    <3>1. ~Status.merge
      BY <2>3 DEF Status
    <3> QED
      BY <2>1, <3>1 DEF Conflict
  <2> QED
    BY <2>2, <2>3
<1> HIDE DEF x
<1> QED
  BY <1>1, <1>7, Stays

-----------------------------------------------------------------------------
(* A read that fails, postconditions, and the guard of a command           *)

LEMMA HarmlessReadKeeps ==
  ASSUME SyncIInv, NEW pc, IsSteady(pc), NEW error \in {"refused", "retry", "failed", "partial"}, ReadFails(pc, error)
  PROVE  SyncIInv'
<1>1. call.pc = pc /\ Fault /\ call' = Raise(call, error) /\ UNCHANGED <<repo, file, kept, session, marks, world>>
  BY DEF ReadFails, AllFiles
<1>2. Raise(call, error) \in CallType /\ Fits(Raise(call, error))
  BY <1>1, SteadyFacts, SteadyRaises
<1> QED
  BY <1>1, <1>2, Continues

LEMMA ReadsKeep ==
  ASSUME SyncIInv, BeginFails \/ RereadFails \/ RecheckFails
  PROVE  SyncIInv'
BY HarmlessReadKeeps DEF BeginFails, RereadFails, RecheckFails, IsSteady

\* What holds of a call whose work is over.
LEMMA PostedFacts ==
  ASSUME SyncIInv, call.pc \in {"posted", "rolledback"}
  PROVE  /\ call \in CallType /\ Fits(call) /\ Known(call)
         /\ call.made => TookOnly(call)
         /\ Harmless(call) => Untouched(call)
<1>1. call \in CallType /\ Fits(call)
  BY DEF SyncIInv, SyncTypeOK
<1>2. Known(call)
  BY <1>1 DEF Fits, Shape, Places, Known, Knows, Follows
<1>3. Harmless(call) => Untouched(call)
  BY <1>1 DEF Fits, Quiet, Reports, Untouched
<1>4. call.made => TookOnly(call)
  BY <1>1 DEF Fits, NothingToLose
<1> QED
  BY <1>1, <1>2, <1>3, <1>4

LEMMA PostRaises ==
  ASSUME SyncIInv, call.pc = "posted",
         NEW c, c = call \/ c = [call EXCEPT !.made = @ /\ call.work = "reload", !.wraps = FALSE]
  PROVE  Raise(c, PostError) \in CallType /\ Fits(Raise(c, PostError))
<1>1. /\ call \in CallType /\ Fits(call) /\ Known(call)
      /\ call.made => TookOnly(call)
      /\ Harmless(call) => Untouched(call)
  BY PostedFacts
<1>2. /\ c \in CallType /\ SameRequest(c, call) /\ (c.made => call.made) /\ (c.wraps => call.wraps)
      /\ call.op # "commit" => c.made = call.made
      /\ c.work = call.work
  <2>1. CASE c = call
    BY <1>1, <2>1 DEF SameRequest
  <2>2. CASE c = [call EXCEPT !.made = @ /\ call.work = "reload", !.wraps = FALSE]
    <3>1. (call.made /\ call.work = "reload") \in BOOLEAN
      OBVIOUS
    <3>2. c \in CallType /\ SameRequest(c, call) /\ c.wraps = FALSE /\ c.work = call.work
      BY <1>1, <2>2, <3>1, ZenonT(60) DEF CallType, SameRequest
    <3>3. c.made = (call.made /\ call.work = "reload")
      BY <1>1, <2>2 DEF CallType
    <3>4. call.op # "commit" => ~call.made
      BY <1>1 DEF Known, Knows
    <3>5. c.made \in BOOLEAN /\ call.made \in BOOLEAN
      BY <1>1, <3>2 DEF CallType
    <3> QED
      BY <3>2, <3>3, <3>4, <3>5
  <2> QED
    BY <2>1, <2>2
<1>3. Known(c)
  BY <1>1, <1>2 DEF Known, Knows, SameRequest
<1>4. c.made => TookOnly(c)
  BY <1>1, <1>2 DEF TookOnly, SameRequest
<1>5. CASE call.op = "pull" /\ call.work = "none"
  <2>1. Harmless(call) /\ ~call.wraps /\ ~call.made
    BY <1>1, <1>5 DEF Harmless, Fits, LeaseShape, Known, Knows
  <2>2. Untouched(c)
    BY <1>1, <1>2, <1>5, <2>1 DEF Untouched, SameFile, SameKind, TookCheckout, SameRequest, Before
  <2>3. PostError = "retry"
    BY <1>5 DEF PostError
  <2> QED
    BY <1>2, <1>3, <1>4, <2>2, <2>3, RaiseFits
<1>6. CASE ~(call.op = "pull" /\ call.work = "none")
  <2>1. PostError = "partial"
    BY <1>6 DEF PostError
  <2>2. c.op # "edit"
    BY <1>1, <1>2 DEF Fits, LeaseShape, SameRequest
  <2> QED
    BY <1>2, <1>3, <1>4, <2>1, <2>2, RaiseFits
<1> QED
  BY <1>5, <1>6

LEMMA PostFailsKeeps ==
  ASSUME SyncIInv, PostFails
  PROVE  SyncIInv'
<1>1. CASE ReadFails("posted", PostError)
  <2>1. call.pc = "posted" /\ Fault /\ call' = Raise(call, PostError) /\ UNCHANGED <<repo, file, kept, session, marks, world>>
    BY <1>1 DEF ReadFails, AllFiles
  <2>2. Raise(call, PostError) \in CallType /\ Fits(Raise(call, PostError))
    BY <2>1, PostRaises
  <2> QED
    BY <2>1, <2>2, Continues
<1>2. CASE ReadFails("rolledback", "partial")
  <2>1. call.pc = "rolledback" /\ Fault /\ call' = Raise(call, "partial") /\ UNCHANGED <<repo, file, kept, session, marks, world>>
    BY <1>2 DEF ReadFails, AllFiles
  <2>2. Raise(call, "partial") \in CallType /\ Fits(Raise(call, "partial"))
    BY <2>1, PostedFacts, RaiseFits DEF Fits, Shape
  <2> QED
    BY <2>1, <2>2, Continues
<1> QED
  BY <1>1, <1>2 DEF PostFails

LEMMA RolledBackKeeps ==
  ASSUME SyncIInv, RolledBack
  PROVE  SyncIInv'
<1> DEFINE x == IF Verified(Status) THEN Reply(call, call.after) ELSE Reply(call, "partial")
<1>1. Goes(x) /\ call.pc = "rolledback"
  BY DEF RolledBack
<1>2. call \in CallType /\ Fits(call) /\ Known(call) /\ call.op = "commit" /\ call.work = "rollback"
  BY <1>1, PostedFacts DEF Fits, Shape, Known, Knows
<1>3. Reply(call, call.after) \in CallType /\ Fits(Reply(call, call.after))
  <2>1. call.after \in Replies
    BY <1>2 DEF CallType
  <2>2. IsQuiet(call.after) => SameFile(call) /\ SameKind(call)
    BY <1>1, <1>2 DEF Fits, Quiet
  <2>3. call.after = "noop" => Before(call) = {} \/ file.kind = "private"
    BY <1>1, <1>2 DEF Fits, Reports
  <2> QED
    BY <1>2, <2>1, <2>2, <2>3, ReplyFits
<1>4. Reply(call, "partial") \in CallType /\ Fits(Reply(call, "partial"))
  <2>1. "partial" \in Replies /\ ~IsQuiet("partial")
    BY DEF Replies, Errors, IsQuiet
  <2> QED
    BY <1>2, <2>1, ReplyFits
<1> QED
  BY <1>1, <1>3, <1>4, Stays

LEMMA AlreadyCheckedOutKeeps ==
  ASSUME SyncIInv, AlreadyCheckedOut
  PROVE  SyncIInv'
<1>1. Goes(Reply(call, "ok")) /\ call.pc = "ok" /\ IsSteady(call.pc)
  BY DEF AlreadyCheckedOut, IsSteady
<1>2. Steady(call) /\ call.op = "checkout"
  BY <1>1, SteadyFacts DEF Fits, Shape
<1>3. "ok" \in Replies /\ ~IsQuiet("ok")
  BY DEF Replies, IsQuiet
<1>4. Reply(call, "ok") \in CallType /\ Fits(Reply(call, "ok"))
  BY <1>2, <1>3, ReplyFits DEF Steady
<1> QED
  BY <1>1, <1>4, Stays

LEMMA BeginEditKeeps ==
  ASSUME SyncIInv, BeginEdit
  PROVE  SyncIInv'
<1> DEFINE st == StatusOf(call.path)
           must == call.pc = "begin" /\ st.canAdd /\ call.path \notin marks.dirty
           x == CASE must -> Rereads
                  [] OTHER -> Guarded(st)
<1>1. Goes(x) /\ call.op = "edit" /\ IsSteady(call.pc) /\ call.pc \in {"begin", "reread"}
  BY DEF BeginEdit, BeginReads, IsSteady, Rereads
<1>2. Steady(call) /\ Fits(call)
  BY <1>1, SteadyFacts
<1>3. Rereads \in CallType /\ Fits(Rereads)
  BY <1>1, RereadsFits
<1>4. Guarded(st) \in CallType /\ Fits(Guarded(st))
  <2>1. Raise(call, "refused") \in CallType /\ Fits(Raise(call, "refused"))
    BY <1>2, SteadyRaises
  <2>2. [call EXCEPT !.pc = "edit"] \in CallType /\ Fits([call EXCEPT !.pc = "edit"])
    <3>1. LoadedAt(call.path)
      BY <1>1, <1>2 DEF Fits, Places
    <3> QED
      BY <1>1, <1>2, <3>1, SteadyMoves
  <2> HIDE DEF st
  <2> QED
    BY <2>1, <2>2 DEF Guarded
<1> HIDE DEF must, st
<1>5. x \in CallType /\ Fits(x)
  BY <1>3, <1>4
<1> QED
  BY <1>1, <1>5, Stays

LEMMA PostedKeeps ==
  ASSUME SyncIInv, Posted
  PROVE  SyncIInv'
<1> DEFINE checked == [call EXCEPT !.made = @ /\ call.work = "reload", !.wraps = FALSE]
           next == [checked EXCEPT !.pc = "save"]
           x == CASE ~Verified(Status) -> Raise(checked, PostError)
               [] call.op = "commit" /\ call.work = "reload" /\ Verified(Status) ->
                    Conflict(checked, Status, next)
               [] OTHER -> Reply(checked, "ok")
<1>1. Goes(x) /\ call.pc = "posted"
  BY DEF Posted
<1>2. /\ call \in CallType /\ Fits(call) /\ Known(call)
      /\ call.made => TookOnly(call)
      /\ Harmless(call) => Untouched(call)
  BY <1>1, PostedFacts
<1>3. /\ checked \in CallType /\ SameRequest(checked, call) /\ checked.wraps = FALSE
      /\ checked.work = call.work
      /\ checked.made <=> call.made /\ call.work = "reload"
  <2>1. (call.made /\ call.work = "reload") \in BOOLEAN
    OBVIOUS
  <2>2. checked \in CallType /\ SameRequest(checked, call) /\ checked.wraps = FALSE /\ checked.work = call.work
    BY <1>2, <2>1, ZenonT(60) DEF CallType, SameRequest
  <2>3. checked.made = (call.made /\ call.work = "reload")
    BY <1>2 DEF CallType
  <2> QED
    BY <2>2, <2>3
<1>4. Raise(checked, PostError) \in CallType /\ Fits(Raise(checked, PostError))
  BY <1>1, PostRaises
<1> HIDE DEF checked
<1>5. ASSUME call.op = "commit", call.work = "reload", Verified(Status)
      PROVE  Conflict(checked, Status, next) \in CallType /\ Fits(Conflict(checked, Status, next))
  <2>1. Status.out /\ file.kind # "versioned"
    BY <1>5 DEF Verified, Status
  <2>2. call.made /\ Harmless(call)
    BY <1>1, <1>2, <1>5 DEF Fits, LeaseShape, Harmless
  <2>3. Steady(checked) /\ checked.op = "commit" /\ checked.path = call.path
    BY <1>2, <1>3, <1>5, <2>2
       DEF Steady, Known, Knows, Untouched, SameFile, SameKind, TookCheckout, TookOnly, Before, SameRequest
  <2>4. next \in CallType /\ Fits(next)
    BY <2>1, <2>3, SteadyMoves
  <2> QED
    BY <2>1, <2>3, <2>4, ConflictFits
<1>6. ASSUME ~(call.op = "commit" /\ call.work = "reload"), Verified(Status)
      PROVE  Reply(checked, "ok") \in CallType /\ Fits(Reply(checked, "ok"))
  <2>1. "ok" \in Replies /\ ~IsQuiet("ok")
    BY DEF Replies, IsQuiet
  <2>2. Known(checked)
    BY <1>2, <1>3 DEF Known, Knows, SameRequest
  <2>3. ASSUME checked.op = "commit"
        PROVE  /\ checked.work = "checkin" => Before(checked) \subseteq repo.edits
               /\ checked.work = "undo" => Before(checked) \subseteq kept
    BY <1>1, <1>2, <1>3, <2>3 DEF Fits, Reports, Succeeds, Before, SameRequest
  <2>4. ASSUME checked.op = "pull"
        PROVE  /\ LoadedAt("orig") => session.base >= checked.before.repo.version
               /\ file.kind = "versioned" => repo.version >= checked.before.repo.version
               /\ file.kind = "checkedout" => file.base >= checked.before.repo.version
    <3>1. IsLatest(Status)
      BY <1>1, <1>2, <1>3, <1>6, <2>4 DEF Verified, Fits, LeaseShape, SameRequest
    <3>2. file.kind # "private" /\ (file.kind = "checkedout" => file.base = repo.version)
      BY <3>1 DEF IsLatest, Status
    <3>3. checked.before.repo.version <= repo.version /\ checked.before.repo.version \in Nat /\ repo.version \in Nat
      BY <2>2 DEF Known, Knows, SyncIInv, SyncTypeOK, BeforeType, RepoType
    <3>4. LoadedAt("orig") =>
           \/ session.base >= checked.before.repo.version
           \/ file.kind = "checkedout" /\ session.base = file.base
           \/ file.kind = "private"
      BY <1>1, <1>2, <1>3, <2>4 DEF Fits, Follows, SameRequest
    <3> QED
      BY <3>2, <3>3, <3>4
  <2> QED
    BY <1>3, <2>1, <2>2, <2>3, <2>4, ReplyFits
<1>7. x \in CallType /\ Fits(x)
  <2> HIDE DEF next
  <2> QED
    BY <1>4, <1>5, <1>6
<1> HIDE DEF x
<1> QED
  BY <1>1, <1>7, Stays

-----------------------------------------------------------------------------
(* The lease                                                               *)

\* What holds of a call in a lease.
Leased(c) ==
  /\ c \in CallType /\ Fits(c)
  /\ c.op \in {"checkout", "add", "undo", "pull", "commit", "edit"}
  /\ c.op # "edit" => c.path = "orig"
  /\ c.op = "edit" => c.work = "reload"
  /\ c.before \in BeforeType /\ c.before.repo.version <= repo.version
  /\ c.op = "pull" => c.how \in {"abort", "discard"}
  /\ c.op = "edit" => c.edit \in Edits
  /\ c.op = "undo" => c.how \in {"keep", "discard"}
  /\ c.op = "commit" => c.how \in {"abort", "keep", "discard"}
  /\ c.made => c.op = "commit" /\ c.work \in {"reload", "undo", "drop"} /\ TookOnly(c)
  /\ c.work = "rollback" => TookOnly(c)
  /\ Harmless(c) => Untouched(c)

LEMMA LeaseFacts ==
  ASSUME SyncIInv, NEW c, c = call, InLease(c)
  PROVE  Leased(c) /\ SyncTypeOK /\ Tables
<1>1. c \in CallType /\ Fits(c) /\ SyncTypeOK /\ Tables
  BY DEF SyncIInv, SyncTypeOK
<1>2. Harmless(c) => Untouched(c)
  BY <1>1 DEF Fits, Quiet, Reports, Untouched
<1>3. /\ c.op \in {"checkout", "add", "undo", "pull", "commit", "edit"}
      /\ c.op = "edit" => c.work = "reload"
  BY <1>1 DEF Fits, LeaseShape
<1>4. /\ c.op # "edit" => c.path = "orig"
      /\ c.before \in BeforeType /\ c.before.repo.version <= repo.version
      /\ c.op = "pull" => c.how \in {"abort", "discard"}
      /\ c.op = "edit" => c.edit \in Edits
      /\ c.op = "undo" => c.how \in {"keep", "discard"}
      /\ c.op = "commit" => c.how \in {"abort", "keep", "discard"}
  BY <1>1, <1>3 DEF Fits, Shape, Follows
<1>5. /\ c.made => c.op = "commit" /\ c.work \in {"reload", "undo", "drop"} /\ TookOnly(c)
      /\ c.work = "rollback" => TookOnly(c)
  BY <1>1 DEF Fits, Shape, NothingToLose, InLease
<1> QED
  BY <1>1, <1>2, <1>3, <1>4, <1>5 DEF Leased

LEMMA LeaseSavesKeeps ==
  ASSUME SyncIInv, LeaseSaves
  PROVE  SyncIInv'
<1>1. call.pc = "lease" /\ InLease(call) /\ Harmless(call)
  BY DEF LeaseSaves, InLease, Harmless
<1>2. call \in CallType /\ Fits(call) /\ SyncTypeOK /\ Tables /\ Untouched(call) /\ Leased(call)
  BY <1>1, LeaseFacts DEF Leased
<1>3. /\ call.save /\ LoadedAt("orig") /\ call.path = "orig" /\ call.then = "posted"
      /\ call.work \in {"add", "undo", "checkin"} /\ (call.work = "undo" => call.keeps)
  BY <1>1, <1>2 DEF LeaseSaves, Loaded, Fits, LeaseShape, Leased
<1>4. LagIsMarked
  BY <1>1, <1>2, <1>3 DEF Fits, Places
<1>5. CASE SaveFails /\ call' = Raise(call, "failed") /\ UNCHANGED <<session, file, kept>>
  <2>1. Raise(call, "failed") \in CallType /\ Fits(Raise(call, "failed"))
    BY <1>1, <1>2, <1>4, HarmlessRaises
  <2>2. Fault \/ NoFault
    BY <1>5 DEF SaveFails
  <2>3. UNCHANGED <<repo, file, kept, session, marks, world>>
    BY <1>5 DEF LeaseSaves, Outside
  <2> QED
    BY <1>5, <2>1, <2>2, <2>3, Continues
<1>6. CASE Saves /\ NoFault /\ call' = [call EXCEPT !.pc = "close"]
  <2>1. UNCHANGED <<repo, marks, world, faults>>
    BY <1>6 DEF LeaseSaves, Outside, NoFault
  <2>2. /\ session # None /\ session.path = "orig" /\ session \in SessionType /\ session.writable
        /\ session' = [session EXCEPT !.unsaved = {}] /\ kept' = kept
        /\ \E lags \in BOOLEAN :
               /\ lags => world.lags /\ file.kind = "checkedout" /\ (file.edits = {} \/ file.lags)
               /\ file' = [file EXCEPT !.edits = @ \union session.unsaved, !.lags = lags]
    BY <1>2, <1>3, <1>6 DEF Saves, LoadedAt, SyncTypeOK
  <2>3. PICK lags \in BOOLEAN :
               /\ lags => world.lags /\ file.kind = "checkedout" /\ (file.edits = {} \/ file.lags)
               /\ file' = [file EXCEPT !.edits = @ \union session.unsaved, !.lags = lags]
    BY <2>2
  <2>4. /\ session' \in SessionType /\ session' # None /\ session'.path = "orig" /\ session'.unsaved = {}
        /\ session'.writable /\ session.unsaved \in SUBSET Edits
    BY <2>2, WorldsAssumption DEF SessionType
  <2>5. /\ file' \in FileType /\ file'.kind = file.kind /\ file'.edits = file.edits \union session.unsaved
        /\ file'.lags = lags /\ file.kind # "versioned"
    BY <1>2, <1>3, <2>2, <2>3, <2>4 DEF SyncTypeOK, FileType, Tables
  <2>6. /\ call' \in CallType /\ SameRequest(call', call) /\ call'.pc = "close" /\ call'.error = call.error
        /\ call'.made = call.made /\ call'.work = call.work /\ call'.wraps = call.wraps /\ call'.done = call.done
        /\ call'.save = call.save /\ call'.keeps = call.keeps /\ call'.then = call.then /\ call'.active = call.active
        /\ call'.after = call.after /\ call'.taken = call.taken
    BY <1>2, <1>6 DEF CallType, SameRequest, Pcs
  <2>7. SyncTypeOK'
    BY <1>2, <1>3, <2>1, <2>2, <2>3, <2>4, <2>5, <2>6 DEF SyncTypeOK, LoadedAt
  <2>8. Tables'
    BY <1>2, <2>1, <2>4, <2>5 DEF Tables, LoadedAt
  <2>9. Fits(call)'
    <3>1. Shape(call)' /\ LeaseShape(call)'
      BY <1>1, <1>2, <1>3, <2>6 DEF Fits, Shape, LeaseShape, InLease, SameRequest
    <3>2. Places(call)'
      BY <1>2, <1>3, <2>1, <2>4, <2>5, <2>6 DEF Places, InLease, LoadedAt, SameRequest
    <3>3. NothingToLose(call)'
      BY <1>1, <1>2, <1>3, <2>1, <2>2, <2>4, <2>5, <2>6 DEF Fits, NothingToLose, InLease, TookOnly, Clean, LoadedAt, SameRequest
    <3>4. Quiet(call)'
      BY <1>2, <1>3, <2>1, <2>2, <2>4, <2>5, <2>6
         DEF Untouched, Quiet, SameFile, SameKind, TookCheckout, Harmless, SameRequest
    <3>5. Reports(call)' /\ Follows(call)'
      BY <1>1, <1>2, <1>3, <2>1, <2>2, <2>4, <2>5, <2>6
         DEF Fits, Untouched, Reports, Follows, Before, Here, LoadedAt, Harmless, Succeeds, SameRequest
    <3> QED
      BY <3>1, <3>2, <3>3, <3>4, <3>5 DEF Fits
  <2> QED
    BY <2>7, <2>8, <2>9 DEF SyncIInv
<1> QED
  BY <1>5, <1>6 DEF LeaseSaves

\* What RaiseFits says of the state a step leaves.
LEMMA RaiseFitsForAll ==
  \A c \in CallType : \A error \in {"refused", "retry", "failed", "partial"} :
    /\ Known(c) /\ (c.made => TookOnly(c))
    /\ \/ c.wraps \/ Untouched(c)
       \/ c.op # "edit" /\ (error = "partial" \/ (error = "failed" /\ (c.made => c.taken)))
    => Raise(c, error) \in CallType /\ Fits(Raise(c, error))
BY RaiseFits

LEMMA RaiseFitsNext ==
  (\A c \in CallType : \A error \in {"refused", "retry", "failed", "partial"} :
    /\ Known(c) /\ (c.made => TookOnly(c))
    /\ \/ c.wraps \/ Untouched(c)
       \/ c.op # "edit" /\ (error = "partial" \/ (error = "failed" /\ (c.made => c.taken)))
    => Raise(c, error) \in CallType /\ Fits(Raise(c, error)))'
BY RaiseFitsForAll, PTL

\* Where the repository's status lags behind a save, nothing fails late: with both, an
\* edit that no mark shows can be lost.
Careful == \A w \in Worlds : w.lags => ~w.closeFails /\ ~w.commandsFailLate

\* A step that ends in an error.
LEMMA RaisesNext ==
  ASSUME NEW c \in CallType, NEW error \in {"refused", "retry", "failed", "partial"},
         call' = Raise(c, error),
         Known(c)', c.made => TookOnly(c)',
         \/ c.wraps \/ Untouched(c)'
         \/ c.op # "edit" /\ (error = "partial" \/ (error = "failed" /\ (c.made => c.taken)))
  PROVE  call' \in CallType /\ Fits(call)'
<1>1. Raise(c, error) \in CallType /\ Fits(Raise(c, error))'
  BY RaiseFitsNext
<1> QED
  BY <1>1

LEMMA LeaseClosesKeeps ==
  ASSUME SyncIInv, Careful, LeaseCloses
  PROVE  SyncIInv'
<1>1. PICK c : c = call
  OBVIOUS
<1>2. c.pc \in {"lease", "close"} /\ InLease(c) /\ Harmless(c) /\ (c.pc = "lease" => LoadedAt(c.path) /\ ~c.save)
  BY <1>1 DEF LeaseCloses, InLease, Harmless, Loaded
<1>3. /\ c \in CallType /\ Fits(c) /\ SyncTypeOK /\ Tables /\ Untouched(c)
      /\ Leased(c)
  BY <1>1, <1>2, LeaseFacts DEF Leased
<1>4. UNCHANGED <<repo, world, kept>>
  BY DEF LeaseCloses, Outside
<1>5. session # None /\ session.path = c.path
  BY <1>2, <1>3 DEF Fits, Places, LoadedAt
<1>6. c.how # "discard" \/ c.work \in {"reload", "rollback"} \/ c.save => session.unsaved = {}
  BY <1>2, <1>3 DEF Fits, NothingToLose, Places, LeaseShape
<1>7. c.op = "commit" /\ (c.work # "drop" \/ c.made) => session.unsaved = {}
  <2>1. CASE c.made
    BY <1>3, <1>5, <2>1 DEF TookOnly, Clean, LoadedAt, Leased
  <2>2. CASE ~c.made /\ c.op = "commit" /\ c.work # "drop"
    BY <1>2, <1>3, <1>6, <2>2 DEF Fits, LeaseShape
  <2> QED
    BY <2>1, <2>2
<1>8. ASSUME Closes
      PROVE  /\ session' = None /\ file' \in FileType /\ file'.kind = file.kind /\ file'.edits = file.edits
             /\ file'.base = file.base /\ ~file'.lags
             /\ Untouched(c)' /\ (TookOnly(c) => TookOnly(c)') /\ Known(c)' /\ Tables'
  <2>1. /\ session' = None /\ file' \in FileType /\ file'.kind = file.kind /\ file'.edits = file.edits
        /\ file'.base = file.base /\ ~file'.lags
    BY <1>3, <1>8 DEF Closes, SyncTypeOK, FileType
  <2>2. Untouched(c)'
    BY <1>3, <1>4, <1>5, <1>7, <2>1 DEF Untouched, SameFile, SameKind, TookCheckout, Here, LoadedAt, Before
  <2>3. TookOnly(c) => TookOnly(c)'
    BY <2>1 DEF TookOnly, Clean, LoadedAt
  <2>4. Known(c)'
    BY <1>3, <1>4, <2>1 DEF Known, Knows, LagIsMarked, Leased
  <2>5. Tables'
    BY <1>3, <1>4, <2>1 DEF Tables, LoadedAt
  <2> QED
    BY <2>1, <2>2, <2>3, <2>4, <2>5
<1>9. CASE /\ Closes /\ NoFault
           /\ call' = [call EXCEPT !.pc = "work", !.active = TRUE]
           /\ UNCHANGED marks
  <2>1. /\ session' = None /\ file' \in FileType /\ file'.kind = file.kind /\ file'.edits = file.edits
        /\ file'.base = file.base /\ ~file'.lags
        /\ Untouched(c)' /\ (TookOnly(c) => TookOnly(c)') /\ Known(c)' /\ Tables'
    BY <1>8, <1>9
  <2>2. PICK d : d = call'
    OBVIOUS
  <2>3. /\ d \in CallType /\ SameRequest(d, c) /\ d.pc = "work" /\ d.error = c.error /\ d.active
        /\ d.made = c.made /\ d.work = c.work /\ d.wraps = c.wraps /\ d.done = c.done
        /\ d.save = c.save /\ d.keeps = c.keeps /\ d.then = c.then /\ d.after = c.after
        /\ d.taken = c.taken
    BY <1>1, <1>3, <1>9, <2>2, ZenonT(60) DEF CallType, SameRequest, Pcs
  <2>4. SyncTypeOK'
    BY <1>3, <1>4, <1>9, <2>1, <2>2, <2>3 DEF SyncTypeOK, NoFault
  <2>5. Shape(d) /\ LeaseShape(d)
    BY <1>2, <1>3, <2>3 DEF Fits, Shape, LeaseShape, InLease, SameRequest
  <2>6. Places(d)'
    BY <1>2, <1>3, <2>1, <2>3 DEF Fits, Places, InLease, LagIsMarked, SameRequest
  <2>7. NothingToLose(d)'
    <3>1. c.made \/ c.work = "rollback" => "orig" \notin marks.dirty /\ TookOnly(c)'
      BY <1>2, <1>3, <1>5, <2>1 DEF Leased, TookOnly, Clean, LoadedAt
    <3> QED
      BY <1>2, <1>3, <1>9, <2>1, <2>3, <3>1 DEF Fits, NothingToLose, InLease, TookOnly, SameRequest
  <2>8. Quiet(d)'
    BY <1>3, <2>1, <2>3 DEF Untouched, Quiet, SameFile, SameKind, TookCheckout, Harmless, SameRequest
  <2>9. Reports(d)'
    BY <1>2, <1>3, <1>4, <2>1, <2>3 DEF Fits, Untouched, Reports, Before, Here, LoadedAt, Harmless, Succeeds, SameRequest
  <2>10. Follows(d)'
    BY <1>3, <1>4, <2>3 DEF Follows, SameRequest, Leased
  <2> QED
    BY <2>1, <2>2, <2>4, <2>5, <2>6, <2>7, <2>8, <2>9, <2>10 DEF SyncIInv, Fits, Shape, LeaseShape, InLease
<1>10. CASE /\ world.closeFails /\ Fault
            /\ call' = Raise(call, "failed")
            /\ UNCHANGED <<session, file, marks>>
  <2>1. LagIsMarked
    BY <1>3, <1>10 DEF Careful, SyncTypeOK, LagIsMarked
  <2>2. Raise(call, "failed") \in CallType /\ Fits(Raise(call, "failed"))
    BY <1>1, <1>2, <1>3, <2>1, HarmlessRaises
  <2> QED
    BY <1>4, <1>10, <2>2, Continues
<1>11. CASE /\ Closes /\ Fault
            /\ call' = Raise(call, "failed")
            /\ marks' = [dirty |-> {}, pending |-> {}]
  <2>1. /\ session' = None /\ file' \in FileType /\ ~file'.lags
        /\ Untouched(c)' /\ (TookOnly(c) => TookOnly(c)') /\ Known(c)' /\ Tables'
    BY <1>8, <1>11
  <2>2. call' \in CallType /\ Fits(call)'
    BY <1>1, <1>3, <1>11, <2>1, RaisesNext DEF Leased
  <2>3. SyncTypeOK'
    BY <1>3, <1>4, <1>11, <2>1, <2>2, FaultsBounded DEF SyncTypeOK
  <2> QED
    BY <2>1, <2>2, <2>3 DEF SyncIInv
<1> QED
  BY <1>9, <1>10, <1>11 DEF LeaseCloses

\* What a piece of work does to the repository and the files.
Effects(c) ==
  /\ repo' \in RepoType /\ file' \in FileType /\ kept' \in SUBSET Edits
  /\ repo.version <= repo'.version
  /\ file'.lags => file' = file
  /\ file'.edits \subseteq file.edits
  /\ file'.kind = "versioned" => file'.edits = {}
  /\ c.work \in {"reload", "follow"} => UNCHANGED <<repo, file, kept>>
  /\ c.work = "rollback" =>
       file.kind = "checkedout" /\ file'.kind = "versioned" /\ file'.edits = {} /\ repo' = repo /\ kept' = kept
  /\ c.work = "undo" =>
       file.kind = "checkedout" /\ kept' = IF c.keeps THEN kept \union file.edits ELSE kept
  /\ c.work = "checkin" => file.edits \subseteq repo'.edits

LEMMA WorksEffects ==
  ASSUME SyncTypeOK, Tables, NEW c, c = call, Leased(c), InLease(c), CanWork, Works
  PROVE  Effects(c)
<1>1. /\ repo \in RepoType /\ file \in FileType /\ kept \in SUBSET Edits
      /\ file.kind = "versioned" => file.edits = {}
      /\ c.work \in {"reload", "add", "undo", "unhijack", "pull", "follow", "drop", "checkin", "rollback"}
      /\ c.keeps => c.work = "undo"
      /\ c.out \in BOOLEAN
  BY DEF SyncTypeOK, Tables, Leased, Fits, LeaseShape, CallType
<1>2. /\ UndoneCheckout \in FileType /\ UndoneCheckout.kind = "versioned" /\ UndoneCheckout.edits = {}
      /\ ~UndoneCheckout.lags
  BY <1>1 DEF UndoneCheckout, FileType, FileKinds
<1>3. CASE DropsCheckout
  <2>1. file' = UndoneCheckout /\ kept' = (IF c.keeps THEN kept \union file.edits ELSE kept) /\ repo' = repo
    <3>1. call.work \in {"undo", "rollback", "drop", "pull"}
      BY <1>3 DEF DropsCheckout
    <3> QED
      BY <1>3, <3>1 DEF Works
  <2>2. c.work \in {"undo", "rollback", "drop", "pull"}
    BY <1>3 DEF DropsCheckout
  <2>3. c.work \in {"undo", "rollback"} => file.kind = "checkedout"
    BY DEF CanWork
  <2>4. repo.version <= repo'.version /\ kept' \in SUBSET Edits
    BY <1>1, <2>1 DEF RepoType, FileType
  <2> QED
    BY <1>1, <1>2, <2>1, <2>2, <2>3, <2>4 DEF Effects
<1>4. CASE ~DropsCheckout /\ c.work \in {"checkin", "add"}
  <2>1. /\ repo' = [version |-> repo.version + 1, edits |-> repo.edits \union file.edits]
        /\ file' = [file EXCEPT !.kind = IF call.out THEN "checkedout" ELSE "versioned",
                                 !.base = IF call.out THEN repo.version + 1 ELSE 0,
                                 !.edits = {}, !.lags = FALSE]
        /\ kept' = kept
    BY <1>4 DEF Works
  <2>2. repo' \in RepoType /\ repo.version <= repo'.version /\ file.edits \subseteq repo'.edits
    BY <1>1, <2>1 DEF RepoType, FileType
  <2>3. file' \in FileType /\ file'.edits = {} /\ ~file'.lags
    <3> DEFINE kind == IF call.out THEN "checkedout" ELSE "versioned"
               base == IF call.out THEN repo.version + 1 ELSE 0
    <3>1. kind \in FileKinds /\ base \in Nat
      BY <1>1 DEF FileKinds, RepoType
    <3>2. file' = [file EXCEPT !.kind = kind, !.base = base, !.edits = {}, !.lags = FALSE]
      BY <2>1
    <3> HIDE DEF kind, base
    <3> QED
      BY <1>1, <3>1, <3>2 DEF FileType
  <2> QED
    BY <1>1, <1>4, <2>1, <2>2, <2>3 DEF Effects
<1>5. CASE ~DropsCheckout /\ c.work = "unhijack"
  <2>1. file' = UndoneCheckout /\ kept' = kept /\ repo' = repo
    BY <1>5 DEF Works
  <2>2. repo.version <= repo'.version
    BY <1>1, <2>1 DEF RepoType
  <2> QED
    BY <1>1, <1>2, <1>5, <2>1, <2>2 DEF Effects
<1>6. CASE ~DropsCheckout /\ c.work \notin {"checkin", "add", "unhijack"}
  <2>1. file' = file /\ kept' = kept /\ repo' = repo
    BY <1>6 DEF Works
  <2>2. repo.version <= repo'.version
    BY <1>1, <2>1 DEF RepoType
  <2>3. c.work \notin {"undo", "rollback"}
    BY <1>6 DEF DropsCheckout
  <2> QED
    BY <1>1, <1>6, <2>1, <2>2, <2>3 DEF Effects
<1> QED
  BY <1>3, <1>4, <1>5, <1>6

\* What Started makes of a call.
StartedOf(e, c, done) ==
  /\ e \in CallType /\ SameRequest(e, c) /\ e.pc = c.pc /\ e.error = c.error /\ e.active = c.active
  /\ e.made = c.made /\ e.work = c.work /\ e.wraps = c.wraps /\ e.done = done
  /\ e.save = c.save /\ e.keeps = c.keeps /\ e.then = c.then /\ e.after = c.after
  /\ c.taken \/ c.work = "checkin" => e.taken

LEMMA StartedFields ==
  ASSUME call \in CallType, NEW done \in BOOLEAN
  PROVE  StartedOf(Started(done), call, done)
<1> DEFINE e == Started(done)
<1>1. (call.taken \/ call.work = "checkin") \in BOOLEAN
  OBVIOUS
<1>2. e = [call EXCEPT !.taken = (call.taken \/ call.work = "checkin"), !.done = done]
  BY DEF Started, CallType
<1> HIDE DEF e
<1>3. StartedOf(e, call, done)
  BY <1>1, <1>2, ZenonT(60) DEF CallType, SameRequest, StartedOf
<1> QED
  BY <1>3 DEF e

\* A call whose lease is at its work: no program is open at its path.
Working(c) ==
  /\ c.pc \in {"lease", "work"} /\ Leased(c) /\ Harmless(c) /\ Untouched(c) /\ ~LoadedAt("orig") /\ ~file.lags
  /\ c.pc = "work" => session = None
  /\ c.pc = "lease" => c.op # "edit"

LEMMA WorkingFacts ==
  ASSUME SyncIInv, LeaseWorks, NEW c, c = call
  PROVE  Working(c) /\ SyncTypeOK /\ Tables /\ InLease(c)
<1>1. c.pc \in {"lease", "work"} /\ (c.pc = "lease" => ~LoadedAt(c.path)) /\ InLease(c) /\ Harmless(c)
  BY DEF LeaseWorks, Loaded, InLease, Harmless
<1>2. Leased(c) /\ SyncTypeOK /\ Tables /\ Untouched(c)
  BY <1>1, LeaseFacts DEF Leased
<1>3. (c.pc = "work" => session = None) /\ (c.pc = "lease" => c.op # "edit")
  BY <1>1, <1>2 DEF Leased, Fits, Places
<1>4. ~LoadedAt("orig")
  BY <1>1, <1>2, <1>3 DEF Leased, LoadedAt
<1> QED
  BY <1>1, <1>2, <1>3, <1>4 DEF Working, SyncTypeOK

\* The state after a piece of work, whatever becomes of the call.
AfterWork(c, done) ==
  \/ done /\ Effects(c)
  \/ ~done /\ UNCHANGED <<repo, file, kept>>

LEMMA WorkedTypes ==
  ASSUME SyncTypeOK, Tables, NEW c, Working(c), NEW done \in BOOLEAN, AfterWork(c, done),
         UNCHANGED <<session, marks, world>>
  PROVE  /\ repo' \in RepoType /\ file' \in FileType /\ kept' \in SUBSET Edits /\ ~file'.lags
         /\ ~LoadedAt("orig")'
         /\ file'.edits \subseteq file.edits /\ repo.version <= repo'.version
         /\ (TookOnly(c) => TookOnly(c)') /\ Known(c)' /\ Tables'
         /\ ~done \/ c.work \in {"reload", "follow"} => UNCHANGED <<repo, file, kept>>
<1>1. /\ repo' \in RepoType /\ file' \in FileType /\ kept' \in SUBSET Edits /\ ~file'.lags
      /\ file'.edits \subseteq file.edits /\ repo.version <= repo'.version
      /\ file'.kind = "versioned" => file'.edits = {}
      /\ ~done \/ c.work \in {"reload", "follow"} => UNCHANGED <<repo, file, kept>>
  BY DEF AfterWork, Effects, Working, SyncTypeOK, Tables, RepoType
<1>2. ~LoadedAt("orig")'
  BY DEF Working, LoadedAt
<1>3. TookOnly(c) => TookOnly(c)'
  BY <1>1, <1>2 DEF TookOnly, Clean
<1>4. c.before.repo.version <= repo'.version
  BY <1>1 DEF Working, Leased, BeforeType, RepoType, SyncTypeOK
<1>5. Known(c)'
  BY <1>1, <1>4 DEF Known, Knows, LagIsMarked, Working, Leased
<1>6. Tables'
  BY <1>1, <1>2 DEF Tables, LoadedAt
<1> QED
  BY <1>1, <1>2, <1>3, <1>5, <1>6

\* What a commit may report once its work is done.
Reported(c, done) ==
  /\ (~done \/ c.work = "reload") /\ (c.work # "drop" \/ c.made) => Before(c) \subseteq file'.edits
  /\ done /\ c.work = "checkin" => Before(c) \subseteq repo'.edits
  /\ done /\ c.work = "undo" => Before(c) \subseteq kept'
  /\ c.work = "rollback" /\ c.after = "noop" => Before(c) = {} \/ file'.kind = "private"

LEMMA ReportedWork ==
  ASSUME SyncTypeOK, NEW c, Working(c), InLease(c), NEW done \in BOOLEAN, AfterWork(c, done), c.op = "commit"
  PROVE  Reported(c, done)
<1>1. Fits(c) /\ Here = file.edits /\ (c.work # "drop" \/ c.made => Before(c) \subseteq file.edits)
  BY DEF Working, Leased, Untouched, Here
<1>2. c.work = "undo" /\ done => Before(c) \subseteq kept'
  <2>1. SUFFICES ASSUME c.work = "undo", done PROVE Before(c) \subseteq kept'
    OBVIOUS
  <2>2. file.kind = "checkedout" /\ kept' = (IF c.keeps THEN kept \union file.edits ELSE kept)
    BY <2>1 DEF AfterWork, Effects
  <2>3. c.how # "discard" /\ (~c.keeps => file.edits = {})
    BY <1>1, <2>1, <2>2 DEF Fits, LeaseShape, NothingToLose, Working
  <2> QED
    BY <1>1, <2>1, <2>2, <2>3
<1>3. c.work = "rollback" /\ c.after = "noop" => Before(c) = {} \/ file'.kind = "private"
  <2>1. c.work = "rollback" /\ c.after = "noop" => Before(c) = {} \/ file.kind = "private"
    BY <1>1 DEF Fits, Reports, Working
  <2> QED
    BY <2>1 DEF AfterWork, Effects
<1>4. (~done \/ c.work = "reload") => file' = file
  BY DEF AfterWork, Effects
<1>5. done /\ c.work = "checkin" => Before(c) \subseteq repo'.edits
  BY <1>1 DEF AfterWork, Effects
<1> QED
  BY <1>1, <1>2, <1>3, <1>4, <1>5 DEF Reported

LEMMA WorkedOpen ==
  ASSUME SyncTypeOK, Tables, NEW c, Working(c), InLease(c), NEW done \in BOOLEAN, AfterWork(c, done),
         UNCHANGED <<session, marks, world>>, c.pc = "work",
         NEW e, StartedOf(e, c, done), NEW error \in Errors,
         NEW d, d = [e EXCEPT !.pc = "reopen", !.error = error],
         error = "none" => done, SaysNothingChanged(error) => ~done
  PROVE  d \in CallType /\ Fits(d)'
<1>1. /\ d \in CallType /\ SameRequest(d, c) /\ d.pc = "reopen" /\ d.error = error /\ d.active = c.active
      /\ d.made = c.made /\ d.work = c.work /\ d.wraps = c.wraps /\ d.done = done
      /\ d.save = c.save /\ d.keeps = c.keeps /\ d.then = c.then /\ d.after = c.after
      /\ c.taken => d.taken
  BY DEF CallType, SameRequest, Pcs, StartedOf
<1>2. /\ repo' \in RepoType /\ file' \in FileType /\ kept' \in SUBSET Edits /\ ~file'.lags
      /\ ~LoadedAt("orig")'
      /\ file'.edits \subseteq file.edits /\ repo.version <= repo'.version
      /\ (TookOnly(c) => TookOnly(c)') /\ Known(c)' /\ Tables'
      /\ ~done \/ c.work \in {"reload", "follow"} => UNCHANGED <<repo, file, kept>>
  BY WorkedTypes
<1>3. Fits(c) /\ Untouched(c) /\ session = None /\ Leased(c)
  BY DEF Working, Leased
<1>4. Shape(d) /\ LeaseShape(d)
  BY <1>1, <1>3 DEF Fits, Shape, LeaseShape, InLease, SameRequest
<1>5. Places(d)'
  <2>1. d.then = "recheck" => d.work = "reload"
    BY <1>1, <1>3 DEF Fits, LeaseShape
  <2>2. d.then = "recheck" => file'.kind # "versioned"
    BY <1>1, <1>2, <1>3, <2>1 DEF Fits, Places
  <2> QED
    BY <1>1, <1>2, <1>3, <2>2 DEF Places, LagIsMarked
<1>6. NothingToLose(d)'
  <2>1. d.made \/ d.work = "rollback" => TookOnly(c)
    BY <1>1, <1>3 DEF Leased
  <2> QED
    BY <1>1, <1>2, <1>3, <2>1 DEF NothingToLose, TookOnly, SameRequest, Fits
<1>7. Quiet(d)'
  <2>1. Harmless(d) => UNCHANGED <<repo, file, kept>>
    BY <1>1, <1>2 DEF Harmless
  <2>2. d.work = "rollback" /\ done => SameFile(d)' /\ SameKind(d)'
    BY <1>1, <1>3 DEF AfterWork, Effects, Leased, TookOnly, Untouched, SameFile, SameKind, SameRequest
  <2> QED
    BY <1>1, <1>3, <2>1, <2>2 DEF Untouched, Quiet, SameFile, SameKind, TookCheckout, Harmless, SameRequest
<1>8. Reports(d)'
  <2>1. SUFFICES ASSUME c.op = "commit" PROVE Reports(d)'
    BY <1>1 DEF Reports, SameRequest
  <2>2. Reported(c, done)
    BY <2>1, ReportedWork
  <2>3. Harmless(d) => ~done \/ c.work = "reload"
    BY <1>1, <1>3, <2>1 DEF Harmless, Fits, LeaseShape
  <2> QED
    BY <1>1, <1>2, <2>1, <2>2, <2>3 DEF Reported, Reports, Before, Here, Succeeds, SameRequest
<1>9. Follows(d)'
  BY <1>1, <1>2 DEF Follows, Known, Knows, SameRequest
<1> QED
  BY <1>1, <1>4, <1>5, <1>6, <1>7, <1>8, <1>9 DEF Fits, Shape, LeaseShape, InLease

LEMMA WorkedOn ==
  ASSUME SyncTypeOK, Tables, NEW c, Working(c), InLease(c), AfterWork(c, TRUE),
         UNCHANGED <<session, marks, world>>, c.pc = "lease",
         NEW e, StartedOf(e, c, TRUE),
         NEW d, d = [e EXCEPT !.pc = e.then]
  PROVE  d \in CallType /\ Fits(d)'
<1>1. /\ d \in CallType /\ SameRequest(d, c) /\ d.pc = c.then
      /\ d.made = c.made /\ d.work = c.work /\ d.wraps = c.wraps /\ d.done
      /\ d.save = c.save /\ d.keeps = c.keeps /\ d.then = c.then /\ d.after = c.after
      /\ c.taken => d.taken
  <2>1. e.then \in Thens /\ Thens \subseteq Pcs /\ e \in CallType /\ e.then = c.then
    BY DEF StartedOf, CallType, Thens, Pcs
  <2>2. d \in CallType
    BY <2>1 DEF CallType
  <2> QED
    BY <2>1, <2>2 DEF CallType, SameRequest, StartedOf
<1>2. /\ repo' \in RepoType /\ file' \in FileType /\ kept' \in SUBSET Edits /\ ~file'.lags
      /\ ~LoadedAt("orig")'
      /\ file'.edits \subseteq file.edits /\ repo.version <= repo'.version
      /\ (TookOnly(c) => TookOnly(c)') /\ Known(c)' /\ Tables'
      /\ c.work \in {"reload", "follow"} => UNCHANGED <<repo, file, kept>>
  BY WorkedTypes
<1>3. Fits(c) /\ Untouched(c) /\ Leased(c) /\ c.op # "edit"
  BY DEF Working, Leased
<1>4. Shape(d)
  BY <1>1, <1>3 DEF Fits, Shape, LeaseShape, InLease, SameRequest, Leased
<1>5. LeaseShape(d)
  BY <1>1, <1>3 DEF Fits, LeaseShape, InLease, SameRequest
<1>6. Places(d)'
  <2>1. d.pc = "recheck" => c.work = "reload"
    BY <1>1, <1>3 DEF Fits, LeaseShape
  <2>2. d.pc = "recheck" => file'.kind # "versioned"
    BY <1>1, <1>2, <1>3, <2>1 DEF Fits, Places
  <2>3. d.pc \in {"reread", "ok", "posted", "recheck", "rolledback"} /\ d.op \notin {"edit", "save", "close"}
    BY <1>1, <1>3 DEF Fits, LeaseShape, Leased, SameRequest
  <2> QED
    BY <1>2, <2>2, <2>3 DEF Places, LagIsMarked, InLease
<1>7. NothingToLose(d)'
  <2>1. d.made \/ d.work = "rollback" => TookOnly(c)
    BY <1>1, <1>3 DEF Leased
  <2>2. d.pc \in {"reread", "ok", "posted", "recheck", "rolledback"}
    BY <1>1, <1>3 DEF Fits, LeaseShape
  <2> QED
    BY <1>1, <1>2, <2>1, <2>2 DEF NothingToLose, TookOnly, SameRequest
<1>8. Quiet(d)'
  <2>1. Harmless(d) => c.work = "reload" \/ c.work = "follow"
    BY <1>1, <1>3 DEF Harmless, Fits, LeaseShape
  <2>2. d.work = "rollback" => SameFile(d)' /\ SameKind(d)'
    BY <1>1, <1>3 DEF AfterWork, Effects, Leased, TookOnly, Untouched, SameFile, SameKind, SameRequest
  <2>3. d.pc # "done"
    BY <1>1, <1>3 DEF Fits, LeaseShape
  <2> QED
    BY <1>1, <1>2, <1>3, <2>1, <2>2, <2>3 DEF Untouched, Quiet, SameFile, SameKind, TookCheckout, SameRequest
<1>9. Reports(d)'
  <2>1. SUFFICES ASSUME c.op = "commit" PROVE Reports(d)'
    BY <1>1 DEF Reports, SameRequest
  <2>2. Reported(c, TRUE)
    BY <2>1, ReportedWork
  <2>3. Harmless(d) => c.work = "reload"
    BY <1>1, <1>3, <2>1 DEF Harmless, Fits, LeaseShape
  <2>4. d.pc # "done"
    BY <1>1, <1>3 DEF Fits, LeaseShape
  <2> QED
    BY <1>1, <1>2, <2>1, <2>2, <2>3, <2>4 DEF Reported, Reports, Before, Here, Succeeds, SameRequest
<1>10. Follows(d)'
  <2>1. d.pc # "done"
    BY <1>1, <1>3 DEF Fits, LeaseShape
  <2> QED
    BY <1>1, <1>2, <2>1 DEF Follows, Known, Knows, SameRequest
<1> QED
  BY <1>1, <1>4, <1>5, <1>6, <1>7, <1>8, <1>9, <1>10 DEF Fits, Shape, LeaseShape, InLease

LEMMA WorkedRaises ==
  ASSUME SyncTypeOK, Tables, NEW c, Working(c), InLease(c), NEW done \in BOOLEAN, AfterWork(c, done),
         UNCHANGED <<session, marks, world>>,
         NEW e, StartedOf(e, c, done), NEW error \in {"refused", "retry", "failed", "partial"},
         done => error \in {"failed", "partial"} /\ c.work # "follow",
         call' = Raise(e, error)
  PROVE  call' \in CallType /\ Fits(call)'
<1>1. /\ e \in CallType /\ SameRequest(e, c) /\ e.made = c.made /\ e.work = c.work /\ e.wraps = c.wraps
      /\ c.taken \/ c.work = "checkin" => e.taken
  BY DEF StartedOf
<1>2. /\ ~LoadedAt("orig")'
      /\ (TookOnly(c) => TookOnly(c)') /\ Known(c)'
      /\ ~done \/ c.work \in {"reload", "follow"} => UNCHANGED <<repo, file, kept>>
  BY WorkedTypes
<1>3. Fits(c) /\ Untouched(c) /\ Leased(c) /\ Here = file.edits /\ (Here = file.edits)'
  BY <1>2 DEF Working, Leased, Here
<1>4. Known(e)'
  BY <1>1, <1>2 DEF Known, Knows, SameRequest
<1>5. e.made => TookOnly(e)'
  BY <1>1, <1>2, <1>3 DEF Leased, TookOnly, SameRequest
<1>6. CASE ~done \/ c.work = "reload"
  <2>1. Untouched(e)'
    BY <1>1, <1>2, <1>3, <1>6 DEF Untouched, SameFile, SameKind, TookCheckout, Before, SameRequest
  <2> QED
    BY <1>1, <1>4, <1>5, <2>1, RaisesNext
<1>7. CASE done /\ c.work # "reload"
  <2>1. e.op # "edit" /\ (e.made => e.taken)
    BY <1>1, <1>3, <1>7 DEF Leased, Fits, Shape, SameRequest, Working
  <2> QED
    BY <1>1, <1>4, <1>5, <1>7, <2>1, RaisesNext
<1> QED
  BY <1>6, <1>7

LEMMA LeaseWorksKeeps ==
  ASSUME SyncIInv, LeaseWorks
  PROVE  SyncIInv'
<1>1. PICK c : c = call
  OBVIOUS
<1>2. Working(c) /\ SyncTypeOK /\ Tables /\ InLease(c)
  BY <1>1, WorkingFacts
<1>3. UNCHANGED <<session, marks, world>>
  BY DEF LeaseWorks
<1>4. c \in CallType /\ Leased(c) /\ (c.active <=> c.pc = "work") /\ c.active \in BOOLEAN
  BY <1>2 DEF Working, Leased, Fits, LeaseShape, CallType
<1>5. ASSUME NEW done \in BOOLEAN, NEW error \in Errors, AfterWork(c, done), call' = Worked(Started(done), error),
             done <=> error = "none" \/ (done /\ error \in {"failed", "partial"}),
             done /\ error # "none" => c.work # "follow",
             Fault \/ NoFault
      PROVE  SyncIInv'
  <2>1. PICK e : e = Started(done)
    OBVIOUS
  <2>2. StartedOf(e, c, done)
    BY <1>1, <1>4, <2>1, StartedFields
  <2>3. PICK d : d = call'
    OBVIOUS
  <2>4. d = Worked(e, error)
    BY <1>5, <2>1, <2>3
  <2>5. d \in CallType /\ Fits(d)'
    <3>1. CASE c.pc = "work"
      <4>1. d = [e EXCEPT !.pc = "reopen", !.error = error]
        BY <1>4, <2>2, <2>4, <3>1 DEF Worked, StartedOf
      <4>2. (error = "none" => done) /\ (SaysNothingChanged(error) => ~done)
        BY <1>5 DEF SaysNothingChanged
      <4> QED
        BY <1>2, <1>3, <1>5, <2>2, <3>1, <4>1, <4>2, WorkedOpen
    <3>2. CASE c.pc # "work" /\ error = "none"
      <4>1. d = [e EXCEPT !.pc = e.then]
        BY <1>4, <2>2, <2>4, <3>2 DEF Worked, StartedOf
      <4>2. c.pc = "lease" /\ done
        BY <1>2, <1>5, <3>2 DEF Working
      <4>3. AfterWork(c, TRUE) /\ StartedOf(e, c, TRUE)
        BY <1>5, <2>2, <4>2
      <4> QED
        BY <1>2, <1>3, <4>1, <4>2, <4>3, WorkedOn
    <3>3. CASE c.pc # "work" /\ error # "none"
      <4>1. d = Raise(e, error)
        BY <1>4, <2>2, <2>4, <3>3 DEF Worked, StartedOf
      <4>2. error \in {"refused", "retry", "failed", "partial"}
        BY <3>3 DEF Errors
      <4>3. done => error \in {"failed", "partial"} /\ c.work # "follow"
        BY <1>5, <3>3
      <4>4. call' \in CallType /\ Fits(call)'
        BY <1>2, <1>3, <1>5, <2>2, <2>3, <4>1, <4>2, <4>3, WorkedRaises
      <4> QED
        BY <2>3, <4>4 DEF Fits, Shape, LeaseShape, InLease
    <3> QED
      BY <3>1, <3>2, <3>3
  <2>6. /\ repo' \in RepoType /\ file' \in FileType /\ kept' \in SUBSET Edits /\ ~file'.lags /\ Tables'
    BY <1>2, <1>3, <1>5, WorkedTypes
  <2>7. SyncTypeOK'
    BY <1>2, <1>3, <1>5, <2>3, <2>5, <2>6, FaultsBounded DEF SyncTypeOK
  <2> QED
    BY <2>3, <2>5, <2>6, <2>7 DEF SyncIInv, Fits, Shape, LeaseShape, InLease
<1>6. CASE CanWork /\ Works /\ NoFault /\ call' = Worked(Started(TRUE), "none")
  <2>1. AfterWork(c, TRUE)
    BY <1>1, <1>2, <1>4, <1>6, WorksEffects DEF AfterWork
  <2>2. "none" \in Errors /\ TRUE \in BOOLEAN
    BY DEF Errors
  <2> QED
    BY <1>5, <1>6, <2>1, <2>2
<1>7. CASE /\ DoesSomething /\ CanWork /\ Works /\ Fault
           /\ call' = Worked(Started(TRUE), IF ReadsAfter THEN "partial" ELSE "failed")
  <2>1. AfterWork(c, TRUE)
    BY <1>1, <1>2, <1>4, <1>7, WorksEffects DEF AfterWork
  <2>2. PICK error \in {"partial", "failed"} : error = IF ReadsAfter THEN "partial" ELSE "failed"
    OBVIOUS
  <2>3. error \in Errors /\ TRUE \in BOOLEAN /\ error # "none"
    BY <2>2 DEF Errors
  <2>4. c.work # "follow"
    BY <1>1, <1>7 DEF DoesSomething
  <2> QED
    BY <1>5, <1>7, <2>1, <2>2, <2>3, <2>4
<1>8. CASE /\ CanWork /\ Fault /\ (~DoesSomething => call.active /\ call.op # "edit")
           /\ \E error \in {"retry", "failed"} : call' = Worked(Started(FALSE), error)
           /\ UNCHANGED <<repo, file, kept>>
  <2>1. PICK error \in {"retry", "failed"} : call' = Worked(Started(FALSE), error)
    BY <1>8
  <2>2. error \in Errors /\ FALSE \in BOOLEAN /\ error # "none"
    BY <2>1 DEF Errors
  <2>3. AfterWork(c, FALSE)
    BY <1>8 DEF AfterWork
  <2> QED
    BY <1>5, <1>8, <2>1, <2>2, <2>3
<1>9. CASE ~CanWork /\ NoFault /\ call' = Worked(Started(FALSE), Refusal) /\ UNCHANGED <<repo, file, kept>>
  <2>1. Refusal \in {"refused", "failed"}
    BY DEF Refusal
  <2>2. Refusal \in Errors /\ FALSE \in BOOLEAN /\ Refusal # "none"
    BY <2>1 DEF Errors
  <2>3. AfterWork(c, FALSE)
    BY <1>9 DEF AfterWork
  <2> QED
    BY <1>5, <1>9, <2>2, <2>3
<1> QED
  BY <1>6, <1>7, <1>8, <1>9 DEF LeaseWorks

\* The session a lease reopens.
LEMMA OpenedFields ==
  ASSUME SyncTypeOK, NEW path \in Paths
  PROVE  /\ Opened(path) \in SessionType /\ Opened(path) # None
         /\ Opened(path).path = path /\ Opened(path).unsaved = {}
         /\ path = "orig" => (Opened(path).writable <=> file.kind # "versioned")
         /\ path = "orig" /\ file.kind = "versioned" => Opened(path).base = repo.version
         /\ path = "orig" /\ file.kind = "checkedout" => Opened(path).base = file.base
<1>1. Status.version \in Nat /\ (file.kind = "checkedout" => Status.version = file.base)
      /\ (file.kind = "versioned" => Status.version = repo.version)
  BY DEF Status, SyncTypeOK, FileType, RepoType
<1>2. Opened(path) \in SessionType
  BY <1>1 DEF Opened, SessionType
<1> QED
  BY <1>1, <1>2, WorldsAssumption DEF Opened

LEMMA LeaseReopensKeeps ==
  ASSUME SyncIInv, LeaseReopens
  PROVE  SyncIInv'
<1>1. PICK c : c = call
  OBVIOUS
<1>2. c.pc = "reopen" /\ InLease(c) /\ UNCHANGED <<repo, file, kept, world>>
  BY <1>1 DEF LeaseReopens, InLease, AllFiles
<1>3. Leased(c) /\ SyncTypeOK /\ Tables
  BY <1>1, <1>2, LeaseFacts
<1>4. /\ c \in CallType /\ Fits(c) /\ session = None /\ Here = file.edits /\ ~file.lags
      /\ c.path \in Paths /\ c.keeps \in BOOLEAN /\ (c.keeps => c.op # "edit")
  BY <1>2, <1>3 DEF Leased, Fits, Places, Here, LoadedAt, SyncTypeOK, CallType, LeaseShape
<1>5. ASSUME marks'.dirty \subseteq marks.dirty, session' # None => session'.unsaved = {}
      PROVE  /\ Known(c)' /\ (c.made \/ c.work = "rollback" => TookOnly(c)') /\ (Untouched(c) => Untouched(c)')
             /\ (Here = file.edits)'
  <2>1. Known(c)'
    BY <1>2, <1>3, <1>4 DEF Known, Knows, LagIsMarked, Leased
  <2>2. c.made \/ c.work = "rollback" => TookOnly(c)'
    BY <1>2, <1>3, <1>4, <1>5 DEF Leased, TookOnly, Clean, LoadedAt, Fits, NothingToLose
  <2>3. (Here = file.edits)'
    BY <1>5 DEF Here, LoadedAt
  <2>4. Untouched(c) => Untouched(c)'
    BY <1>2, <1>4, <2>3 DEF Untouched, SameFile, SameKind, TookCheckout, Before
  <2> QED
    BY <2>1, <2>2, <2>3, <2>4
<1>6. ASSUME NEW error \in {"refused", "retry", "failed", "partial"}, call' = Raise(c, error),
             marks'.dirty \subseteq marks.dirty, session' # None => session'.unsaved = {},
             Harmless(c) \/ error \in {"failed", "partial"}
      PROVE  call' \in CallType /\ Fits(call)'
  <2>1. /\ Known(c)' /\ (c.made => TookOnly(c)') /\ (Untouched(c) => Untouched(c)')
    BY <1>5, <1>6
  <2>2. CASE Harmless(c)
    BY <1>3, <1>4, <1>6, <2>1, <2>2, RaisesNext DEF Leased
  <2>3. CASE ~Harmless(c)
    <3>1. c.op # "edit" /\ (c.made => c.taken)
      BY <1>2, <1>3, <1>4, <2>3 DEF Harmless, Leased, Fits, Shape
    <3> QED
      BY <1>4, <1>6, <2>1, <2>3, <3>1, RaisesNext
  <2> QED
    BY <2>2, <2>3
<1>7. CASE /\ IF KeepMissing THEN NoFault ELSE Fault
           /\ marks' = [dirty |-> {}, pending |-> {}]
           /\ call' = Raise(call, ReopenError)
           /\ UNCHANGED session
  <2>1. ReopenError \in {"failed", "partial"}
    BY DEF ReopenError
  <2>2. marks'.dirty \subseteq marks.dirty /\ (session' # None => session'.unsaved = {}) /\ (Fault \/ NoFault)
    BY <1>4, <1>7
  <2>3. PICK error \in {"failed", "partial"} : error = ReopenError
    BY <2>1
  <2>4. call' \in CallType /\ Fits(call)'
    BY <1>1, <1>6, <1>7, <2>2, <2>3
  <2>5. SyncTypeOK' /\ Tables'
    BY <1>2, <1>3, <1>4, <1>7, <2>2, <2>4, FaultsBounded DEF SyncTypeOK, Tables, LoadedAt
  <2> QED
    BY <2>4, <2>5 DEF SyncIInv
<1>8. CASE /\ ~KeepMissing /\ NoFault
           /\ session' = Opened(IF call.keeps THEN "keep" ELSE call.path)
           /\ IF call.error = "none"
              THEN marks' = Unmarked({call.path}) /\ call' = [call EXCEPT !.pc = call.then]
              ELSE UNCHANGED marks /\ call' = Raise(call, call.error)
  <2>1. PICK path \in Paths : path = IF c.keeps THEN "keep" ELSE c.path
    BY <1>4 DEF Paths
  <2>2. session' = Opened(path)
    BY <1>1, <1>8, <2>1
  <2>3. /\ session' \in SessionType /\ session' # None /\ session'.path = path /\ session'.unsaved = {}
        /\ path = "orig" => (session'.writable <=> file.kind # "versioned")
        /\ path = "orig" /\ file.kind = "versioned" => session'.base = repo.version
        /\ path = "orig" /\ file.kind = "checkedout" => session'.base = file.base
    BY <1>3, <2>2, OpenedFields
  <2>4. /\ marks' \in [dirty : SUBSET Paths, pending : SUBSET Paths] /\ marks'.pending \subseteq marks'.dirty
        /\ marks'.dirty \subseteq marks.dirty
    BY <1>3, <1>8 DEF SyncTypeOK, Unmarked
  <2>5. call' \in CallType => SyncTypeOK'
    BY <1>2, <1>3, <1>4, <1>8, <2>3, <2>4, FaultsBounded DEF SyncTypeOK
  <2>6. Tables'
    BY <1>2, <1>3, <2>3 DEF Tables, LoadedAt
  <2>7. CASE c.error # "none"
    <3>1. c.error \in {"refused", "retry", "failed", "partial"} /\ call' = Raise(c, c.error)
      BY <1>1, <1>4, <1>8, <2>7 DEF CallType, Errors
    <3>2. Harmless(c) \/ c.error \in {"failed", "partial"}
      BY <1>2, <1>4, <3>1 DEF Fits, LeaseShape, SaysNothingChanged, Harmless, InLease
    <3>3. call' \in CallType /\ Fits(call)'
      BY <1>6, <2>3, <2>4, <3>1, <3>2
    <3> QED
      BY <2>5, <2>6, <3>3 DEF SyncIInv
  <2>8. CASE c.error = "none"
    <3>1. PICK d : d = call'
      OBVIOUS
    <3>2. /\ d \in CallType /\ SameRequest(d, c) /\ d.pc = c.then /\ c.done
          /\ d.made = c.made /\ d.work = c.work /\ d.wraps = c.wraps /\ d.done
          /\ d.save = c.save /\ d.keeps = c.keeps /\ d.then = c.then /\ d.after = c.after
          /\ d.taken = c.taken
      <4>1. c.then \in Thens /\ Thens \subseteq Pcs /\ d = [c EXCEPT !.pc = c.then]
        BY <1>1, <1>4, <1>8, <2>8, <3>1 DEF CallType, Thens, Pcs
      <4>2. d \in CallType
        BY <1>4, <4>1 DEF CallType
      <4>3. c.done
        BY <1>2, <1>4, <2>8 DEF Fits, LeaseShape
      <4> QED
        BY <1>4, <4>1, <4>2, <4>3 DEF CallType, SameRequest
    <3>3. /\ Known(c)' /\ (c.made \/ c.work = "rollback" => TookOnly(c)') /\ (Untouched(c) => Untouched(c)')
          /\ (Here = file.edits)'
      BY <1>5, <2>3, <2>4
    <3>4. d.pc \in {"reread", "ok", "posted", "recheck", "rolledback"}
      BY <1>2, <1>4, <3>2 DEF Fits, LeaseShape
    <3>12. Harmless(d) => Harmless(c)
      BY <1>2, <1>4, <3>2 DEF Fits, LeaseShape, Harmless
    <3>5. Shape(d)
      BY <1>2, <1>3, <1>4, <3>2, <3>4 DEF Fits, Shape, LeaseShape, InLease, SameRequest, Leased
    <3>6. LeaseShape(d)
      BY <1>2, <1>4, <3>2, <3>4 DEF Fits, LeaseShape, InLease, SameRequest
    <3>7. Places(d)'
      <4>1. d.pc = "recheck" => file'.kind # "versioned"
        BY <1>2, <1>4, <3>2 DEF Fits, Places
      <4>2. d.op = "edit" => LoadedAt(d.path)'
        BY <1>3, <1>4, <2>1, <2>3, <3>2 DEF SameRequest, LoadedAt
      <4>3. d.op \notin {"save", "close"}
        BY <1>3, <3>2 DEF Leased, SameRequest
      <4> QED
        BY <1>2, <1>4, <3>4, <4>1, <4>2, <4>3 DEF Places, LagIsMarked, InLease
    <3>8. NothingToLose(d)'
      BY <1>2, <3>2, <3>3, <3>4 DEF NothingToLose, TookOnly, SameRequest
    <3>9. Quiet(d)'
      <4>1. d.work = "rollback" <=> d.pc = "rolledback"
        BY <1>2, <1>4, <3>2 DEF Fits, LeaseShape
      <4> QED
        BY <1>2, <1>4, <3>2, <3>4, <3>12, <4>1 DEF Fits, Quiet, SameFile, SameKind, TookCheckout, SameRequest
    <3>10. Reports(d)'
      BY <1>2, <1>4, <2>8, <3>2, <3>3, <3>4, <3>12 DEF Fits, Reports, Before, Succeeds, SameRequest
    <3>11. Follows(d)'
      <4>1. c.before.repo.version <= repo.version /\ repo.version \in Nat /\ c.before.repo.version \in Nat
        BY <1>3 DEF Leased, SyncTypeOK, BeforeType, RepoType
      <4>2. file.kind \in {"private", "versioned", "checkedout"}
        BY <1>3 DEF SyncTypeOK, FileType, FileKinds
      <4> QED
        BY <1>2, <2>3, <3>2, <3>4, <4>1, <4>2 DEF Follows, SameRequest, LoadedAt
    <3> QED
      BY <2>5, <2>6, <3>1, <3>2, <3>5, <3>6, <3>7, <3>8, <3>9, <3>10, <3>11 DEF SyncIInv, Fits, Shape, LeaseShape, InLease
  <2> QED
    BY <2>7, <2>8
<1> QED
  BY <1>7, <1>8 DEF LeaseReopens

-----------------------------------------------------------------------------
(* Checkout and the save of a commit                                       *)

LEMMA LeaseFitsForAll ==
  \A d \in CallType :
    /\ Knows(d) /\ (LagIsMarked \/ d.then = "recheck") /\ d.pc = "lease" /\ LeaseShape(d) /\ Untouched(d)
    /\ d.made => d.work \in {"reload", "undo", "drop"} /\ TookOnly(d) /\ (d.taken \/ d.work = "reload")
    /\ d.work # "rollback"
    /\ (d.then = "recheck" => file.kind # "versioned") /\ (d.op = "edit" => LoadedAt(d.path))
    /\ LoadedAt(d.path) => session.unsaved = {}
    /\ d.work # "undo"
    => Fits(d)
BY LeaseFits

LEMMA LeaseFitsNext ==
  (\A d \in CallType :
    /\ Knows(d) /\ (LagIsMarked \/ d.then = "recheck") /\ d.pc = "lease" /\ LeaseShape(d) /\ Untouched(d)
    /\ d.made => d.work \in {"reload", "undo", "drop"} /\ TookOnly(d) /\ (d.taken \/ d.work = "reload")
    /\ d.work # "rollback"
    /\ (d.then = "recheck" => file.kind # "versioned") /\ (d.op = "edit" => LoadedAt(d.path))
    /\ LoadedAt(d.path) => session.unsaved = {}
    /\ d.work # "undo"
    => Fits(d))'
BY LeaseFitsForAll, PTL

\* A step that starts to reload the program in a commit or a checkout.
LEMMA ReloadsNext ==
  ASSUME NEW d \in CallType, call' = d, Knows(d)', LagIsMarked' \/ d.then = "recheck", d.pc = "lease", LeaseShape(d),
         Untouched(d)', d.work = "reload", d.op # "edit", d.made => TookOnly(d)',
         d.then = "recheck" => file'.kind # "versioned", session' # None /\ session'.path = d.path => session'.unsaved = {}
  PROVE  Fits(call)'
<1>1. LeaseShape(d)' /\ (LoadedAt(d.path)' => session'.unsaved = {})
  BY DEF LeaseShape, InLease, LoadedAt
<1>2. Fits(d)'
  BY <1>1, LeaseFitsNext
<1> QED
  BY <1>2

LEMMA CheckoutKeeps ==
  ASSUME SyncIInv, Checkout
  PROVE  SyncIInv'
<1>1. PICK c : c = call
  OBVIOUS
<1>2. c.pc = "checkout" /\ IsSteady(c.pc) /\ UNCHANGED <<repo, kept, session, world>>
  BY <1>1 DEF Checkout, IsSteady
<1>3. Steady(c) /\ Harmless(c) /\ Fits(c) /\ SyncTypeOK /\ Tables
  BY <1>1, <1>2, SteadyFacts DEF SyncIInv
<1>4. /\ c \in CallType /\ c.op \in {"checkout", "commit"} /\ c.path = "orig"
      /\ file.kind = "versioned" /\ Clean /\ file.edits = {} /\ ~file.lags /\ LagIsMarked
      /\ c.before.kind = "versioned" /\ c.before \in BeforeType
  BY <1>2, <1>3 DEF Steady, Fits, Shape, Places, Tables, SyncTypeOK, Known, Knows, Untouched, SameKind, TookCheckout
<1>5. CASE /\ Fault
           /\ \E error \in {"retry", "failed"} : call' = Raise(call, error)
           /\ UNCHANGED <<file, marks>>
  <2>1. PICK error \in {"retry", "failed"} : call' = Raise(call, error)
    BY <1>5
  <2>2. Raise(c, error) \in CallType /\ Fits(Raise(c, error))
    BY <1>3, SteadyRaises
  <2> QED
    BY <1>1, <1>2, <1>5, <2>1, <2>2, Continues
<1>6. ASSUME file' = [file EXCEPT !.kind = "checkedout", !.base = repo.version]
      PROVE  file' \in FileType /\ file'.kind = "checkedout" /\ file'.edits = {} /\ ~file'.lags
  BY <1>3, <1>4, <1>6 DEF SyncTypeOK, FileType, FileKinds, RepoType
<1>7. CASE /\ file' = [file EXCEPT !.kind = "checkedout", !.base = repo.version]
           /\ NoFault /\ call' = CheckedOut(call)
           /\ IF call.op = "checkout" THEN marks' = Unmarked({call.path}) ELSE UNCHANGED marks
  <2>1. file' \in FileType /\ file'.kind = "checkedout" /\ file'.edits = {} /\ ~file'.lags
    BY <1>6, <1>7
  <2> DEFINE e == Lease(c, "reload", FALSE, "posted")
             d == [e EXCEPT !.made = (c.op = "commit"), !.wraps = TRUE]
  <2>2. call' = d
    BY <1>1, <1>7 DEF CheckedOut
  <2>3. LeaseOf(e, c, "reload", FALSE, "posted")
    BY <1>4, LeaseFields DEF WorkKinds, Thens
  <2> HIDE DEF e
  <2>4. /\ d \in CallType /\ SameRequest(d, c) /\ (d.made <=> c.op = "commit") /\ d.wraps
        /\ d.pc = "lease" /\ d.work = "reload" /\ ~d.save /\ d.then = "posted"
        /\ ~d.active /\ ~d.keeps /\ ~d.done /\ d.error = "none"
    <3>1. (c.op = "commit") \in BOOLEAN /\ e \in CallType
      BY <2>3 DEF LeaseOf
    <3> DEFINE made == c.op = "commit"
    <3> HIDE DEF made
    <3>2. d = [e EXCEPT !.made = made, !.wraps = TRUE] /\ made \in BOOLEAN
      BY <3>1 DEF made
    <3> HIDE DEF d
    <3>3. d \in CallType
      BY <3>1, <3>2 DEF CallType
    <3>4. /\ SameRequest(d, e) /\ d.made = made /\ d.wraps /\ d.pc = e.pc /\ d.work = e.work /\ d.save = e.save
          /\ d.then = e.then /\ d.active = e.active /\ d.keeps = e.keeps /\ d.done = e.done /\ d.error = e.error
      BY <3>1, <3>2, <3>3 DEF CallType, SameRequest
    <3> QED
      BY <2>3, <3>3, <3>4, ZenonT(60) DEF LeaseOf, SameRequest, made
  <2> HIDE DEF d
  <2>5. /\ marks' \in [dirty : SUBSET Paths, pending : SUBSET Paths] /\ marks'.pending \subseteq marks'.dirty
        /\ marks'.dirty \subseteq marks.dirty /\ marks.dirty \ {"orig"} \subseteq marks'.dirty
    BY <1>1, <1>3, <1>4, <1>7 DEF SyncTypeOK, Unmarked
  <2>6. SyncTypeOK'
    BY <1>2, <1>3, <1>7, <2>1, <2>2, <2>4, <2>5 DEF SyncTypeOK, NoFault
  <2>7. Tables'
    BY <1>2, <1>3, <1>4, <2>1, <2>5 DEF Tables, Clean, LoadedAt, SyncTypeOK, SessionType, Paths
  <2>8. LeaseShape(d)
    BY <1>4, <2>4 DEF LeaseShape, InLease, SameRequest, SaysNothingChanged
  <2>9. Knows(d)' /\ LagIsMarked'
    BY <1>2, <1>3, <1>4, <2>1, <2>4 DEF Steady, Known, Knows, LagIsMarked, SameRequest
  <2>10. Untouched(d)'
    BY <1>2, <1>3, <1>4, <2>1, <2>4
       DEF Steady, Untouched, SameFile, TookCheckout, Before, Here, LoadedAt, SameRequest
  <2>11. TookOnly(d)' /\ (session' # None /\ session'.path = d.path => session'.unsaved = {})
    BY <1>2, <1>4, <2>1, <2>4, <2>5 DEF TookOnly, Clean, LoadedAt, SameRequest
  <2>12. Fits(call)'
    BY <1>4, <2>2, <2>4, <2>8, <2>9, <2>10, <2>11, ReloadsNext DEF SameRequest
  <2> QED
    BY <2>6, <2>7, <2>12 DEF SyncIInv
<1>8. CASE /\ file' = [file EXCEPT !.kind = "checkedout", !.base = repo.version]
           /\ Fault /\ call' = Raise(call, "failed") /\ UNCHANGED marks
  <2>1. file' \in FileType /\ file'.kind = "checkedout" /\ file'.edits = {} /\ ~file'.lags
    BY <1>6, <1>8
  <2>2. Known(c)'
    BY <1>2, <1>3, <1>4, <2>1 DEF Steady, Known, Knows, LagIsMarked
  <2>3. TookOnly(c)'
    BY <1>2, <1>4, <1>8, <2>1 DEF TookOnly, Clean, LoadedAt
  <2>4. c.made => Untouched(c)'
    BY <1>2, <1>3, <1>4, <2>1 DEF Steady, Untouched, SameFile, TookCheckout, Before, Here, LoadedAt
  <2>5. call' \in CallType /\ Fits(call)'
    BY <1>1, <1>4, <1>8, <2>2, <2>3, <2>4, RaisesNext
  <2>6. SyncTypeOK'
    BY <1>2, <1>3, <1>8, <2>1, <2>5, FaultsBounded DEF SyncTypeOK
  <2>7. Tables'
    BY <1>2, <1>3, <1>8, <2>1 DEF Tables
  <2> QED
    BY <2>5, <2>6, <2>7 DEF SyncIInv
<1> QED
  BY <1>5, <1>7, <1>8 DEF Checkout

\* What a save does, of whatever program is open.
LEMMA SavesFields ==
  ASSUME SyncTypeOK, Tables, session # None, Saves, UNCHANGED world
  PROVE  /\ session' \in SessionType /\ session' # None /\ session'.path = session.path /\ session'.unsaved = {}
         /\ file' \in FileType /\ file'.kind = file.kind /\ kept' \in SUBSET Edits
         /\ session.path = "keep" => file' = file
         /\ session.path = "orig" => kept' = kept /\ file'.edits = file.edits \union session.unsaved
                                     /\ file.kind # "versioned"
         /\ session.path = "orig" /\ file'.lags => world.lags /\ file.kind = "checkedout" /\ (file.edits = {} \/ file.lags)
         /\ Tables'
<1>1. session \in SessionType /\ session.path \in Paths /\ session.unsaved \in SUBSET Edits /\ kept \in SUBSET Edits
  BY DEF SyncTypeOK, SessionType
<1>2. /\ session' \in SessionType /\ session' # None /\ session'.path = session.path /\ session'.unsaved = {}
      /\ session'.writable /\ session.writable
  <2>1. session' = [session EXCEPT !.unsaved = {}] /\ session.writable
    BY DEF Saves
  <2> QED
    BY <1>1, <2>1, WorldsAssumption DEF SessionType
<1>3. CASE session.path = "keep"
  <2>1. kept' = kept \union session.unsaved /\ file' = file
    BY <1>3 DEF Saves
  <2>2. Tables'
    BY <1>2, <1>3, <2>1 DEF Tables, LoadedAt
  <2> QED
    BY <1>1, <1>2, <1>3, <2>1, <2>2 DEF SyncTypeOK
<1>4. CASE session.path = "orig"
  <2>1. kept' = kept
    BY <1>4 DEF Saves
  <2>2. PICK lags \in BOOLEAN :
               /\ lags => world.lags /\ file.kind = "checkedout" /\ (file.edits = {} \/ file.lags)
               /\ file' = [file EXCEPT !.edits = @ \union session.unsaved, !.lags = lags]
    BY <1>4 DEF Saves
  <2>3. /\ file' \in FileType /\ file'.kind = file.kind /\ file'.edits = file.edits \union session.unsaved
        /\ file'.lags = lags
    BY <1>1, <2>2 DEF SyncTypeOK, FileType
  <2>4. file.kind # "versioned"
    BY <1>2, <1>4 DEF Tables, LoadedAt
  <2>5. Tables'
    BY <1>2, <2>3, <2>4 DEF Tables
  <2> QED
    BY <1>1, <1>2, <1>4, <2>1, <2>2, <2>3, <2>4, <2>5
<1> QED
  BY <1>1, <1>3, <1>4 DEF Paths

LEMMA CommitSavesKeeps ==
  ASSUME SyncIInv, CommitSaves
  PROVE  SyncIInv'
<1>1. PICK c : c = call
  OBVIOUS
<1>2. c.pc = "save" /\ IsSteady(c.pc) /\ UNCHANGED <<repo, world>>
  BY <1>1 DEF CommitSaves, IsSteady, Outside
<1>3. Steady(c) /\ Harmless(c) /\ Fits(c) /\ SyncTypeOK /\ Tables
  BY <1>1, <1>2, SteadyFacts DEF SyncIInv
<1>4. /\ c \in CallType /\ c.op = "commit" /\ c.path = "orig" /\ file.kind # "versioned"
  BY <1>2, <1>3 DEF Steady, Fits, Shape, Places
<1>5. CASE NoFault /\ call' = [call EXCEPT !.pc = "recheck"] /\ UNCHANGED <<session, file, kept, marks>>
  <2>1. [c EXCEPT !.pc = "recheck"] \in CallType /\ Fits([c EXCEPT !.pc = "recheck"])
    BY <1>3, <1>4, SteadyMoves
  <2> QED
    BY <1>1, <1>2, <1>5, <2>1, Continues
<1>6. CASE SaveFails /\ call' = Raise(call, "failed") /\ UNCHANGED <<session, file, kept, marks>>
  <2>1. Raise(c, "failed") \in CallType /\ Fits(Raise(c, "failed"))
    BY <1>3, SteadyRaises
  <2>2. Fault \/ NoFault
    BY <1>6 DEF SaveFails
  <2> QED
    BY <1>1, <1>2, <1>6, <2>1, <2>2, Continues
<1>7. CASE /\ Changed /\ Saves /\ NoFault /\ marks' = Unmarked({call.path})
           /\ call' = Lease(call, "reload", FALSE, "recheck")
  <2>1. session # None /\ session.path = "orig"
    BY <1>1, <1>4, <1>7 DEF Changed, Loaded, LoadedAt
  <2>2. /\ session' \in SessionType /\ session' # None /\ session'.path = "orig" /\ session'.unsaved = {}
        /\ file' \in FileType /\ file'.kind = file.kind
        /\ kept' = kept /\ kept' \in SUBSET Edits /\ file'.edits = file.edits \union session.unsaved
        /\ file'.lags => world.lags /\ file.kind = "checkedout"
        /\ Tables'
    BY <1>2, <1>3, <1>7, <2>1, SavesFields
  <2>3. PICK d : d = call'
    OBVIOUS
  <2>4. LeaseOf(d, c, "reload", FALSE, "recheck")
    BY <1>1, <1>4, <1>7, <2>3, LeaseFields DEF WorkKinds, Thens
  <2>5. ~c.made
    BY <1>1, <1>3, <1>4, <1>7, <2>1 DEF Steady, TookOnly, Clean, Changed, LoadedAt
  <2>6. SyncTypeOK'
    BY <1>2, <1>3, <1>7, <2>2, <2>3, <2>4 DEF SyncTypeOK, NoFault, Unmarked, LeaseOf, LoadedAt
  <2>7. LeaseShape(d)
    BY <1>3, <1>4, <2>4 DEF LeaseOf, LeaseShape, InLease, SameRequest, SaysNothingChanged, Steady
  <2>8. Knows(d)'
    BY <1>2, <1>3, <2>4 DEF LeaseOf, Steady, Known, Knows, SameRequest
  <2>9. Untouched(d)'
    BY <1>2, <1>3, <1>4, <2>1, <2>2, <2>4, <2>5
       DEF LeaseOf, Steady, Untouched, SameFile, SameKind, TookCheckout, Before, Here, LoadedAt, SameRequest
  <2>10. Fits(call)'
    BY <1>4, <2>2, <2>3, <2>4, <2>5, <2>7, <2>8, <2>9, ReloadsNext DEF LeaseOf, SameRequest
  <2> QED
    BY <2>2, <2>6, <2>10 DEF SyncIInv
<1> QED
  BY <1>5, <1>6, <1>7 DEF CommitSaves

-----------------------------------------------------------------------------
(* Commands, save, load and close                                          *)

LEMMA ReplyFitsForAll ==
  \A c \in CallType : \A r \in {"ok", "failed"} :
    Known(c) /\ c.op \notin {"commit", "pull"} => Reply(c, r) \in CallType /\ Fits(Reply(c, r))
BY ReplyFits DEF IsQuiet, Replies, Errors

LEMMA ReplyFitsNext ==
  (\A c \in CallType : \A r \in {"ok", "failed"} :
    Known(c) /\ c.op \notin {"commit", "pull"} => Reply(c, r) \in CallType /\ Fits(Reply(c, r)))'
BY ReplyFitsForAll, PTL

\* A step that ends a call about the open program.
LEMMA RepliesNext ==
  ASSUME NEW c \in CallType, NEW r \in {"ok", "failed"}, call' = Reply(c, r), Known(c)', c.op \notin {"commit", "pull"}
  PROVE  call' \in CallType /\ Fits(call)'
<1>1. Reply(c, r) \in CallType /\ Fits(Reply(c, r))'
  BY ReplyFitsNext
<1> QED
  BY <1>1

LEMMA EditKeeps ==
  ASSUME SyncIInv, Careful, Edit
  PROVE  SyncIInv'
<1>1. PICK c : c = call
  OBVIOUS
<1>2. c.pc = "edit" /\ IsSteady(c.pc) /\ UNCHANGED <<repo, file, kept, world, faults>>
  BY <1>1 DEF Edit, IsSteady, NoFault, AllFiles
<1>3. Steady(c) /\ Fits(c) /\ SyncTypeOK /\ Tables
  BY <1>1, <1>2, SteadyFacts DEF SyncIInv
<1>4. /\ c \in CallType /\ c.op = "edit" /\ c.edit \in Edits /\ LoadedAt(c.path) /\ Known(c)
  BY <1>2, <1>3 DEF Steady, Fits, Shape, Places
<1>5. /\ session \in SessionType /\ session # None /\ session.path = c.path /\ c.path \in Paths
      /\ session.unsaved \in SUBSET Edits /\ marks \in [dirty : SUBSET Paths, pending : SUBSET Paths]
      /\ marks.pending \subseteq marks.dirty
  BY <1>3, <1>4 DEF LoadedAt, SyncTypeOK, SessionType
<1> DEFINE edited == [session EXCEPT !.unsaved = @ \union {c.edit}]
<1>6. /\ edited \in SessionType /\ edited # None /\ edited.path = session.path /\ edited.writable = session.writable
      /\ edited.unsaved = session.unsaved \union {c.edit}
  <2>1. edited \in SessionType
    BY <1>4, <1>5 DEF SessionType
  <2> QED
    BY <1>4, <1>5, <2>1, WorldsAssumption DEF SessionType
<1> HIDE DEF edited
<1>7. ASSUME session' = session \/ session' = edited,
             marks' \in [dirty : SUBSET Paths, pending : SUBSET Paths], marks'.pending \subseteq marks'.dirty,
             LagIsMarked => LagIsMarked',
             world.lags /\ session'.unsaved # {} => session'.path \in marks'.dirty,
             NEW r \in {"ok", "failed"}, call' = Reply(c, r)
      PROVE  SyncIInv'
  <2>1. Known(c)'
    BY <1>2, <1>4, <1>7 DEF Known, Knows
  <2>2. call' \in CallType /\ Fits(call)'
    BY <1>4, <1>7, <2>1, RepliesNext
  <2>3. SyncTypeOK'
    BY <1>2, <1>3, <1>5, <1>6, <1>7, <2>2 DEF SyncTypeOK, LoadedAt
  <2>4. Tables'
    BY <1>2, <1>3, <1>5, <1>6, <1>7 DEF Tables, LoadedAt
  <2> QED
    BY <2>2, <2>3, <2>4 DEF SyncIInv
<1>8. CASE call' = Reply(call, "ok") /\ session' = edited /\ marks' = MarksAfter(call.path, TRUE)
  <2>1. marks' = [marks EXCEPT !.dirty = @ \union {c.path}]
    BY <1>1, <1>8 DEF MarksAfter
  <2>2. /\ marks' \in [dirty : SUBSET Paths, pending : SUBSET Paths] /\ marks'.pending = marks.pending
        /\ marks'.dirty = marks.dirty \union {c.path}
    BY <1>5, <2>1
  <2>3. session' = edited /\ session'.path = c.path /\ call' = Reply(c, "ok")
    BY <1>1, <1>5, <1>6, <1>8
  <2>4. LagIsMarked => LagIsMarked'
    BY <1>2, <2>2 DEF LagIsMarked
  <2> QED
    BY <1>5, <1>7, <2>2, <2>3, <2>4
<1>9. CASE /\ call' = Reply(call, "ok") /\ UNCHANGED session
           /\ marks' = MarksAfter(call.path, session.unsaved # {})
  <2>1. CASE session.unsaved # {}
    <3>1. marks' = [marks EXCEPT !.dirty = @ \union {c.path}]
      BY <1>1, <1>9, <2>1 DEF MarksAfter
    <3> QED
      BY <1>1, <1>2, <1>5, <1>7, <1>9, <3>1 DEF LagIsMarked
  <2>2. CASE session.unsaved = {} /\ c.path \in marks.pending
    <3>1. marks' = marks
      BY <1>1, <1>9, <2>2 DEF MarksAfter
    <3> QED
      BY <1>1, <1>2, <1>5, <1>7, <1>9, <2>2, <3>1 DEF LagIsMarked
  <2>3. CASE session.unsaved = {} /\ c.path \notin marks.pending
    <3>1. marks' = [dirty |-> marks.dirty \ {c.path}, pending |-> marks.pending \ {c.path}]
      BY <1>1, <1>9, <2>3 DEF MarksAfter, Unmarked
    <3> QED
      BY <1>1, <1>2, <1>5, <1>7, <1>9, <2>3, <3>1 DEF LagIsMarked
  <2> QED
    BY <2>1, <2>2, <2>3
<1>10. CASE world.commandsFailLate /\ session' = edited /\ call' = Reply(call, "failed") /\ UNCHANGED marks
  <2>1. ~world.lags
    BY <1>3, <1>10 DEF SyncTypeOK, Careful
  <2> QED
    BY <1>1, <1>2, <1>5, <1>7, <1>10, <2>1 DEF LagIsMarked
<1> QED
  BY <1>1, <1>8, <1>9, <1>10 DEF Edit, edited

LEMMA BeginsFacts ==
  ASSUME SyncIInv, call.pc = "begin", call.op \in {"save", "load", "close"}
  PROVE  Known(call) /\ call \in CallType /\ SyncTypeOK /\ Tables /\ (call.op \in {"save", "close"} => LoadedAt(call.path))
<1>1. Steady(call) /\ Fits(call)
  BY SteadyFacts DEF IsSteady
<1> QED
  BY <1>1 DEF Steady, SyncIInv, Fits, Places

LEMMA SaveProgramKeeps ==
  ASSUME SyncIInv, SaveProgram
  PROVE  SyncIInv'
<1>1. PICK c : c = call
  OBVIOUS
<1>2. c.pc = "begin" /\ c.op = "save" /\ UNCHANGED <<repo, world>>
  BY <1>1 DEF SaveProgram, Outside
<1>3. /\ Known(c) /\ c \in CallType /\ SyncTypeOK /\ Tables /\ LagIsMarked
      /\ session # None /\ session.path = c.path /\ c.path \in Paths
      /\ marks \in [dirty : SUBSET Paths, pending : SUBSET Paths] /\ marks.pending \subseteq marks.dirty
  BY <1>1, <1>2, BeginsFacts DEF Known, LoadedAt, SyncTypeOK, SessionType
<1>4. ASSUME session' \in SessionType, session'.path = c.path, session'.unsaved = {},
             file' \in FileType, kept' \in SUBSET Edits, Tables',
             file'.lags => world.lags /\ file'.kind = "checkedout" /\ c.path = "orig",
             marks' \in [dirty : SUBSET Paths, pending : SUBSET Paths], marks'.pending \subseteq marks'.dirty,
             LagIsMarked', Fault \/ NoFault, NEW r \in {"ok", "failed"}, call' = Reply(c, r)
      PROVE  SyncIInv'
  <2>1. Known(c)'
    BY <1>2, <1>3, <1>4 DEF Known, Knows
  <2>2. call' \in CallType /\ Fits(call)'
    BY <1>2, <1>3, <1>4, <2>1, RepliesNext
  <2>3. SyncTypeOK'
    BY <1>2, <1>3, <1>4, <2>2, FaultsBounded, WorldsAssumption DEF SyncTypeOK, LoadedAt
  <2> QED
    BY <1>4, <2>2, <2>3 DEF SyncIInv
<1>5. CASE /\ c.path \notin marks.dirty /\ session.unsaved = {} /\ NoFault
           /\ call' = Reply(call, "ok")
           /\ marks' = Unmarked({c.path})
           /\ UNCHANGED <<session, file, kept>>
  <2>1. marks' \in [dirty : SUBSET Paths, pending : SUBSET Paths] /\ marks'.pending \subseteq marks'.dirty
    BY <1>3, <1>5 DEF Unmarked
  <2>2. LagIsMarked'
    BY <1>3, <1>5 DEF LagIsMarked, Unmarked
  <2>3. Tables'
    BY <1>2, <1>3, <1>5 DEF Tables, LoadedAt
  <2> QED
    BY <1>1, <1>3, <1>4, <1>5, <2>1, <2>2, <2>3 DEF SyncTypeOK, LoadedAt
<1>6. CASE /\ SaveFails /\ call' = Reply(call, "failed")
           /\ UNCHANGED <<session, file, kept, marks>>
  <2>1. Reply(c, "failed") \in CallType /\ Fits(Reply(c, "failed"))
    BY <1>2, <1>3, ReplyFitsForAll
  <2>2. Fault \/ NoFault
    BY <1>6 DEF SaveFails
  <2> QED
    BY <1>1, <1>2, <1>6, <2>1, <2>2, Continues
<1> DEFINE st == [StatusOf(c.path) EXCEPT !.modified = @ \/ (file'.kind = "checkedout" /\ file'.edits # {} /\ ~file'.lags)]
<1>7. CASE /\ c.path \in marks.dirty \/ session.unsaved # {}
           /\ Saves
           /\ call' = Reply(call, "ok")
           /\ \/ NoFault /\ marks' = IF c.path \notin marks.dirty \/ SaveUnmarks(st) THEN Unmarked({c.path})
                                     ELSE [marks EXCEPT !.pending = @ \union {c.path}]
              \/ /\ Fault
                 /\ marks' = IF c.path \notin marks.dirty THEN Unmarked({c.path}) ELSE [marks EXCEPT !.pending = @ \union {c.path}]
  <2>1. /\ session' \in SessionType /\ session' # None /\ session'.path = session.path /\ session'.unsaved = {}
        /\ file' \in FileType /\ file'.kind = file.kind /\ kept' \in SUBSET Edits
        /\ session.path = "keep" => file' = file
        /\ session.path = "orig" /\ file'.lags => world.lags /\ file.kind = "checkedout" /\ (file.edits = {} \/ file.lags)
        /\ Tables'
    BY <1>2, <1>3, <1>7, SavesFields
  <2>2. file'.lags => world.lags /\ file'.kind = "checkedout" /\ c.path = "orig"
    <3>1. file'.lags /\ c.path = "keep" => FALSE
      BY <1>3, <2>1 DEF SyncTypeOK, LoadedAt
    <3> QED
      BY <1>3, <2>1, <3>1 DEF Paths
  <2>3. \/ marks' = Unmarked({c.path}) /\ (c.path \notin marks.dirty \/ SaveUnmarks(st))
        \/ marks' = [marks EXCEPT !.pending = @ \union {c.path}] /\ c.path \in marks.dirty
    BY <1>7
  <2>4. marks' \in [dirty : SUBSET Paths, pending : SUBSET Paths] /\ marks'.pending \subseteq marks'.dirty
    BY <1>3, <2>3 DEF Unmarked
  <2>5. ASSUME file'.lags
        PROVE  "orig" \in marks'.pending
    <3>1. world.lags /\ file'.kind = "checkedout" /\ c.path = "orig" /\ file.kind = "checkedout" /\ (file.edits = {} \/ file.lags)
      BY <1>3, <2>1, <2>2, <2>5
    <3>2. c.path \in marks.dirty
      BY <1>3, <1>7, <3>1 DEF Tables
    <3>3. ~SaveUnmarks(st)
      <4>1. ~Status.modified /\ Status.versioned /\ Status.out
        BY <3>1 DEF Status
      <4>2. StatusOf(c.path) = Status
        BY <3>1 DEF StatusOf
      <4>3. st = [Status EXCEPT !.modified = @ \/ (file'.kind = "checkedout" /\ file'.edits # {} /\ ~file'.lags)]
        BY <4>2
      <4>4. ~st.modified /\ st.versioned /\ st.out
        <5>1. Status.modified \/ (file'.kind = "checkedout" /\ file'.edits # {} /\ ~file'.lags) = FALSE
          BY <2>5, <4>1
        <5> QED
          BY <2>5, <4>1, <4>3, ZenonT(60) DEF Status
      <4> QED
        BY <4>4 DEF SaveUnmarks
    <3> QED
      BY <1>3, <2>3, <3>1, <3>2, <3>3
  <2> HIDE DEF st
  <2>6. LagIsMarked'
    BY <2>5 DEF LagIsMarked
  <2> QED
    BY <1>1, <1>3, <1>4, <1>7, <2>1, <2>2, <2>4, <2>6
<1> QED
  BY <1>1, <1>5, <1>6, <1>7 DEF SaveProgram

LEMMA LoadProgramKeeps ==
  ASSUME SyncIInv, LoadProgram
  PROVE  SyncIInv'
<1>1. PICK c : c = call
  OBVIOUS
<1>2. /\ c.pc = "begin" /\ c.op = "load" /\ session = None /\ UNCHANGED <<repo, file, kept, marks, world, faults>>
      /\ session' = Opened(c.path) /\ call' = Reply(c, "ok")
  BY <1>1 DEF LoadProgram, AllFiles, NoFault
<1>3. Known(c) /\ c \in CallType /\ SyncTypeOK /\ Tables /\ c.path \in Paths
  BY <1>1, <1>2, BeginsFacts DEF CallType
<1>4. /\ session' \in SessionType /\ session' # None /\ session'.path = c.path /\ session'.unsaved = {}
      /\ c.path = "orig" => (session'.writable <=> file.kind # "versioned")
  BY <1>2, <1>3, OpenedFields
<1>5. Known(c)'
  BY <1>2, <1>3 DEF Known, Knows, LagIsMarked
<1>6. call' \in CallType /\ Fits(call)'
  BY <1>2, <1>3, <1>5, RepliesNext
<1>7. SyncTypeOK'
  BY <1>2, <1>3, <1>4, <1>6 DEF SyncTypeOK, LoadedAt
<1>8. Tables'
  BY <1>2, <1>3, <1>4 DEF Tables, LoadedAt
<1> QED
  BY <1>6, <1>7, <1>8 DEF SyncIInv

LEMMA CloseSessionKeeps ==
  ASSUME SyncIInv, CloseSession
  PROVE  SyncIInv'
<1>1. PICK c : c = call
  OBVIOUS
<1>2. c.pc = "begin" /\ c.op = "close" /\ UNCHANGED <<repo, world, faults>>
  BY <1>1 DEF CloseSession, Outside, NoFault
<1>3. /\ Known(c) /\ c \in CallType /\ SyncTypeOK /\ Tables /\ session # None /\ session \in SessionType
      /\ marks \in [dirty : SUBSET Paths, pending : SUBSET Paths] /\ marks.pending \subseteq marks.dirty
  BY <1>1, <1>2, BeginsFacts DEF LoadedAt, SyncTypeOK
<1> DEFINE path == session.path
           saves == c.how # "discard" /\ session.unsaved # {}
           saved == IF saves THEN session.unsaved ELSE {}
<1>4. CASE saves /\ ~session.writable
  <2>1. call' = Reply(c, "failed") /\ UNCHANGED <<session, file, kept, marks>>
    BY <1>1, <1>4 DEF CloseSession
  <2>2. Reply(c, "failed") \in CallType /\ Fits(Reply(c, "failed"))
    BY <1>2, <1>3, ReplyFitsForAll
  <2> QED
    BY <1>1, <1>2, <2>1, <2>2, Continues DEF NoFault
<1>5. CASE ~(saves /\ ~session.writable)
  <2>1. /\ session' = None
        /\ file' = [file EXCEPT !.edits = IF path = "orig" THEN @ \union saved ELSE @, !.lags = FALSE]
        /\ kept' = IF path = "keep" THEN kept \union saved ELSE kept
        /\ marks' = Unmarked({path})
        /\ call' = Reply(c, "ok")
    BY <1>1, <1>5 DEF CloseSession
  <2>2. saved \in SUBSET Edits /\ kept' \in SUBSET Edits
    BY <1>3, <2>1 DEF SessionType, SyncTypeOK
  <2>3. /\ file' \in FileType /\ file'.kind = file.kind /\ ~file'.lags
        /\ file'.edits = IF path = "orig" THEN file.edits \union saved ELSE file.edits
    BY <1>3, <2>1, <2>2 DEF SyncTypeOK, FileType
  <2>4. marks' \in [dirty : SUBSET Paths, pending : SUBSET Paths] /\ marks'.pending \subseteq marks'.dirty
    BY <1>3, <2>1 DEF Unmarked
  <2>5. Known(c)'
    BY <1>2, <1>3, <2>3 DEF Known, Knows, LagIsMarked
  <2>6. call' \in CallType /\ Fits(call)'
    BY <1>2, <1>3, <2>1, <2>5, RepliesNext
  <2>7. SyncTypeOK'
    BY <1>2, <1>3, <2>1, <2>2, <2>3, <2>4, <2>6 DEF SyncTypeOK
  <2>8. Tables'
    <3>1. file.kind = "versioned" /\ path = "orig" => saved = {}
      BY <1>3, <1>5 DEF Tables, LoadedAt
    <3> QED
      BY <1>3, <2>1, <2>3, <3>1 DEF Tables, LoadedAt
  <2> QED
    BY <2>6, <2>7, <2>8 DEF SyncIInv
<1> QED
  BY <1>4, <1>5

-----------------------------------------------------------------------------
(* Clients, peers and the theorems                                         *)

LEMMA PeersKeep ==
  ASSUME SyncIInv, PeerCommits \/ PeerTerminates
  PROVE  SyncIInv'
<1>1. SyncTypeOK /\ Tables /\ call \in CallType /\ Fits(call)
  BY DEF SyncIInv, SyncTypeOK
<1>2. CASE PeerCommits
  <2>1. UNCHANGED <<file, kept, session, marks, call, faults, world>>
    BY <1>2 DEF PeerCommits
  <2>2. repo' \in RepoType /\ repo'.version = repo.version + 1 /\ repo'.edits = repo.edits /\ repo.version \in Nat
    BY <1>1, <1>2 DEF PeerCommits, SyncTypeOK, RepoType
  <2>3. SyncTypeOK' /\ Tables'
    BY <1>1, <2>1, <2>2 DEF SyncTypeOK, Tables, LoadedAt
  <2>4. Shape(call)' /\ LeaseShape(call)'
    BY <1>1, <2>1 DEF Fits, Shape, LeaseShape, InLease
  <2>5. Places(call)' /\ NothingToLose(call)'
    BY <1>1, <2>1 DEF Fits, Places, NothingToLose, LoadedAt, Clean, LagIsMarked, TookOnly, InLease
  <2>6. Quiet(call)'
    BY <1>1, <2>1, <2>2 DEF Fits, Quiet, Harmless, SameFile, SameKind, TookCheckout
  <2>7. Reports(call)'
    BY <1>1, <2>1, <2>2 DEF Fits, Reports, Harmless, Before, Here, LoadedAt, Succeeds
  <2>8. Follows(call)'
    <3>1. call.op # "none" => call.before.repo.version \in Nat
      BY <1>1 DEF Fits, Shape, BeforeType, RepoType
    <3> QED
      BY <1>1, <2>1, <2>2, <3>1 DEF Fits, Follows, LoadedAt
  <2> QED
    BY <2>3, <2>4, <2>5, <2>6, <2>7, <2>8 DEF SyncIInv, Fits
<1>3. CASE PeerTerminates
  <2>1. UNCHANGED <<repo, kept, session, marks, call, faults, world>> /\ file.kind = "checkedout"
    BY <1>3 DEF PeerTerminates
  <2>2. file' \in FileType /\ file'.kind = "private" /\ file'.edits = file.edits /\ ~file'.lags
    BY <1>1, <1>3 DEF PeerTerminates, SyncTypeOK, FileType, FileKinds
  <2>3. SyncTypeOK' /\ Tables'
    BY <1>1, <2>1, <2>2 DEF SyncTypeOK, Tables, LoadedAt
  <2>4. Shape(call)' /\ LeaseShape(call)'
    BY <1>1, <2>1 DEF Fits, Shape, LeaseShape, InLease
  <2>5. Places(call)' /\ NothingToLose(call)'
    BY <1>1, <2>1, <2>2 DEF Fits, Places, NothingToLose, LoadedAt, Clean, LagIsMarked, TookOnly, InLease
  <2>6. Quiet(call)'
    BY <1>1, <2>1, <2>2 DEF Fits, Quiet, Harmless, SameFile, SameKind, TookCheckout
  <2>7. Reports(call)'
    BY <1>1, <2>1, <2>2 DEF Fits, Reports, Harmless, Before, Here, LoadedAt, Succeeds
  <2>8. Follows(call)'
    BY <1>1, <2>1, <2>2 DEF Fits, Follows, LoadedAt
  <2> QED
    BY <2>3, <2>4, <2>5, <2>6, <2>7, <2>8 DEF SyncIInv, Fits
<1> QED
  BY <1>2, <1>3

\* What a call is asked with.
Asked(op, path, how, e) ==
  /\ op \in Ops \ {"none"} /\ path \in Paths /\ how \in Hows /\ e \in Edits \union {None}
  /\ op \notin {"edit", "save", "load", "close"} => path = "orig"
  /\ op = "pull" => how \in {"abort", "discard"}
  /\ op = "edit" => e \in Edits
  /\ op = "undo" => how \in {"keep", "discard"}
  /\ op = "commit" => how \in {"abort", "keep", "discard"}
  /\ op \in {"edit", "save", "close"} => LoadedAt(path)

LEMMA BeginKeeps ==
  ASSUME SyncIInv, NEW op, NEW path, NEW how, NEW auto \in BOOLEAN, NEW out \in BOOLEAN, NEW e,
         Asked(op, path, how, e), Begin(op, path, how, auto, out, e)
  PROVE  SyncIInv'
<1> DEFINE before == [kind |-> file.kind, edits |-> file.edits, kept |-> kept,
                      repo |-> repo, unsaved |-> IF session = None THEN {} ELSE session.unsaved,
                      here |-> LoadedAt("orig")]
           d == [Idle EXCEPT !.op = op, !.pc = "begin", !.path = path, !.how = how, !.auto = auto, !.out = out,
                             !.edit = e, !.before = before]
<1>1. call.pc = "done" /\ call' = d /\ UNCHANGED <<repo, file, kept, session, marks, faults, world>>
  BY DEF Begin
<1>2. SyncTypeOK /\ Tables /\ Fits(call) /\ LagIsMarked
  BY <1>1 DEF SyncIInv, Fits, Places
<1>3. /\ before \in BeforeType /\ before.kind = file.kind /\ before.edits = file.edits /\ before.kept = kept
      /\ before.repo = repo /\ (before.here => LoadedAt("orig"))
      /\ (LoadedAt("orig") => before.unsaved = session.unsaved)
  BY <1>2 DEF BeforeType, SyncTypeOK, FileType, SessionType, LoadedAt
<1> HIDE DEF before
<1>4. /\ d \in CallType /\ d.op = op /\ d.pc = "begin" /\ d.path = path /\ d.how = how /\ d.edit = e
      /\ ~d.made /\ d.work = "none" /\ ~d.done /\ ~d.wraps /\ d.before = before
  <2>1. "begin" \in Pcs /\ "done" \in Thens /\ "none" \in WorkKinds /\ "none" \in Errors /\ "none" \in Replies
    BY DEF Pcs, Thens, WorkKinds, Errors, Replies
  <2>2. op \in Ops /\ path \in Paths /\ how \in Hows /\ e \in Edits \union {None}
    BY DEF Asked
  <2> QED
    BY <1>3, <2>1, <2>2, ZenonT(60) DEF Idle, CallType
<1> HIDE DEF d
<1>5. Shape(d) /\ LeaseShape(d)
  BY <1>3, <1>4 DEF Asked, Shape, LeaseShape, InLease
<1>6. Places(d) /\ NothingToLose(d)
  BY <1>2, <1>4 DEF Asked, Places, NothingToLose, InLease
<1>7. Quiet(d)
  BY <1>3, <1>4 DEF Quiet, SameFile, SameKind
<1>8. Reports(d)
  BY <1>3, <1>4 DEF Reports, Before, Here, Succeeds
<1>9. Follows(d)
  BY <1>2, <1>3, <1>4 DEF Follows, SyncTypeOK, RepoType
<1> QED
  BY <1>1, <1>4, <1>5, <1>6, <1>7, <1>8, <1>9, Continues DEF Fits, NoFault

LEMMA RequestsKeep ==
  ASSUME SyncIInv, Requests
  PROVE  SyncIInv'
<1>1. session # None => session.path \in Paths /\ LoadedAt(session.path)
  BY DEF SyncIInv, SyncTypeOK, SessionType, LoadedAt
<1>2. /\ "orig" \in Paths /\ "keep" \in Paths
      /\ {"checkout", "add", "undo", "pull", "commit", "edit", "save", "load", "close"} \subseteq Ops \ {"none"}
      /\ {"abort", "keep", "discard", "save"} \subseteq Hows
  BY DEF Paths, Ops, Hows
<1>3. ASSUME NEW e \in Edits, session # None, Begin("edit", session.path, "abort", FALSE, FALSE, e)
      PROVE  SyncIInv'
  <2>1. Asked("edit", session.path, "abort", e)
    BY <1>1, <1>2, <1>3 DEF Asked
  <2> QED
    BY <1>3, <2>1, BeginKeeps
<1>4. ASSUME session # None, Begin("save", session.path, "abort", FALSE, FALSE, None)
      PROVE  SyncIInv'
  <2>1. Asked("save", session.path, "abort", None)
    BY <1>1, <1>2, <1>4 DEF Asked
  <2> QED
    BY <1>4, <2>1, BeginKeeps
<1>5. ASSUME NEW how \in {"save", "discard"}, session # None, Begin("close", session.path, how, FALSE, FALSE, None)
      PROVE  SyncIInv'
  <2>1. Asked("close", session.path, how, None)
    BY <1>1, <1>2, <1>5 DEF Asked
  <2> QED
    BY <1>5, <2>1, BeginKeeps
<1>6. ASSUME NEW path \in {"orig", "keep"}, Begin("load", path, "abort", FALSE, FALSE, None)
      PROVE  SyncIInv'
  <2>1. Asked("load", path, "abort", None)
    BY <1>2 DEF Asked
  <2> QED
    BY <1>6, <2>1, BeginKeeps
<1>7. ASSUME NEW op \in {"checkout", "add", "undo", "pull", "commit"}, NEW how \in {"abort", "keep", "discard"},
             NEW auto \in BOOLEAN, NEW out \in BOOLEAN, Begin(op, "orig", how, auto, out, None),
             op = "undo" => how \in {"keep", "discard"}, op = "pull" => how \in {"abort", "discard"}
      PROVE  SyncIInv'
  <2>1. Asked(op, "orig", how, None)
    BY <1>2, <1>7 DEF Asked
  <2> QED
    BY <1>7, <2>1, BeginKeeps
<1> QED
  BY <1>3, <1>4, <1>5, <1>6, <1>7 DEF Requests

LEMMA InitFits ==
  ASSUME Init
  PROVE  SyncIInv
<1>1. Idle \in CallType
  BY DEF Idle, CallType, Ops, Pcs, Paths, Hows, WorkKinds, Thens, Errors, Replies
<1>2. SyncTypeOK
  BY <1>1, WorldsAssumption DEF Init, SyncTypeOK, RepoType, FileType, FileKinds, LoadedAt
<1>3. Tables
  BY DEF Init, Tables, LoadedAt
<1>4. Fits(call)
  BY DEF Init, Idle, Fits, Shape, LeaseShape, InLease, Places, LagIsMarked, NothingToLose, Quiet, Harmless, Reports, Follows
<1> QED
  BY <1>2, <1>3, <1>4 DEF SyncIInv

LEMMA NextKeeps ==
  ASSUME SyncIInv, Careful, [Next]_vars
  PROVE  SyncIInv'
<1>1. CASE Requests
  BY <1>1, RequestsKeep
<1>2. CASE BeginFails \/ RereadFails \/ RecheckFails \/ PostFails
  BY <1>2, ReadsKeep, PostFailsKeeps
<1>3. CASE LeaseSaves \/ LeaseCloses \/ LeaseWorks \/ LeaseReopens
  BY <1>3, LeaseSavesKeeps, LeaseClosesKeeps, LeaseWorksKeeps, LeaseReopensKeeps
<1>4. CASE BeginCheckout \/ Checkout \/ BeginAdd \/ BeginUndo \/ BeginPull
  BY <1>4, BeginCheckoutKeeps, CheckoutKeeps, BeginAddKeeps, BeginUndoKeeps, BeginPullKeeps
<1>5. CASE BeginCommit \/ CommitSaves \/ CommitRechecks
  BY <1>5, BeginCommitKeeps, CommitSavesKeeps, CommitRechecksKeeps
<1>6. CASE Posted \/ RolledBack \/ AlreadyCheckedOut
  BY <1>6, PostedKeeps, RolledBackKeeps, AlreadyCheckedOutKeeps
<1>7. CASE BeginEdit \/ Edit \/ SaveProgram \/ LoadProgram \/ CloseSession
  BY <1>7, BeginEditKeeps, EditKeeps, SaveProgramKeeps, LoadProgramKeeps, CloseSessionKeeps
<1>8. CASE PeerCommits \/ PeerTerminates
  BY <1>8, PeersKeep
<1>9. CASE UNCHANGED vars
  <2>1. call \in CallType /\ Fits(call) /\ UNCHANGED <<call, repo, file, kept, session, marks, world, faults>>
    BY <1>9 DEF vars, SyncIInv, SyncTypeOK
  <2> QED
    BY <2>1, Continues DEF NoFault
<1> QED
  BY <1>1, <1>2, <1>3, <1>4, <1>5, <1>6, <1>7, <1>8, <1>9 DEF Next

\* The inductive invariant holds of every behaviour.
THEOREM SyncInductive ==
  ASSUME Careful
  PROVE  Spec => []SyncIInv
<1>1. Init => SyncIInv
  BY InitFits
<1>2. SyncIInv /\ [Next]_vars => SyncIInv'
  BY NextKeeps
<1> QED
  BY <1>1, <1>2, PTL DEF Spec

\* The guards of undo, pull, commit and of a command see every local edit: where the
\* status does not show a saved edit yet, the runtime's mark does, whatever fails and
\* whatever peers commit or terminate (_save_cleared_runtime_dirty_locked,
\* _overlay_active_program_sync_status_locked).
THEOREM SyncHolds ==
  ASSUME Careful
  PROVE  Spec => []SyncInvariant
<1>1. SyncIInv => SyncInvariant
  <2>1. SUFFICES ASSUME SyncIInv, call.pc = "done", LoadedAt("orig"), file.kind = "checkedout", file.edits # {},
                        ~Status.modified
                 PROVE  "orig" \in marks.dirty
    BY DEF SyncIInv, SyncInvariant, EditsAreVisible
  <2>2. file.lags
    BY <2>1 DEF Status, SyncIInv, SyncTypeOK, FileType
  <2> QED
    BY <2>1, <2>2 DEF SyncIInv, SyncTypeOK, Fits, Places, LagIsMarked
<1> QED
  BY <1>1, SyncInductive, PTL

\* A reply that nothing changed leaves the checkout, the saved edits and the
\* repository as they were, automatic checkout included (AutoCheckout.undoes_after,
\* _rollback_auto_checkout_locked); a commit that reports success has the local edits
\* in the repository or a .keep copy; a pull that succeeds follows the version the
\* repository had (sync_postconditions.py).
THEOREM RepliesHold ==
  ASSUME Careful
  PROVE  Spec => []RepliesAreTrue
<1>1. SyncIInv => RepliesAreTrue
  <2>1. SUFFICES ASSUME SyncIInv
                 PROVE  RepliesAreTrue
    OBVIOUS
  <2>2. SyncTypeOK /\ Fits(call)
    BY <2>1 DEF SyncIInv
  <2>3. QuietRepliesLeaveNothing
    BY <2>2 DEF QuietRepliesLeaveNothing, Fits, Quiet, SameFile, SameKind
  <2>4. CommitReportsTruly
    BY <2>2 DEF CommitReportsTruly, LocalBefore, Fits, Reports, Before, Succeeds
  <2>5. PullFollowsLatest
    <3>1. SUFFICES ASSUME call.pc = "done", call.op = "pull", call.reply = "ok"
                   PROVE  /\ LoadedAt("orig") => session.base >= call.before.repo.version
                          /\ file.kind # "private" => Status.version >= call.before.repo.version
      BY DEF PullFollowsLatest
    <3>2. file.kind \in {"private", "versioned", "checkedout"}
      BY <2>2 DEF SyncTypeOK, FileType, FileKinds
    <3>3. /\ LoadedAt("orig") => session.base >= call.before.repo.version
          /\ file.kind = "versioned" => repo.version >= call.before.repo.version
          /\ file.kind = "checkedout" => file.base >= call.before.repo.version
      BY <2>2, <3>1 DEF Fits, Follows
    <3> QED
      BY <3>2, <3>3 DEF Status
  <2> QED
    BY <2>3, <2>4, <2>5 DEF RepliesAreTrue
<1> QED
  BY <1>1, SyncInductive, PTL

-----------------------------------------------------------------------------
(* Edits survive                                                           *)

SameHow == call'.how = call.how
Keeps == Everywhere \subseteq Everywhere'

LEMMA RaiseHow ==
  \A c \in CallType : \A error : Raise(c, error).how = c.how
<1>1. SUFFICES ASSUME NEW c \in CallType, NEW error
               PROVE  Raise(c, error).how = c.how
  OBVIOUS
<1>2. \A r : Reply(c, r).how = c.how
  BY DEF Reply, CallType
<1>3. \A r : RollBack(c, r).how = c.how
  BY DEF RollBack, Lease, CallType
<1> QED
  BY <1>2, <1>3 DEF Raise

LEMMA SavesLoseNothing ==
  ASSUME SyncTypeOK, session # None, Saves, UNCHANGED repo
  PROVE  Keeps
<1>1. /\ session \in SessionType /\ session.path \in Paths /\ session.unsaved \in SUBSET Edits
      /\ session' = [session EXCEPT !.unsaved = {}]
  BY DEF SyncTypeOK, SessionType, Saves
<1>2. session' # None /\ session'.unsaved = {}
  <2>1. session' \in SessionType /\ session'.unsaved = {}
    BY <1>1 DEF SessionType
  <2> QED
    BY <2>1, WorldsAssumption
<1>3. CASE session.path = "keep"
  <2>1. kept' = kept \union session.unsaved /\ file' = file
    BY <1>3 DEF Saves
  <2> QED
    BY <1>2, <2>1 DEF Keeps, Everywhere
<1>4. CASE session.path # "keep"
  <2>1. kept' = kept /\ file'.edits = file.edits \union session.unsaved
    BY <1>4 DEF Saves, SyncTypeOK, FileType
  <2> QED
    BY <1>2, <2>1 DEF Keeps, Everywhere
<1> QED
  BY <1>3, <1>4

LEMMA LeaseCloseLosesDiscarded ==
  ASSUME SyncIInv, LeaseCloses
  PROVE  Keeps \/ call'.how = "discard"
<1>1. PICK c : c = call
  OBVIOUS
<1>2. c.pc \in {"lease", "close"} /\ InLease(c) /\ (c.pc = "lease" => LoadedAt(c.path) /\ ~c.save)
  BY <1>1 DEF LeaseCloses, InLease, Loaded
<1>3. c \in CallType /\ Fits(c) /\ SyncTypeOK
  BY <1>1 DEF SyncIInv, SyncTypeOK
<1>4. UNCHANGED <<repo, kept>>
  BY DEF LeaseCloses, Outside
<1>5. c.how = "discard" \/ session.unsaved = {}
  BY <1>2, <1>3 DEF Fits, Places, NothingToLose
<1>6. call'.how = c.how
  <2>1. call' = [c EXCEPT !.pc = "work", !.active = TRUE] \/ call' = Raise(c, "failed")
    BY <1>1 DEF LeaseCloses
  <2>2. [c EXCEPT !.pc = "work", !.active = TRUE].how = c.how
    BY <1>3 DEF CallType
  <2> QED
    BY <1>3, <2>1, <2>2, RaiseHow
<1>7. CASE Closes
  <2>1. session' = None /\ file'.edits = file.edits
    BY <1>3, <1>7 DEF Closes, SyncTypeOK, FileType
  <2> QED
    BY <1>4, <1>5, <1>6, <2>1 DEF Keeps, Everywhere
<1>8. CASE UNCHANGED <<session, file>>
  BY <1>4, <1>8 DEF Keeps, Everywhere
<1> QED
  BY <1>7, <1>8 DEF LeaseCloses

LEMMA WorkLosesDiscarded ==
  ASSUME SyncIInv, LeaseWorks
  PROVE  Keeps \/ call'.how = "discard"
<1>1. PICK c : c = call
  OBVIOUS
<1>2. Working(c) /\ SyncTypeOK /\ Tables /\ InLease(c) /\ c \in CallType /\ Fits(c)
  BY <1>1, WorkingFacts DEF Working, Leased
<1>3. call'.how = c.how
  <2>1. ASSUME NEW done \in BOOLEAN, NEW error, call' = Worked(Started(done), error)
        PROVE  call'.how = c.how
    <3>1. PICK e : e = Started(done)
      OBVIOUS
    <3>2. e \in CallType /\ e.how = c.how
      BY <1>1, <1>2, <3>1, StartedFields DEF StartedOf, SameRequest
    <3>3. Raise(e, error).how = e.how
      BY <3>2, RaiseHow
    <3> QED
      BY <2>1, <3>1, <3>2, <3>3 DEF Worked, CallType
  <2> QED
    BY <2>1 DEF LeaseWorks
<1>4. UNCHANGED session
  BY DEF LeaseWorks
<1>5. CASE UNCHANGED <<repo, file, kept>>
  BY <1>4, <1>5 DEF Keeps, Everywhere
<1>6. CASE CanWork /\ Works
  <2>1. ~file.lags
    BY <1>2 DEF Working
  <2>2. CASE DropsCheckout
    <3>1. /\ repo' = repo /\ file' = UndoneCheckout /\ file'.edits = {}
          /\ kept' = IF c.keeps THEN kept \union file.edits ELSE kept
      <4>1. repo' = repo /\ file' = UndoneCheckout /\ kept' = IF c.keeps THEN kept \union file.edits ELSE kept
        <5>1. call.work \in {"undo", "rollback", "drop", "pull"}
          BY <2>2 DEF DropsCheckout
        <5>2. ~(call.work \in {"checkin", "add"}) /\ call.work # "unhijack"
          BY <5>1
        <5> QED
          BY <1>1, <1>6, <2>2, <5>2 DEF Works
      <4>2. UndoneCheckout.edits = {}
        BY <1>2 DEF UndoneCheckout, SyncTypeOK, FileType
      <4> QED
        BY <4>1, <4>2
    <3>2. c.keeps \/ c.how = "discard" \/ file.edits = {}
      <4>1. CASE c.work = "undo"
        <5>1. file.kind = "checkedout"
          BY <1>1, <1>6, <4>1 DEF CanWork
        <5> QED
          BY <1>2, <4>1, <5>1 DEF Working, Fits, NothingToLose
      <4>2. CASE c.work = "rollback"
        BY <1>2, <4>2 DEF Fits, NothingToLose, TookOnly
      <4>3. CASE c.work = "drop"
        BY <1>2, <4>3 DEF Fits, LeaseShape
      <4>4. CASE c.work = "pull" /\ (Status.modified \/ Status.merge)
        <5>1. file.kind = "checkedout" /\ (file.edits # {} => Status.modified)
          BY <2>1, <4>4 DEF Status
        <5>2. c.how \in {"abort", "discard"}
          BY <1>2, <4>4 DEF Fits, Shape, LeaseShape
        <5>3. ~(Status.modified /\ c.how = "abort")
          BY <1>1, <1>6, <4>4 DEF CanWork
        <5> QED
          BY <5>1, <5>2, <5>3
      <4> QED
        BY <1>1, <2>2, <4>1, <4>2, <4>3, <4>4 DEF DropsCheckout
    <3> QED
      BY <1>3, <1>4, <3>1, <3>2 DEF Keeps, Everywhere
  <2>3. CASE ~DropsCheckout /\ c.work \in {"checkin", "add"}
    <3>1. /\ repo'.edits = repo.edits \union file.edits /\ kept' = kept
      BY <1>1, <1>6, <2>3 DEF Works
    <3> QED
      BY <1>4, <3>1 DEF Keeps, Everywhere
  <2>4. CASE ~DropsCheckout /\ c.work = "unhijack"
    BY <1>2, <1>3, <2>4 DEF Fits, LeaseShape
  <2>5. CASE ~DropsCheckout /\ c.work \notin {"checkin", "add", "unhijack"}
    <3>1. UNCHANGED <<repo, file, kept>>
      BY <1>1, <1>6, <2>5 DEF Works
    <3> QED
      BY <1>5, <3>1
  <2> QED
    BY <2>2, <2>3, <2>4, <2>5
<1> QED
  BY <1>5, <1>6 DEF LeaseWorks

LEMMA CloseLosesDiscarded ==
  ASSUME SyncIInv, CloseSession
  PROVE  Keeps \/ call'.how = "discard"
<1>1. call.pc = "begin" /\ call.op = "close" /\ UNCHANGED repo
  BY DEF CloseSession, Outside
<1>2. /\ call \in CallType /\ session # None /\ session \in SessionType /\ SyncTypeOK
  BY <1>1, BeginsFacts DEF LoadedAt, SyncTypeOK
<1> DEFINE path == session.path
           saves == call.how # "discard" /\ session.unsaved # {}
           saved == IF saves THEN session.unsaved ELSE {}
<1>3. CASE UNCHANGED <<session, file, kept>>
  BY <1>1, <1>3 DEF Keeps, Everywhere
<1>4. CASE /\ session' = None
           /\ file' = [file EXCEPT !.edits = IF path = "orig" THEN @ \union saved ELSE @, !.lags = FALSE]
           /\ kept' = IF path = "keep" THEN kept \union saved ELSE kept
           /\ call' = Reply(call, "ok")
  <2>1. call'.how = call.how
    BY <1>2, <1>4 DEF Reply, CallType
  <2>2. file'.edits = IF path = "orig" THEN file.edits \union saved ELSE file.edits
    BY <1>2, <1>4 DEF SyncTypeOK, FileType
  <2>3. path = "orig" \/ path = "keep"
    BY <1>2 DEF SessionType, Paths
  <2> QED
    BY <1>1, <1>4, <2>1, <2>2, <2>3 DEF Keeps, Everywhere
<1> QED
  BY <1>3, <1>4 DEF CloseSession

LEMMA StepsLoseDiscarded ==
  ASSUME SyncIInv, [Next]_vars
  PROVE  Keeps \/ call'.how = "discard"
<1>1. SyncTypeOK
  BY DEF SyncIInv
<1>2. ASSUME UNCHANGED <<repo, kept, session>>, file'.edits = file.edits
      PROVE  Keeps
  BY <1>2 DEF Keeps, Everywhere
<1>3. ASSUME UNCHANGED <<repo, file, kept>>, session = None
      PROVE  Keeps
  BY <1>3 DEF Keeps, Everywhere
<1>4. CASE Requests
  BY <1>2, <1>4 DEF Requests, Begin
<1>5. CASE BeginFails \/ RereadFails \/ RecheckFails \/ PostFails
  BY <1>2, <1>5 DEF BeginFails, RereadFails, RecheckFails, PostFails, ReadFails, AllFiles
<1>6. CASE LeaseSaves
  <2>1. CASE Saves
    BY <1>1, <1>6, <2>1, SavesLoseNothing DEF LeaseSaves, Outside, Loaded, LoadedAt
  <2> QED
    BY <1>2, <1>6, <2>1 DEF LeaseSaves, Outside
<1>7. CASE LeaseReopens
  <2>1. session = None
    BY <1>7 DEF LeaseReopens, SyncIInv, Fits, Places
  <2> QED
    BY <1>3, <1>7, <2>1 DEF LeaseReopens, AllFiles
<1>8. CASE BeginCheckout \/ BeginAdd \/ BeginUndo \/ BeginPull \/ BeginCommit \/ CommitRechecks
  BY <1>2, <1>8 DEF BeginCheckout, BeginAdd, BeginUndo, BeginPull, BeginCommit, CommitRechecks, Goes, AllFiles
<1>9. CASE Posted \/ RolledBack \/ AlreadyCheckedOut \/ BeginEdit
  BY <1>2, <1>9 DEF Posted, RolledBack, AlreadyCheckedOut, BeginEdit, Goes, AllFiles
<1>10. CASE Checkout
  <2>1. file'.edits = file.edits
    BY <1>1, <1>10 DEF Checkout, SyncTypeOK, FileType
  <2> QED
    BY <1>2, <1>10, <2>1 DEF Checkout
<1>11. CASE CommitSaves
  <2>1. CASE Saves /\ Changed
    BY <1>1, <1>11, <2>1, SavesLoseNothing DEF CommitSaves, Outside, Changed, Loaded, LoadedAt
  <2> QED
    BY <1>2, <1>11, <2>1 DEF CommitSaves, Outside
<1>12. CASE Edit
  <2>1. UNCHANGED <<repo, file, kept>> /\ (session' = session \/ session' = [session EXCEPT !.unsaved = @ \union {call.edit}])
    BY <1>12 DEF Edit, AllFiles
  <2>2. session # None /\ session \in SessionType /\ call.edit \in Edits
    BY <1>1, <1>12 DEF Edit, SyncIInv, Fits, Places, Shape, LoadedAt, SyncTypeOK
  <2>3. session' # None /\ session.unsaved \subseteq session'.unsaved
    <3>1. session' \in SessionType /\ session.unsaved \subseteq session'.unsaved
      BY <2>1, <2>2 DEF SessionType
    <3> QED
      BY <3>1, WorldsAssumption
  <2> QED
    BY <2>1, <2>2, <2>3 DEF Keeps, Everywhere
<1>13. CASE SaveProgram
  <2>1. session # None
    BY <1>13, BeginsFacts DEF SaveProgram, LoadedAt
  <2>2. CASE Saves
    BY <1>1, <1>13, <2>1, <2>2, SavesLoseNothing DEF SaveProgram, Outside
  <2> QED
    BY <1>2, <1>13, <2>2 DEF SaveProgram, Outside
<1>14. CASE LoadProgram
  BY <1>3, <1>14 DEF LoadProgram, AllFiles
<1>15. CASE PeerCommits
  <2>1. repo'.edits = repo.edits
    BY <1>1, <1>15 DEF PeerCommits, SyncTypeOK, RepoType
  <2> QED
    BY <1>15, <2>1 DEF PeerCommits, Keeps, Everywhere
<1>16. CASE PeerTerminates
  <2>1. file'.edits = file.edits
    BY <1>1, <1>16 DEF PeerTerminates, SyncTypeOK, FileType
  <2> QED
    BY <1>2, <1>16, <2>1 DEF PeerTerminates
<1>17. CASE UNCHANGED vars
  BY <1>2, <1>17 DEF vars
<1> QED
  BY <1>4, <1>5, <1>6, <1>7, <1>8, <1>9, <1>10, <1>11, <1>12, <1>13, <1>14, <1>15, <1>16, <1>17,
     LeaseCloseLosesDiscarded, WorkLosesDiscarded, CloseLosesDiscarded DEF Next

\* Only a call that was told to discard gives an edit up, at every step: the lease
\* closes without saving only what has no edits (program_lease.py), an undone checkout
\* keeps or had none (undo_checkout_project_program, _pull_operation), a save moves
\* them to the file.
THEOREM EditsSurvive ==
  ASSUME Careful
  PROVE  Spec => OnlyDiscardLoses
<1>1. SyncIInv /\ [Next]_vars => [Everywhere \subseteq Everywhere' \/ call'.how = "discard"]_vars
  BY StepsLoseDiscarded DEF Keeps
<1> QED
  BY <1>1, SyncInductive, PTL DEF Spec, OnlyDiscardLoses
=============================================================================
