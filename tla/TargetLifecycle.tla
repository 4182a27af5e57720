--------------------------- MODULE TargetLifecycle ---------------------------
(***************************************************************************)
(* Targets of the runtime: runtime/target_lifecycle.py, session_store.py,   *)
(* sync_reopen.py, sync_locking.py, core_execution.py and program_lease.py. *)
(*                                                                         *)
(* A target has a project, a session on a program of that project, and a    *)
(* context that commands run in.  Calls create, load, reload, close, import,*)
(* synchronise and command targets.  Each takes the locks it takes in the   *)
(* code: the service's lock of the target's name (not for commands), the    *)
(* target's lock object, which a call may remove and another replace, and   *)
(* the project's lock.  A lock is held from its acquisition to the end of   *)
(* the call.  The service's project lock, which excludes nothing that the   *)
(* runtime's does not, and the shared barriers are left out.                *)
(*                                                                         *)
(* Sessions, project handles and lock objects are identities; one that      *)
(* nothing refers to any more stands for the next new object.               *)
(***************************************************************************)
EXTENDS FiniteSets, Integers

CONSTANTS Targets, Projects, Programs, Calls, None,
          Ops,                              \* what clients ask for
          SessionIds, HandleIds, LockIds,   \* bounds on objects referred to at once
          MaxFaults                         \* bound on the Ghidra calls that fail

ASSUME IdentitiesAssumption ==
  /\ None \notin Targets /\ None \notin Projects /\ None \notin Programs
  /\ None \notin SessionIds /\ None \notin HandleIds /\ None \notin LockIds
  /\ MaxFaults \in Nat

VARIABLES
  handles,    \* the project each handle has open, or None
  sessions,   \* the program each session has open, or Closed
  registry,   \* the store's tables: sessions, locks, projects and handles
  context,    \* the session each target's command context was initialised with
  call,       \* the calls in progress
  faults      \* Ghidra calls that failed so far

vars == <<handles, sessions, registry, context, call, faults>>

Closed == [handle |-> None, prog |-> None, for |-> None]

\* op and target: the call.  on: the target whose program it reopens.  want: the
\* project it was asked for.  key and lock: the locks it resolved.  old and new:
\* the target's session before and after.  was and made: the binding a failed
\* create puts back, and whether it made the lock object.
Idle == [op |-> "none", pc |-> "idle", target |-> None, on |-> None, prog |-> None,
         want |-> None, key |-> None, lock |-> None, handle |-> None, seen |-> None,
         old |-> None, new |-> None, was |-> None, made |-> FALSE]

Init ==
  /\ handles = [h \in HandleIds |-> None]
  /\ sessions = [s \in SessionIds |-> Closed]
  /\ registry = [sessions |-> [t \in Targets |-> None], locks |-> [t \in Targets |-> None],
                 projects |-> [t \in Targets |-> None], handles |-> [k \in Projects |-> None]]
  /\ context = [t \in Targets |-> None]
  /\ call = [c \in Calls |-> Idle]
  /\ faults = 0

Open(s) == s # None /\ sessions[s] # Closed
Key(s) == handles[sessions[s].handle]
Installed(t) == registry.sessions[t]

Referred(field) == {call[c][field] : c \in Calls}
FreshSession(s) ==
  /\ ~Open(s)
  /\ s \notin Referred("old") \union Referred("new")
  /\ \A t \in Targets : s # Installed(t) /\ s # context[t]
FreshHandle(h) ==
  /\ handles[h] = None
  /\ h \notin Referred("handle") \union Referred("seen")
  /\ \A k \in Projects : registry.handles[k] # h
FreshLock(l) == l \notin Referred("lock") /\ \A t \in Targets : registry.locks[t] # l
SomeSession == CHOOSE s \in SessionIds : FreshSession(s)
SomeHandle == CHOOSE h \in HandleIds : FreshHandle(h)
SomeLock == CHOOSE l \in LockIds : FreshLock(l)

LockOf(t) == IF registry.locks[t] = None THEN SomeLock ELSE registry.locks[t]

-----------------------------------------------------------------------------
(* Locks                                                                   *)

Outside == {"idle", "admitted", "resolve", "enter"}
Inside(c) == call[c].pc \notin Outside
HoldsName(c) == call[c].op # "command" /\ call[c].pc \notin {"idle", "admitted"}
HoldsProject(c) == Inside(c) /\ call[c].op # "sync"

NameIsFree(t) == \A c \in Calls : HoldsName(c) => call[c].target # t
LockIsFree(l) == \A c \in Calls : Inside(c) => call[c].lock # l
ProjectIsFree(k) == \A c \in Calls : HoldsProject(c) => call[c].key # k

-----------------------------------------------------------------------------
(* How steps change the calls and the tables                               *)

Becomes(c, r) == call' = [call EXCEPT ![c] = r]
Goto(c, pc) == Becomes(c, [call[c] EXCEPT !.pc = pc])
End(c) == Becomes(c, Idle)
Fault == faults < MaxFaults /\ faults' = faults + 1
NoFault == UNCHANGED faults
WorkTarget(c) == IF call[c].on = None THEN call[c].target ELSE call[c].on
Leases(c) == call[c].on # None

\* A session is closed, and with the last one of its project, the project; its
\* handle stays registered until the caller removes it.
Users(h) == {s \in SessionIds : sessions[s].handle = h}
SessionCloses(s) ==
  /\ sessions' = [sessions EXCEPT ![s] = Closed]
  /\ handles' = IF Users(sessions[s].handle) = {s}
                THEN [handles EXCEPT ![sessions[s].handle] = None] ELSE handles

\* Mutant: the handle of the project leaves the table, whoever's it is now.
WithoutAnyHandle(table, k, h) == [table EXCEPT ![k] = None]

\* A closed handle leaves the table if it is still the registered one.
WithoutClosed(table, k, h) == IF handles[h] = None /\ table[k] = h THEN [table EXCEPT ![k] = None] ELSE table

\* What a call does when a step of it failed: what it opened is closed again, a
\* target whose program it had closed is given up.
Fail(c) ==
  CASE call[c].op = "create" -> Goto(c, "rollback")
    [] Leases(c) -> Goto(c, IF call[c].new = None THEN "cleanup" ELSE "rollback")
    [] call[c].op = "load" /\ call[c].new # None -> Goto(c, "rollback")
    [] OTHER -> End(c)

-----------------------------------------------------------------------------
(* Requests and their locks                                                *)

\* A service call has the lock of its target's name when it starts.
Request(c, op, t, p, k) ==
  /\ call[c] = Idle /\ op \in Ops
  /\ op # "command" => NameIsFree(t)
  /\ Becomes(c, [Idle EXCEPT !.op = op, !.pc = "resolve", !.target = t, !.prog = p, !.want = k])
  /\ UNCHANGED <<handles, sessions, registry, context, faults>>

\* An import is accepted for the project its target has now and runs later.
AdmitImport(c, t) ==
  /\ call[c] = Idle /\ "import" \in Ops
  /\ registry.projects[t] # None
  /\ Becomes(c, [Idle EXCEPT !.op = "import", !.pc = "admitted", !.target = t, !.want = registry.projects[t]])
  /\ UNCHANGED <<handles, sessions, registry, context, faults>>

StartImport(c) ==
  /\ call[c].pc = "admitted"
  /\ NameIsFree(call[c].target)
  /\ Goto(c, "resolve")
  /\ UNCHANGED <<handles, sessions, registry, context, faults>>

\* The registry section before the locks: which lock objects to take.
Resolve(c) ==
  LET t == call[c].target
      binds == call[c].op \in {"create", "register"}
      refused == \/ call[c].op = "create" /\ Installed(t) # None
                 \/ call[c].op = "command" /\ Installed(t) = None
                 \/ ~binds /\ (registry.locks[t] = None \/ registry.projects[t] = None)
  IN /\ call[c].pc = "resolve"
     /\ registry.locks[t] = None => \E l \in LockIds : FreshLock(l)
     /\ IF refused THEN End(c) /\ UNCHANGED registry
        ELSE /\ registry' = [registry EXCEPT !.locks[t] = LockOf(t)]
             /\ Becomes(c, [call[c] EXCEPT !.pc = "enter",
                  !.lock = LockOf(t),
                  !.made = registry.locks[t] = None,
                  !.key = IF binds THEN call[c].want ELSE registry.projects[t],
                  !.old = IF call[c].op = "command" THEN Installed(t) ELSE None])
     /\ UNCHANGED <<handles, sessions, context, faults>>

\* A lock was not free in time.
GiveUp(c) ==
  /\ call[c].pc \in {"enter", "join"}
  /\ End(c)
  /\ UNCHANGED <<handles, sessions, registry, context, faults>>

\* Mutant: a command asks for its project only.
SameProject(c) == registry.projects[call[c].target] = call[c].key

\* The session that a command resolved is still its target's.
SameSession(c) ==
  /\ Installed(call[c].target) = call[c].old
  /\ registry.projects[call[c].target] = call[c].key

\* The check under the locks of what was resolved before them.
StillMine(c) ==
  LET t == call[c].target
      s == Installed(t)
  IN CASE call[c].op = "command" -> SameSession(c)
       [] call[c].op = "import" -> /\ registry.locks[t] = call[c].lock
                                   /\ registry.projects[t] = call[c].want
                                   /\ call[c].key = call[c].want
       [] call[c].op = "create" -> s = None
       [] call[c].op = "register" -> s = None \/ (Open(s) /\ Key(s) = call[c].key)
       [] OTHER -> TRUE

\* A command may reopen its program first, to see the repository's state.
Start(c) ==
  CASE call[c].op = "command" -> {"running", "close"}
    [] call[c].op \in {"close", "remove"} -> {"close"}
    [] OTHER -> {"handle"}

Bound(c) ==
  LET t == call[c].target
  IN CASE call[c].op = "create" -> [registry EXCEPT !.projects[t] = call[c].key]
       [] call[c].op = "register" ->
            [registry EXCEPT !.projects[t] = call[c].key,
                             !.locks[t] = IF @ = None THEN call[c].lock ELSE @]
       [] OTHER -> registry

Enter(c) ==
  /\ call[c].pc = "enter"
  /\ LockIsFree(call[c].lock)
  /\ call[c].op # "sync" => ProjectIsFree(call[c].key)
  /\ registry' = IF StillMine(c) THEN Bound(c) ELSE registry
  /\ IF ~StillMine(c) \/ call[c].op = "register" THEN End(c)
     ELSE \E pc \in Start(c) :
            Becomes(c, [call[c] EXCEPT !.pc = pc,
                          !.on = IF call[c].op = "command" /\ pc = "close" THEN call[c].target ELSE None,
                          !.was = registry.projects[call[c].target]])
  /\ UNCHANGED <<handles, sessions, context, faults>>

-----------------------------------------------------------------------------
(* get_target_handle and get_or_create_project_handle                      *)

\* What follows once the call has its handle.
AfterHandle(c) ==
  CASE Leases(c) \/ call[c].op = "create" -> "open"
    [] call[c].op = "import" -> "running"
    [] call[c].op = "sync" -> "join"
    [] OTHER -> "choose"

GetHandle(c) ==
  LET t == call[c].target
      ofTarget == ~Leases(c) /\ call[c].op # "create"
      seen == registry.handles[call[c].key]
      has(h) == Becomes(c, [call[c] EXCEPT !.pc = AfterHandle(c), !.handle = h])
  IN /\ call[c].pc = "handle"
     /\ CASE ofTarget /\ Installed(t) # None ->
               IF Open(Installed(t)) THEN has(sessions[Installed(t)].handle) ELSE End(c)
          [] ofTarget /\ Installed(t) = None /\ registry.projects[t] = None -> End(c)
          [] OTHER ->
               IF seen # None /\ handles[seen] # None THEN has(seen)
               ELSE Becomes(c, [call[c] EXCEPT !.pc = "project", !.seen = seen])
     /\ UNCHANGED <<handles, sessions, registry, context, faults>>

\* Ghidra locks a project while it is open: it cannot be opened a second time.
OpenProject(c) ==
  LET taken == \E h \in HandleIds : handles[h] = call[c].key
  IN /\ call[c].pc = "project"
     /\ \/ /\ ~taken /\ \E h \in HandleIds : FreshHandle(h)
           /\ handles' = [handles EXCEPT ![SomeHandle] = call[c].key]
           /\ Becomes(c, [call[c] EXCEPT !.pc = "publish", !.handle = SomeHandle])
           /\ NoFault
        \/ /\ IF taken THEN NoFault ELSE Fault
           /\ Fail(c)
           /\ UNCHANGED handles
     /\ UNCHANGED <<sessions, registry, context>>

\* The new handle replaces the one that was seen, or any that is closed.
Publish(c) ==
  LET current == registry.handles[call[c].key]
  IN /\ call[c].pc = "publish"
     /\ current # None => handles[current] = None
     /\ registry' = [registry EXCEPT !.handles[call[c].key] = call[c].handle]
     /\ Becomes(c, [call[c] EXCEPT !.pc = AfterHandle(c), !.seen = None])
     /\ UNCHANGED <<handles, sessions, context, faults>>

-----------------------------------------------------------------------------
(* Opening a program for a target                                          *)

\* A synchronisation takes the project's lock when it knows the handle, and then
\* asks for the handle again.
Join(c) ==
  /\ call[c].pc = "join"
  /\ ProjectIsFree(call[c].key)
  /\ Becomes(c, [call[c] EXCEPT !.op = "synced", !.pc = "handle", !.handle = None])
  /\ UNCHANGED <<handles, sessions, registry, context, faults>>

Holders(c) == {u \in Targets : Open(Installed(u)) /\ Key(Installed(u)) = call[c].key
                                /\ sessions[Installed(u)].prog = call[c].prog}

\* load_program and a synchronisation look for the target that has the program.
Choose(c) ==
  LET t == call[c].target
      reopen(u) == Becomes(c, [call[c] EXCEPT !.pc = "close", !.on = u])
  IN /\ call[c].pc = "choose"
     /\ IF call[c].op = "load"
        THEN CASE t \in Holders(c) -> reopen(t)
               [] t \notin Holders(c) /\ Holders(c) # {} -> End(c)
               [] OTHER -> Becomes(c, [call[c] EXCEPT !.pc = "open", !.old = Installed(t)])
        ELSE End(c) \/ \E u \in Holders(c) : reopen(u)
     /\ UNCHANGED <<handles, sessions, registry, context, faults>>

\* ProjectHandle.open_program.
OpenProgram(c) ==
  LET h == call[c].handle
      refused == handles[h] = None \/ \E s \in Users(h) : sessions[s].prog = call[c].prog
  IN /\ call[c].pc = "open"
     /\ \/ /\ ~refused /\ \E s \in SessionIds : FreshSession(s)
           /\ sessions' = [sessions EXCEPT ![SomeSession] =
                [handle |-> h, prog |-> call[c].prog, for |-> WorkTarget(c)]]
           /\ Becomes(c, [call[c] EXCEPT !.pc = "init", !.new = SomeSession])
           /\ NoFault
        \/ /\ IF refused THEN NoFault ELSE Fault
           /\ Fail(c)
           /\ UNCHANGED sessions
     /\ UNCHANGED <<handles, registry, context>>

\* core.initialize, and what a create or a load reads of the session after it.
InitContext(c) ==
  LET set == [context EXCEPT ![WorkTarget(c)] = call[c].new]
  IN /\ call[c].pc = "init"
     /\ \/ /\ context' = set
           /\ Goto(c, IF call[c].op = "load" /\ ~Leases(c) THEN "swap" ELSE "install")
           /\ NoFault
        \/ /\ Fault
           /\ Fail(c)
           /\ context' \in {context} \union IF Leases(c) THEN {} ELSE {set}
     /\ UNCHANGED <<handles, sessions, registry>>

\* load_program closes the old session before it installs the new one.
Swap(c) ==
  LET t == call[c].target
  IN /\ call[c].pc = "swap"
     /\ registry' = [registry EXCEPT !.locks[t] = IF @ = None THEN call[c].lock ELSE @,
                                     !.projects[t] = call[c].key]
     /\ \/ /\ IF call[c].old = None THEN UNCHANGED <<sessions, handles>> ELSE SessionCloses(call[c].old)
           /\ Goto(c, "install")
           /\ NoFault
        \/ /\ call[c].old # None
           /\ Fault
           /\ Fail(c)
           /\ UNCHANGED <<sessions, handles>>
     /\ UNCHANGED context

Install(c) ==
  /\ call[c].pc = "install"
  /\ registry' = [registry EXCEPT !.sessions[WorkTarget(c)] = call[c].new]
  /\ CASE call[c].op = "create" -> Goto(c, "validate")
       [] call[c].op = "command" ->
            Becomes(c, [call[c] EXCEPT !.pc = "running", !.on = None, !.old = call[c].new, !.new = None])
       [] OTHER -> End(c)
  /\ UNCHANGED <<handles, sessions, context, faults>>

\* The caller of create_session may refuse the program it got.
Validate(c) ==
  /\ call[c].pc = "validate"
  /\ \/ End(c) /\ UNCHANGED registry
     \/ /\ registry' = [registry EXCEPT !.sessions[call[c].target] = None]
        /\ Fail(c)
  /\ UNCHANGED <<handles, sessions, context, faults>>

\* A command or an import ends.
Finish(c) ==
  /\ call[c].pc = "running"
  /\ End(c)
  /\ UNCHANGED <<handles, sessions, registry, context, faults>>

-----------------------------------------------------------------------------
(* Rolling back                                                            *)

\* No installed session keeps a project open: a rollback closes it by force.
InUse(h) == \E t \in Targets : Open(Installed(t)) /\ sessions[Installed(t)].handle = h
ForceClosed(h) ==
  /\ handles' = [handles EXCEPT ![h] = None]
  /\ sessions' = [s \in SessionIds |-> IF s \in Users(h) THEN Closed ELSE sessions[s]]


\* The context after a rollback: the old session's, if it is still there.  A create
\* that opened no session leaves the context alone.
RestoredContext(c) ==
  CASE call[c].new = None -> context[call[c].target]
    [] call[c].new # None /\ call[c].old = None -> None
    [] OTHER -> call[c].old

\* create_session and load_program close the session they opened; a project that
\* nobody uses closes with it.  At most one Ghidra call of a rollback fails.
RollBack(c) ==
  LET h == call[c].handle
      new == call[c].new
      forced == call[c].old = None /\ h # None /\ ~InUse(h)
      restores == context' = [context EXCEPT ![call[c].target] = RestoredContext(c)]
      closes == CASE forced -> ForceClosed(h)
                  [] new # None /\ ~forced -> SessionCloses(new)
                  [] OTHER -> UNCHANGED <<sessions, handles>>
  IN /\ call[c].pc = "rollback" /\ ~Leases(c)
     /\ \/ closes /\ restores /\ (NoFault \/ (forced /\ new # None /\ Fault))
        \/ call[c].old # None /\ closes /\ Fault /\ UNCHANGED context
        \* The project does not close.
        \/ /\ forced /\ Fault /\ restores
           /\ sessions' = [s \in SessionIds |-> IF s = new THEN Closed ELSE sessions[s]]
           /\ UNCHANGED handles
        \* The new session does not close.
        \/ ~forced /\ new # None /\ Fault /\ restores /\ UNCHANGED <<sessions, handles>>
     /\ Goto(c, "forget")
     /\ UNCHANGED registry

\* The reopened session of a lease is closed, or else kept as the target's.
RollBackReopen(c) ==
  /\ call[c].pc = "rollback" /\ Leases(c)
  /\ \/ /\ SessionCloses(call[c].new)
        /\ Goto(c, "cleanup")
        /\ NoFault
        /\ UNCHANGED registry
     \/ /\ Fault
        /\ registry' = [registry EXCEPT !.sessions[WorkTarget(c)] = call[c].new]
        /\ End(c)
        /\ UNCHANGED <<sessions, handles>>
  /\ UNCHANGED context

\* A target whose program could not be opened again is given up; its lock stays
\* if this call holds another's.  A failed removal keeps the binding.
Cleanup(c) ==
  LET x == WorkTarget(c)
      keepsLock == call[c].op = "restore" \/ x # call[c].target
  IN /\ call[c].pc = "cleanup"
     /\ registry' = [registry EXCEPT
          !.sessions[x] = None,
          !.locks[x] = IF keepsLock THEN @ ELSE None,
          !.projects[x] = IF call[c].op = "restore" THEN @ ELSE None,
          !.handles = IF call[c].handle = None THEN @ ELSE WithoutClosed(@, call[c].key, call[c].handle)]
     /\ Goto(c, "uncontext")
     /\ UNCHANGED <<handles, sessions, context, faults>>

RemoveContext(c) ==
  /\ call[c].pc = "uncontext"
  /\ context' = [context EXCEPT ![WorkTarget(c)] = None]
  /\ End(c)
  /\ UNCHANGED <<handles, sessions, registry, faults>>

-----------------------------------------------------------------------------
(* Closing a program: close_session, and the first half of a reopen        *)

Close(c) ==
  LET x == WorkTarget(c)
      s == Installed(x)
      h == sessions[s].handle
      goto(pc) == Becomes(c, [call[c] EXCEPT !.pc = pc, !.handle = h, !.prog = sessions[s].prog])
      released == sessions' = [sessions EXCEPT ![s] = Closed]
  IN /\ call[c].pc = "close"
     /\ \/ ~Open(s) /\ End(c) /\ NoFault /\ UNCHANGED <<sessions, handles, registry>>
        \/ Open(s) /\ SessionCloses(s) /\ goto("forget") /\ NoFault /\ UNCHANGED registry
        \* Nothing was released.
        \/ Open(s) /\ Fault /\ End(c) /\ UNCHANGED <<sessions, handles, registry>>
        \* The program was released, its project did not close.
        \/ /\ Open(s) /\ Users(h) = {s}
           /\ Fault /\ released
           /\ goto(IF Leases(c) THEN "cleanup" ELSE "forget")
           /\ UNCHANGED <<handles, registry>>
        \* The program was released but not deleted: the target gets it back.
        \/ /\ Open(s) /\ call[c].op = "remove"
           /\ Fault /\ released
           /\ registry' = [registry EXCEPT !.sessions[x] = None, !.projects[x] = call[c].key,
                                           !.locks[x] = IF @ = None THEN call[c].lock ELSE @]
           /\ Becomes(c, [call[c] EXCEPT !.op = "restore", !.pc = "handle", !.on = x,
                                   !.prog = sessions[s].prog])
           /\ UNCHANGED handles
     /\ UNCHANGED context

\* The closed project leaves the table, in a section of its own.  A failed create
\* puts the target's binding back, too.
Forget(c) ==
  LET t == call[c].target
      table == IF call[c].handle = None THEN registry.handles
               ELSE WithoutClosed(registry.handles, call[c].key, call[c].handle)
  IN /\ call[c].pc = "forget"
     /\ registry' = IF call[c].op # "create" THEN [registry EXCEPT !.handles = table]
                    ELSE [registry EXCEPT !.handles = table, !.projects[t] = call[c].was,
                                          !.locks[t] = IF call[c].made THEN None ELSE @]
     /\ CASE Leases(c) -> Goto(c, "handle")
          [] call[c].op \in {"close", "remove"} -> Goto(c, "drop")
          [] OTHER -> End(c)
     /\ UNCHANGED <<handles, sessions, context, faults>>

\* close_session takes the session off the target, and with remove_program all of it.
Drop(c) ==
  LET t == call[c].target
      all == call[c].op = "remove"
  IN /\ call[c].pc = "drop"
     /\ registry' = [registry EXCEPT !.sessions[t] = None,
          !.projects[t] = IF all THEN None ELSE call[c].key,
          !.locks[t] = IF all THEN None ELSE IF @ = None THEN call[c].lock ELSE @]
     /\ Goto(c, "uncontext")
     /\ UNCHANGED <<handles, sessions, context, faults>>

-----------------------------------------------------------------------------
Ask(c, t) ==
  \/ \E p \in Programs, k \in Projects : Request(c, "create", t, p, k)
  \/ \E k \in Projects : Request(c, "register", t, None, k)
  \/ \E op \in {"load", "sync"}, p \in Programs : Request(c, op, t, p, None)
  \/ \E op \in {"close", "remove", "command"} : Request(c, op, t, None, None)
  \/ AdmitImport(c, t)

Step(c) ==
  \/ StartImport(c) \/ Resolve(c) \/ Enter(c) \/ GiveUp(c) \/ Finish(c)
  \/ GetHandle(c) \/ OpenProject(c) \/ Publish(c) \/ Join(c) \/ Choose(c)
  \/ OpenProgram(c) \/ InitContext(c) \/ Swap(c) \/ Install(c) \/ Validate(c)
  \/ RollBack(c) \/ RollBackReopen(c) \/ Cleanup(c) \/ RemoveContext(c)
  \/ Close(c) \/ Forget(c) \/ Drop(c)

Next == \E c \in Calls : Step(c) \/ \E t \in Targets : Ask(c, t)

Spec == Init /\ [][Next]_vars

-----------------------------------------------------------------------------
(* Correctness                                                             *)

Kinds == {"none", "create", "register", "load", "sync", "synced", "close", "remove", "restore", "command", "import"}
Pcs == {"idle", "admitted", "resolve", "enter", "handle", "project", "publish", "join", "choose", "open", "init",
        "swap", "install", "validate", "running", "rollback", "forget", "cleanup", "uncontext", "close", "drop"}
Maybe(S) == S \union {None}

CallType ==
  [op : Kinds, pc : Pcs, target : Maybe(Targets), on : Maybe(Targets), prog : Maybe(Programs),
   want : Maybe(Projects), key : Maybe(Projects), lock : Maybe(LockIds), handle : Maybe(HandleIds),
   seen : Maybe(HandleIds), old : Maybe(SessionIds), new : Maybe(SessionIds), was : Maybe(Projects),
   made : BOOLEAN]

RegistryType ==
  [sessions : [Targets -> Maybe(SessionIds)], locks : [Targets -> Maybe(LockIds)],
   projects : [Targets -> Maybe(Projects)], handles : [Projects -> Maybe(HandleIds)]]

TypeOK ==
  /\ handles \in [HandleIds -> Maybe(Projects)]
  /\ sessions \in [SessionIds -> [handle : HandleIds, prog : Programs, for : Targets] \union {Closed}]
  /\ registry \in RegistryType
  /\ context \in [Targets -> Maybe(SessionIds)]
  /\ call \in [Calls -> CallType]
  /\ faults \in 0 .. MaxFaults

\* An open project is always reachable: its handle is registered, or about to be
\* by the call that opened it.  A lost one would keep the project locked until
\* the server stops.
NoLostProject ==
  \A h \in HandleIds : handles[h] # None =>
    registry.handles[handles[h]] = h \/ \E c \in Calls : call[c].pc = "publish" /\ call[c].handle = h

\* A target that no call works on has no session, or one with an open program, its
\* project, that project's registered handle, and a lock, whatever failed before.
AtRest(t) == \A c \in Calls : Inside(c) => WorkTarget(c) # t
Served(t) ==
  LET s == Installed(t)
  IN /\ Open(s)
     /\ registry.projects[t] = Key(s)
     /\ registry.handles[Key(s)] = sessions[s].handle
     /\ registry.locks[t] # None
SessionsAreServed == \A t \in Targets : AtRest(t) /\ Installed(t) # None => Served(t)

\* What the tables say of projects and sessions holds whichever Ghidra calls fail,
\* those of a rollback included.
RuntimeInvariant == TypeOK /\ NoLostProject /\ SessionsAreServed

\* A command runs on the open program of its target, and an import in the open
\* project it was accepted for, however often the target was closed, removed and
\* created again while they waited.
KeepsItsSession(c) == Open(call[c].old) /\ Installed(call[c].target) = call[c].old
KeepsItsProject(c) ==
  /\ handles[call[c].handle] = call[c].want
  /\ registry.handles[call[c].want] = call[c].handle
  /\ registry.projects[call[c].target] = call[c].want
WorkKeepsItsSession ==
  \A c \in Calls : call[c].pc = "running" =>
    IF call[c].op = "command" THEN KeepsItsSession(c) ELSE KeepsItsProject(c)

\* "Its cleanup must not remove the replacement session's context": the session of
\* a target that no call works on has its context.  (session_store.py, cleanup of a
\* detached session.)
SessionsHaveTheirContext ==
  \A t \in Targets : (AtRest(t) /\ Installed(t) # None) => context[t] = Installed(t)
=============================================================================
