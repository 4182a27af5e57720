------------------------ MODULE TargetLifecycleProofs ------------------------
(***************************************************************************)
(* Proofs about TargetLifecycle: what the store's tables say of targets,    *)
(* projects and sessions, and the session or project that running work has. *)
(*                                                                         *)
(* The inductive invariant says what every call knows of its target by the  *)
(* place it has reached (Fits), that two calls never work on one target or  *)
(* project (Exclusion), and that a target whose program is closed has a     *)
(* call that opens it again or gives it up (ClosedAreReopened).  Most steps *)
(* stay within the call's own target and project: OwnStep proves once that  *)
(* such a step disturbs no other call.                                      *)
(***************************************************************************)
EXTENDS TargetLifecycle, TLAPS

-----------------------------------------------------------------------------
(* The inductive invariant                                                 *)

\* What a call holds by the place it has reached.
Shape(r) ==
  /\ r.pc = "idle" => r = Idle
  /\ r.pc # "idle" => r.target \in Targets /\ r.op # "none"
  /\ r.pc \notin {"idle", "admitted", "resolve"} => r.key \in Projects /\ r.lock \in LockIds
  /\ r.pc \in {"admitted", "resolve", "enter"} =>
       r.op \notin {"synced", "restore"} /\ r.on = None /\ r.handle = None
  /\ r.pc = "admitted" => r.op = "import"
  /\ r.pc = "resolve" /\ r.op \in {"create", "register"} => r.want \in Projects
  /\ r.pc \in {"admitted", "resolve", "enter", "handle", "project", "publish", "join", "choose", "open", "close"} =>
       r.new = None
  /\ r.pc = "enter" /\ r.op = "command" => r.old # None
  /\ r.pc \in {"init", "swap", "install", "validate"} => r.new # None
  /\ r.pc \in {"publish", "join", "choose", "open"} \/ (r.op = "import" /\ r.pc = "running") => r.handle # None
  /\ r.pc = "rollback" /\ r.op # "create" => r.new # None
  /\ r.pc = "forget" /\ r.on # None => r.new = None
  /\ r.pc \notin {"idle", "admitted", "resolve", "enter"} /\ r.op = "import" => r.key = r.want
  /\ r.op = "create" => r.old = None
  /\ r.op \in {"create", "load"} \/ (r.on # None /\ r.pc # "close") => r.prog \in Programs

\* Which steps belong to which operation, on a target of its own or on a program
\* that it reopens.
Course(r) ==
  /\ r.on # None =>
       /\ r.op \in {"load", "synced", "command", "restore"}
       /\ r.pc \in {"close", "forget", "handle", "project", "publish", "open", "init", "install", "rollback",
                    "cleanup", "uncontext"}
       /\ r.op = "synced" \/ r.on = r.target
  /\ r.on = None /\ r.pc \notin Outside =>
       \/ /\ r.op = "create"
          /\ r.pc \in {"handle", "project", "publish", "open", "init", "install", "validate", "rollback", "forget"}
       \/ /\ r.op = "load"
          /\ r.pc \in {"handle", "project", "publish", "choose", "open", "init", "swap", "install", "rollback", "forget"}
       \/ r.op = "sync" /\ r.pc \in {"handle", "project", "publish", "join"}
       \/ r.op = "synced" /\ r.pc \in {"handle", "project", "publish", "choose"}
       \/ r.op \in {"close", "remove"} /\ r.pc \in {"close", "forget", "drop", "uncontext"}
       \/ r.op = "command" /\ r.pc = "running"
       \/ r.op = "import" /\ r.pc \in {"handle", "project", "publish", "running"}

\* One service call per target name, one call per project.
OneCallPerName ==
  \A c, d \in Calls : HoldsName(c) /\ HoldsName(d) /\ call[c].target = call[d].target => c = d
OneCallPerProject ==
  \A c, d \in Calls : HoldsProject(c) /\ HoldsProject(d) /\ call[c].key = call[d].key => c = d

\* The target a call works on is bound to the project of the call, or, before the
\* call has found out, to none and without a session.
Loose(c) ==
  /\ call[c].on = None
  /\ \/ call[c].op = "sync" /\ call[c].pc \in {"enter", "handle", "project", "publish", "join"}
     \/ call[c].op \in {"load", "close", "remove", "synced"} /\ call[c].pc \in {"enter", "handle", "close"}
Claims(c) == (Inside(c) /\ call[c].pc # "uncontext") \/ (call[c].pc = "enter" /\ Loose(c))
Mine(c) == registry.projects[WorkTarget(c)] = call[c].key
Gone(c) == registry.projects[WorkTarget(c)] = None /\ Installed(WorkTarget(c)) = None
KeyFits(c) == Claims(c) => Mine(c) \/ (Loose(c) /\ Gone(c))

\* A session that a call opened is open in the call's project, and nobody's yet.
NewFits(c) ==
  call[c].pc \in {"init", "swap", "install"} \/ (call[c].pc = "rollback" /\ call[c].new # None) =>
    /\ Open(call[c].new) /\ Key(call[c].new) = call[c].key
    /\ \A u \in Targets : Installed(u) # call[c].new

\* What each operation knows of its target's session.
OwnFits(c) ==
  LET r == call[c]
  IN /\ r.op = "create" /\ r.pc \notin {"idle", "admitted", "resolve", "validate"} =>
          Installed(r.target) = None /\ registry.locks[r.target] # None
     /\ r.pc = "validate" => Installed(r.target) = r.new /\ Open(r.new) /\ Key(r.new) = r.key
     /\ Leases(c) /\ r.pc # "uncontext" =>
          registry.locks[r.on] # None /\ (r.op # "restore" => Installed(r.on) # None)
     /\ r.op = "load" /\ r.on = None /\ r.pc \in {"open", "init", "swap", "rollback"} =>
          r.old = Installed(r.target) /\ (r.old # None => Open(r.old))
     /\ r.op = "load" /\ r.on = None /\ r.pc = "install" => registry.locks[r.target] # None
     /\ r.op = "command" /\ r.pc = "running" => Open(r.old) /\ Installed(r.target) = r.old
     /\ r.op = "import" /\ r.pc = "running" => handles[r.handle] = r.key

\* The handle of a call is of the call's project as long as it is open; one that is
\* to be published is known to that call only.
HandleFits(c) ==
  call[c].handle # None /\ handles[call[c].handle] # None => handles[call[c].handle] = call[c].key
PublishFits(c) ==
  call[c].pc = "publish" =>
    /\ handles[call[c].handle] = call[c].key
    /\ \A s \in SessionIds : sessions[s].handle # call[c].handle
    /\ \A d \in Calls \ {c} : call[d].handle # call[c].handle
    /\ \A k \in Projects : registry.handles[k] # call[c].handle

Fits(c) == KeyFits(c) /\ NewFits(c) /\ OwnFits(c) /\ HandleFits(c) /\ PublishFits(c)

\* The tables.
OneHandlePerProject == \A g, h \in HandleIds : handles[g] # None /\ handles[g] = handles[h] => g = h
RegisteredUnderItsProject ==
  \A k \in Projects : registry.handles[k] # None /\ handles[registry.handles[k]] # None =>
    handles[registry.handles[k]] = k
OpenProgramsHaveProjects == \A s \in SessionIds : sessions[s] # Closed => handles[sessions[s].handle] # None
OneTargetPerSession == \A t, u \in Targets : Installed(t) # None /\ Installed(t) = Installed(u) => t = u
OpenSessionsAreServed == \A t \in Targets : Open(Installed(t)) => Served(t)

\* A target whose program is closed has a call that opens it again or gives it up.
Reopening(c) ==
  \/ call[c].on # None /\ call[c].pc \in {"forget", "handle", "project", "publish", "open", "init", "install",
                                          "rollback", "cleanup"}
  \/ call[c].op \in {"close", "remove"} /\ call[c].pc \in {"forget", "drop"}
  \/ call[c].op = "load" /\ call[c].on = None /\ call[c].pc = "install"
ClosedAreReopened ==
  \A t \in Targets : Installed(t) # None /\ ~Open(Installed(t)) => \E c \in Calls : Reopening(c) /\ WorkTarget(c) = t

Tables ==
  /\ OneHandlePerProject /\ RegisteredUnderItsProject /\ OpenProgramsHaveProjects
  /\ OneTargetPerSession /\ OpenSessionsAreServed
Steps == \A c \in Calls : Shape(call[c]) /\ Course(call[c])
Exclusion == OneCallPerName /\ OneCallPerProject

LifecycleIInv ==
  /\ TypeOK /\ Steps /\ Exclusion /\ (\A c \in Calls : Fits(c))
  /\ Tables /\ NoLostProject /\ ClosedAreReopened


-----------------------------------------------------------------------------
(* Who works where                                                         *)

\* A call that has its project works on a target of that project.
LEMMA ProjectClaims ==
  ASSUME LifecycleIInv, NEW c \in Calls, HoldsProject(c), call[c].pc # "uncontext"
  PROVE  /\ call[c].key \in Projects
         /\ Claims(c)
         /\ Mine(c) \/ (Loose(c) /\ Gone(c))
<1>1. call[c].key \in Projects
  BY DEF LifecycleIInv, Steps, Shape, HoldsProject, Inside, Outside
<1>2. Claims(c)
  BY DEF Claims, HoldsProject
<1> QED
  BY <1>1, <1>2 DEF LifecycleIInv, Fits, KeyFits

\* Two calls with their projects never work on one target.
LEMMA AloneOnTarget ==
  ASSUME LifecycleIInv, NEW c \in Calls, NEW d \in Calls,
         HoldsProject(c), call[c].pc # "uncontext", Mine(c),
         HoldsProject(d), call[d].pc # "uncontext", WorkTarget(d) = WorkTarget(c)
  PROVE  d = c
<1>1. call[c].key \in Projects /\ call[c].key # None
  BY ProjectClaims, IdentitiesAssumption
<1>2. Mine(d)
  BY <1>1, ProjectClaims DEF Mine, Gone
<1>3. call[d].key = call[c].key
  BY <1>2 DEF Mine
<1> QED
  BY <1>3 DEF LifecycleIInv, Exclusion, OneCallPerProject

\* Who works on the target that another call has the name of works on its session.
LEMMA NameOrSession ==
  ASSUME LifecycleIInv, NEW c \in Calls, NEW d \in Calls, c # d,
         HoldsProject(c), call[c].pc # "uncontext",
         HoldsName(d), call[d].target = WorkTarget(c)
  PROVE  Installed(WorkTarget(c)) # None
<1>1. call[c].pc \notin Outside /\ call[c].op # "sync"
  BY DEF HoldsProject, Inside
<1>2. Course(call[c]) /\ Shape(call[c])
  BY DEF LifecycleIInv, Steps
<1>3. OwnFits(c)
  BY DEF LifecycleIInv, Fits
<1>4. CASE call[c].op # "command" /\ WorkTarget(c) = call[c].target
  <2>1. HoldsName(c)
    BY <1>1, <1>4 DEF HoldsName, Outside
  <2> QED
    BY <1>4, <2>1 DEF LifecycleIInv, Exclusion, OneCallPerName
<1>5. CASE Leases(c) /\ call[c].op # "restore"
  BY <1>3, <1>5 DEF OwnFits, WorkTarget, Leases
<1>6. CASE ~Leases(c) /\ call[c].op = "command"
  BY <1>1, <1>2, <1>3, <1>6 DEF OwnFits, WorkTarget, Leases, Course, Open
<1>7. CASE call[c].op = "restore"
  BY <1>1, <1>2, <1>4, <1>7 DEF Course, WorkTarget
<1> QED
  BY <1>1, <1>2, <1>4, <1>5, <1>6, <1>7 DEF Leases, WorkTarget

\* The session of the target that a call works on is open, unless the call is
\* about to open it again.
LEMMA MineIsOpen ==
  ASSUME LifecycleIInv, NEW c \in Calls, HoldsProject(c), call[c].pc # "uncontext", Mine(c), ~Reopening(c),
         WorkTarget(c) \in Targets, Installed(WorkTarget(c)) # None
  PROVE  Open(Installed(WorkTarget(c)))
<1> SUFFICES ASSUME ~Open(Installed(WorkTarget(c))) PROVE FALSE
  OBVIOUS
<1>1. PICK d \in Calls : Reopening(d) /\ WorkTarget(d) = WorkTarget(c)
  BY DEF LifecycleIInv, ClosedAreReopened
<1>2. Course(call[d]) /\ Shape(call[d])
  BY DEF LifecycleIInv, Steps
<1>3. HoldsProject(d) /\ call[d].pc # "uncontext"
  BY <1>1, <1>2 DEF Reopening, HoldsProject, Inside, Outside, Course
<1> QED
  BY <1>1, <1>3, AloneOnTarget

-----------------------------------------------------------------------------
(* Steps of a call that stay within its own target and project             *)

\* What such a step leaves to others.
Within(c) ==
  /\ \A d \in Calls \ {c} : call'[d] = call[d]
  /\ \A u \in Targets \ {WorkTarget(c)} :
       /\ registry'.sessions[u] = registry.sessions[u]
       /\ registry'.projects[u] = registry.projects[u]
       /\ registry'.locks[u] = registry.locks[u]
  /\ \A k \in Projects : registry'.handles[k] = registry.handles[k]
                         \/ (registry'.handles[k] = None /\ handles'[registry.handles[k]] = None)
  /\ \A h \in HandleIds : handles'[h] = handles[h]
       \/ (handles'[h] = None /\ handles[h] = call[c].key /\ registry.handles[call[c].key] = h)
  /\ \A s \in SessionIds : sessions'[s] = sessions[s]
       \/ /\ sessions'[s] = Closed /\ sessions[s] # Closed /\ Key(s) = call[c].key
          /\ \A u \in Targets \ {WorkTarget(c)} : Installed(u) # s
  /\ OpenProgramsHaveProjects'

\* What it does to its own target.
Hands(c) ==
  LET x == WorkTarget(c)
  IN /\ registry'.sessions[x] \in {None, Installed(x)} \/ (registry'.sessions[x] = call[c].new /\ NewFits(c)
                                     /\ call[c].pc \in {"install", "rollback"})
     /\ \/ registry'.projects[x] = call[c].key
        \/ registry'.projects[x] = None /\ registry'.sessions[x] = None
        \/ call[c].op = "create"

\* What it does to itself.
Itself(c) ==
  /\ HoldsName(c)' => HoldsName(c) /\ call'[c].target = call[c].target
  /\ HoldsProject(c)' => HoldsProject(c) /\ call'[c].key = call[c].key
  /\ \A d \in Calls \ {c} : call[d].pc = "publish" => call'[c].handle # call[d].handle

Footprint(c) == Within(c) /\ Hands(c) /\ Itself(c)

\* Mine is a call whose steps the others need not fear.
Working(c) == HoldsProject(c) /\ call[c].pc \notin {"uncontext", "publish"} /\ Mine(c)

\* The others keep to their targets.
LEMMA OthersElsewhere ==
  ASSUME LifecycleIInv, NEW c \in Calls, Working(c), Footprint(c), NEW d \in Calls, d # c
  PROVE  /\ call'[d] = call[d] /\ WorkTarget(d)' = WorkTarget(d)
         /\ HoldsProject(d) /\ call[d].pc # "uncontext" =>
              /\ WorkTarget(d) # WorkTarget(c)
              /\ call[d].key # call[c].key
         /\ HoldsName(d) /\ call[d].target = WorkTarget(c) =>
              Installed(WorkTarget(c)) # None /\ call[c].op # "create"
<1>1. call'[d] = call[d]
  BY DEF Footprint, Within
<1>2. WorkTarget(d)' = WorkTarget(d)
  BY <1>1 DEF WorkTarget
<1>3. ASSUME HoldsProject(d), call[d].pc # "uncontext"
      PROVE  WorkTarget(d) # WorkTarget(c) /\ call[d].key # call[c].key
  BY <1>3, AloneOnTarget DEF Working, LifecycleIInv, Exclusion, OneCallPerProject
<1>4. ASSUME HoldsName(d), call[d].target = WorkTarget(c)
      PROVE  Installed(WorkTarget(c)) # None /\ call[c].op # "create"
  <2>1. Installed(WorkTarget(c)) # None
    BY <1>4, NameOrSession DEF Working
  <2>2. ASSUME call[c].op = "create" PROVE FALSE
    <3>1. call[c].on = None /\ HoldsName(c)
      BY <2>2 DEF LifecycleIInv, Steps, Course, Working, HoldsProject, Inside, Outside, HoldsName
    <3> QED
      BY <1>4, <3>1 DEF WorkTarget, LifecycleIInv, Exclusion, OneCallPerName
  <2> QED
    BY <2>1, <2>2
<1> QED
  BY <1>1, <1>2, <1>3, <1>4

LEMMA OthersFit ==
  ASSUME LifecycleIInv, NEW c \in Calls, Working(c), Footprint(c), NEW d \in Calls, d # c
  PROVE  Fits(d)'
<1> DEFINE x == WorkTarget(d)
<1>0. /\ call'[d] = call[d] /\ WorkTarget(d)' = x
      /\ HoldsProject(d) /\ call[d].pc # "uncontext" => x # WorkTarget(c) /\ call[d].key # call[c].key
      /\ HoldsName(d) /\ call[d].target = WorkTarget(c) => Installed(WorkTarget(c)) # None /\ call[c].op # "create"
  BY OthersElsewhere
<1>a. Fits(d) /\ Shape(call[d]) /\ Course(call[d]) /\ call[d] \in CallType
  BY DEF LifecycleIInv, Steps, TypeOK
<1>b. Within(c) /\ Hands(c) /\ Itself(c)
  BY DEF Footprint
<1>c. call[c].key \in Projects /\ call[c].key # None /\ Mine(c)
  BY ProjectClaims, IdentitiesAssumption DEF Working
<1>d. ASSUME HoldsProject(d), call[d].pc # "uncontext", x \in Targets
      PROVE  /\ registry'.sessions[x] = registry.sessions[x]
             /\ registry'.projects[x] = registry.projects[x]
             /\ registry'.locks[x] = registry.locks[x]
             /\ \A s \in SessionIds : Installed(x) = s => sessions'[s] = sessions[s]
  BY <1>0, <1>b, <1>d DEF Within
<1>e. \A s \in SessionIds : sessions[s] # Closed /\ Key(s) # call[c].key => sessions'[s] = sessions[s]
  BY <1>b DEF Within
<1>f. \A h \in HandleIds : handles[h] # call[c].key => handles'[h] = handles[h]
  BY <1>b DEF Within
<1>1. KeyFits(d)'
  <2> SUFFICES ASSUME Claims(d) PROVE Mine(d)' \/ (Loose(d) /\ Gone(d)')
    BY <1>0 DEF KeyFits, Claims, Loose, Inside
  <2>1. x \in Targets
    BY <1>a DEF Claims, Inside, Outside, WorkTarget, Shape, CallType, Maybe
  <2>2. CASE x # WorkTarget(c)
    BY <1>0, <1>a, <1>b, <2>1, <2>2 DEF Fits, KeyFits, Mine, Gone, Within, Installed
  <2>3. CASE x = WorkTarget(c)
    <3>1. Loose(d) /\ HoldsName(d) /\ call[d].target = x
      BY <1>0, <2>3, <1>a DEF Claims, HoldsProject, Inside, Outside, HoldsName, Loose, WorkTarget, Course
    <3>2. Mine(d)
      BY <1>a, <1>c, <2>3 DEF Fits, KeyFits, Mine, Gone
    <3>3. call[d].key = call[c].key /\ call[c].op # "create"
      BY <1>0, <1>c, <2>3, <3>1, <3>2 DEF Mine
    <3> QED
      BY <1>0, <1>b, <2>3, <3>1, <3>3 DEF Hands, Mine, Gone, Installed
  <2> QED
    BY <2>2, <2>3
<1>2. NewFits(d)'
  <2> SUFFICES ASSUME call[d].pc \in {"init", "swap", "install"} \/ (call[d].pc = "rollback" /\ call[d].new # None)
               PROVE  (Open(call[d].new) /\ Key(call[d].new) = call[d].key /\ \A u \in Targets : Installed(u) # call[d].new)'
    BY <1>0 DEF NewFits
  <2>1. HoldsProject(d) /\ call[d].pc # "uncontext"
    BY <1>a DEF HoldsProject, Inside, Outside, Course
  <2>2. Open(call[d].new) /\ Key(call[d].new) = call[d].key /\ \A u \in Targets : Installed(u) # call[d].new
    BY <1>a DEF Fits, NewFits
  <2>3. call[d].new \in SessionIds
    BY <1>a, <2>2 DEF CallType, Maybe, Open
  <2>4. sessions'[call[d].new] = sessions[call[d].new]
    BY <1>0, <1>e, <2>1, <2>2, <2>3 DEF Open
  <2>5. sessions[call[d].new].handle \in HandleIds
    BY <2>2, <2>3 DEF LifecycleIInv, TypeOK, Open
  <2>6. Open(call[d].new)' /\ Key(call[d].new)' = call[d].key
    BY <1>0, <1>f, <2>1, <2>2, <2>4, <2>5 DEF Open, Key
  <2>7. ASSUME NEW u \in Targets PROVE registry'.sessions[u] # call[d].new
    <3>1. CASE u # WorkTarget(c)
      BY <1>b, <2>2, <3>1 DEF Within, Installed
    <3>2. CASE u = WorkTarget(c)
      <4>1. registry'.sessions[u] = call[c].new /\ NewFits(c) /\ call[c].pc \in {"install", "rollback"} =>
              registry'.sessions[u] # call[d].new
        BY <1>0, <2>1, <2>2 DEF NewFits, Open
      <4> QED
        BY <1>b, <2>2, <3>2, <4>1 DEF Hands, Open
    <3> QED
      BY <3>1, <3>2
  <2> QED
    BY <1>0, <2>6, <2>7 DEF Installed
<1>3. OwnFits(d)'
  <2>0. OwnFits(d)
    BY <1>a DEF Fits
  <2>1. ASSUME call[d].op = "create", call[d].pc \notin {"idle", "admitted", "resolve", "validate"}
        PROVE  (Installed(call[d].target) = None /\ registry.locks[call[d].target] # None)'
    <3>1. Installed(call[d].target) = None /\ registry.locks[call[d].target] # None
      BY <2>0, <2>1 DEF OwnFits
    <3>2. HoldsName(d) /\ call[d].target \in Targets
      BY <1>a, <2>1 DEF HoldsName, Shape
    <3>3. call[d].target # WorkTarget(c)
      BY <1>0, <3>1, <3>2
    <3> QED
      BY <1>0, <1>b, <3>1, <3>2, <3>3 DEF Within, Installed
  <2>2. ASSUME call[d].pc = "validate"
        PROVE  (Installed(call[d].target) = call[d].new /\ Open(call[d].new) /\ Key(call[d].new) = call[d].key)'
    <3>1. Installed(call[d].target) = call[d].new /\ Open(call[d].new) /\ Key(call[d].new) = call[d].key
      BY <2>0, <2>2 DEF OwnFits
    <3>2. HoldsProject(d) /\ call[d].on = None /\ call[d].target \in Targets
      BY <1>a, <2>2 DEF HoldsProject, Inside, Outside, Course, Shape
    <3>3. x = call[d].target
      BY <3>2 DEF WorkTarget
    <3>4. call[d].new \in SessionIds
      BY <1>a, <3>1 DEF CallType, Maybe, Open
    <3>5. sessions[call[d].new].handle \in HandleIds /\ sessions'[call[d].new] = sessions[call[d].new]
      BY <1>0, <1>e, <2>2, <3>1, <3>2, <3>4 DEF LifecycleIInv, TypeOK, Open
    <3> QED
      BY <1>0, <1>d, <1>f, <2>2, <3>1, <3>2, <3>3, <3>5 DEF Installed, Open, Key
  <2>3. ASSUME Leases(d), call[d].pc # "uncontext"
        PROVE  (registry.locks[call[d].on] # None /\ (call[d].op # "restore" => Installed(call[d].on) # None))'
    <3>1. registry.locks[call[d].on] # None /\ (call[d].op # "restore" => Installed(call[d].on) # None)
      BY <2>0, <2>3 DEF OwnFits
    <3>2. HoldsProject(d) /\ x = call[d].on /\ x \in Targets
      BY <1>a, <2>3 DEF HoldsProject, Inside, Outside, Course, Leases, WorkTarget, CallType, Maybe
    <3> QED
      BY <1>0, <1>d, <2>3, <3>1, <3>2 DEF Installed
  <2>4. ASSUME call[d].op = "load", call[d].on = None, call[d].pc \in {"open", "init", "swap", "rollback"}
        PROVE  (call[d].old = Installed(call[d].target) /\ (call[d].old # None => Open(call[d].old)))'
    <3>1. call[d].old = Installed(call[d].target) /\ (call[d].old # None => Open(call[d].old))
      BY <2>0, <2>4 DEF OwnFits
    <3>2. HoldsProject(d) /\ x = call[d].target /\ x \in Targets
      BY <1>a, <2>4 DEF HoldsProject, Inside, Outside, WorkTarget, Shape
    <3>3. call[d].old \in Maybe(SessionIds)
      BY <1>a DEF CallType
    <3> QED
      BY <1>0, <1>d, <2>4, <3>1, <3>2, <3>3 DEF Installed, Open, Maybe
  <2>5. ASSUME call[d].op = "load", call[d].on = None, call[d].pc = "install"
        PROVE  registry'.locks[call[d].target] # None
    <3>2. HoldsProject(d) /\ x = call[d].target /\ x \in Targets
      BY <1>a, <2>5 DEF HoldsProject, Inside, Outside, WorkTarget, Shape
    <3> QED
      BY <1>d, <2>0, <2>5, <3>2 DEF OwnFits
  <2>6. ASSUME call[d].op = "command", call[d].pc = "running"
        PROVE  (Open(call[d].old) /\ Installed(call[d].target) = call[d].old)'
    <3>1. Open(call[d].old) /\ Installed(call[d].target) = call[d].old
      BY <2>0, <2>6 DEF OwnFits
    <3>2. HoldsProject(d) /\ x = call[d].target /\ x \in Targets
      BY <1>a, <2>6 DEF HoldsProject, Inside, Outside, WorkTarget, Shape, Course
    <3>3. call[d].old \in SessionIds
      BY <1>a, <3>1 DEF CallType, Maybe, Open
    <3> QED
      BY <1>0, <1>d, <2>6, <3>1, <3>2, <3>3 DEF Installed, Open
  <2>7. ASSUME call[d].op = "import", call[d].pc = "running"
        PROVE  handles'[call[d].handle] = call[d].key
    <3>1. HoldsProject(d)
      BY <2>7 DEF HoldsProject, Inside, Outside
    <3>2. handles[call[d].handle] = call[d].key
      BY <2>0, <2>7 DEF OwnFits
    <3>3. call[d].handle \in HandleIds
      BY <1>a, <2>7 DEF Shape, CallType, Maybe
    <3> QED
      BY <1>0, <1>f, <2>7, <3>1, <3>2, <3>3
  <2> QED
    BY <1>0, <2>1, <2>2, <2>3, <2>4, <2>5, <2>6, <2>7 DEF OwnFits, Leases
<1>4. HandleFits(d)'
  <2>1. HandleFits(d) /\ call[d].handle \in Maybe(HandleIds)
    BY <1>a DEF Fits, CallType
  <2> QED
    BY <1>0, <1>b, <2>1 DEF HandleFits, Within, Maybe
<1>5. PublishFits(d)'
  <2> SUFFICES ASSUME call[d].pc = "publish"
               PROVE  /\ handles'[call[d].handle] = call[d].key
                      /\ \A s \in SessionIds : sessions'[s].handle # call[d].handle
                      /\ \A e \in Calls \ {d} : call'[e].handle # call[d].handle
                      /\ \A k \in Projects : registry'.handles[k] # call[d].handle
    BY <1>0 DEF PublishFits
  <2>1. PublishFits(d) /\ call[d].handle \in HandleIds /\ call[d].handle # None
    BY <1>a DEF Fits, Shape, CallType, Maybe
  <2>2. handles'[call[d].handle] = call[d].key
    BY <1>b, <1>c, <2>1 DEF PublishFits, Within
  <2>3. \A s \in SessionIds : sessions'[s].handle # call[d].handle
    BY <1>b, <2>1 DEF PublishFits, Within, Closed
  <2>4. \A e \in Calls \ {d} : call'[e].handle # call[d].handle
    BY <1>b, <2>1 DEF PublishFits, Within, Itself
  <2>5. \A k \in Projects : registry'.handles[k] # call[d].handle
    BY <1>b, <2>1 DEF PublishFits, Within
  <2> QED
    BY <2>2, <2>3, <2>4, <2>5
<1> QED
  BY <1>1, <1>2, <1>3, <1>4, <1>5 DEF Fits

\* What remains to be seen to: the call itself and the session of its target, x.
Lands(c, x) ==
  /\ Fits(c)' /\ Shape(call'[c]) /\ Course(call'[c])
  /\ (Open(Installed(x)) => Served(x))'
  /\ (Installed(x) # None /\ ~Open(Installed(x)) => Reopening(c) /\ WorkTarget(c) = x)'

LEMMA TablesFit ==
  ASSUME LifecycleIInv, NEW c \in Calls, Working(c), Footprint(c), NEW x \in Targets, x = WorkTarget(c), Lands(c, x), TypeOK'
  PROVE  Tables' /\ NoLostProject' /\ ClosedAreReopened'
<1>a. /\ OneHandlePerProject /\ RegisteredUnderItsProject /\ OpenProgramsHaveProjects
      /\ OneTargetPerSession /\ OpenSessionsAreServed /\ NoLostProject /\ ClosedAreReopened /\ TypeOK
  BY DEF LifecycleIInv, Tables
<1>b. Within(c) /\ Hands(c) /\ Itself(c)
  BY DEF Footprint
<1>c. \A h \in HandleIds : handles'[h] # None => handles'[h] = handles[h]
  BY <1>b DEF Within
<1>d. /\ \A k \in Projects : registry.handles[k] \in Maybe(HandleIds)
      /\ \A t \in Targets : registry.sessions[t] \in Maybe(SessionIds) /\ registry'.sessions[t] \in Maybe(SessionIds)
      /\ \A s \in SessionIds : sessions[s] # Closed => sessions[s].handle \in HandleIds
      /\ \A h \in HandleIds : handles[h] \in Maybe(Projects)
  BY <1>a DEF TypeOK, RegistryType
<1>e. \A k \in Projects : registry'.handles[k] # None => registry'.handles[k] = registry.handles[k]
  BY <1>b DEF Within
<1>1. OneHandlePerProject'
  BY <1>a, <1>c DEF OneHandlePerProject
<1>2. RegisteredUnderItsProject'
  BY <1>a, <1>c, <1>d, <1>e DEF RegisteredUnderItsProject, Maybe
<1>3. OpenProgramsHaveProjects'
  BY <1>b DEF Within
<1>4. OneTargetPerSession'
  <2> SUFFICES ASSUME NEW t \in Targets, NEW u \in Targets, registry'.sessions[t] # None,
                      registry'.sessions[t] = registry'.sessions[u], t # u
               PROVE  FALSE
    BY DEF OneTargetPerSession, Installed
  <2>1. \A v \in Targets \ {x} : registry'.sessions[v] = registry.sessions[v]
    BY <1>b DEF Within
  <2>2. ASSUME NEW v \in Targets, v # x PROVE registry'.sessions[x] # registry.sessions[v] \/ registry.sessions[v] = None
    BY <1>a, <1>b, <2>2 DEF Hands, OneTargetPerSession, NewFits, Installed
  <2> QED
    BY <1>a, <2>1, <2>2 DEF OneTargetPerSession, Installed
<1>5. ASSUME NEW u \in Targets, u # x
      PROVE  /\ registry'.sessions[u] = registry.sessions[u]
             /\ \A s \in SessionIds : registry.sessions[u] = s => sessions'[s] = sessions[s]
  BY <1>b, <1>5 DEF Within, Installed
<1>6. OpenSessionsAreServed'
  <2> SUFFICES ASSUME NEW u \in Targets, Open(Installed(u))' PROVE Served(u)'
    BY DEF OpenSessionsAreServed
  <2>1. CASE u = x
    BY <2>1 DEF Lands
  <2>2. CASE u # x
    <3> DEFINE s == registry.sessions[u]
               h == sessions[s].handle
    <3>1. registry'.sessions[u] = s /\ s \in SessionIds /\ sessions'[s] = sessions[s]
      BY <1>5, <1>d, <2>2 DEF Open, Installed, Maybe
    <3>2. Open(s) /\ Served(u)
      BY <1>a, <3>1 DEF Open, Installed, OpenSessionsAreServed
    <3>3. h \in HandleIds /\ handles'[h] = handles[h] /\ handles[h] # None /\ handles[h] \in Projects
      BY <1>3, <1>c, <1>d, <3>1, <3>2 DEF OpenProgramsHaveProjects, Open, Maybe
    <3>4. registry.projects[u] = handles[h] /\ registry.handles[handles[h]] = h /\ registry.locks[u] # None
      BY <3>2 DEF Served, Installed, Key
    <3>5. registry'.projects[u] = handles[h] /\ registry'.locks[u] # None
      BY <1>b, <2>2, <3>4 DEF Within
    <3>6. registry'.handles[handles[h]] = h
      BY <1>b, <3>3, <3>4 DEF Within
    <3> QED
      BY <3>1, <3>3, <3>5, <3>6, <2>2 DEF Served, Installed, Key, Open
  <2> QED
    BY <2>1, <2>2
<1>7. NoLostProject'
  <2> SUFFICES ASSUME NEW h \in HandleIds, handles'[h] # None
               PROVE  registry'.handles[handles'[h]] = h \/ \E d \in Calls : call'[d].pc = "publish" /\ call'[d].handle = h
    BY DEF NoLostProject
  <2>1. handles'[h] = handles[h] /\ handles[h] \in Projects
    BY <1>c, <1>d DEF Maybe
  <2>2. CASE registry.handles[handles[h]] = h
    BY <1>b, <2>1, <2>2 DEF Within
  <2>3. CASE \E d \in Calls : call[d].pc = "publish" /\ call[d].handle = h
    BY <1>b, <2>3 DEF Within, Working
  <2> QED
    BY <1>a, <2>1, <2>2, <2>3 DEF NoLostProject
<1>8. ClosedAreReopened'
  <2> SUFFICES ASSUME NEW u \in Targets, (Installed(u) # None /\ ~Open(Installed(u)))'
               PROVE  \E d \in Calls : (Reopening(d) /\ WorkTarget(d) = u)'
    BY DEF ClosedAreReopened
  <2>1. CASE u = x
    BY <2>1 DEF Lands
  <2>2. CASE u # x
    <3>1. Installed(u) # None /\ ~Open(Installed(u))
      BY <1>5, <1>d, <2>2 DEF Installed, Open, Maybe
    <3>2. PICK d \in Calls : Reopening(d) /\ WorkTarget(d) = u
      BY <1>a, <3>1 DEF ClosedAreReopened
    <3>3. d # c /\ call'[d] = call[d]
      BY <1>b, <2>2, <3>2 DEF Within
    <3> QED
      BY <3>2, <3>3 DEF Reopening, WorkTarget
  <2> QED
    BY <2>1, <2>2
<1> QED
  BY <1>1, <1>2, <1>3, <1>4, <1>6, <1>7, <1>8 DEF Tables

\* A step of a call on its own target keeps the invariant if it fits itself.
LEMMA OwnStep ==
  ASSUME LifecycleIInv, NEW c \in Calls, Working(c), Footprint(c), NEW x \in Targets, x = WorkTarget(c), Lands(c, x), TypeOK'
  PROVE  LifecycleIInv'
<1>1. \A d \in Calls \ {c} : call'[d] = call[d]
  BY DEF Footprint, Within
<1>2. Steps'
  BY <1>1 DEF LifecycleIInv, Steps, Lands
<1>3. Exclusion'
  <2>1. \A d \in Calls : HoldsName(d)' => HoldsName(d) /\ call'[d].target = call[d].target
    BY <1>1 DEF Footprint, Itself, HoldsName
  <2>2. \A d \in Calls : HoldsProject(d)' => HoldsProject(d) /\ call'[d].key = call[d].key
    BY <1>1 DEF Footprint, Itself, HoldsProject, Inside
  <2> QED
    BY <2>1, <2>2 DEF LifecycleIInv, Exclusion, OneCallPerName, OneCallPerProject
<1>4. \A d \in Calls : Fits(d)'
  BY OthersFit DEF Lands
<1> QED
  BY <1>2, <1>3, <1>4, TablesFit DEF LifecycleIInv

-----------------------------------------------------------------------------
(* Steps that change no session and no handle                              *)

\* Only the call, its context and the faults, new locks, and the project of a target
\* without a session that nobody else works on.
Quiet(c) ==
  /\ UNCHANGED <<handles, sessions>>
  /\ registry'.sessions = registry.sessions /\ registry'.handles = registry.handles
  /\ \A t \in Targets : registry.locks[t] # None => registry'.locks[t] # None
  /\ \A t \in Targets : registry'.projects[t] = registry.projects[t]
       \/ (Installed(t) = None /\ \A d \in Calls \ {c} : ~(Claims(d) /\ WorkTarget(d) = t))
  /\ \A d \in Calls \ {c} : call'[d] = call[d]
  /\ \A d \in Calls \ {c} : call[d].pc = "publish" => call'[c].handle # call[d].handle
  /\ call[c].pc # "publish"
  /\ Reopening(c) => Reopening(c)' /\ WorkTarget(c)' = WorkTarget(c)

LEMMA QuietStep ==
  ASSUME LifecycleIInv, NEW c \in Calls, Quiet(c), TypeOK', Exclusion',
         Shape(call'[c]), Course(call'[c]), Fits(c)'
  PROVE  LifecycleIInv'
<1>1. /\ handles' = handles /\ sessions' = sessions
      /\ registry'.sessions = registry.sessions /\ registry'.handles = registry.handles
      /\ \A d \in Calls \ {c} : call'[d] = call[d]
  BY DEF Quiet
<1>a. \A t \in Targets : registry.locks[t] # None => registry'.locks[t] # None
  BY DEF Quiet
<1>2. Steps'
  BY <1>1 DEF LifecycleIInv, Steps
<1>3. ASSUME NEW d \in Calls, d # c PROVE Fits(d)'
  <2>1. Fits(d) /\ call'[d] = call[d] /\ call[d] \in CallType /\ Shape(call[d]) /\ Course(call[d])
    BY <1>1, <1>3 DEF LifecycleIInv, Steps, TypeOK
  <2>2. KeyFits(d)'
    <3> SUFFICES ASSUME Claims(d) PROVE Mine(d)' \/ (Loose(d) /\ Gone(d)')
      BY <2>1 DEF KeyFits, Claims, Loose, Inside
    <3>1. PICK u \in Targets : u = WorkTarget(d) /\ WorkTarget(d)' = u
      BY <2>1 DEF Claims, Inside, Outside, WorkTarget, Shape, CallType, Maybe
    <3>2. registry'.projects[u] = registry.projects[u]
      BY <1>3, <3>1 DEF Quiet
    <3> QED
      BY <1>1, <2>1, <3>1, <3>2 DEF Fits, KeyFits, Mine, Gone, Installed
  <2>3. NewFits(d)' /\ HandleFits(d)'
    BY <1>1, <2>1 DEF Fits, NewFits, HandleFits, Installed, Open, Key
  <2>4. OwnFits(d)'
    <3>1. call[d].pc # "idle" => call[d].target \in Targets
      BY <2>1 DEF Shape
    <3>2. Leases(d) => call[d].on \in Targets
      BY <2>1 DEF Leases, CallType, Maybe
    <3> QED
      BY <1>1, <1>a, <2>1, <3>1, <3>2 DEF Fits, OwnFits, Leases, Installed, Open, Key
  <2>5. PublishFits(d)'
    <3> SUFFICES ASSUME call[d].pc = "publish", NEW e \in Calls, e # d PROVE call'[e].handle # call[d].handle
      BY <1>1, <2>1 DEF Fits, PublishFits
    <3> QED
      BY <1>1, <1>3, <2>1 DEF Fits, PublishFits, Quiet
  <2> QED
    BY <2>2, <2>3, <2>4, <2>5 DEF Fits
<1>4. Tables'
  <2>1. OneHandlePerProject' /\ RegisteredUnderItsProject' /\ OpenProgramsHaveProjects' /\ OneTargetPerSession'
    BY <1>1 DEF LifecycleIInv, Tables, OneHandlePerProject, RegisteredUnderItsProject, OpenProgramsHaveProjects,
                OneTargetPerSession, Installed
  <2>2. OpenSessionsAreServed'
    <3> SUFFICES ASSUME NEW u \in Targets, Open(Installed(u)) PROVE Served(u)'
      BY <1>1 DEF OpenSessionsAreServed, Open, Installed
    <3>1. Served(u) /\ registry'.projects[u] = registry.projects[u]
      BY DEF LifecycleIInv, Tables, OpenSessionsAreServed, Quiet, Open
    <3> QED
      BY <1>1, <1>a, <3>1 DEF Served, Installed, Open, Key
  <2> QED
    BY <2>1, <2>2 DEF Tables
<1>5. NoLostProject'
  BY <1>1 DEF LifecycleIInv, NoLostProject, Quiet
<1>6. ClosedAreReopened'
  <2> SUFFICES ASSUME NEW u \in Targets, Installed(u) # None, ~Open(Installed(u))
               PROVE  \E d \in Calls : (Reopening(d) /\ WorkTarget(d) = u)'
    BY <1>1 DEF ClosedAreReopened, Installed, Open
  <2>1. PICK d \in Calls : Reopening(d) /\ WorkTarget(d) = u
    BY DEF LifecycleIInv, ClosedAreReopened
  <2>2. d # c => (Reopening(d) /\ WorkTarget(d) = u)'
    BY <1>1, <2>1 DEF Reopening, WorkTarget
  <2> QED
    BY <2>1, <2>2 DEF Quiet
<1> QED
  BY <1>2, <1>3, <1>4, <1>5, <1>6 DEF LifecycleIInv

-----------------------------------------------------------------------------
(* What a call looks like after a step                                     *)

LEMMA Placed ==
  ASSUME LifecycleIInv, NEW c \in Calls
  PROVE  /\ TypeOK /\ call[c] \in CallType /\ Shape(call[c]) /\ Course(call[c]) /\ Fits(c)
         /\ call[c].pc # "idle" => call[c].target \in Targets /\ WorkTarget(c) \in Targets
         /\ call[c].pc \notin {"idle", "admitted", "resolve"} =>
              call[c].key \in Projects /\ call[c].lock \in LockIds /\ call[c].key # None /\ call[c].lock # None
<1>1. TypeOK /\ call[c] \in CallType /\ Shape(call[c]) /\ Course(call[c]) /\ Fits(c)
  BY DEF LifecycleIInv, TypeOK, Steps
<1>2. call[c].pc # "idle" => call[c].target \in Targets /\ WorkTarget(c) \in Targets
  BY <1>1 DEF Shape, WorkTarget, CallType, Maybe
<1> QED
  BY <1>1, <1>2, IdentitiesAssumption DEF Shape

LEMMA BecomesFields ==
  ASSUME TypeOK, NEW c \in Calls, NEW r \in CallType, Becomes(c, r)
  PROVE  /\ call' \in [Calls -> CallType] /\ call'[c] = r
         /\ \A d \in Calls \ {c} : call'[d] = call[d]
BY DEF TypeOK, Becomes

LEMMA GotoFields ==
  ASSUME TypeOK, NEW c \in Calls, NEW pc \in Pcs, Goto(c, pc)
  PROVE  /\ call' \in [Calls -> CallType]
         /\ \A d \in Calls \ {c} : call'[d] = call[d]
         /\ call'[c].pc = pc /\ call'[c].op = call[c].op /\ call'[c].target = call[c].target
         /\ call'[c].on = call[c].on /\ call'[c].want = call[c].want /\ call'[c].prog = call[c].prog /\ call'[c].key = call[c].key
         /\ call'[c].lock = call[c].lock /\ call'[c].handle = call[c].handle /\ call'[c].old = call[c].old
         /\ call'[c].new = call[c].new /\ call'[c].was = call[c].was /\ call'[c].made = call[c].made
         /\ WorkTarget(c)' = WorkTarget(c)
<1> DEFINE r == [call[c] EXCEPT !.pc = pc]
<1>1. call[c] \in CallType
  BY DEF TypeOK
<1>2. r \in CallType
  BY <1>1 DEF CallType
<1>3. /\ r.pc = pc /\ r.op = call[c].op /\ r.target = call[c].target /\ r.on = call[c].on /\ r.want = call[c].want /\ r.prog = call[c].prog
      /\ r.key = call[c].key /\ r.lock = call[c].lock /\ r.handle = call[c].handle /\ r.old = call[c].old
      /\ r.new = call[c].new /\ r.was = call[c].was /\ r.made = call[c].made
  BY <1>1 DEF CallType
<1>4. call' \in [Calls -> CallType] /\ call'[c] = r /\ \A d \in Calls \ {c} : call'[d] = call[d]
  <2> HIDE DEF r
  <2>1. Becomes(c, r)
    BY DEF Goto, r
  <2> QED
    BY <1>2, <2>1, BecomesFields
<1> QED
  BY <1>3, <1>4 DEF WorkTarget

LEMMA IdleIsCall == Idle \in CallType
BY IdentitiesAssumption DEF Idle, CallType, Kinds, Pcs, Maybe

LEMMA EndFields ==
  ASSUME TypeOK, NEW c \in Calls, End(c)
  PROVE  /\ call' \in [Calls -> CallType] /\ call'[c] = Idle
         /\ \A d \in Calls \ {c} : call'[d] = call[d]
         /\ Shape(call'[c]) /\ Course(call'[c]) /\ Fits(c)'
         /\ ~HoldsName(c)' /\ ~HoldsProject(c)' /\ ~Reopening(c)'
<1>1. call' \in [Calls -> CallType] /\ call'[c] = Idle /\ \A d \in Calls \ {c} : call'[d] = call[d]
  BY IdleIsCall, BecomesFields DEF End
<1>2. Shape(Idle) /\ Course(Idle)
  BY DEF Shape, Course, Idle, Outside
<1>3. ~HoldsName(c)' /\ ~HoldsProject(c)' /\ ~Reopening(c)' /\ ~Claims(c)' /\ ~Leases(c)'
  BY <1>1 DEF HoldsName, HoldsProject, Reopening, Inside, Outside, Idle, Claims, Leases
<1>4. Fits(c)'
  BY <1>1, <1>3 DEF Fits, KeyFits, NewFits, OwnFits, HandleFits, PublishFits, Idle
<1> QED
  BY <1>1, <1>2, <1>3, <1>4

LEMMA TypesAfter ==
  ASSUME call' \in [Calls -> CallType], handles' \in [HandleIds -> Maybe(Projects)],
         sessions' \in [SessionIds -> [handle : HandleIds, prog : Programs, for : Targets] \union {Closed}],
         registry' \in RegistryType, context' \in [Targets -> Maybe(SessionIds)], faults' \in 0 .. MaxFaults
  PROVE  TypeOK'
BY DEF TypeOK

LEMMA Faults ==
  ASSUME TypeOK, Fault \/ NoFault
  PROVE  faults' \in 0 .. MaxFaults
BY IdentitiesAssumption DEF TypeOK, Fault, NoFault

\* What others publish is nobody's.
LEMMA HandleIsMine ==
  ASSUME LifecycleIInv, NEW c \in Calls, NEW d \in Calls \ {c}, call[d].pc = "publish"
  PROVE  /\ call[d].handle # None /\ call[d].handle \in HandleIds /\ call[c].handle # call[d].handle
         /\ handles[call[d].handle] = call[d].key /\ call[d].key \in Projects
         /\ \A s \in SessionIds : sessions[s].handle # call[d].handle
         /\ \A k \in Projects : registry.handles[k] # call[d].handle
<1>1. Shape(call[d]) /\ call[d] \in CallType /\ PublishFits(d)
  BY Placed DEF Fits
<1> QED
  BY <1>1 DEF Shape, CallType, Maybe, PublishFits

\* A step of a call that has its project, and its name if it is not a command.
LEMMA GotoItself ==
  ASSUME LifecycleIInv, NEW c \in Calls, HoldsProject(c), NEW pc \in Pcs, Goto(c, pc)
  PROVE  Itself(c)
<1>1. TypeOK
  BY DEF LifecycleIInv
<1>2. call'[c].op = call[c].op /\ call'[c].target = call[c].target /\ call'[c].key = call[c].key
      /\ call'[c].handle = call[c].handle
  BY <1>1, GotoFields
<1>3. HoldsName(c)' => HoldsName(c)
  BY <1>2 DEF HoldsName, HoldsProject, Inside, Outside
<1> QED
  BY <1>2, <1>3, HandleIsMine DEF Itself

LEMMA EndItself ==
  ASSUME LifecycleIInv, NEW c \in Calls, End(c)
  PROVE  Itself(c)
<1>1. TypeOK
  BY DEF LifecycleIInv
<1>2. call'[c].handle = None
  BY <1>1, EndFields DEF Idle
<1> QED
  BY <1>1, <1>2, EndFields, HandleIsMine DEF Itself

LEMMA ItselfExclusion ==
  ASSUME LifecycleIInv, NEW c \in Calls, Itself(c), \A d \in Calls \ {c} : call'[d] = call[d]
  PROVE  Exclusion'
<1>1. \A d \in Calls : HoldsName(d)' => HoldsName(d) /\ call'[d].target = call[d].target
  BY DEF Itself, HoldsName
<1>2. \A d \in Calls : HoldsProject(d)' => HoldsProject(d) /\ call'[d].key = call[d].key
  BY DEF Itself, HoldsProject, Inside
<1> QED
  BY <1>1, <1>2 DEF LifecycleIInv, Exclusion, OneCallPerName, OneCallPerProject

\* A call that ends, with no table changed and nothing left to do.
LEMMA EndStep ==
  ASSUME LifecycleIInv, NEW c \in Calls, End(c), UNCHANGED <<handles, sessions, registry>>,
         context' \in [Targets -> Maybe(SessionIds)], Fault \/ NoFault,
         call[c].pc # "publish", ~Reopening(c)
  PROVE  LifecycleIInv'
<1>1. TypeOK /\ TypeOK'
  BY EndFields, Faults DEF LifecycleIInv, TypeOK
<1>2. /\ Shape(call'[c]) /\ Course(call'[c]) /\ Fits(c)' /\ call'[c].handle = None
      /\ \A d \in Calls \ {c} : call'[d] = call[d]
  BY <1>1, EndFields DEF Idle
<1>3. Quiet(c)
  BY <1>2, HandleIsMine DEF Quiet
<1>4. Exclusion'
  BY <1>2, EndItself, ItselfExclusion
<1> QED
  BY <1>1, <1>2, <1>3, <1>4, QuietStep

-----------------------------------------------------------------------------
(* Opening and closing in the tables                                       *)

\* The project of an open session is open and its handle registered.
LEMMA OpenSession ==
  ASSUME LifecycleIInv, NEW s \in SessionIds, sessions[s] # Closed
  PROVE  /\ sessions[s].handle \in HandleIds
         /\ handles[sessions[s].handle] # None
         /\ Key(s) = handles[sessions[s].handle] /\ Key(s) \in Projects
         /\ registry.handles[Key(s)] = sessions[s].handle
<1>1. sessions[s].handle \in HandleIds /\ handles[sessions[s].handle] \in Maybe(Projects)
  BY DEF LifecycleIInv, TypeOK
<1>2. handles[sessions[s].handle] # None
  BY DEF LifecycleIInv, Tables, OpenProgramsHaveProjects
<1>3. ~\E c \in Calls : call[c].pc = "publish" /\ call[c].handle = sessions[s].handle
  BY DEF LifecycleIInv, Fits, PublishFits
<1>4. registry.handles[handles[sessions[s].handle]] = sessions[s].handle
  BY <1>1, <1>2, <1>3 DEF LifecycleIInv, NoLostProject
<1> QED
  BY <1>1, <1>2, <1>4 DEF Key, Maybe

\* A session closes, and its project stays open, or closes with its last one.
Closes(s) ==
  /\ sessions' = [sessions EXCEPT ![s] = Closed]
  /\ \/ handles' = handles
     \/ Users(sessions[s].handle) = {s} /\ handles' = [handles EXCEPT ![sessions[s].handle] = None]

LEMMA ClosesEffect ==
  ASSUME LifecycleIInv, NEW s \in SessionIds, sessions[s] # Closed, Closes(s)
  PROVE  /\ sessions' \in [SessionIds -> [handle : HandleIds, prog : Programs, for : Targets] \union {Closed}]
         /\ handles' \in [HandleIds -> Maybe(Projects)]
         /\ sessions'[s] = Closed /\ \A z \in SessionIds \ {s} : sessions'[z] = sessions[z]
         /\ \A h \in HandleIds : handles'[h] = handles[h]
              \/ (handles'[h] = None /\ handles[h] = Key(s) /\ registry.handles[Key(s)] = h)
         /\ \A z \in SessionIds \ {s} : sessions[z].handle = sessions[s].handle => handles' = handles
         /\ OpenProgramsHaveProjects'
<1>1. /\ sessions \in [SessionIds -> [handle : HandleIds, prog : Programs, for : Targets] \union {Closed}]
      /\ handles \in [HandleIds -> Maybe(Projects)]
  BY DEF LifecycleIInv, TypeOK
<1>2. sessions[s].handle \in HandleIds /\ Key(s) = handles[sessions[s].handle]
      /\ registry.handles[Key(s)] = sessions[s].handle
  BY OpenSession
<1>3. sessions'[s] = Closed /\ \A z \in SessionIds \ {s} : sessions'[z] = sessions[z]
  BY <1>1 DEF Closes
<1>4. sessions' \in [SessionIds -> [handle : HandleIds, prog : Programs, for : Targets] \union {Closed}]
  BY <1>1 DEF Closes
<1>5. handles' \in [HandleIds -> Maybe(Projects)]
  BY <1>1, <1>2 DEF Closes, Maybe
<1>6. \A h \in HandleIds : handles'[h] = handles[h] \/ (handles'[h] = None /\ h = sessions[s].handle)
  BY <1>1, <1>2 DEF Closes
<1>7. \A z \in SessionIds \ {s} : sessions[z].handle = sessions[s].handle => handles' = handles
  BY DEF Closes, Users
<1>8. OpenProgramsHaveProjects'
  <2> SUFFICES ASSUME NEW z \in SessionIds, sessions'[z] # Closed PROVE handles'[sessions'[z].handle] # None
    BY DEF OpenProgramsHaveProjects
  <2>1. z # s /\ sessions'[z] = sessions[z] /\ sessions[z] # Closed
    BY <1>3
  <2>2. sessions[z].handle \in HandleIds /\ handles[sessions[z].handle] # None
    BY <2>1, OpenSession
  <2> QED
    BY <1>6, <1>7, <2>1, <2>2
<1> QED
  BY <1>2, <1>3, <1>4, <1>5, <1>6, <1>7, <1>8

LEMMA SessionClosesIsClosing ==
  ASSUME NEW s, SessionCloses(s)
  PROVE  Closes(s)
BY DEF SessionCloses, Closes

\* A rollback that closes the project closes every session of it.
LEMMA ForceClosedEffect ==
  ASSUME LifecycleIInv, NEW h \in HandleIds, ForceClosed(h)
  PROVE  /\ sessions' \in [SessionIds -> [handle : HandleIds, prog : Programs, for : Targets] \union {Closed}]
         /\ handles' \in [HandleIds -> Maybe(Projects)]
         /\ \A s \in SessionIds :
              sessions'[s] = sessions[s] \/ (sessions'[s] = Closed /\ sessions[s] # Closed /\ sessions[s].handle = h)
         /\ \A s \in SessionIds : sessions[s] # Closed /\ sessions[s].handle = h => sessions'[s] = Closed
         /\ handles'[h] = None /\ \A g \in HandleIds \ {h} : handles'[g] = handles[g]
         /\ OpenProgramsHaveProjects'
<1>1. /\ sessions \in [SessionIds -> [handle : HandleIds, prog : Programs, for : Targets] \union {Closed}]
      /\ handles \in [HandleIds -> Maybe(Projects)]
  BY DEF LifecycleIInv, TypeOK
<1>2. \A s \in SessionIds : s \in Users(h) => sessions[s] # Closed
  BY IdentitiesAssumption DEF Users, Closed
<1>3. sessions' \in [SessionIds -> [handle : HandleIds, prog : Programs, for : Targets] \union {Closed}]
  BY <1>1 DEF ForceClosed
<1>4. handles' \in [HandleIds -> Maybe(Projects)]
  BY <1>1 DEF ForceClosed, Maybe
<1>5. /\ \A s \in SessionIds :
           sessions'[s] = sessions[s] \/ (sessions'[s] = Closed /\ sessions[s] # Closed /\ sessions[s].handle = h)
      /\ \A s \in SessionIds : sessions[s] # Closed /\ sessions[s].handle = h => sessions'[s] = Closed
  BY <1>2 DEF ForceClosed, Users
<1>6. handles'[h] = None /\ \A g \in HandleIds \ {h} : handles'[g] = handles[g]
  BY <1>1 DEF ForceClosed
<1>7. OpenProgramsHaveProjects'
  <2> SUFFICES ASSUME NEW z \in SessionIds, sessions'[z] # Closed PROVE handles'[sessions'[z].handle] # None
    BY DEF OpenProgramsHaveProjects
  <2>1. sessions'[z] = sessions[z] /\ sessions[z] # Closed /\ sessions[z].handle # h
    BY <1>5
  <2>2. sessions[z].handle \in HandleIds /\ handles[sessions[z].handle] # None
    BY <2>1, OpenSession
  <2> QED
    BY <1>6, <2>1, <2>2
<1> QED
  BY <1>3, <1>4, <1>5, <1>6, <1>7

\* Only a closed handle leaves the table.
LEMMA WithoutClosedEffect ==
  ASSUME NEW table \in [Projects -> Maybe(HandleIds)], NEW k \in Projects, NEW h
  PROVE  /\ WithoutClosed(table, k, h) \in [Projects -> Maybe(HandleIds)]
         /\ \A j \in Projects : WithoutClosed(table, k, h)[j] = table[j]
                                \/ (WithoutClosed(table, k, h)[j] = None /\ handles[table[j]] = None)
BY DEF WithoutClosed, Maybe

\* What a session has of its target stays while the target is left alone.
LEMMA ServedStays ==
  ASSUME LifecycleIInv, NEW c \in Calls, Within(c), NEW u \in Targets,
         registry'.sessions[u] = registry.sessions[u], registry'.projects[u] = registry.projects[u],
         registry.locks[u] # None => registry'.locks[u] # None,
         Open(Installed(u))'
  PROVE  Served(u)'
<1> DEFINE s == registry.sessions[u]
           h == sessions[s].handle
<1>0. registry.sessions[u] \in Maybe(SessionIds)
  BY DEF LifecycleIInv, TypeOK, RegistryType
<1>1. s \in SessionIds /\ sessions'[s] = sessions[s] /\ sessions[s] # Closed
  BY <1>0 DEF Within, Open, Installed, Maybe
<1>2. Served(u)
  BY <1>1, IdentitiesAssumption DEF LifecycleIInv, Tables, OpenSessionsAreServed, Open, Installed
<1>3. h \in HandleIds /\ handles[h] # None /\ handles[h] \in Projects /\ registry.handles[handles[h]] = h
  BY <1>1, OpenSession
<1>4. handles'[h] = handles[h]
  BY <1>1, <1>3 DEF Within, OpenProgramsHaveProjects
<1>5. registry'.handles[handles[h]] = h
  BY <1>3, <1>4 DEF Within
<1> QED
  BY <1>1, <1>2, <1>4, <1>5 DEF Served, Installed, Key, Open

-----------------------------------------------------------------------------
(* Steps of a call on its own target                                       *)

\* A call that works on its target's session or project, past the look-up.
LEMMA WorkingNow ==
  ASSUME LifecycleIInv, NEW c \in Calls, call[c].pc \notin Outside \union {"uncontext", "publish"},
         call[c].op # "sync", ~Loose(c) \/ Installed(WorkTarget(c)) # None \/ registry.projects[WorkTarget(c)] # None
  PROVE  Working(c) /\ registry.projects[WorkTarget(c)] = call[c].key
<1>1. HoldsProject(c)
  BY DEF HoldsProject, Inside
<1>2. Mine(c)
  BY <1>1, ProjectClaims DEF Gone
<1> QED
  BY <1>1, <1>2 DEF Working, Mine

\* The types of the tables' parts.
LEMMA TableTypes ==
  ASSUME LifecycleIInv
  PROVE  /\ registry \in RegistryType
         /\ registry.sessions \in [Targets -> Maybe(SessionIds)] /\ registry.locks \in [Targets -> Maybe(LockIds)]
         /\ registry.projects \in [Targets -> Maybe(Projects)] /\ registry.handles \in [Projects -> Maybe(HandleIds)]
         /\ handles \in [HandleIds -> Maybe(Projects)] /\ context \in [Targets -> Maybe(SessionIds)]
         /\ sessions \in [SessionIds -> [handle : HandleIds, prog : Programs, for : Targets] \union {Closed}]
         /\ faults \in 0 .. MaxFaults
BY DEF LifecycleIInv, TypeOK, RegistryType

\* The fits of a call that moved on with what it had.
LEMMA GotoFits ==
  ASSUME LifecycleIInv, NEW c \in Calls, Within(c), NEW pc \in Pcs, pc # "publish", Goto(c, pc),
         registry'.projects[WorkTarget(c)] = call[c].key \/ pc = "uncontext"
  PROVE  KeyFits(c)' /\ HandleFits(c)' /\ PublishFits(c)'
<1>1. /\ call'[c].pc = pc /\ call'[c].key = call[c].key /\ call'[c].handle = call[c].handle
      /\ WorkTarget(c)' = WorkTarget(c)
  BY GotoFields DEF LifecycleIInv
<1>2. KeyFits(c)'
  BY <1>1 DEF KeyFits, Claims, Mine
<1>3. HandleFits(c) /\ call[c].handle \in Maybe(HandleIds)
  BY Placed DEF Fits, CallType
<1>4. HandleFits(c)'
  BY <1>1, <1>3 DEF HandleFits, Within, Maybe
<1> QED
  BY <1>1, <1>2, <1>4 DEF PublishFits

\* A program is closed and its call goes on to open it again or to drop it.
LEMMA ReleasedStep ==
  ASSUME LifecycleIInv, NEW c \in Calls, call[c].pc = "close",
         NEW x \in Targets, x = WorkTarget(c), NEW s \in SessionIds, s = Installed(x), sessions[s] # Closed, s # None,
         Closes(s), registry' = registry, NEW pc \in {"forget", "cleanup"}, pc = "cleanup" => Leases(c),
         Becomes(c, [call[c] EXCEPT !.pc = pc, !.handle = sessions[s].handle, !.prog = sessions[s].prog]),
         Fault \/ NoFault, UNCHANGED context
  PROVE  LifecycleIInv'
<1>0. /\ call[c].new = None /\ call[c] \in CallType /\ Shape(call[c]) /\ Course(call[c]) /\ Fits(c) /\ TypeOK
      /\ call[c].key \in Projects /\ call[c].lock \in LockIds /\ call[c].lock # None
  BY Placed DEF Shape
<1>1. PICK h \in HandleIds : h = sessions[s].handle
  BY OpenSession
<1>2. call[c].op # "sync" /\ (call[c].on = None => call[c].op \in {"close", "remove"})
  BY <1>0 DEF Course, Outside
<1>3. Working(c) /\ registry.projects[x] = call[c].key
  BY <1>0, <1>2, WorkingNow DEF Outside
<1>4. Served(x)
  BY DEF LifecycleIInv, Tables, OpenSessionsAreServed, Open
<1>5. Key(s) = call[c].key /\ registry.locks[x] # None
  BY <1>3, <1>4 DEF Served
<1>6. handles[h] = call[c].key /\ registry.handles[call[c].key] = h
  BY <1>1, <1>5, OpenSession
<1>7. \A u \in Targets \ {x} : Installed(u) # s
  BY DEF LifecycleIInv, Tables, OneTargetPerSession
<1> DEFINE r == [call[c] EXCEPT !.pc = pc, !.handle = h, !.prog = sessions[s].prog]
<1>8. r \in CallType
  <2>1. h \in Maybe(HandleIds) /\ sessions[s].prog \in Maybe(Programs)
    BY <1>1, TableTypes DEF Maybe
  <2> QED
    BY <1>0, <2>1 DEF CallType, Pcs
<1>p. sessions[s].prog \in Programs
  BY TableTypes, IdentitiesAssumption DEF Closed
<1>9. /\ r.pc = pc /\ r.handle = h /\ r.op = call[c].op /\ r.on = call[c].on /\ r.target = call[c].target
      /\ r.key = call[c].key /\ r.new = None /\ r.old = call[c].old /\ r.lock = call[c].lock /\ r.want = call[c].want
      /\ r.prog \in Programs
  BY <1>0, <1>p DEF CallType
<1>10. call' \in [Calls -> CallType] /\ call'[c] = r /\ \A d \in Calls \ {c} : call'[d] = call[d]
  <2>1. Becomes(c, r)
    BY <1>1
  <2> HIDE DEF r
  <2> QED
    BY <1>0, <1>8, <2>1, BecomesFields
<1> HIDE DEF r
<1>11. /\ sessions' \in [SessionIds -> [handle : HandleIds, prog : Programs, for : Targets] \union {Closed}]
       /\ handles' \in [HandleIds -> Maybe(Projects)]
       /\ sessions'[s] = Closed /\ \A z \in SessionIds \ {s} : sessions'[z] = sessions[z]
       /\ \A g \in HandleIds : handles'[g] = handles[g]
            \/ (handles'[g] = None /\ handles[g] = Key(s) /\ registry.handles[Key(s)] = g)
       /\ OpenProgramsHaveProjects'
  BY ClosesEffect
<1>12. Footprint(c)
  <2>1. Within(c)
    BY <1>5, <1>7, <1>10, <1>11 DEF Within
  <2>2. Hands(c)
    BY <1>3 DEF Hands, Installed
  <2>3. HoldsProject(c) /\ (HoldsName(c)' => HoldsName(c))
    BY <1>3, <1>9, <1>10 DEF Working, HoldsName
  <2>4. \A d \in Calls \ {c} : call[d].pc = "publish" => h # call[d].handle
    BY <1>1, HandleIsMine
  <2>5. Itself(c)
    BY <1>9, <1>10, <2>3, <2>4 DEF Itself
  <2> QED
    BY <2>1, <2>2, <2>5 DEF Footprint
<1>13. WorkTarget(c)' = x /\ Leases(c)' = Leases(c)
  BY <1>9, <1>10 DEF WorkTarget, Leases
<1>14. Fits(c)'
  <2>1. KeyFits(c)' /\ NewFits(c)' /\ PublishFits(c)'
    BY <1>3, <1>9, <1>10, <1>13 DEF KeyFits, Mine, NewFits, PublishFits
  <2>2. HandleFits(c)'
    BY <1>6, <1>9, <1>10, <1>11 DEF HandleFits
  <2>3. Leases(c) => registry.locks[call[c].on] # None /\ (call[c].op # "restore" => Installed(call[c].on) # None)
    BY <1>0 DEF Fits, OwnFits
  <2>4. call[c].op # "create"
    BY <1>0, <1>2 DEF Course
  <2>5. OwnFits(c)'
    BY <1>9, <1>10, <1>13, <2>3, <2>4 DEF OwnFits, Installed, Leases
  <2> QED
    BY <2>1, <2>2, <2>5 DEF Fits
<1>15. Shape(r) /\ Course(r)
  <2>1. Shape(r)
    BY <1>0, <1>9 DEF Shape
  <2>2. Course(r)
    BY <1>0, <1>2, <1>9 DEF Course, Leases
  <2> QED
    BY <2>1, <2>2
<1>16. ~Open(Installed(x))' /\ Reopening(c)'
  BY <1>2, <1>9, <1>10, <1>11 DEF Open, Installed, Reopening, Leases
<1>17. Lands(c, x)
  BY <1>10, <1>13, <1>14, <1>15, <1>16 DEF Lands
<1>18. TypeOK'
  BY <1>10, <1>11, <1>0, Faults, TableTypes, TypesAfter
<1> QED
  BY <1>3, <1>12, <1>17, <1>18, OwnStep


\* A removal that did not delete the program opens it again.
LEMMA RestoredStep ==
  ASSUME LifecycleIInv, NEW c \in Calls, call[c].pc = "close", call[c].op = "remove",
         NEW x \in Targets, x = WorkTarget(c), NEW s \in SessionIds, s = Installed(x), sessions[s] # Closed, s # None,
         Closes(s), handles' = handles,
         registry' = [registry EXCEPT !.sessions[x] = None, !.projects[x] = call[c].key,
                                      !.locks[x] = IF @ = None THEN call[c].lock ELSE @],
         Becomes(c, [call[c] EXCEPT !.op = "restore", !.pc = "handle", !.on = x, !.prog = sessions[s].prog]),
         Fault \/ NoFault, UNCHANGED context
  PROVE  LifecycleIInv'
<1>0. /\ call[c].new = None /\ call[c] \in CallType /\ Shape(call[c]) /\ Course(call[c]) /\ Fits(c) /\ TypeOK
      /\ call[c].key \in Projects /\ call[c].lock \in LockIds /\ call[c].lock # None
  BY Placed DEF Shape
<1>1. call[c].on = None /\ x = call[c].target
  BY <1>0 DEF Course, WorkTarget
<1>2. Working(c) /\ registry.projects[x] = call[c].key
  BY <1>0, WorkingNow DEF Outside
<1>3. Served(x)
  BY DEF LifecycleIInv, Tables, OpenSessionsAreServed, Open
<1>4. Key(s) = call[c].key /\ registry.locks[x] # None
  BY <1>2, <1>3 DEF Served
<1>5. \A u \in Targets \ {x} : Installed(u) # s
  BY DEF LifecycleIInv, Tables, OneTargetPerSession
<1> DEFINE r == [call[c] EXCEPT !.op = "restore", !.pc = "handle", !.on = x, !.prog = sessions[s].prog]
<1>6. r \in CallType
  <2>1. x \in Maybe(Targets) /\ sessions[s].prog \in Maybe(Programs)
    BY TableTypes DEF Maybe
  <2> QED
    BY <1>0, <2>1, ZenonT(60) DEF CallType, Pcs, Kinds
<1>p. sessions[s].prog \in Programs
  BY TableTypes, IdentitiesAssumption DEF Closed
<1>7. /\ r.pc = "handle" /\ r.handle = call[c].handle /\ r.op = "restore" /\ r.on = x /\ r.target = call[c].target
      /\ r.key = call[c].key /\ r.new = None /\ r.old = call[c].old /\ r.lock = call[c].lock /\ r.want = call[c].want
      /\ r.prog \in Programs
  BY <1>0, <1>p DEF CallType
<1>8. call' \in [Calls -> CallType] /\ call'[c] = r /\ \A d \in Calls \ {c} : call'[d] = call[d]
  <2> HIDE DEF r
  <2> QED
    BY <1>0, <1>6, BecomesFields DEF r
<1> HIDE DEF r
<1>9. /\ registry' \in RegistryType
      /\ registry'.sessions[x] = None /\ registry'.projects[x] = call[c].key /\ registry'.locks[x] # None
      /\ \A u \in Targets \ {x} : registry'.sessions[u] = registry.sessions[u]
           /\ registry'.projects[u] = registry.projects[u] /\ registry'.locks[u] = registry.locks[u]
      /\ registry'.handles = registry.handles
  BY <1>0, TableTypes, ZenonT(60) DEF RegistryType, Maybe
<1>10. /\ sessions' \in [SessionIds -> [handle : HandleIds, prog : Programs, for : Targets] \union {Closed}]
       /\ sessions'[s] = Closed /\ \A z \in SessionIds \ {s} : sessions'[z] = sessions[z]
       /\ OpenProgramsHaveProjects'
  BY ClosesEffect
<1>11. Footprint(c)
  <2>1. Within(c)
    BY <1>4, <1>5, <1>8, <1>9, <1>10 DEF Within
  <2>2. Hands(c)
    BY <1>9 DEF Hands
  <2>3. HoldsProject(c) /\ HoldsName(c)
    BY <1>2 DEF Working, HoldsName
  <2>4. Itself(c)
    BY <1>7, <1>8, <2>3, HandleIsMine DEF Itself
  <2> QED
    BY <2>1, <2>2, <2>4 DEF Footprint
<1>12. WorkTarget(c)' = x
  BY <1>7, <1>8, IdentitiesAssumption DEF WorkTarget
<1>13. Fits(c)'
  <2>1. KeyFits(c)' /\ NewFits(c)' /\ PublishFits(c)'
    BY <1>7, <1>8, <1>9, <1>12 DEF KeyFits, Mine, NewFits, PublishFits
  <2>2. HandleFits(c)'
    BY <1>0, <1>7, <1>8 DEF HandleFits, Fits
  <2>3. OwnFits(c)'
    BY <1>7, <1>8, <1>9 DEF OwnFits, Leases
  <2> QED
    BY <2>1, <2>2, <2>3 DEF Fits
<1>14. Shape(r) /\ Course(r)
  <2>1. Shape(r)
    BY <1>0, <1>7, IdentitiesAssumption DEF Shape
  <2>2. Course(r)
    BY <1>1, <1>7, IdentitiesAssumption DEF Course
  <2> QED
    BY <2>1, <2>2
<1>15. Lands(c, x)
  BY <1>8, <1>9, <1>13, <1>14 DEF Lands, Open, Installed
<1>16. TypeOK'
  BY <1>8, <1>9, <1>10, Faults, TableTypes, TypesAfter DEF LifecycleIInv
<1> QED
  BY <1>2, <1>11, <1>15, <1>16, OwnStep

LEMMA CloseStep ==
  ASSUME LifecycleIInv, NEW c \in Calls, Close(c)
  PROVE  LifecycleIInv'
<1>0. call[c].pc = "close" /\ UNCHANGED context /\ TypeOK
  BY Placed DEF Close
<1>1. PICK x \in Targets : x = WorkTarget(c)
  BY <1>0, Placed
<1>2. ASSUME End(c), UNCHANGED <<handles, sessions, registry>>, Fault \/ NoFault PROVE LifecycleIInv'
  <2>1. ~Reopening(c)
    BY <1>0 DEF Reopening
  <2> QED
    BY <1>0, <1>2, <2>1, EndStep, TableTypes
<1>3. CASE ~Open(Installed(x))
  BY <1>1, <1>2, <1>3 DEF Close
<1>4. CASE Open(Installed(x))
  <2>1. PICK s \in SessionIds : s = Installed(x) /\ sessions[s] # Closed /\ s # None
    BY <1>4, TableTypes DEF Open, Installed, Maybe
  <2>2. CASE SessionCloses(s) /\ NoFault /\ UNCHANGED registry /\
             Becomes(c, [call[c] EXCEPT !.pc = "forget", !.handle = sessions[s].handle, !.prog = sessions[s].prog])
    BY <1>0, <1>1, <2>1, <2>2, SessionClosesIsClosing, ReleasedStep
  <2>3. CASE Fault /\ End(c) /\ UNCHANGED <<sessions, handles, registry>>
    BY <1>2, <2>3
  <2>4. CASE /\ sessions' = [sessions EXCEPT ![s] = Closed] /\ Fault /\ UNCHANGED <<handles, registry>>
             /\ Becomes(c, [call[c] EXCEPT !.pc = IF Leases(c) THEN "cleanup" ELSE "forget",
                                           !.handle = sessions[s].handle, !.prog = sessions[s].prog])
    <3>1. PICK pc \in {"forget", "cleanup"} : pc = IF Leases(c) THEN "cleanup" ELSE "forget"
      OBVIOUS
    <3>2. Closes(s)
      BY <2>4 DEF Closes
    <3>3. Becomes(c, [call[c] EXCEPT !.pc = pc, !.handle = sessions[s].handle, !.prog = sessions[s].prog])
      BY <2>4, <3>1
    <3> QED
      BY <1>0, <1>1, <2>1, <2>4, <3>1, <3>2, <3>3, ReleasedStep
  <2>5. CASE /\ call[c].op = "remove" /\ Fault /\ sessions' = [sessions EXCEPT ![s] = Closed] /\ UNCHANGED handles
             /\ registry' = [registry EXCEPT !.sessions[x] = None, !.projects[x] = call[c].key,
                                             !.locks[x] = IF @ = None THEN call[c].lock ELSE @]
             /\ Becomes(c, [call[c] EXCEPT !.op = "restore", !.pc = "handle", !.on = x, !.prog = sessions[s].prog])
    <3>1. Closes(s)
      BY <2>5 DEF Closes
    <3> QED
      BY <1>0, <1>1, <2>1, <2>5, <3>1, RestoredStep
  <2> QED
    BY <1>1, <1>4, <2>1, <2>2, <2>3, <2>4, <2>5 DEF Close
<1> QED
  BY <1>3, <1>4

\* The session of a target that a step leaves alone is still served, and closed
\* only while the call opens it again.
LEMMA SameSessionLands ==
  ASSUME LifecycleIInv, NEW c \in Calls, Working(c), Within(c), NEW x \in Targets, x = WorkTarget(c),
         registry'.sessions[x] = registry.sessions[x], registry'.projects[x] = registry.projects[x],
         registry.locks[x] # None => registry'.locks[x] # None,
         \A s \in SessionIds : Installed(x) = s => sessions'[s] = sessions[s],
         Fits(c)', Shape(call'[c]), Course(call'[c]),
         Reopening(c) => Reopening(c)' /\ WorkTarget(c)' = x
  PROVE  Lands(c, x)
<1>1. (Open(Installed(x)) => Served(x))'
  BY ServedStays
<1>2. Installed(x) # None /\ ~Reopening(c) => Open(Installed(x))
  BY MineIsOpen DEF Working
<1>3. (Installed(x) # None /\ ~Open(Installed(x)) => Reopening(c) /\ WorkTarget(c) = x)'
  BY <1>2, TableTypes DEF Installed, Open, Maybe
<1> QED
  BY <1>1, <1>3 DEF Lands

LEMMA ForgetStep ==
  ASSUME LifecycleIInv, NEW c \in Calls, Forget(c)
  PROVE  LifecycleIInv'
<1>0. /\ call[c].pc = "forget" /\ handles' = handles /\ sessions' = sessions /\ context' = context /\ faults' = faults
      /\ call[c] \in CallType /\ Shape(call[c]) /\ Course(call[c]) /\ Fits(c) /\ TypeOK
      /\ call[c].key \in Projects /\ call[c].key # None
  BY Placed DEF Forget
<1>1. PICK x \in Targets : x = WorkTarget(c)
  BY <1>0, Placed
<1>2. Working(c) /\ registry.projects[x] = call[c].key
  <2>1. call[c].op # "sync"
    BY <1>0 DEF Course, Outside
  <2> QED
    BY <1>0, <1>1, <2>1, WorkingNow DEF Outside, Loose
<1> DEFINE table == IF call[c].handle = None THEN registry.handles
                    ELSE WithoutClosed(registry.handles, call[c].key, call[c].handle)
<1>3. /\ table \in [Projects -> Maybe(HandleIds)]
      /\ \A k \in Projects : table[k] = registry.handles[k] \/ (table[k] = None /\ handles[registry.handles[k]] = None)
  BY <1>0, TableTypes, WithoutClosedEffect
<1>4. OpenProgramsHaveProjects'
  BY <1>0 DEF LifecycleIInv, Tables, OpenProgramsHaveProjects
<1>5. CASE call[c].op # "create"
  <2>1. registry' = [registry EXCEPT !.handles = table]
    BY <1>5 DEF Forget
  <2> HIDE DEF table
  <2>2. /\ registry' \in RegistryType /\ registry'.handles = table /\ registry'.sessions = registry.sessions
        /\ registry'.projects = registry.projects /\ registry'.locks = registry.locks
    BY <1>3, <2>1, TableTypes DEF RegistryType
  <2>3. \A d \in Calls \ {c} : call'[d] = call[d]
    BY <1>0, <1>5, GotoFields, EndFields DEF Forget, Pcs
  <2>4. Within(c)
    BY <1>0, <1>3, <1>4, <2>2, <2>3 DEF Within
  <2>5. Hands(c)
    BY <1>1, <1>2, <2>2 DEF Hands, Installed
  <2>6. ASSUME NEW pc \in {"handle", "drop"}, Goto(c, pc),
               pc = "handle" => Leases(c), pc = "drop" => ~Leases(c) /\ call[c].op \in {"close", "remove"}
        PROVE  LifecycleIInv'
    <3>1. pc \in Pcs /\ pc # "publish"
      BY DEF Pcs
    <3>2. Itself(c)
      BY <2>6, <1>2, <3>1, GotoItself DEF Working
    <3>3. KeyFits(c)' /\ HandleFits(c)' /\ PublishFits(c)'
      BY <1>1, <1>2, <2>2, <2>4, <2>6, <3>1, GotoFits
    <3>4. /\ call' \in [Calls -> CallType]
          /\ call'[c].pc = pc /\ call'[c].op = call[c].op /\ call'[c].target = call[c].target
          /\ call'[c].on = call[c].on /\ call'[c].want = call[c].want /\ call'[c].key = call[c].key /\ call'[c].prog = call[c].prog
          /\ call'[c].lock = call[c].lock /\ call'[c].handle = call[c].handle /\ call'[c].old = call[c].old
          /\ call'[c].new = call[c].new /\ WorkTarget(c)' = WorkTarget(c)
      BY <1>0, <2>6, <3>1, GotoFields
    <3>5. OwnFits(c) /\ (Leases(c) => call[c].new = None) /\ Leases(c)' = Leases(c)
      BY <1>0, <3>4 DEF Fits, Shape, Leases
    <3>6. NewFits(c)' /\ OwnFits(c)'
      BY <1>0, <1>5, <2>2, <2>6, <3>4, <3>5 DEF NewFits, OwnFits, Installed, Leases
    <3>7. Shape(call'[c]) /\ Course(call'[c])
      <4>1. Shape(call'[c])
        BY <1>0, <2>6, <3>4, <3>5 DEF Shape, Course, Outside, Leases
      <4>2. Course(call'[c])
        BY <1>0, <2>6, <3>4 DEF Course, Leases, Outside
      <4> QED
        BY <4>1, <4>2
    <3>8. Reopening(c)'
      BY <2>6, <3>4 DEF Reopening, Leases
    <3>9. Lands(c, x)
      BY <1>0, <1>1, <1>2, <2>2, <2>4, <3>3, <3>4, <3>6, <3>7, <3>8, SameSessionLands DEF Fits
    <3>10. TypeOK'
      BY <1>0, <2>2, <3>4, TableTypes, TypesAfter
    <3> QED
      BY <1>1, <1>2, <2>4, <2>5, <3>2, <3>9, <3>10, OwnStep DEF Footprint
  <2>7. ASSUME End(c), ~Leases(c), call[c].op \notin {"close", "remove"} PROVE LifecycleIInv'
    <3>1. Itself(c)
      BY <2>7, EndItself
    <3>2. call' \in [Calls -> CallType] /\ Shape(call'[c]) /\ Course(call'[c]) /\ Fits(c)'
      BY <1>0, <2>7, EndFields
    <3>3. ~Reopening(c)
      BY <1>0, <2>7 DEF Reopening, Leases
    <3>4. Lands(c, x)
      BY <1>0, <1>1, <1>2, <2>2, <2>4, <3>2, <3>3, SameSessionLands
    <3>5. TypeOK'
      BY <1>0, <2>2, <3>2, TableTypes, TypesAfter
    <3> QED
      BY <1>1, <1>2, <2>4, <2>5, <3>1, <3>4, <3>5, OwnStep DEF Footprint
  <2>8. CASE Leases(c)
    <3>1. Goto(c, "handle")
      <4>1. (CASE Leases(c) -> Goto(c, "handle")
               [] call[c].op \in {"close", "remove"} -> Goto(c, "drop")
               [] OTHER -> End(c)) /\ call[c].op \notin {"close", "remove"}
        BY <1>0, <2>8 DEF Forget, Leases, Course
      <4> QED
        BY <2>8, <4>1
    <3> QED
      BY <2>6, <2>8, <3>1
  <2>9. CASE ~Leases(c) /\ call[c].op \in {"close", "remove"}
    BY <2>6, <2>9 DEF Forget
  <2>10. CASE ~Leases(c) /\ call[c].op \notin {"close", "remove"}
    BY <2>7, <2>10 DEF Forget
  <2> QED
    BY <2>8, <2>9, <2>10
<1>6. CASE call[c].op = "create"
  <2> DEFINE t == call[c].target
  <2>1. /\ registry' = [registry EXCEPT !.handles = table, !.projects[t] = call[c].was,
                                        !.locks[t] = IF call[c].made THEN None ELSE @]
        /\ End(c) /\ t = x
    BY <1>0, <1>1, <1>6 DEF Forget, Course, Leases, WorkTarget
  <2>2. call[c].was \in Maybe(Projects)
    BY <1>0 DEF CallType
  <2> HIDE DEF table
  <2>3. /\ registry' \in RegistryType /\ registry'.handles = table /\ registry'.sessions = registry.sessions
        /\ \A u \in Targets \ {x} : registry'.projects[u] = registry.projects[u] /\ registry'.locks[u] = registry.locks[u]
    BY <1>3, <2>1, <2>2, TableTypes DEF RegistryType, Maybe
  <2>4. call' \in [Calls -> CallType] /\ Shape(call'[c]) /\ Course(call'[c]) /\ Fits(c)'
        /\ \A d \in Calls \ {c} : call'[d] = call[d]
    BY <1>0, <2>1, EndFields
  <2>5. Within(c)
    BY <1>0, <1>1, <1>3, <1>4, <2>3, <2>4 DEF Within
  <2>6. registry'.sessions[x] = None
    BY <1>0, <1>6, <2>1, <2>3 DEF Fits, OwnFits, Installed
  <2>7. Hands(c) /\ Itself(c)
    BY <1>1, <1>6, <2>1, <2>6, EndItself DEF Hands
  <2>8. Lands(c, x)
    BY <2>4, <2>6 DEF Lands, Open, Installed
  <2>9. TypeOK'
    BY <1>0, <2>3, <2>4, TableTypes, TypesAfter
  <2> QED
    BY <1>1, <1>2, <2>5, <2>7, <2>8, <2>9, OwnStep DEF Footprint
<1> QED
  BY <1>5, <1>6

\* A call moves on after it changed its own target.
LEMMA MoveStep ==
  ASSUME LifecycleIInv, NEW c \in Calls, Working(c), Within(c), Hands(c), NEW x \in Targets, x = WorkTarget(c),
         NEW pc \in Pcs, pc # "publish", Goto(c, pc), registry'.projects[x] = call[c].key \/ pc = "uncontext",
         NewFits(c)', OwnFits(c)', Shape(call'[c]), Course(call'[c]),
         (Open(Installed(x)) => Served(x))', (Installed(x) # None /\ ~Open(Installed(x)) => Reopening(c))',
         handles' \in [HandleIds -> Maybe(Projects)], registry' \in RegistryType,
         sessions' \in [SessionIds -> [handle : HandleIds, prog : Programs, for : Targets] \union {Closed}],
         context' \in [Targets -> Maybe(SessionIds)], Fault \/ NoFault
  PROVE  LifecycleIInv'
<1>1. call' \in [Calls -> CallType] /\ WorkTarget(c)' = x
  BY GotoFields DEF LifecycleIInv
<1>2. KeyFits(c)' /\ HandleFits(c)' /\ PublishFits(c)'
  BY GotoFits
<1>3. Lands(c, x)
  BY <1>1, <1>2 DEF Lands, Fits
<1>4. Footprint(c)
  BY GotoItself DEF Footprint, Working
<1>5. TypeOK'
  BY <1>1, Faults, TypesAfter DEF LifecycleIInv
<1> QED
  BY <1>3, <1>4, <1>5, OwnStep

LEMMA DropStep ==
  ASSUME LifecycleIInv, NEW c \in Calls, Drop(c)
  PROVE  LifecycleIInv'
<1>0. /\ call[c].pc = "drop" /\ handles' = handles /\ sessions' = sessions /\ context' = context /\ NoFault
      /\ Goto(c, "uncontext")
      /\ call[c] \in CallType /\ Shape(call[c]) /\ Course(call[c]) /\ TypeOK
      /\ call[c].key \in Projects /\ call[c].lock \in LockIds
  BY Placed DEF Drop, NoFault
<1>1. PICK x \in Targets : x = WorkTarget(c)
  BY <1>0, Placed
<1>2. call[c].on = None /\ x = call[c].target /\ call[c].op \in {"close", "remove"}
  BY <1>0, <1>1 DEF Course, WorkTarget, Outside
<1>3. Working(c)
  BY <1>0, <1>1, <1>2, WorkingNow DEF Outside, Loose
<1>4. /\ registry' \in RegistryType
      /\ registry'.sessions[x] = None /\ (registry'.projects[x] = call[c].key \/ registry'.projects[x] = None)
      /\ \A u \in Targets \ {x} : registry'.sessions[u] = registry.sessions[u]
           /\ registry'.projects[u] = registry.projects[u] /\ registry'.locks[u] = registry.locks[u]
      /\ registry'.handles = registry.handles
  BY <1>0, <1>2, TableTypes, ZenonT(60) DEF Drop, RegistryType, Maybe
<1>5. "uncontext" \in Pcs
  BY DEF Pcs
<1>6. /\ call'[c].pc = "uncontext" /\ call'[c].op = call[c].op /\ call'[c].target = call[c].target
      /\ call'[c].on = None /\ call'[c].key = call[c].key /\ call'[c].lock = call[c].lock /\ call'[c].prog = call[c].prog
      /\ \A d \in Calls \ {c} : call'[d] = call[d]
  BY <1>0, <1>2, <1>5, GotoFields
<1>7. Within(c)
  <2>1. OpenProgramsHaveProjects'
    BY <1>0 DEF LifecycleIInv, Tables, OpenProgramsHaveProjects
  <2> QED
    BY <1>0, <1>1, <1>4, <1>6, <2>1 DEF Within
<1>8. Hands(c)
  BY <1>1, <1>4 DEF Hands
<1>9. NewFits(c)' /\ OwnFits(c)'
  BY <1>2, <1>6 DEF NewFits, OwnFits, Leases
<1>10. Shape(call'[c]) /\ Course(call'[c])
  BY <1>0, <1>2, <1>6 DEF Shape, Course
<1>11. ~Open(Installed(x))' /\ Installed(x)' = None
  BY <1>4 DEF Open, Installed
<1> QED
  BY <1>0, <1>1, <1>3, <1>4, <1>5, <1>7, <1>8, <1>9, <1>10, <1>11, MoveStep, TableTypes

LEMMA CleanupStep ==
  ASSUME LifecycleIInv, NEW c \in Calls, Cleanup(c)
  PROVE  LifecycleIInv'
<1>0. /\ call[c].pc = "cleanup" /\ handles' = handles /\ sessions' = sessions /\ context' = context /\ NoFault
      /\ Goto(c, "uncontext")
      /\ call[c] \in CallType /\ Shape(call[c]) /\ Course(call[c]) /\ TypeOK
      /\ call[c].key \in Projects /\ call[c].lock \in LockIds
  BY Placed DEF Cleanup, NoFault
<1>1. PICK x \in Targets : x = WorkTarget(c)
  BY <1>0, Placed
<1>2. call[c].on # None
  BY <1>0 DEF Course, Outside
<1>3. Working(c) /\ registry.projects[x] = call[c].key
  <2>1. call[c].op # "sync"
    BY <1>0, <1>2 DEF Course
  <2> QED
    BY <1>0, <1>1, <1>2, <2>1, WorkingNow DEF Outside, Loose
<1>4. PICK table \in [Projects -> Maybe(HandleIds)] :
        /\ table = IF call[c].handle = None THEN registry.handles
                   ELSE WithoutClosed(registry.handles, call[c].key, call[c].handle)
        /\ \A k \in Projects : table[k] = registry.handles[k] \/ (table[k] = None /\ handles[registry.handles[k]] = None)
  BY <1>0, TableTypes, WithoutClosedEffect
<1>5. /\ registry' \in RegistryType
      /\ registry'.sessions[x] = None /\ (registry'.projects[x] = call[c].key \/ registry'.projects[x] = None)
      /\ \A u \in Targets \ {x} : registry'.sessions[u] = registry.sessions[u]
           /\ registry'.projects[u] = registry.projects[u] /\ registry'.locks[u] = registry.locks[u]
      /\ registry'.handles = table
  <2>1. PICK keepsLock \in BOOLEAN : registry' = [registry EXCEPT
          !.sessions[x] = None, !.locks[x] = IF keepsLock THEN @ ELSE None,
          !.projects[x] = IF call[c].op = "restore" THEN @ ELSE None, !.handles = table]
    BY <1>1, <1>4 DEF Cleanup
  <2> QED
    BY <1>3, <2>1, TableTypes DEF RegistryType, Maybe
<1>6. "uncontext" \in Pcs
  BY DEF Pcs
<1>7. /\ call'[c].pc = "uncontext" /\ call'[c].op = call[c].op /\ call'[c].target = call[c].target
      /\ call'[c].on = call[c].on /\ call'[c].key = call[c].key /\ call'[c].lock = call[c].lock /\ call'[c].prog = call[c].prog
      /\ \A d \in Calls \ {c} : call'[d] = call[d]
  BY <1>0, <1>2, <1>6, GotoFields
<1>8. Within(c)
  <2>1. OpenProgramsHaveProjects'
    BY <1>0 DEF LifecycleIInv, Tables, OpenProgramsHaveProjects
  <2> QED
    BY <1>0, <1>1, <1>4, <1>5, <1>7, <2>1 DEF Within
<1>9. Hands(c)
  BY <1>1, <1>5 DEF Hands
<1>10. NewFits(c)' /\ OwnFits(c)'
  BY <1>0, <1>2, <1>7 DEF NewFits, OwnFits, Course
<1>11. Shape(call'[c]) /\ Course(call'[c])
  BY <1>0, <1>2, <1>7 DEF Shape, Course
<1>12. ~Open(Installed(x))' /\ Installed(x)' = None
  BY <1>5 DEF Open, Installed
<1> QED
  BY <1>0, <1>1, <1>3, <1>5, <1>6, <1>8, <1>9, <1>10, <1>11, <1>12, MoveStep, TableTypes

-----------------------------------------------------------------------------
(* Steps that install the session a call opened                            *)

\* The target gets an open session of the call's project.
LEMMA InstalledNow ==
  ASSUME LifecycleIInv, NEW c \in Calls, call[c].pc \in {"install", "rollback"}, Working(c), NewFits(c),
         NEW s \in SessionIds, s = call[c].new, call[c].new # None,
         NEW x \in Targets, x = WorkTarget(c), registry.locks[x] # None,
         registry' = [registry EXCEPT !.sessions[x] = s], handles' = handles, sessions' = sessions,
         \A d \in Calls \ {c} : call'[d] = call[d]
  PROVE  /\ registry' \in RegistryType /\ Within(c) /\ Hands(c)
         /\ Installed(x)' = s /\ Open(s) /\ Key(s) = call[c].key
         /\ registry'.projects = registry.projects /\ registry'.locks = registry.locks
         /\ Open(Installed(x))' /\ Served(x)'
<1>1. sessions[s] # Closed /\ Key(s) = call[c].key /\ s # None
  BY DEF NewFits, Open
<1>2. registry.projects[x] = call[c].key
  BY DEF Working, Mine
<1>3. /\ registry' \in RegistryType /\ registry'.sessions[x] = s
      /\ \A u \in Targets \ {x} : registry'.sessions[u] = registry.sessions[u]
      /\ registry'.projects = registry.projects /\ registry'.locks = registry.locks /\ registry'.handles = registry.handles
  BY TableTypes DEF RegistryType, Maybe
<1>4. OpenProgramsHaveProjects'
  BY DEF LifecycleIInv, Tables, OpenProgramsHaveProjects
<1>5. Within(c)
  BY <1>3, <1>4 DEF Within
<1>6. Hands(c)
  BY <1>2, <1>3 DEF Hands
<1>7. registry.handles[Key(s)] = sessions[s].handle
  BY <1>1, OpenSession
<1>8. Open(Installed(x))' /\ Served(x)'
  BY <1>1, <1>2, <1>3, <1>7 DEF Served, Open, Installed, Key
<1> QED
  BY <1>1, <1>3, <1>5, <1>6, <1>8 DEF Installed, Open

\* A call that installed a session and ends.
LEMMA InstalledEnd ==
  ASSUME LifecycleIInv, NEW c \in Calls, Working(c), NEW x \in Targets, x = WorkTarget(c), End(c),
         registry' \in RegistryType, Within(c), Hands(c), Open(Installed(x))', Served(x)',
         handles' = handles, sessions' = sessions, context' = context, Fault \/ NoFault
  PROVE  LifecycleIInv'
<1>1. call' \in [Calls -> CallType] /\ Shape(call'[c]) /\ Course(call'[c]) /\ Fits(c)'
  BY EndFields DEF LifecycleIInv
<1>2. Footprint(c)
  BY EndItself DEF Footprint
<1>3. TypeOK'
  BY <1>1, Faults, TypesAfter, TableTypes DEF LifecycleIInv
<1>4. Lands(c, x)
  BY <1>1 DEF Lands
<1> QED
  BY <1>2, <1>3, <1>4, OwnStep

LEMMA InstallStep ==
  ASSUME LifecycleIInv, NEW c \in Calls, Install(c)
  PROVE  LifecycleIInv'
<1>0. /\ call[c].pc = "install" /\ handles' = handles /\ sessions' = sessions /\ context' = context /\ NoFault
      /\ call[c] \in CallType /\ Shape(call[c]) /\ Course(call[c]) /\ TypeOK /\ Fits(c)
      /\ call[c].key \in Projects /\ call[c].lock \in LockIds
  BY Placed DEF Install, NoFault
<1>1. PICK x \in Targets : x = WorkTarget(c)
  BY <1>0, Placed
<1>2. PICK s \in SessionIds : s = call[c].new /\ s # None
  BY <1>0 DEF Shape, CallType, Maybe
<1>3. registry' = [registry EXCEPT !.sessions[x] = s]
  BY <1>1, <1>2 DEF Install
<1>4. call[c].op # "sync" /\ (call[c].on = None => call[c].op \in {"create", "load"})
  BY <1>0 DEF Course, Outside
<1>5. Working(c)
  BY <1>0, <1>1, <1>4, WorkingNow DEF Outside, Loose
<1>6. registry.locks[x] # None /\ NewFits(c)
  BY <1>0, <1>1, <1>4 DEF Fits, OwnFits, WorkTarget, Leases
<1>7. ASSUME \A d \in Calls \ {c} : call'[d] = call[d]
      PROVE  /\ registry' \in RegistryType /\ Within(c) /\ Hands(c)
             /\ Installed(x)' = s /\ Open(s) /\ Key(s) = call[c].key
             /\ registry'.projects = registry.projects /\ registry'.locks = registry.locks
             /\ Open(Installed(x))' /\ Served(x)'
  BY <1>0, <1>1, <1>2, <1>3, <1>5, <1>6, <1>7, InstalledNow
<1>8. CASE call[c].op = "create"
  <2>1. Goto(c, "validate") /\ "validate" \in Pcs
    BY <1>8 DEF Install, Pcs
  <2>2. call[c].on = None
    BY <1>0, <1>8 DEF Course
  <2>3. /\ call'[c].pc = "validate" /\ call'[c].op = call[c].op /\ call'[c].target = call[c].target
        /\ call'[c].on = None /\ call'[c].key = call[c].key /\ call'[c].lock = call[c].lock /\ call'[c].prog = call[c].prog
        /\ call'[c].old = call[c].old /\ call'[c].new = call[c].new
        /\ \A d \in Calls \ {c} : call'[d] = call[d]
    BY <1>0, <2>1, <2>2, GotoFields
  <2>4. /\ registry' \in RegistryType /\ Within(c) /\ Hands(c)
        /\ Installed(x)' = s /\ Open(s) /\ Key(s) = call[c].key
        /\ registry'.projects = registry.projects /\ registry'.locks = registry.locks
        /\ Open(Installed(x))' /\ Served(x)'
    BY <2>3, <1>7
  <2>5. NewFits(c)' /\ OwnFits(c)'
    <3>1. x = call[c].target
      BY <1>1, <2>2 DEF WorkTarget
    <3>2. Open(s)' /\ Key(s)' = call[c].key
      BY <1>0, <2>4 DEF Open, Key
    <3> QED
      BY <1>2, <1>8, <2>3, <2>4, <3>1, <3>2 DEF NewFits, OwnFits, Leases, Installed
  <2>6. Shape(call'[c]) /\ Course(call'[c])
    BY <1>0, <1>8, <2>2, <2>3 DEF Shape, Course
  <2>7. registry'.projects[x] = call[c].key
    BY <1>1, <1>5, <2>4 DEF Working, Mine
  <2> QED
    BY <1>0, <1>1, <1>5, <2>1, <2>4, <2>5, <2>6, <2>7, MoveStep, TableTypes
<1>9. CASE call[c].op = "command"
  <2>1. call[c].on # None /\ call[c].on = call[c].target /\ x = call[c].target
    BY <1>0, <1>1, <1>4, <1>9 DEF Course, WorkTarget
  <2> DEFINE r == [call[c] EXCEPT !.pc = "running", !.on = None, !.old = call[c].new, !.new = None]
  <2>2. r \in CallType
    BY <1>0 DEF CallType, Pcs, Maybe
  <2>3. /\ r.pc = "running" /\ r.op = "command" /\ r.on = None /\ r.old = s /\ r.new = None /\ r.target = x
        /\ r.key = call[c].key /\ r.lock = call[c].lock /\ r.handle = call[c].handle /\ r.want = call[c].want
    BY <1>0, <1>2, <1>9, <2>1 DEF CallType
  <2>4. call' \in [Calls -> CallType] /\ call'[c] = r /\ \A d \in Calls \ {c} : call'[d] = call[d]
    <3>1. Becomes(c, r)
      BY <1>9 DEF Install
    <3> HIDE DEF r
    <3> QED
      BY <1>0, <2>2, <3>1, BecomesFields
  <2> HIDE DEF r
  <2>5. /\ registry' \in RegistryType /\ Within(c) /\ Hands(c)
        /\ Installed(x)' = s /\ Open(s) /\ Key(s) = call[c].key
        /\ registry'.projects = registry.projects /\ registry'.locks = registry.locks
        /\ Open(Installed(x))' /\ Served(x)'
    BY <2>4, <1>7
  <2>6. WorkTarget(c)' = x /\ ~Leases(c)'
    BY <2>3, <2>4 DEF WorkTarget, Leases
  <2>7. Itself(c)
    BY <1>5, <2>3, <2>4, <1>9, HandleIsMine DEF Itself, Working, HoldsName
  <2>8. Fits(c)'
    <3>1. KeyFits(c)' /\ NewFits(c)' /\ PublishFits(c)'
      BY <1>1, <1>5, <2>3, <2>4, <2>5, <2>6 DEF KeyFits, Mine, NewFits, PublishFits, Working
    <3>2. HandleFits(c)'
      BY <1>0, <2>3, <2>4 DEF HandleFits, Fits
    <3>3. OwnFits(c)'
      BY <1>0, <2>3, <2>4, <2>5, <2>6 DEF OwnFits, Leases, Installed, Open
    <3> QED
      BY <3>1, <3>2, <3>3 DEF Fits
  <2>9. Shape(r) /\ Course(r)
    <3>1. Shape(r)
      BY <1>0, <2>3 DEF Shape
    <3>2. Course(r)
      BY <2>3 DEF Course
    <3> QED
      BY <3>1, <3>2
  <2>10. Lands(c, x)
    BY <2>4, <2>5, <2>8, <2>9 DEF Lands
  <2>11. TypeOK'
    BY <1>0, <2>4, <2>5, Faults, TableTypes, TypesAfter
  <2> QED
    BY <1>1, <1>5, <2>5, <2>7, <2>10, <2>11, OwnStep DEF Footprint
<1>10. CASE call[c].op \notin {"create", "command"}
  <2>1. End(c)
    BY <1>10 DEF Install
  <2> QED
    BY <1>0, <1>1, <1>5, <1>7, <2>1, EndFields, InstalledEnd
<1> QED
  BY <1>8, <1>9, <1>10

LEMMA ValidateStep ==
  ASSUME LifecycleIInv, NEW c \in Calls, Validate(c)
  PROVE  LifecycleIInv'
<1>0. /\ call[c].pc = "validate" /\ handles' = handles /\ sessions' = sessions /\ context' = context /\ NoFault
      /\ call[c] \in CallType /\ Shape(call[c]) /\ Course(call[c]) /\ TypeOK /\ Fits(c)
      /\ call[c].key \in Projects /\ call[c].lock \in LockIds
  BY Placed DEF Validate, NoFault
<1>1. PICK x \in Targets : x = WorkTarget(c)
  BY <1>0, Placed
<1>2. call[c].op = "create" /\ call[c].on = None /\ x = call[c].target /\ call[c].old = None
  BY <1>0, <1>1 DEF Course, Shape, WorkTarget, Outside
<1>3. CASE End(c) /\ registry' = registry
  <2>1. ~Reopening(c)
    BY <1>0, <1>2 DEF Reopening
  <2> QED
    BY <1>0, <1>3, <2>1, EndStep, TableTypes
<1>4. CASE Goto(c, "rollback") /\ registry' = [registry EXCEPT !.sessions[x] = None]
  <2>1. Working(c) /\ registry.projects[x] = call[c].key
    BY <1>0, <1>1, <1>2, WorkingNow DEF Outside, Loose
  <2>2. PICK s \in SessionIds : s = call[c].new /\ Installed(x) = s /\ Open(s) /\ Key(s) = call[c].key /\ s # None
    BY <1>0, <1>2 DEF Fits, OwnFits, Open, CallType, Maybe
  <2>3. registry.locks[x] # None
    BY <2>2 DEF LifecycleIInv, Tables, OpenSessionsAreServed, Served
  <2>4. \A u \in Targets \ {x} : registry.sessions[u] # s
    BY <2>2 DEF LifecycleIInv, Tables, OneTargetPerSession, Installed
  <2>5. /\ registry' \in RegistryType /\ registry'.sessions[x] = None
        /\ \A u \in Targets \ {x} : registry'.sessions[u] = registry.sessions[u]
        /\ registry'.projects = registry.projects /\ registry'.locks = registry.locks /\ registry'.handles = registry.handles
    BY <1>4, TableTypes DEF RegistryType, Maybe
  <2>6. "rollback" \in Pcs
    BY DEF Pcs
  <2>7. /\ call'[c].pc = "rollback" /\ call'[c].op = call[c].op /\ call'[c].target = call[c].target
        /\ call'[c].on = None /\ call'[c].key = call[c].key /\ call'[c].lock = call[c].lock /\ call'[c].prog = call[c].prog
        /\ call'[c].old = call[c].old /\ call'[c].new = call[c].new
        /\ \A d \in Calls \ {c} : call'[d] = call[d]
    BY <1>0, <1>2, <1>4, <2>6, GotoFields
  <2>8. Within(c)
    <3>1. OpenProgramsHaveProjects'
      BY <1>0 DEF LifecycleIInv, Tables, OpenProgramsHaveProjects
    <3> QED
      BY <1>0, <1>1, <2>5, <2>7, <3>1 DEF Within
  <2>9. Hands(c)
    BY <1>1, <2>1, <2>5 DEF Hands
  <2>10. NewFits(c)'
    BY <1>0, <2>2, <2>4, <2>5, <2>7 DEF NewFits, Open, Key, Installed
  <2>11. OwnFits(c)'
    BY <1>2, <2>3, <2>5, <2>7 DEF OwnFits, Leases, Installed
  <2>12. Shape(call'[c]) /\ Course(call'[c])
    BY <1>0, <1>2, <2>7 DEF Shape, Course
  <2>13. ~Open(Installed(x))' /\ Installed(x)' = None
    BY <2>5 DEF Open, Installed
  <2> QED
    BY <1>0, <1>1, <1>4, <2>1, <2>5, <2>6, <2>8, <2>9, <2>10, <2>11, <2>12, <2>13, MoveStep, TableTypes
<1>5. ASSUME Fail(c) PROVE Goto(c, "rollback")
  <2>1. call[c].op = "create" /\ call[c].op # "load" /\ ~Leases(c)
    BY <1>2 DEF Leases
  <2> QED
    BY <1>5, <2>1 DEF Fail
<1> QED
  BY <1>2, <1>3, <1>4, <1>5 DEF Validate

-----------------------------------------------------------------------------
(* Closing what a call opened                                              *)

\* Sessions of the call's project that no target has are closed, the project too.
Shuts(c) ==
  /\ sessions' \in [SessionIds -> [handle : HandleIds, prog : Programs, for : Targets] \union {Closed}]
  /\ handles' \in [HandleIds -> Maybe(Projects)]
  /\ \A s \in SessionIds : sessions'[s] = sessions[s]
       \/ (sessions'[s] = Closed /\ sessions[s] # Closed /\ Key(s) = call[c].key /\ \A u \in Targets : Installed(u) # s)
  /\ \A h \in HandleIds : handles'[h] = handles[h]
       \/ (handles'[h] = None /\ handles[h] = call[c].key /\ registry.handles[call[c].key] = h)
  /\ OpenProgramsHaveProjects'

LEMMA NothingShuts ==
  ASSUME LifecycleIInv, NEW c \in Calls, UNCHANGED <<sessions, handles>>
  PROVE  Shuts(c)
BY TableTypes DEF Shuts, LifecycleIInv, Tables, OpenProgramsHaveProjects

LEMMA NewShuts ==
  ASSUME LifecycleIInv, NEW c \in Calls, NEW s \in SessionIds, sessions[s] # Closed, Key(s) = call[c].key,
         \A u \in Targets : Installed(u) # s, Closes(s)
  PROVE  Shuts(c)
BY ClosesEffect DEF Shuts

LEMMA ForceShuts ==
  ASSUME LifecycleIInv, NEW c \in Calls, call[c].pc # "publish", call[c].key \in Projects,
         NEW h \in HandleIds, h = call[c].handle, ~InUse(h), ForceClosed(h)
  PROVE  Shuts(c)
<1>1. /\ sessions' \in [SessionIds -> [handle : HandleIds, prog : Programs, for : Targets] \union {Closed}]
      /\ handles' \in [HandleIds -> Maybe(Projects)]
      /\ \A s \in SessionIds :
           sessions'[s] = sessions[s] \/ (sessions'[s] = Closed /\ sessions[s] # Closed /\ sessions[s].handle = h)
      /\ handles'[h] = None /\ \A g \in HandleIds \ {h} : handles'[g] = handles[g]
      /\ OpenProgramsHaveProjects'
  BY ForceClosedEffect
<1>2. handles[h] # None => handles[h] = call[c].key /\ registry.handles[call[c].key] = h
  <2> SUFFICES ASSUME handles[h] # None PROVE handles[h] = call[c].key /\ registry.handles[call[c].key] = h
    OBVIOUS
  <2>1. handles[h] = call[c].key
    BY IdentitiesAssumption, Placed DEF Fits, HandleFits
  <2>2. ~\E d \in Calls : call[d].pc = "publish" /\ call[d].handle = h
    BY HandleIsMine
  <2> QED
    BY <2>1, <2>2 DEF LifecycleIInv, NoLostProject
<1>3. \A s \in SessionIds : sessions[s] # Closed /\ sessions[s].handle = h =>
        Key(s) = call[c].key /\ \A u \in Targets : Installed(u) # s
  BY <1>2, OpenSession, IdentitiesAssumption DEF InUse, Open, Installed, Key
<1> QED
  BY <1>1, <1>2, <1>3 DEF Shuts

\* The program closes, its project does not.
LEMMA ProgramShuts ==
  ASSUME LifecycleIInv, NEW c \in Calls, NewFits(c), call[c].pc = "rollback",
         sessions' = [s \in SessionIds |-> IF s = call[c].new THEN Closed ELSE sessions[s]], UNCHANGED handles
  PROVE  Shuts(c)
<1>1. \A s \in SessionIds : s = call[c].new =>
        s # None /\ sessions[s] # Closed /\ Key(s) = call[c].key /\ \A u \in Targets : Installed(u) # s
  BY IdentitiesAssumption DEF NewFits, Open
<1>2. OpenProgramsHaveProjects'
  BY DEF LifecycleIInv, Tables, OpenProgramsHaveProjects
<1> QED
  BY <1>1, <1>2, TableTypes DEF Shuts

\* The effect of such a step on the tables.
LEMMA ShutTables ==
  ASSUME LifecycleIInv, NEW c \in Calls, Working(c), NEW x \in Targets, x = WorkTarget(c), Shuts(c), registry' = registry,
         \A d \in Calls \ {c} : call'[d] = call[d]
  PROVE  /\ Within(c) /\ Hands(c)
         /\ (Open(Installed(x)) => Served(x))' /\ (Installed(x) # None /\ Open(Installed(x)) => Open(Installed(x))')
         /\ registry' \in RegistryType /\ registry'.projects[x] = call[c].key
<1>1. Within(c)
  BY DEF Within, Shuts
<1>2. registry.projects[x] = call[c].key
  BY DEF Working, Mine
<1>3. Hands(c)
  BY <1>2 DEF Hands, Installed
<1>4. \A s \in SessionIds : Installed(x) = s => sessions'[s] = sessions[s]
  BY DEF Shuts
<1>5. (Open(Installed(x)) => Served(x))'
  BY <1>1, ServedStays
<1> QED
  BY <1>1, <1>2, <1>3, <1>4, <1>5, TableTypes DEF Open, Installed, Maybe

LEMMA RollBackStep ==
  ASSUME LifecycleIInv, NEW c \in Calls, RollBack(c)
  PROVE  LifecycleIInv'
<1>0. /\ call[c].pc = "rollback" /\ call[c].on = None /\ registry' = registry /\ Goto(c, "forget")
      /\ call[c] \in CallType /\ Shape(call[c]) /\ Course(call[c]) /\ TypeOK /\ Fits(c)
      /\ call[c].key \in Projects /\ call[c].lock \in LockIds
  BY Placed DEF RollBack, Leases
<1>1. PICK x \in Targets : x = WorkTarget(c)
  BY <1>0, Placed
<1>2. call[c].op \in {"create", "load"} /\ x = call[c].target
  BY <1>0, <1>1 DEF Course, WorkTarget, Outside
<1>3. Working(c)
  BY <1>0, <1>1, <1>2, WorkingNow DEF Outside, Loose
<1>4. context' \in [Targets -> Maybe(SessionIds)]
  <2>1. RestoredContext(c) \in Maybe(SessionIds)
    BY <1>0, <1>2, TableTypes DEF RestoredContext, CallType, Maybe
  <2> QED
    BY <2>1, TableTypes DEF RollBack
<1>5. Fault \/ NoFault
  BY DEF RollBack
<1>6. Shuts(c)
  <2>1. CASE UNCHANGED <<sessions, handles>>
    BY <2>1, NothingShuts
  <2>2. CASE call[c].new # None /\ SessionCloses(call[c].new)
    <3>1. PICK s \in SessionIds : s = call[c].new
      BY <1>0, <2>2 DEF CallType, Maybe
    <3>2. sessions[s] # Closed /\ Key(s) = call[c].key /\ \A u \in Targets : Installed(u) # s
      BY <1>0, <2>2, <3>1 DEF Fits, NewFits, Open
    <3> QED
      BY <2>2, <3>1, <3>2, SessionClosesIsClosing, NewShuts
  <2>3. CASE call[c].handle # None /\ ~InUse(call[c].handle) /\ ForceClosed(call[c].handle)
    <3>1. PICK h \in HandleIds : h = call[c].handle
      BY <1>0, <2>3 DEF CallType, Maybe
    <3> QED
      BY <1>0, <2>3, <3>1, ForceShuts
  <2>4. CASE /\ sessions' = [s \in SessionIds |-> IF s = call[c].new THEN Closed ELSE sessions[s]]
             /\ UNCHANGED handles
    BY <1>0, <2>4, ProgramShuts DEF Fits
  <2> QED
    BY <2>1, <2>2, <2>3, <2>4 DEF RollBack
<1>7. "forget" \in Pcs
  BY DEF Pcs
<1>8. /\ call'[c].pc = "forget" /\ call'[c].op = call[c].op /\ call'[c].target = call[c].target
      /\ call'[c].on = None /\ call'[c].key = call[c].key /\ call'[c].lock = call[c].lock /\ call'[c].prog = call[c].prog
      /\ call'[c].old = call[c].old /\ call'[c].new = call[c].new
      /\ \A d \in Calls \ {c} : call'[d] = call[d]
  BY <1>0, <1>7, GotoFields
<1>9. /\ Within(c) /\ Hands(c)
      /\ (Open(Installed(x)) => Served(x))' /\ (Installed(x) # None /\ Open(Installed(x)) => Open(Installed(x))')
      /\ registry' \in RegistryType /\ registry'.projects[x] = call[c].key
  BY <1>0, <1>1, <1>3, <1>6, <1>8, ShutTables
<1>10. ~Reopening(c)
  BY <1>0, <1>2 DEF Reopening
<1>11. (Installed(x) # None /\ ~Open(Installed(x)) => Reopening(c))'
  BY <1>0, <1>1, <1>3, <1>9, <1>10, MineIsOpen DEF Working, Installed
<1>12. NewFits(c)' /\ OwnFits(c)'
  BY <1>0, <1>2, <1>8 DEF NewFits, OwnFits, Leases, Fits, Installed
<1>13. Shape(call'[c]) /\ Course(call'[c])
  BY <1>0, <1>2, <1>8 DEF Shape, Course
<1> QED
  BY <1>0, <1>1, <1>3, <1>4, <1>5, <1>6, <1>7, <1>9, <1>11, <1>12, <1>13, MoveStep DEF Shuts

LEMMA RollBackReopenStep ==
  ASSUME LifecycleIInv, NEW c \in Calls, RollBackReopen(c)
  PROVE  LifecycleIInv'
<1>0. /\ call[c].pc = "rollback" /\ call[c].on # None /\ context' = context
      /\ call[c] \in CallType /\ Shape(call[c]) /\ Course(call[c]) /\ TypeOK /\ Fits(c)
      /\ call[c].key \in Projects /\ call[c].lock \in LockIds
  BY Placed DEF RollBackReopen, Leases
<1>1. PICK x \in Targets : x = WorkTarget(c)
  BY <1>0, Placed
<1>2. call[c].op \notin {"create", "sync"} /\ x = call[c].on
  BY <1>0, <1>1 DEF Course, WorkTarget
<1>3. Working(c)
  BY <1>0, <1>1, <1>2, WorkingNow DEF Outside, Loose
<1>4. PICK s \in SessionIds : s = call[c].new /\ s # None
  BY <1>0, <1>2 DEF Shape, CallType, Maybe
<1>5. NewFits(c) /\ registry.locks[x] # None /\ sessions[s] # Closed /\ Key(s) = call[c].key
      /\ \A u \in Targets : Installed(u) # s
  BY <1>0, <1>2, <1>4 DEF Fits, NewFits, OwnFits, Leases, Open
<1>6. CASE SessionCloses(s) /\ Goto(c, "cleanup") /\ NoFault /\ registry' = registry
  <2>1. Shuts(c)
    BY <1>5, <1>6, SessionClosesIsClosing, NewShuts
  <2>2. "cleanup" \in Pcs
    BY DEF Pcs
  <2>3. /\ call'[c].pc = "cleanup" /\ call'[c].op = call[c].op /\ call'[c].target = call[c].target
        /\ call'[c].on = call[c].on /\ call'[c].key = call[c].key /\ call'[c].lock = call[c].lock /\ call'[c].prog = call[c].prog
        /\ call'[c].old = call[c].old /\ call'[c].new = call[c].new
        /\ \A d \in Calls \ {c} : call'[d] = call[d]
    BY <1>0, <1>6, <2>2, GotoFields
  <2>4. /\ Within(c) /\ Hands(c)
        /\ (Open(Installed(x)) => Served(x))'
        /\ registry' \in RegistryType /\ registry'.projects[x] = call[c].key
    BY <1>1, <1>3, <1>6, <2>1, <2>3, ShutTables
  <2>5. Reopening(c)'
    BY <1>0, <2>3 DEF Reopening
  <2>6. NewFits(c)' /\ OwnFits(c)'
    BY <1>0, <1>2, <1>6, <2>3 DEF NewFits, OwnFits, Leases, Fits, Installed
  <2>7. Shape(call'[c]) /\ Course(call'[c])
    BY <1>0, <1>2, <2>3 DEF Shape, Course
  <2> QED
    BY <1>0, <1>1, <1>3, <1>6, <2>1, <2>2, <2>4, <2>5, <2>6, <2>7, MoveStep, TableTypes DEF Shuts
<1>7. CASE Fault /\ registry' = [registry EXCEPT !.sessions[x] = s] /\ End(c) /\ UNCHANGED <<sessions, handles>>
  <2>1. \A d \in Calls \ {c} : call'[d] = call[d]
    BY <1>0, <1>7, EndFields
  <2>2. /\ registry' \in RegistryType /\ Within(c) /\ Hands(c) /\ Open(Installed(x))' /\ Served(x)'
    BY <1>0, <1>1, <1>3, <1>4, <1>5, <1>7, <2>1, InstalledNow
  <2> QED
    BY <1>0, <1>1, <1>3, <1>7, <2>2, InstalledEnd
<1> QED
  BY <1>1, <1>4, <1>6, <1>7 DEF RollBackReopen

LEMMA SwapStep ==
  ASSUME LifecycleIInv, NEW c \in Calls, Swap(c)
  PROVE  LifecycleIInv'
<1>0. /\ call[c].pc = "swap" /\ context' = context /\ (Fault \/ NoFault)
      /\ call[c] \in CallType /\ Shape(call[c]) /\ Course(call[c]) /\ TypeOK /\ Fits(c)
      /\ call[c].key \in Projects /\ call[c].lock \in LockIds /\ call[c].lock # None
  BY Placed DEF Swap
<1>1. PICK x \in Targets : x = WorkTarget(c)
  BY <1>0, Placed
<1>2. call[c].op = "load" /\ call[c].on = None /\ x = call[c].target /\ call[c].new # None
  BY <1>0, <1>1 DEF Course, Shape, WorkTarget, Outside
<1>3. Working(c) /\ registry.projects[x] = call[c].key
  BY <1>0, <1>1, <1>2, WorkingNow DEF Outside, Loose
<1>4. PICK s \in SessionIds : s = call[c].new /\ Open(s) /\ Key(s) = call[c].key /\ \A u \in Targets : Installed(u) # s
  BY <1>0, <1>2 DEF Fits, NewFits, CallType, Maybe
<1>5. call[c].old = Installed(x) /\ (call[c].old # None => Open(call[c].old))
  BY <1>0, <1>2 DEF Fits, OwnFits
<1>6. /\ registry' \in RegistryType /\ registry'.locks[x] # None /\ registry'.projects[x] = call[c].key
      /\ \A u \in Targets \ {x} : registry'.projects[u] = registry.projects[u] /\ registry'.locks[u] = registry.locks[u]
      /\ registry'.sessions = registry.sessions /\ registry'.handles = registry.handles
  <2>1. registry' = [registry EXCEPT !.locks[x] = IF @ = None THEN call[c].lock ELSE @, !.projects[x] = call[c].key]
    BY <1>2 DEF Swap
  <2> QED
    BY <1>0, <2>1, TableTypes DEF RegistryType, Maybe
<1>7. PICK pc \in {"install", "rollback"} :
        /\ Goto(c, pc)
        /\ \/ call[c].old = None /\ UNCHANGED <<sessions, handles>>
           \/ call[c].old # None /\ SessionCloses(call[c].old) /\ pc = "install"
           \/ UNCHANGED <<sessions, handles>> /\ pc = "rollback"
  <2>1. Fail(c) => Goto(c, "rollback")
    BY <1>2 DEF Fail, Leases
  <2> QED
    BY <2>1 DEF Swap
<1>8. pc \in Pcs /\ pc # "publish"
  BY DEF Pcs
<1>9. /\ call'[c].pc = pc /\ call'[c].op = call[c].op /\ call'[c].target = call[c].target
      /\ call'[c].on = None /\ call'[c].key = call[c].key /\ call'[c].lock = call[c].lock /\ call'[c].prog = call[c].prog
      /\ call'[c].old = call[c].old /\ call'[c].new = call[c].new
      /\ \A d \in Calls \ {c} : call'[d] = call[d]
  BY <1>0, <1>2, <1>7, <1>8, GotoFields
\* The new session keeps the project of the old one open.
<1>10. /\ handles' = handles
       /\ sessions' \in [SessionIds -> [handle : HandleIds, prog : Programs, for : Targets] \union {Closed}]
       /\ OpenProgramsHaveProjects'
       /\ \A z \in SessionIds : sessions'[z] = sessions[z]
            \/ (sessions'[z] = Closed /\ sessions[z] # Closed /\ Key(z) = call[c].key /\ Installed(x) = z /\ pc = "install")
  <2>1. CASE UNCHANGED <<sessions, handles>>
    BY <2>1, TableTypes DEF LifecycleIInv, Tables, OpenProgramsHaveProjects
  <2>2. CASE call[c].old # None /\ SessionCloses(call[c].old) /\ pc = "install"
    <3>1. PICK o \in SessionIds : o = call[c].old /\ o # s /\ sessions[o] # Closed /\ Installed(x) = o
      BY <1>0, <1>4, <1>5, <2>2 DEF CallType, Maybe, Open
    <3>2. Served(x)
      BY <1>5, <2>2 DEF LifecycleIInv, Tables, OpenSessionsAreServed
    <3>3. Key(o) = call[c].key
      BY <1>3, <3>1, <3>2 DEF Served
    <3>4. sessions[o].handle = sessions[s].handle
      BY <1>4, <3>1, <3>3, OpenSession DEF Open
    <3>5. Closes(o)
      BY <2>2, <3>1, SessionClosesIsClosing
    <3> QED
      BY <1>4, <2>2, <3>1, <3>3, <3>4, <3>5, ClosesEffect
  <2> QED
    BY <1>7, <2>1, <2>2
<1>11. Within(c)
  <2>1. \A u \in Targets \ {x}, z \in SessionIds : Installed(x) = z => Installed(u) # z
    BY IdentitiesAssumption DEF LifecycleIInv, Tables, OneTargetPerSession
  <2> QED
    BY <1>1, <1>6, <1>9, <1>10, <2>1 DEF Within
<1>12. Hands(c)
  BY <1>1, <1>6 DEF Hands, Installed
<1>13. sessions'[s] = sessions[s] /\ Open(s)' /\ Key(s)' = call[c].key
  BY <1>4, <1>10 DEF Open, Key
<1>14. NewFits(c)'
  BY <1>4, <1>6, <1>9, <1>13 DEF NewFits, Installed
<1>15. OwnFits(c)'
  <2>1. pc = "rollback" => sessions' = sessions
    <3>1. pc = "rollback" => \A z \in SessionIds : sessions'[z] = sessions[z]
      BY <1>10
    <3> QED
      BY <1>7
  <2> QED
    BY <1>2, <1>5, <1>6, <1>9, <2>1 DEF OwnFits, Leases, Installed, Open
<1>16. Shape(call'[c]) /\ Course(call'[c])
  BY <1>0, <1>2, <1>9 DEF Shape, Course
<1>17. (Open(Installed(x)) => Served(x))'
  <2>1. registry.locks[x] # None => registry'.locks[x] # None
    BY <1>6
  <2> QED
    BY <1>3, <1>6, <1>11, <2>1, ServedStays
<1>18. (Installed(x) # None /\ ~Open(Installed(x)) => Reopening(c))'
  <2>1. CASE pc = "install"
    BY <1>2, <1>9, <2>1 DEF Reopening
  <2>2. CASE pc = "rollback"
    BY <1>5, <1>6, <1>10, <2>2, TableTypes DEF Open, Installed, Maybe
  <2> QED
    BY <2>1, <2>2
<1> QED
  BY <1>0, <1>1, <1>3, <1>6, <1>7, <1>8, <1>10, <1>11, <1>12, <1>14, <1>15, <1>16, <1>17, <1>18, MoveStep, TableTypes

-----------------------------------------------------------------------------
(* Steps that only move a call                                             *)

\* The fits of a call whose tables stand still.
LEMMA RequestStep ==
  ASSUME LifecycleIInv, NEW c \in Calls, NEW op \in Kinds, NEW t \in Targets, NEW p \in Maybe(Programs),
         NEW k \in Maybe(Projects), Request(c, op, t, p, k), op \notin {"none", "synced", "restore", "import"},
         op \in {"create", "load"} => p \in Programs, op \in {"create", "register"} => k \in Projects
  PROVE  LifecycleIInv'
<1> DEFINE r == [Idle EXCEPT !.op = op, !.pc = "resolve", !.target = t, !.prog = p, !.want = k]
<1>0. /\ call[c] = Idle /\ (op # "command" => NameIsFree(t))
      /\ UNCHANGED <<handles, sessions, registry, context, faults>> /\ TypeOK
  BY Placed DEF Request
<1>1. r \in CallType
  <2>1. "resolve" \in Pcs /\ t \in Maybe(Targets)
    BY DEF Pcs, Maybe
  <2> QED
    BY <2>1, IdleIsCall DEF CallType
<1>2. /\ r.pc = "resolve" /\ r.op = op /\ r.target = t /\ r.prog = p /\ r.want = k /\ r.on = None
      /\ r.new = None /\ r.old = None /\ r.handle = None
  BY DEF Idle
<1>3. call' \in [Calls -> CallType] /\ call'[c] = r /\ \A d \in Calls \ {c} : call'[d] = call[d]
  <2>1. Becomes(c, r)
    BY DEF Request
  <2> HIDE DEF r
  <2> QED
    BY <1>0, <1>1, <2>1, BecomesFields
<1> HIDE DEF r
<1>4. ~HoldsProject(c)' /\ ~Claims(c)' /\ ~Reopening(c) /\ ~HoldsName(c)
  BY <1>0, <1>2, <1>3 DEF HoldsProject, Claims, Inside, Outside, Reopening, Idle, HoldsName
<1>5. TypeOK'
  BY <1>0, <1>3, TableTypes, TypesAfter
<1>6. Quiet(c)
  BY <1>0, <1>2, <1>3, <1>4, HandleIsMine DEF Quiet, Idle
<1>7. Exclusion'
  <2>1. OneCallPerName'
    <3>1. HoldsName(c)' => op # "command" /\ call'[c].target = t
      BY <1>2, <1>3 DEF HoldsName
    <3>2. \A d \in Calls \ {c} : HoldsName(d)' = HoldsName(d) /\ call'[d].target = call[d].target
      BY <1>3 DEF HoldsName
    <3> QED
      BY <1>0, <3>1, <3>2 DEF LifecycleIInv, Exclusion, OneCallPerName, NameIsFree
  <2>2. OneCallPerProject'
    <3>1. \A d \in Calls \ {c} : HoldsProject(d)' = HoldsProject(d) /\ call'[d].key = call[d].key
      BY <1>3 DEF HoldsProject, Inside
    <3> QED
      BY <1>4, <3>1 DEF LifecycleIInv, Exclusion, OneCallPerProject
  <2> QED
    BY <2>1, <2>2 DEF Exclusion
<1>8. Fits(c)'
  BY <1>2, <1>3, <1>4 DEF Fits, KeyFits, NewFits, OwnFits, HandleFits, PublishFits, Leases
<1>9. Shape(r) /\ Course(r)
  BY <1>2 DEF Shape, Course, Outside
<1> QED
  BY <1>3, <1>5, <1>6, <1>7, <1>8, <1>9, QuietStep

LEMMA AdmitImportStep ==
  ASSUME LifecycleIInv, NEW c \in Calls, NEW t \in Targets, AdmitImport(c, t)
  PROVE  LifecycleIInv'
<1> DEFINE r == [Idle EXCEPT !.op = "import", !.pc = "admitted", !.target = t, !.want = registry.projects[t]]
<1>0. /\ call[c] = Idle /\ UNCHANGED <<handles, sessions, registry, context, faults>> /\ TypeOK
  BY Placed DEF AdmitImport
<1>1. r \in CallType
  <2>1. registry.projects[t] \in Maybe(Projects)
    BY TableTypes
  <2>2. "admitted" \in Pcs /\ "import" \in Kinds /\ t \in Maybe(Targets)
    BY DEF Pcs, Kinds, Maybe
  <2> QED
    BY <2>1, <2>2, IdleIsCall DEF CallType
<1>2. r.pc = "admitted" /\ r.op = "import" /\ r.target = t /\ r.on = None /\ r.new = None /\ r.handle = None
  BY DEF Idle
<1>3. call' \in [Calls -> CallType] /\ call'[c] = r /\ \A d \in Calls \ {c} : call'[d] = call[d]
  <2>1. Becomes(c, r)
    BY DEF AdmitImport
  <2> HIDE DEF r
  <2> QED
    BY <1>0, <1>1, <2>1, BecomesFields
<1> HIDE DEF r
<1>4. ~HoldsProject(c)' /\ ~HoldsName(c)' /\ ~Claims(c)' /\ ~Reopening(c)
  BY <1>0, <1>2, <1>3 DEF HoldsProject, Claims, Inside, Outside, Reopening, Idle, HoldsName
<1>5. TypeOK'
  BY <1>0, <1>3, TableTypes, TypesAfter
<1>6. Quiet(c)
  BY <1>0, <1>2, <1>3, <1>4, HandleIsMine DEF Quiet, Idle
<1>7. Exclusion'
  BY <1>2, <1>3, <1>4, ItselfExclusion, HandleIsMine DEF Itself
<1>8. Fits(c)'
  BY <1>2, <1>3, <1>4 DEF Fits, KeyFits, NewFits, OwnFits, HandleFits, PublishFits, Leases
<1>9. Shape(r) /\ Course(r)
  BY <1>2 DEF Shape, Course, Outside
<1> QED
  BY <1>3, <1>5, <1>6, <1>7, <1>8, <1>9, QuietStep

LEMMA StartImportStep ==
  ASSUME LifecycleIInv, NEW c \in Calls, StartImport(c)
  PROVE  LifecycleIInv'
<1>0. /\ call[c].pc = "admitted" /\ Goto(c, "resolve") /\ NameIsFree(call[c].target)
      /\ UNCHANGED <<handles, sessions, registry, context, faults>>
      /\ TypeOK /\ Shape(call[c]) /\ Course(call[c]) /\ Fits(c)
  BY Placed DEF StartImport
<1>1. /\ call' \in [Calls -> CallType] /\ \A d \in Calls \ {c} : call'[d] = call[d]
      /\ call'[c].pc = "resolve" /\ call'[c].op = "import" /\ call'[c].target = call[c].target
      /\ call'[c].on = None /\ call'[c].handle = call[c].handle /\ call'[c].new = None /\ call[c].op = "import"
      /\ call'[c].key = call[c].key
  <2>1. "resolve" \in Pcs
    BY DEF Pcs
  <2> QED
    BY <1>0, <2>1, GotoFields DEF Shape
<1>2. ~HoldsProject(c)' /\ ~Claims(c)' /\ ~Reopening(c)
  BY <1>0, <1>1 DEF HoldsProject, Claims, Inside, Outside, Reopening
<1>3. TypeOK'
  BY <1>0, <1>1, TableTypes, TypesAfter
<1>4. Quiet(c)
  BY <1>0, <1>1, <1>2, HandleIsMine DEF Quiet
<1>5. Exclusion'
  <2>1. OneCallPerName'
    <3>1. \A d \in Calls \ {c} : HoldsName(d)' = HoldsName(d) /\ call'[d].target = call[d].target
      BY <1>1 DEF HoldsName
    <3> QED
      BY <1>0, <1>1, <3>1 DEF LifecycleIInv, Exclusion, OneCallPerName, NameIsFree
  <2>2. OneCallPerProject'
    <3>1. \A d \in Calls \ {c} : HoldsProject(d)' = HoldsProject(d) /\ call'[d].key = call[d].key
      BY <1>1 DEF HoldsProject, Inside
    <3> QED
      BY <1>2, <3>1 DEF LifecycleIInv, Exclusion, OneCallPerProject
  <2> QED
    BY <2>1, <2>2 DEF Exclusion
<1>6. Fits(c)'
  <2>1. HandleFits(c)'
    BY <1>0, <1>1 DEF Fits, HandleFits
  <2> QED
    BY <1>1, <1>2, <2>1 DEF Fits, KeyFits, NewFits, OwnFits, PublishFits, Leases
<1>7. Shape(call'[c]) /\ Course(call'[c])
  BY <1>0, <1>1 DEF Shape, Course, Outside
<1> QED
  BY <1>1, <1>3, <1>4, <1>5, <1>6, <1>7, QuietStep

LEMMA EndingSteps ==
  ASSUME LifecycleIInv, NEW c \in Calls, GiveUp(c) \/ Finish(c) \/ RemoveContext(c)
  PROVE  LifecycleIInv'
<1>0. /\ call[c].pc \in {"enter", "join", "running", "uncontext"} /\ End(c) /\ UNCHANGED <<handles, sessions, registry>>
      /\ NoFault /\ Course(call[c])
  BY Placed DEF GiveUp, Finish, RemoveContext, NoFault
<1>1. context' \in [Targets -> Maybe(SessionIds)]
  BY TableTypes DEF GiveUp, Finish, RemoveContext, Maybe
<1>2. ~Reopening(c)
  BY <1>0 DEF Reopening
<1> QED
  BY <1>0, <1>1, <1>2, EndStep

\* A step of a call that has its project and changes nothing but itself.
LEMMA QuietGoto ==
  ASSUME LifecycleIInv, NEW c \in Calls, Inside(c), NEW pc \in Pcs, Goto(c, pc), pc # "publish",
         call[c].pc # "publish", UNCHANGED <<handles, sessions, registry>>, Fault \/ NoFault,
         context' \in [Targets -> Maybe(SessionIds)],
         Mine(c), Reopening(c) => Reopening(c)',
         Shape(call'[c]), Course(call'[c]), NewFits(c)', OwnFits(c)'
  PROVE  LifecycleIInv'
<1>1. /\ call' \in [Calls -> CallType] /\ \A d \in Calls \ {c} : call'[d] = call[d]
      /\ call'[c].pc = pc /\ call'[c].op = call[c].op /\ call'[c].target = call[c].target
      /\ call'[c].key = call[c].key /\ call'[c].handle = call[c].handle /\ WorkTarget(c)' = WorkTarget(c)
  BY GotoFields DEF LifecycleIInv
<1>2. TypeOK'
  BY <1>1, Faults, TableTypes, TypesAfter DEF LifecycleIInv
<1>3. Itself(c)
  BY <1>1, HandleIsMine DEF Itself, HoldsName, HoldsProject, Inside, Outside
<1>4. Quiet(c)
  BY <1>1, HandleIsMine DEF Quiet
<1>5. Fits(c)'
  <2>1. KeyFits(c)' /\ PublishFits(c)'
    BY <1>1 DEF KeyFits, Mine, PublishFits
  <2>2. HandleFits(c)'
    BY <1>1, Placed DEF Fits, HandleFits
  <2> QED
    BY <2>1, <2>2 DEF Fits
<1> QED
  BY <1>1, <1>2, <1>3, <1>4, <1>5, ItselfExclusion, QuietStep

\* A failure on the way to an open program.
LEMMA FailStep ==
  ASSUME LifecycleIInv, NEW c \in Calls, call[c].pc \in {"project", "open", "init"}, Fail(c),
         UNCHANGED <<handles, sessions, registry>>, Fault \/ NoFault, context' \in [Targets -> Maybe(SessionIds)]
  PROVE  LifecycleIInv'
<1>0. /\ TypeOK /\ call[c] \in CallType /\ Shape(call[c]) /\ Course(call[c]) /\ Fits(c)
      /\ call[c].key \in Projects /\ call[c].lock \in LockIds
  BY Placed
<1>1. CASE End(c) /\ ~Leases(c)
  <2>1. ~Reopening(c)
    BY <1>1 DEF Reopening, Leases
  <2> QED
    BY <1>1, <2>1, EndStep
<1>2. ASSUME NEW pc \in {"rollback", "cleanup"}, Goto(c, pc),
             \/ call[c].op = "create" /\ pc = "rollback"
             \/ call[c].op # "create" /\ Leases(c) /\ call[c].new = None /\ pc = "cleanup"
             \/ call[c].op # "create" /\ Leases(c) /\ call[c].new # None /\ pc = "rollback"
             \/ call[c].op = "load" /\ call[c].new # None /\ pc = "rollback"
      PROVE  LifecycleIInv'
  <2>1. pc \in Pcs /\ pc # "publish"
    BY DEF Pcs
  <2>2. /\ call'[c].pc = pc /\ call'[c].op = call[c].op /\ call'[c].target = call[c].target
        /\ call'[c].on = call[c].on /\ call'[c].key = call[c].key /\ call'[c].lock = call[c].lock /\ call'[c].prog = call[c].prog
        /\ call'[c].old = call[c].old /\ call'[c].new = call[c].new
        /\ \A d \in Calls \ {c} : call'[d] = call[d]
    BY <1>0, <1>2, <2>1, GotoFields
  <2>3. Inside(c) /\ HoldsProject(c)
    BY <1>0, <1>2 DEF Inside, Outside, HoldsProject, Course, Leases
  <2>4. Mine(c)
    BY <1>2, <2>3, ProjectClaims DEF Loose, Leases
  <2>5. NewFits(c)'
    <3>1. call[c].new # None => call[c].pc = "init"
      BY <1>0 DEF Shape
    <3> QED
      BY <1>0, <2>2, <1>2, <3>1 DEF Fits, NewFits, Open, Key, Installed
  <2>6. OwnFits(c)'
    <3>1. call[c].op = "load" /\ call[c].on = None => call[c].pc = "init"
      BY <1>0, <1>2 DEF Shape, Leases
    <3> QED
      BY <1>0, <1>2, <2>2, <3>1 DEF Fits, OwnFits, Open, Key, Installed, Leases
  <2>7. Shape(call'[c])
    BY <1>0, <1>2, <2>2 DEF Shape, Leases, Course
  <2>8. Course(call'[c])
    BY <1>0, <1>2, <2>2 DEF Course, Leases, Outside
  <2>9. Reopening(c) => Reopening(c)'
    BY <1>0, <1>2, <2>2 DEF Reopening, Leases
  <2> QED
    BY <1>2, <2>1, <2>3, <2>4, <2>5, <2>6, <2>7, <2>8, <2>9, QuietGoto
<1>3. CASE call[c].op = "create"
  <2>1. ~Leases(c) /\ call[c].op # "load"
    BY <1>0, <1>3 DEF Course, Leases
  <2>2. Goto(c, "rollback")
    BY <1>3, <2>1 DEF Fail
  <2> QED
    BY <1>2, <1>3, <2>2
<1>4. CASE call[c].op # "create" /\ Leases(c)
  <2>1. ~(call[c].op = "load" /\ call[c].new # None) \/ Goto(c, IF call[c].new = None THEN "cleanup" ELSE "rollback")
                                                     \/ Goto(c, "rollback")
    BY <1>4 DEF Fail
  <2>2. Goto(c, IF call[c].new = None THEN "cleanup" ELSE "rollback") \/ (Goto(c, "rollback") /\ call[c].new # None)
    BY <1>4 DEF Fail
  <2> QED
    BY <1>2, <1>4, <2>2
<1>5. CASE call[c].op # "create" /\ ~Leases(c) /\ call[c].op = "load" /\ call[c].new # None
  <2>1. Goto(c, "rollback")
    BY <1>5 DEF Fail
  <2> QED
    BY <1>2, <1>5, <2>1
<1>6. CASE call[c].op # "create" /\ ~Leases(c) /\ ~(call[c].op = "load" /\ call[c].new # None)
  <2>1. End(c)
    BY <1>6 DEF Fail
  <2> QED
    BY <1>1, <1>6, <2>1
<1> QED
  BY <1>3, <1>4, <1>5, <1>6

LEMMA InitContextStep ==
  ASSUME LifecycleIInv, NEW c \in Calls, InitContext(c)
  PROVE  LifecycleIInv'
<1>0. /\ call[c].pc = "init" /\ UNCHANGED <<handles, sessions, registry>> /\ (Fault \/ NoFault)
      /\ TypeOK /\ call[c] \in CallType /\ Shape(call[c]) /\ Course(call[c]) /\ Fits(c)
      /\ call[c].key \in Projects /\ call[c].lock \in LockIds
  BY Placed DEF InitContext
<1>1. context' \in [Targets -> Maybe(SessionIds)]
  <2>1. call[c].new \in Maybe(SessionIds)
    BY <1>0 DEF CallType
  <2>2. context' \in {context, [context EXCEPT ![WorkTarget(c)] = call[c].new]}
    BY DEF InitContext
  <2> QED
    BY <2>1, <2>2, TableTypes
<1>2. ASSUME NEW pc \in {"swap", "install"}, Goto(c, pc), (pc = "swap") = (call[c].op = "load" /\ ~Leases(c))
      PROVE  LifecycleIInv'
  <2>1. pc \in Pcs /\ pc # "publish"
    BY DEF Pcs
  <2>2. /\ call'[c].pc = pc /\ call'[c].op = call[c].op /\ call'[c].target = call[c].target
        /\ call'[c].on = call[c].on /\ call'[c].key = call[c].key /\ call'[c].lock = call[c].lock /\ call'[c].prog = call[c].prog
        /\ call'[c].old = call[c].old /\ call'[c].new = call[c].new /\ call'[c].want = call[c].want
        /\ \A d \in Calls \ {c} : call'[d] = call[d]
    BY <1>0, <1>2, <2>1, GotoFields
  <2>3. Inside(c) /\ HoldsProject(c)
    BY <1>0, <1>2 DEF Inside, Outside, HoldsProject, Course, Leases
  <2>4. Mine(c)
    BY <1>0, <1>2, <2>3, ProjectClaims DEF Loose, Leases
  <2>5. NewFits(c)'
    BY <1>0, <1>2, <2>2 DEF Fits, NewFits, Open, Key, Installed
  <2>6. OwnFits(c)'
    BY <1>0, <1>2, <2>2 DEF Fits, OwnFits, Open, Key, Installed, Leases
  <2>7. Shape(call'[c])
    <3>1. pc = "swap" \/ pc = "install"
      BY <1>2
    <3> QED
      BY <1>0, <2>2, <3>1 DEF Shape
  <2>8. Course(call'[c])
    BY <1>0, <1>2, <2>2 DEF Course, Leases, Outside
  <2>9. Reopening(c) => Reopening(c)'
    BY <1>0, <1>2, <2>2 DEF Reopening, Leases
  <2> QED
    BY <1>0, <1>1, <1>2, <2>1, <2>3, <2>4, <2>5, <2>6, <2>7, <2>8, <2>9, QuietGoto
<1>3. CASE Goto(c, IF call[c].op = "load" /\ ~Leases(c) THEN "swap" ELSE "install")
  BY <1>2, <1>3
<1>4. CASE Fail(c)
  BY <1>0, <1>1, <1>4, FailStep
<1> QED
  BY <1>3, <1>4 DEF InitContext

LEMMA ChooseStep ==
  ASSUME LifecycleIInv, NEW c \in Calls, Choose(c)
  PROVE  LifecycleIInv'
<1>0. /\ call[c].pc = "choose" /\ UNCHANGED <<handles, sessions, registry, context>> /\ NoFault
      /\ TypeOK /\ call[c] \in CallType /\ Shape(call[c]) /\ Course(call[c]) /\ Fits(c)
      /\ call[c].key \in Projects /\ call[c].lock \in LockIds /\ call[c].target \in Targets
  BY Placed DEF Choose, NoFault
<1>1. call[c].on = None /\ call[c].op \in {"load", "synced"} /\ call[c].new = None
  BY <1>0 DEF Course, Shape, Outside
<1>2. HoldsProject(c) /\ HoldsName(c) /\ WorkTarget(c) = call[c].target /\ Mine(c) /\ ~Reopening(c)
  <2>1. HoldsProject(c) /\ HoldsName(c) /\ WorkTarget(c) = call[c].target /\ ~Reopening(c) /\ ~Loose(c)
    BY <1>0, <1>1 DEF HoldsProject, HoldsName, Inside, Outside, WorkTarget, Reopening, Loose
  <2> QED
    BY <1>0, <2>1, ProjectClaims
<1>3. ASSUME NEW u \in Targets, u \in Holders(c), call[c].op = "load" => u = call[c].target,
             Becomes(c, [call[c] EXCEPT !.pc = "close", !.on = u])
      PROVE  LifecycleIInv'
  <2> DEFINE r == [call[c] EXCEPT !.pc = "close", !.on = u]
  <2>1. r \in CallType
    <3>1. "close" \in Pcs /\ u \in Maybe(Targets)
      BY DEF Pcs, Maybe
    <3> QED
      BY <1>0, <3>1 DEF CallType
  <2>2. /\ r.pc = "close" /\ r.on = u /\ r.op = call[c].op /\ r.target = call[c].target /\ r.key = call[c].key
        /\ r.lock = call[c].lock /\ r.handle = call[c].handle /\ r.new = None /\ r.old = call[c].old
        /\ r.prog = call[c].prog
    BY <1>0, <1>1 DEF CallType
  <2>3. call' \in [Calls -> CallType] /\ call'[c] = r /\ \A d \in Calls \ {c} : call'[d] = call[d]
    <3> HIDE DEF r
    <3> QED
      BY <1>0, <1>3, <2>1, BecomesFields DEF r
  <2> HIDE DEF r
  <2>4. Served(u) /\ registry.projects[u] = call[c].key
    BY <1>3 DEF Holders, LifecycleIInv, Tables, OpenSessionsAreServed, Served
  <2>5. TypeOK'
    BY <1>0, <2>3, Faults, TableTypes, TypesAfter
  <2>6. Quiet(c)
    BY <1>0, <1>2, <2>2, <2>3, HandleIsMine DEF Quiet
  <2>7. Itself(c)
    BY <1>2, <2>2, <2>3, HandleIsMine DEF Itself
  <2>8. Fits(c)'
    <3>1. WorkTarget(c)' = u
      BY <2>2, <2>3, IdentitiesAssumption DEF WorkTarget
    <3>2. KeyFits(c)' /\ NewFits(c)' /\ PublishFits(c)'
      BY <1>0, <2>2, <2>3, <2>4, <3>1 DEF KeyFits, Mine, NewFits, PublishFits
    <3>3. HandleFits(c)'
      BY <1>0, <2>2, <2>3 DEF HandleFits, Fits
    <3>4. OwnFits(c)'
      BY <1>0, <1>1, <2>2, <2>3, <2>4 DEF OwnFits, Leases, Served, Open, Installed
    <3> QED
      BY <3>2, <3>3, <3>4 DEF Fits
  <2>9. Shape(r) /\ Course(r)
    <3>1. Shape(r)
      BY <1>0, <1>1, <2>2 DEF Shape
    <3>2. Course(r)
      BY <1>1, <1>3, <2>2, IdentitiesAssumption DEF Course
    <3> QED
      BY <3>1, <3>2
  <2> QED
    BY <2>3, <2>5, <2>6, <2>7, <2>8, <2>9, ItselfExclusion, QuietStep
<1>4. CASE call[c].op = "load" /\ Becomes(c, [call[c] EXCEPT !.pc = "open", !.old = Installed(call[c].target)])
  <2> DEFINE r == [call[c] EXCEPT !.pc = "open", !.old = Installed(call[c].target)]
  <2>1. r \in CallType
    <3>1. "open" \in Pcs /\ Installed(call[c].target) \in Maybe(SessionIds)
      BY <1>0, TableTypes DEF Pcs, Installed
    <3> QED
      BY <1>0, <3>1 DEF CallType
  <2>2. /\ r.pc = "open" /\ r.on = None /\ r.op = call[c].op /\ r.target = call[c].target /\ r.key = call[c].key
        /\ r.lock = call[c].lock /\ r.handle = call[c].handle /\ r.new = None /\ r.old = Installed(call[c].target)
        /\ r.prog = call[c].prog
    BY <1>0, <1>1 DEF CallType
  <2>3. call' \in [Calls -> CallType] /\ call'[c] = r /\ \A d \in Calls \ {c} : call'[d] = call[d]
    <3> HIDE DEF r
    <3> QED
      BY <1>0, <1>4, <2>1, BecomesFields DEF r
  <2> HIDE DEF r
  <2>4. Installed(call[c].target) # None => Open(Installed(call[c].target))
    BY <1>0, <1>2, MineIsOpen
  <2>5. TypeOK'
    BY <1>0, <2>3, Faults, TableTypes, TypesAfter
  <2>6. Quiet(c)
    BY <1>0, <1>2, <2>2, <2>3, HandleIsMine DEF Quiet
  <2>7. Itself(c)
    BY <1>2, <2>2, <2>3, HandleIsMine DEF Itself
  <2>8. Fits(c)'
    <3>1. WorkTarget(c)' = call[c].target
      BY <2>2, <2>3 DEF WorkTarget
    <3>2. KeyFits(c)' /\ NewFits(c)' /\ PublishFits(c)'
      BY <1>0, <1>2, <2>2, <2>3, <3>1 DEF KeyFits, Mine, NewFits, PublishFits
    <3>3. HandleFits(c)'
      BY <1>0, <2>2, <2>3 DEF HandleFits, Fits
    <3>4. OwnFits(c)'
      BY <1>0, <1>4, <2>2, <2>3, <2>4 DEF OwnFits, Leases, Open, Installed
    <3> QED
      BY <3>2, <3>3, <3>4 DEF Fits
  <2>9. Shape(r) /\ Course(r)
    <3>1. Shape(r)
      BY <1>0, <1>1, <1>4, <2>2 DEF Shape
    <3>2. Course(r)
      BY <1>4, <2>2 DEF Course
    <3> QED
      BY <3>1, <3>2
  <2> QED
    BY <2>3, <2>5, <2>6, <2>7, <2>8, <2>9, ItselfExclusion, QuietStep
<1>5. CASE End(c)
  BY <1>0, <1>2, <1>5, EndStep, TableTypes
<1>6. \/ End(c)
      \/ \E u \in Holders(c) : (call[c].op = "load" => u = call[c].target) /\ Becomes(c, [call[c] EXCEPT !.pc = "close", !.on = u])
      \/ call[c].op = "load" /\ Becomes(c, [call[c] EXCEPT !.pc = "open", !.old = Installed(call[c].target)])
  <2>1. CASE call[c].op # "load"
    BY <2>1 DEF Choose
  <2>2. CASE call[c].op = "load" /\ call[c].target \in Holders(c)
    BY <2>2 DEF Choose
  <2>3. CASE call[c].op = "load" /\ call[c].target \notin Holders(c) /\ Holders(c) # {}
    BY <2>3 DEF Choose
  <2>4. CASE call[c].op = "load" /\ Holders(c) = {}
    BY <2>4 DEF Choose
  <2> QED
    BY <2>1, <2>2, <2>3, <2>4
<1>7. Holders(c) \subseteq Targets
  BY DEF Holders
<1> QED
  BY <1>3, <1>4, <1>5, <1>6, <1>7

-----------------------------------------------------------------------------
(* The handle of a project                                                 *)

\* Where a call goes with its handle.
LEMMA AfterHandleFits ==
  ASSUME LifecycleIInv, NEW c \in Calls, call[c].pc \in {"handle", "publish"}, NEW pc, pc = AfterHandle(c)
  PROVE  /\ pc \in {"open", "running", "join", "choose"} /\ pc \in Pcs
         /\ pc = "open" <=> call[c].on # None \/ call[c].op = "create"
         /\ pc = "running" <=> call[c].on = None /\ call[c].op = "import"
         /\ pc = "join" <=> call[c].on = None /\ call[c].op = "sync"
         /\ pc = "choose" <=> call[c].on = None /\ call[c].op \in {"load", "synced"}
<1>0. Course(call[c])
  BY Placed
<1>1. CASE call[c].on # None
  <2>1. call[c].op \notin {"create", "sync", "import"}
    BY <1>0, <1>1 DEF Course
  <2>2. "open" \in Pcs
    BY DEF Pcs
  <2> QED
    BY <1>1, <2>1, <2>2 DEF AfterHandle, Leases
<1>2. CASE call[c].on = None
  <2>1. call[c].op \in {"create", "load", "sync", "synced", "import"}
    BY <1>0, <1>2 DEF Course, Outside
  <2>2. "open" \in Pcs /\ "running" \in Pcs /\ "join" \in Pcs /\ "choose" \in Pcs
    BY DEF Pcs
  <2> QED
    BY <1>2, <2>1, <2>2 DEF AfterHandle, Leases
<1> QED
  BY <1>1, <1>2

\* What such a call looks like.
LEMMA HandledCall ==
  ASSUME LifecycleIInv, NEW c \in Calls, call[c].pc \in {"handle", "publish"}, NEW r \in CallType, NEW h \in HandleIds,
         r.pc = AfterHandle(c), r.handle = h, r.op = call[c].op, r.target = call[c].target, r.on = call[c].on,
         r.want = call[c].want, r.prog = call[c].prog, r.key = call[c].key, r.lock = call[c].lock, r.old = call[c].old,
         r.new = call[c].new
  PROVE  /\ Shape(r) /\ Course(r)
         /\ (\A d \in Calls \ {c} : call'[d] = call[d]) /\ call'[c] = r => Itself(c) \/ \E d \in Calls \ {c} : call[d].pc = "publish" /\ call[d].handle = h
<1>0. Course(call[c]) /\ Shape(call[c])
  BY Placed
<1>1. /\ r.pc \in {"open", "running", "join", "choose"}
      /\ r.pc = "open" <=> call[c].on # None \/ call[c].op = "create"
      /\ r.pc = "running" <=> call[c].on = None /\ call[c].op = "import"
      /\ r.pc = "join" <=> call[c].on = None /\ call[c].op = "sync"
      /\ r.pc = "choose" <=> call[c].on = None /\ call[c].op \in {"load", "synced"}
  BY AfterHandleFits
<1>2. h # None
  BY IdentitiesAssumption
<1>3. Shape(r)
  BY <1>0, <1>1, <1>2 DEF Shape
<1>4. Course(r)
  <2>1. CASE call[c].on # None
    BY <1>0, <1>1, <2>1 DEF Course
  <2>2. CASE call[c].on = None
    BY <1>0, <1>1, <2>2 DEF Course, Outside
  <2> QED
    BY <2>1, <2>2
<1>5. ASSUME \A d \in Calls \ {c} : call'[d] = call[d], call'[c] = r,
             \A d \in Calls \ {c} : call[d].pc = "publish" => h # call[d].handle
      PROVE  Itself(c)
  <2>1. HoldsProject(c)' => HoldsProject(c)
    BY <1>5 DEF HoldsProject, Inside, Outside
  <2>2. HoldsName(c)' => HoldsName(c)
    BY <1>5 DEF HoldsName
  <2> QED
    BY <1>5, <2>1, <2>2 DEF Itself
<1> QED
  BY <1>3, <1>4, <1>5

LEMMA HasHandle ==
  ASSUME LifecycleIInv, NEW c \in Calls, call[c].pc = "handle", NEW h \in HandleIds, handles[h] = call[c].key,
         registry.handles[call[c].key] = h, Mine(c),
         Becomes(c, [call[c] EXCEPT !.pc = AfterHandle(c), !.handle = h]),
         UNCHANGED <<handles, sessions, registry, context, faults>>
  PROVE  LifecycleIInv'
<1>0. /\ TypeOK /\ call[c] \in CallType /\ Shape(call[c]) /\ Course(call[c]) /\ Fits(c)
      /\ call[c].key \in Projects /\ call[c].lock \in LockIds /\ call[c].new = None
  BY Placed DEF Shape
<1>1. PICK pc \in Pcs :
        /\ pc = AfterHandle(c) /\ pc \in {"open", "running", "join", "choose"}
        /\ pc = "open" <=> call[c].on # None \/ call[c].op = "create"
        /\ pc = "running" <=> call[c].on = None /\ call[c].op = "import"
        /\ pc = "choose" <=> call[c].on = None /\ call[c].op \in {"load", "synced"}
  BY AfterHandleFits
<1> DEFINE r == [call[c] EXCEPT !.pc = pc, !.handle = h]
<1>2. r \in CallType
  <2>1. h \in Maybe(HandleIds)
    BY DEF Maybe
  <2> QED
    BY <1>0, <2>1 DEF CallType
<1>3. /\ r.pc = pc /\ r.handle = h /\ r.op = call[c].op /\ r.target = call[c].target /\ r.on = call[c].on
      /\ r.want = call[c].want /\ r.prog = call[c].prog /\ r.key = call[c].key /\ r.lock = call[c].lock
      /\ r.old = call[c].old /\ r.new = call[c].new
  BY <1>0 DEF CallType
<1>4. call' \in [Calls -> CallType] /\ call'[c] = r /\ \A d \in Calls \ {c} : call'[d] = call[d]
  <2>1. Becomes(c, r)
    BY <1>1
  <2> HIDE DEF r
  <2> QED
    BY <1>0, <1>2, <2>1, BecomesFields
<1> HIDE DEF r
<1>5. \A d \in Calls \ {c} : call[d].pc = "publish" => h # call[d].handle
  BY <1>0, HandleIsMine
<1>6. Shape(r) /\ Course(r) /\ Itself(c)
  BY <1>1, <1>2, <1>3, <1>4, <1>5, HandledCall
<1>7. Quiet(c)
  <2>1. Reopening(c) => Reopening(c)' /\ WorkTarget(c)' = WorkTarget(c)
    BY <1>1, <1>3, <1>4 DEF Reopening, WorkTarget
  <2> QED
    BY <1>3, <1>4, <1>5, <2>1 DEF Quiet
<1>8. Fits(c)'
  <2>1. WorkTarget(c)' = WorkTarget(c)
    BY <1>3, <1>4 DEF WorkTarget
  <2>2. KeyFits(c)'
    BY <1>3, <1>4, <2>1 DEF KeyFits, Mine
  <2>3. NewFits(c)' /\ HandleFits(c)' /\ PublishFits(c)'
    BY <1>0, <1>1, <1>3, <1>4 DEF NewFits, HandleFits, PublishFits
  <2>4. OwnFits(c)'
    <3>1. OwnFits(c)
      BY <1>0 DEF Fits
    <3>2. call[c].op = "load" /\ call[c].on = None => pc = "choose"
      BY <1>1
    <3>3. call[c].op # "command" \/ pc # "running"
      BY <1>1
    <3> QED
      BY <1>0, <1>1, <1>3, <1>4, <3>1, <3>2, <3>3 DEF OwnFits, Leases, Installed
  <2> QED
    BY <2>2, <2>3, <2>4 DEF Fits
<1>9. TypeOK'
  BY <1>0, <1>4, TableTypes, TypesAfter
<1>10. Exclusion'
  BY <1>4, <1>6, ItselfExclusion
<1> QED
  BY <1>4, <1>6, <1>7, <1>8, <1>9, <1>10, QuietStep

LEMMA SeekHandle ==
  ASSUME LifecycleIInv, NEW c \in Calls, call[c].pc = "handle", Mine(c),
         Becomes(c, [call[c] EXCEPT !.pc = "project", !.seen = registry.handles[call[c].key]]),
         UNCHANGED <<handles, sessions, registry, context, faults>>
  PROVE  LifecycleIInv'
<1>0. /\ TypeOK /\ call[c] \in CallType /\ Shape(call[c]) /\ Course(call[c]) /\ Fits(c)
      /\ call[c].key \in Projects /\ call[c].lock \in LockIds /\ call[c].new = None
  BY Placed DEF Shape
<1> DEFINE r == [call[c] EXCEPT !.pc = "project", !.seen = registry.handles[call[c].key]]
<1>2. r \in CallType
  <2>1. "project" \in Pcs /\ registry.handles[call[c].key] \in Maybe(HandleIds)
    BY <1>0, TableTypes DEF Pcs
  <2> QED
    BY <1>0, <2>1 DEF CallType
<1>3. /\ r.pc = "project" /\ r.handle = call[c].handle /\ r.op = call[c].op /\ r.target = call[c].target /\ r.on = call[c].on
      /\ r.want = call[c].want /\ r.prog = call[c].prog /\ r.key = call[c].key /\ r.lock = call[c].lock
      /\ r.old = call[c].old /\ r.new = call[c].new
  BY <1>0 DEF CallType
<1>4. call' \in [Calls -> CallType] /\ call'[c] = r /\ \A d \in Calls \ {c} : call'[d] = call[d]
  <2> HIDE DEF r
  <2> QED
    BY <1>0, <1>2, BecomesFields DEF r
<1> HIDE DEF r
<1>6. Shape(r) /\ Course(r)
  <2>1. Shape(r)
    BY <1>0, <1>3 DEF Shape
  <2>2. call[c].on # None => call[c].op \in {"load", "synced", "command", "restore"}
                             /\ (call[c].op = "synced" \/ call[c].on = call[c].target)
    BY <1>0 DEF Course
  <2>3. call[c].on = None => call[c].op \in {"create", "load", "sync", "synced", "import"}
    BY <1>0 DEF Course, Outside
  <2>4. Course(r)
    BY <1>3, <2>2, <2>3 DEF Course
  <2> QED
    BY <2>1, <2>4
<1>7. Itself(c)
  <2>1. (HoldsProject(c)' => HoldsProject(c)) /\ (HoldsName(c)' => HoldsName(c))
    BY <1>3, <1>4 DEF HoldsProject, Inside, Outside, HoldsName
  <2> QED
    BY <1>3, <1>4, <2>1, HandleIsMine DEF Itself
<1>8. Quiet(c)
  <2>1. Reopening(c) => Reopening(c)' /\ WorkTarget(c)' = WorkTarget(c)
    BY <1>3, <1>4 DEF Reopening, WorkTarget
  <2> QED
    BY <1>3, <1>4, <2>1, HandleIsMine DEF Quiet
<1>9. Fits(c)'
  <2>1. WorkTarget(c)' = WorkTarget(c)
    BY <1>3, <1>4 DEF WorkTarget
  <2>2. KeyFits(c)'
    BY <1>3, <1>4, <2>1 DEF KeyFits, Mine
  <2>3. NewFits(c)' /\ HandleFits(c)' /\ PublishFits(c)'
    BY <1>0, <1>3, <1>4 DEF NewFits, HandleFits, PublishFits, Fits
  <2>4. OwnFits(c)'
    BY <1>0, <1>3, <1>4 DEF OwnFits, Leases, Installed, Fits
  <2> QED
    BY <2>2, <2>3, <2>4 DEF Fits
<1>10. TypeOK'
  BY <1>0, <1>4, TableTypes, TypesAfter
<1> QED
  BY <1>4, <1>6, <1>7, <1>8, <1>9, <1>10, ItselfExclusion, QuietStep

LEMMA GetHandleStep ==
  ASSUME LifecycleIInv, NEW c \in Calls, GetHandle(c)
  PROVE  LifecycleIInv'
<1>0. /\ call[c].pc = "handle" /\ UNCHANGED <<handles, sessions, registry, context, faults>>
      /\ TypeOK /\ call[c] \in CallType /\ Shape(call[c]) /\ Course(call[c]) /\ Fits(c)
      /\ call[c].key \in Projects /\ call[c].key # None /\ call[c].target \in Targets
  BY Placed DEF GetHandle
<1>1. Claims(c)
  BY <1>0 DEF Claims, Inside, Outside
<1>2. Mine(c) \/ (Loose(c) /\ Gone(c))
  BY <1>0, <1>1 DEF Fits, KeyFits
<1>3. CASE End(c) /\ ~Leases(c)
  <2>1. ~Reopening(c)
    BY <1>0, <1>3 DEF Reopening, Leases
  <2> QED
    BY <1>0, <1>3, <2>1, EndStep, TableTypes DEF NoFault
<1>4. CASE ~Leases(c) /\ call[c].op # "create" /\ Installed(call[c].target) # None
  <2>1. WorkTarget(c) = call[c].target /\ Mine(c) /\ registry.projects[call[c].target] # None
    BY <1>0, <1>2, <1>4 DEF WorkTarget, Leases, Gone, Mine
  <2>2. CASE Open(Installed(call[c].target))
    <3>1. PICK s \in SessionIds : s = Installed(call[c].target) /\ sessions[s] # Closed
      BY <1>0, <2>2, TableTypes DEF Open, Installed, Maybe
    <3>2. Served(call[c].target)
      BY <1>0, <2>2 DEF LifecycleIInv, Tables, OpenSessionsAreServed
    <3>3. Key(s) = call[c].key
      BY <2>1, <3>1, <3>2 DEF Served, Mine
    <3>4. PICK h \in HandleIds : h = sessions[s].handle /\ handles[h] = call[c].key /\ registry.handles[call[c].key] = h
      BY <3>1, <3>3, OpenSession
    <3>5. Becomes(c, [call[c] EXCEPT !.pc = AfterHandle(c), !.handle = sessions[Installed(call[c].target)].handle])
      BY <1>4, <2>1, <2>2 DEF GetHandle
    <3>6. Becomes(c, [call[c] EXCEPT !.pc = AfterHandle(c), !.handle = h])
      BY <3>1, <3>4, <3>5
    <3> QED
      BY <1>0, <2>1, <3>4, <3>6, HasHandle
  <2>3. CASE ~Open(Installed(call[c].target))
    BY <1>3, <1>4, <2>3 DEF GetHandle
  <2> QED
    BY <2>2, <2>3
<1>5. CASE ~Leases(c) /\ call[c].op # "create" /\ Installed(call[c].target) = None /\ registry.projects[call[c].target] = None
  BY <1>3, <1>5 DEF GetHandle
<1>6. CASE Leases(c) \/ call[c].op = "create" \/ (Installed(call[c].target) = None /\ registry.projects[call[c].target] # None)
  <2>1. Mine(c)
    BY <1>2, <1>6 DEF Loose, Gone, Leases, WorkTarget
  <2>2. IF registry.handles[call[c].key] # None /\ handles[registry.handles[call[c].key]] # None
        THEN Becomes(c, [call[c] EXCEPT !.pc = AfterHandle(c), !.handle = registry.handles[call[c].key]])
        ELSE Becomes(c, [call[c] EXCEPT !.pc = "project", !.seen = registry.handles[call[c].key]])
    <3>1. CASE Leases(c) \/ call[c].op = "create"
      BY <3>1 DEF GetHandle
    <3>2. CASE ~Leases(c) /\ call[c].op # "create" /\ Installed(call[c].target) = None /\ registry.projects[call[c].target] # None
      BY <3>2 DEF GetHandle
    <3> QED
      BY <1>6, <3>1, <3>2
  <2>3. CASE registry.handles[call[c].key] # None /\ handles[registry.handles[call[c].key]] # None
    <3>1. PICK h \in HandleIds : h = registry.handles[call[c].key] /\ handles[h] = call[c].key
      BY <1>0, <2>3, TableTypes DEF LifecycleIInv, Tables, RegisteredUnderItsProject, Maybe
    <3> QED
      BY <1>0, <2>1, <2>2, <2>3, <3>1, HasHandle
  <2>4. CASE ~(registry.handles[call[c].key] # None /\ handles[registry.handles[call[c].key]] # None)
    BY <1>0, <2>1, <2>2, <2>4, SeekHandle
  <2> QED
    BY <2>3, <2>4
<1> QED
  BY <1>4, <1>5, <1>6

LEMMA JoinStep ==
  ASSUME LifecycleIInv, NEW c \in Calls, Join(c)
  PROVE  LifecycleIInv'
<1>0. /\ call[c].pc = "join" /\ ProjectIsFree(call[c].key) /\ UNCHANGED <<handles, sessions, registry, context, faults>>
      /\ TypeOK /\ call[c] \in CallType /\ Shape(call[c]) /\ Course(call[c]) /\ Fits(c)
      /\ call[c].key \in Projects /\ call[c].lock \in LockIds /\ call[c].new = None
  BY Placed DEF Join, Shape
<1>1. call[c].on = None /\ call[c].op = "sync"
  BY <1>0 DEF Course, Outside
<1> DEFINE r == [call[c] EXCEPT !.op = "synced", !.pc = "handle", !.handle = None]
<1>2. r \in CallType
  <2>1. "handle" \in Pcs /\ "synced" \in Kinds /\ None \in Maybe(HandleIds)
    BY DEF Pcs, Kinds, Maybe
  <2> QED
    BY <1>0, <2>1 DEF CallType
<1>3. /\ r.pc = "handle" /\ r.handle = None /\ r.op = "synced" /\ r.target = call[c].target /\ r.on = None
      /\ r.want = call[c].want /\ r.prog = call[c].prog /\ r.key = call[c].key /\ r.lock = call[c].lock
      /\ r.old = call[c].old /\ r.new = None
  BY <1>0, <1>1 DEF CallType
<1>4. call' \in [Calls -> CallType] /\ call'[c] = r /\ \A d \in Calls \ {c} : call'[d] = call[d]
  <2>1. Becomes(c, r)
    BY DEF Join
  <2> HIDE DEF r
  <2> QED
    BY <1>0, <1>2, <2>1, BecomesFields
<1> HIDE DEF r
<1>5. Shape(r) /\ Course(r)
  BY <1>0, <1>3 DEF Shape, Course
<1>6. Quiet(c)
  BY <1>0, <1>1, <1>3, <1>4, HandleIsMine DEF Quiet, Reopening
<1>7. Exclusion'
  <2>1. OneCallPerName'
    <3>1. HoldsName(c) /\ call'[c].target = call[c].target
      BY <1>0, <1>1, <1>3, <1>4 DEF HoldsName
    <3>2. \A d \in Calls \ {c} : HoldsName(d)' = HoldsName(d) /\ call'[d].target = call[d].target
      BY <1>4 DEF HoldsName
    <3> QED
      BY <3>1, <3>2 DEF LifecycleIInv, Exclusion, OneCallPerName
  <2>2. OneCallPerProject'
    <3>1. \A d \in Calls \ {c} : HoldsProject(d)' = HoldsProject(d) /\ call'[d].key = call[d].key
      BY <1>4 DEF HoldsProject, Inside
    <3>2. call'[c].key = call[c].key
      BY <1>3, <1>4
    <3> QED
      BY <1>0, <3>1, <3>2 DEF LifecycleIInv, Exclusion, OneCallPerProject, ProjectIsFree
  <2> QED
    BY <2>1, <2>2 DEF Exclusion
<1>8. Fits(c)'
  <2>1. Mine(c) \/ Gone(c)
    BY <1>0 DEF Fits, KeyFits, Claims, Inside, Outside
  <2>2. WorkTarget(c)' = WorkTarget(c) /\ Loose(c)'
    BY <1>1, <1>3, <1>4 DEF WorkTarget, Loose
  <2>3. KeyFits(c)'
    BY <1>0, <1>3, <1>4, <2>1, <2>2 DEF KeyFits, Mine, Gone, Installed
  <2>4. NewFits(c)' /\ HandleFits(c)' /\ PublishFits(c)' /\ OwnFits(c)'
    BY <1>3, <1>4 DEF NewFits, HandleFits, PublishFits, OwnFits, Leases
  <2> QED
    BY <2>3, <2>4 DEF Fits
<1>9. TypeOK'
  BY <1>0, <1>4, TableTypes, TypesAfter
<1> QED
  BY <1>4, <1>5, <1>6, <1>7, <1>8, <1>9, QuietStep

-----------------------------------------------------------------------------
(* Opening                                                                 *)

\* The next place of a call that looks for its handle.
LEMMA SeekingCourse ==
  ASSUME NEW r, NEW q, Course(r), r.pc \in {"handle", "project"}, q.pc \in {"project", "publish"},
         q.on = r.on, q.op = r.op, q.target = r.target
  PROVE  Course(q)
<1>1. r.on # None => r.op \in {"load", "synced", "command", "restore"} /\ (r.op = "synced" \/ r.on = r.target)
  BY DEF Course
<1>2. r.on = None => r.op \in {"create", "load", "sync", "synced", "import"}
  BY DEF Course, Outside
<1> QED
  BY <1>1, <1>2 DEF Course

\* A project opens under a handle that nobody knows yet.
LEMMA OpenedProject ==
  ASSUME LifecycleIInv, NEW c \in Calls, call[c].pc = "project", NEW h \in HandleIds, FreshHandle(h),
         ~\E g \in HandleIds : handles[g] = call[c].key, handles' = [handles EXCEPT ![h] = call[c].key],
         Becomes(c, [call[c] EXCEPT !.pc = "publish", !.handle = h]), NoFault, UNCHANGED <<sessions, registry, context>>
  PROVE  LifecycleIInv'
<1>0. /\ TypeOK /\ call[c] \in CallType /\ Shape(call[c]) /\ Course(call[c]) /\ Fits(c)
      /\ call[c].key \in Projects /\ call[c].key # None /\ call[c].lock \in LockIds /\ call[c].new = None
  BY Placed DEF Shape
<1> DEFINE r == [call[c] EXCEPT !.pc = "publish", !.handle = h]
<1>1. r \in CallType
  <2>1. "publish" \in Pcs /\ h \in Maybe(HandleIds)
    BY DEF Pcs, Maybe
  <2> QED
    BY <1>0, <2>1 DEF CallType
<1>2. /\ r.pc = "publish" /\ r.handle = h /\ r.op = call[c].op /\ r.target = call[c].target /\ r.on = call[c].on
      /\ r.want = call[c].want /\ r.prog = call[c].prog /\ r.key = call[c].key /\ r.lock = call[c].lock
      /\ r.old = call[c].old /\ r.new = call[c].new
  BY <1>0 DEF CallType
<1>3. call' \in [Calls -> CallType] /\ call'[c] = r /\ \A d \in Calls \ {c} : call'[d] = call[d]
  <2> HIDE DEF r
  <2> QED
    BY <1>0, <1>1, BecomesFields DEF r
<1> HIDE DEF r
<1>4. handles[h] = None /\ (\A d \in Calls : call[d].handle # h) /\ \A k \in Projects : registry.handles[k] # h
  BY DEF FreshHandle, Referred
<1>5. \A s \in SessionIds : sessions[s].handle # h
  <2>1. \A s \in SessionIds : sessions[s] # Closed => sessions[s].handle # h
    BY <1>4, OpenSession
  <2> QED
    BY <2>1, IdentitiesAssumption DEF Closed
<1>6. handles'[h] = call[c].key /\ (\A g \in HandleIds \ {h} : handles'[g] = handles[g]) /\ handles' \in [HandleIds -> Maybe(Projects)]
  BY <1>0, TableTypes DEF Maybe
<1>7. TypeOK'
  BY <1>0, <1>3, <1>6, Faults, TableTypes, TypesAfter
<1>8. \A s \in SessionIds : sessions[s] # Closed => sessions'[s] = sessions[s] /\ Key(s)' = Key(s)
                                                    /\ handles'[sessions[s].handle] = handles[sessions[s].handle]
  BY <1>5, <1>6, OpenSession DEF Key
<1>9. Shape(r) /\ Course(r)
  <2>1. Shape(r)
    BY <1>0, <1>2, IdentitiesAssumption DEF Shape
  <2> QED
    BY <1>0, <1>2, <2>1, SeekingCourse
<1>10. Steps'
  BY <1>3, <1>9 DEF LifecycleIInv, Steps
<1>11. Exclusion'
  <2>1. (HoldsProject(c)' => HoldsProject(c)) /\ (HoldsName(c)' => HoldsName(c))
    BY <1>2, <1>3 DEF HoldsProject, Inside, Outside, HoldsName
  <2>2. Itself(c)
    BY <1>2, <1>3, <1>4, <2>1 DEF Itself
  <2> QED
    BY <1>3, <2>2, ItselfExclusion
<1>12. WorkTarget(c)' = WorkTarget(c) /\ (Reopening(c) => Reopening(c)')
  BY <1>2, <1>3 DEF WorkTarget, Reopening
<1>13. Fits(c)'
  <2>1. Claims(c) /\ (Loose(c) => Loose(c)')
    BY <1>0, <1>2, <1>3 DEF Claims, Inside, Outside, Loose
  <2>2. KeyFits(c)'
    BY <1>0, <1>2, <1>3, <1>12, <2>1 DEF Fits, KeyFits, Mine, Gone, Installed
  <2>3. NewFits(c)' /\ HandleFits(c)'
    BY <1>2, <1>3, <1>6 DEF NewFits, HandleFits
  <2>4. PublishFits(c)'
    BY <1>2, <1>3, <1>4, <1>5, <1>6 DEF PublishFits
  <2>5. OwnFits(c)'
    BY <1>0, <1>2, <1>3 DEF Fits, OwnFits, Leases, Installed
  <2> QED
    BY <2>2, <2>3, <2>4, <2>5 DEF Fits
<1>14. ASSUME NEW d \in Calls, d # c PROVE Fits(d)'
  <2>1. Fits(d) /\ call'[d] = call[d] /\ call[d] \in CallType /\ Shape(call[d]) /\ WorkTarget(d)' = WorkTarget(d)
        /\ call[d].handle # h
    BY <1>3, <1>4, <1>14, Placed DEF WorkTarget
  <2>2. KeyFits(d)'
    BY <2>1 DEF Fits, KeyFits, Claims, Loose, Inside, Mine, Gone, Installed
  <2>3. NewFits(d)'
    BY <1>8, <2>1 DEF Fits, NewFits, Open, Installed, CallType, Maybe
  <2>4. OwnFits(d)'
    <3>1. \A s \in Maybe(SessionIds) : Open(s)' = Open(s) /\ (Open(s) => Key(s)' = Key(s))
      BY <1>8 DEF Open, Maybe
    <3>2. call[d].new \in Maybe(SessionIds) /\ call[d].handle \in Maybe(HandleIds)
      BY <2>1 DEF CallType
    <3>3. call[d].handle # None => handles'[call[d].handle] = handles[call[d].handle]
      BY <1>6, <2>1, <3>2 DEF Maybe
    <3>4. call[d].op = "import" /\ call[d].pc = "running" => call[d].handle # None
      BY <2>1 DEF Shape
    <3> QED
      BY <2>1, <3>1, <3>2, <3>3, <3>4 DEF Fits, OwnFits, Leases, Installed, Open
  <2>5. HandleFits(d)'
    BY <1>6, <2>1 DEF Fits, HandleFits, CallType, Maybe
  <2>6. PublishFits(d)'
    <3> SUFFICES ASSUME call[d].pc = "publish" PROVE PublishFits(d)'
      BY <2>1 DEF PublishFits
    <3>1. call[d].handle \in HandleIds /\ PublishFits(d)
      BY <1>14, <2>1, HandleIsMine DEF Fits
    <3> QED
      BY <1>2, <1>3, <1>6, <2>1, <3>1 DEF PublishFits
  <2> QED
    BY <2>2, <2>3, <2>4, <2>5, <2>6 DEF Fits
<1>15. Tables'
  <2>1. OneHandlePerProject'
    BY <1>6 DEF LifecycleIInv, Tables, OneHandlePerProject
  <2>2. RegisteredUnderItsProject'
    <3>1. \A k \in Projects : registry.handles[k] \in Maybe(HandleIds)
      BY TableTypes
    <3> QED
      BY <1>4, <1>6, <3>1 DEF LifecycleIInv, Tables, RegisteredUnderItsProject, Maybe
  <2>3. OpenProgramsHaveProjects'
    BY <1>8 DEF LifecycleIInv, Tables, OpenProgramsHaveProjects
  <2>4. OneTargetPerSession'
    BY DEF LifecycleIInv, Tables, OneTargetPerSession, Installed
  <2>5. OpenSessionsAreServed'
    <3> SUFFICES ASSUME NEW u \in Targets, Open(Installed(u)) PROVE Served(u)'
      BY DEF OpenSessionsAreServed, Open, Installed
    <3>1. PICK s \in SessionIds : s = Installed(u) /\ sessions[s] # Closed
      BY TableTypes DEF Open, Installed, Maybe
    <3>2. Served(u) /\ Key(s)' = Key(s)
      BY <1>8, <3>1 DEF LifecycleIInv, Tables, OpenSessionsAreServed, Open
    <3> QED
      BY <3>1, <3>2 DEF Served, Installed, Open
  <2> QED
    BY <2>1, <2>2, <2>3, <2>4, <2>5 DEF Tables
<1>16. NoLostProject'
  <2> SUFFICES ASSUME NEW g \in HandleIds, handles'[g] # None
               PROVE  registry.handles[handles'[g]] = g \/ \E d \in Calls : call'[d].pc = "publish" /\ call'[d].handle = g
    BY DEF NoLostProject
  <2>1. CASE g = h
    BY <1>2, <1>3, <2>1
  <2>2. CASE g # h
    BY <1>0, <1>3, <1>6, <2>2 DEF LifecycleIInv, NoLostProject
  <2> QED
    BY <2>1, <2>2
<1>17. ClosedAreReopened'
  <2> SUFFICES ASSUME NEW u \in Targets, Installed(u) # None, ~Open(Installed(u))
               PROVE  \E d \in Calls : (Reopening(d) /\ WorkTarget(d) = u)'
    BY DEF ClosedAreReopened, Installed, Open
  <2>1. PICK d \in Calls : Reopening(d) /\ WorkTarget(d) = u
    BY DEF LifecycleIInv, ClosedAreReopened
  <2>2. d # c => (Reopening(d) /\ WorkTarget(d) = u)'
    BY <1>3, <2>1 DEF Reopening, WorkTarget
  <2> QED
    BY <1>12, <2>1, <2>2
<1> QED
  BY <1>7, <1>10, <1>11, <1>13, <1>14, <1>15, <1>16, <1>17 DEF LifecycleIInv

LEMMA OpenProjectStep ==
  ASSUME LifecycleIInv, NEW c \in Calls, OpenProject(c)
  PROVE  LifecycleIInv'
<1>0. call[c].pc = "project" /\ UNCHANGED <<sessions, registry, context>>
  BY DEF OpenProject
<1>1. CASE /\ ~\E h \in HandleIds : handles[h] = call[c].key
           /\ \E h \in HandleIds : FreshHandle(h)
           /\ handles' = [handles EXCEPT ![SomeHandle] = call[c].key]
           /\ Becomes(c, [call[c] EXCEPT !.pc = "publish", !.handle = SomeHandle])
           /\ NoFault
  <2>1. SomeHandle \in HandleIds /\ FreshHandle(SomeHandle)
    BY <1>1 DEF SomeHandle
  <2>2. PICK h \in HandleIds : h = SomeHandle /\ FreshHandle(h)
    BY <2>1
  <2> QED
    BY <1>0, <1>1, <2>2, OpenedProject
<1>2. CASE (NoFault \/ Fault) /\ Fail(c) /\ UNCHANGED handles
  BY <1>0, <1>2, FailStep, TableTypes
<1> QED
  BY <1>1, <1>2 DEF OpenProject

\* The handle of an open project is registered, in place of a closed one.
LEMMA PublishStep ==
  ASSUME LifecycleIInv, NEW c \in Calls, Publish(c)
  PROVE  LifecycleIInv'
<1>0. /\ call[c].pc = "publish" /\ UNCHANGED <<handles, sessions, context, faults>>
      /\ TypeOK /\ call[c] \in CallType /\ Shape(call[c]) /\ Course(call[c]) /\ Fits(c)
      /\ call[c].key \in Projects /\ call[c].key # None /\ call[c].lock \in LockIds /\ call[c].new = None
  BY Placed DEF Publish, Shape
<1>1. PICK h \in HandleIds : h = call[c].handle
  BY <1>0 DEF Shape, CallType, Maybe
<1>2. /\ handles[h] = call[c].key /\ \A s \in SessionIds : sessions[s].handle # h
      /\ \A d \in Calls \ {c} : call[d].handle # h
      /\ \A k \in Projects : registry.handles[k] # h
  BY <1>0, <1>1 DEF Fits, PublishFits
<1>3. PICK pc \in Pcs :
        /\ pc = AfterHandle(c) /\ pc \in {"open", "running", "join", "choose"}
        /\ pc = "open" <=> call[c].on # None \/ call[c].op = "create"
        /\ pc = "running" <=> call[c].on = None /\ call[c].op = "import"
        /\ pc = "join" <=> call[c].on = None /\ call[c].op = "sync"
        /\ pc = "choose" <=> call[c].on = None /\ call[c].op \in {"load", "synced"}
  BY <1>0, AfterHandleFits
<1> DEFINE r == [call[c] EXCEPT !.pc = pc, !.seen = None]
<1>4. r \in CallType
  <2>1. None \in Maybe(HandleIds)
    BY DEF Maybe
  <2> QED
    BY <1>0, <2>1 DEF CallType
<1>5. /\ r.pc = pc /\ r.handle = h /\ r.op = call[c].op /\ r.target = call[c].target /\ r.on = call[c].on
      /\ r.want = call[c].want /\ r.prog = call[c].prog /\ r.key = call[c].key /\ r.lock = call[c].lock
      /\ r.old = call[c].old /\ r.new = call[c].new
  BY <1>0, <1>1 DEF CallType
<1>6. call' \in [Calls -> CallType] /\ call'[c] = r /\ \A d \in Calls \ {c} : call'[d] = call[d]
  <2>1. Becomes(c, r)
    BY <1>3 DEF Publish
  <2> HIDE DEF r
  <2> QED
    BY <1>0, <1>4, <2>1, BecomesFields
<1> HIDE DEF r
<1>7. Shape(r) /\ Course(r) /\ Itself(c)
  <2>1. \A d \in Calls \ {c} : ~(call[d].pc = "publish" /\ call[d].handle = h)
    BY <1>2
  <2> QED
    BY <1>0, <1>3, <1>4, <1>5, <1>6, <2>1, HandledCall
<1>8. /\ registry' \in RegistryType
      /\ registry'.handles[call[c].key] = h
      /\ \A k \in Projects \ {call[c].key} : registry'.handles[k] = registry.handles[k]
      /\ registry'.sessions = registry.sessions /\ registry'.projects = registry.projects /\ registry'.locks = registry.locks
  BY <1>0, <1>1, TableTypes DEF Publish, RegistryType, Maybe
<1>9. registry.handles[call[c].key] # None => handles[registry.handles[call[c].key]] = None
  BY DEF Publish
<1>10. TypeOK'
  BY <1>0, <1>6, <1>8, TableTypes, TypesAfter
<1>11. Steps' /\ Exclusion'
  BY <1>6, <1>7, ItselfExclusion DEF LifecycleIInv, Steps
<1>12. WorkTarget(c)' = WorkTarget(c) /\ (Reopening(c) => Reopening(c)')
  BY <1>0, <1>3, <1>5, <1>6 DEF WorkTarget, Reopening
<1>13. Fits(c)'
  <2>1. Mine(c) \/ (call[c].op = "sync" /\ call[c].on = None /\ Gone(c))
    BY <1>0 DEF Fits, KeyFits, Claims, Inside, Outside, Loose
  <2>2. KeyFits(c)'
    <3>1. call[c].op = "sync" /\ call[c].on = None => Loose(c)'
      BY <1>3, <1>5, <1>6 DEF Loose
    <3> QED
      BY <1>5, <1>6, <1>8, <1>12, <2>1, <3>1 DEF KeyFits, Mine, Gone, Installed
  <2>3. NewFits(c)' /\ HandleFits(c)' /\ PublishFits(c)'
    BY <1>0, <1>2, <1>3, <1>5, <1>6 DEF NewFits, HandleFits, PublishFits
  <2>4. OwnFits(c)'
    <3>1. call[c].op = "load" /\ call[c].on = None => pc = "choose"
      BY <1>3
    <3>2. call[c].op # "command" \/ pc # "running"
      BY <1>3
    <3> QED
      BY <1>0, <1>2, <1>3, <1>5, <1>6, <1>8, <3>1, <3>2 DEF Fits, OwnFits, Leases, Installed
  <2> QED
    BY <2>2, <2>3, <2>4 DEF Fits
<1>14. ASSUME NEW d \in Calls, d # c PROVE Fits(d)'
  <2>1. Fits(d) /\ call'[d] = call[d] /\ WorkTarget(d)' = WorkTarget(d)
    BY <1>6, <1>14, Placed DEF WorkTarget
  <2>2. KeyFits(d)'
    BY <1>8, <2>1 DEF Fits, KeyFits, Claims, Loose, Inside, Mine, Gone, Installed
  <2>3. NewFits(d)' /\ HandleFits(d)'
    BY <1>0, <1>8, <2>1 DEF Fits, NewFits, HandleFits, Open, Key, Installed
  <2>4. OwnFits(d)'
    BY <1>0, <1>8, <2>1 DEF Fits, OwnFits, Leases, Installed, Open, Key
  <2>5. PublishFits(d)'
    BY <1>0, <1>1, <1>2, <1>5, <1>6, <1>8, <1>14, <2>1 DEF Fits, PublishFits
  <2> QED
    BY <2>2, <2>3, <2>4, <2>5 DEF Fits
<1>15. Tables'
  <2>1. OneHandlePerProject' /\ OpenProgramsHaveProjects' /\ OneTargetPerSession'
    BY <1>0, <1>8 DEF LifecycleIInv, Tables, OneHandlePerProject, OpenProgramsHaveProjects, OneTargetPerSession, Installed
  <2>2. RegisteredUnderItsProject'
    BY <1>0, <1>2, <1>8 DEF LifecycleIInv, Tables, RegisteredUnderItsProject
  <2>3. OpenSessionsAreServed'
    <3> SUFFICES ASSUME NEW u \in Targets, Open(Installed(u)) PROVE Served(u)'
      BY <1>0, <1>8 DEF OpenSessionsAreServed, Open, Installed
    <3>1. PICK s \in SessionIds : s = Installed(u) /\ sessions[s] # Closed
      BY TableTypes DEF Open, Installed, Maybe
    <3>2. Served(u)
      BY DEF LifecycleIInv, Tables, OpenSessionsAreServed
    <3>3. Key(s) \in Projects /\ registry.handles[Key(s)] = sessions[s].handle /\ handles[sessions[s].handle] # None
          /\ sessions[s].handle \in HandleIds
      BY <3>1, OpenSession
    <3>4. Key(s) # call[c].key
      BY <1>9, <3>3, IdentitiesAssumption
    <3> QED
      BY <1>0, <1>8, <3>1, <3>2, <3>3, <3>4 DEF Served, Installed, Open, Key
  <2> QED
    BY <2>1, <2>2, <2>3 DEF Tables
<1>16. NoLostProject'
  <2> SUFFICES ASSUME NEW g \in HandleIds, handles[g] # None
               PROVE  registry'.handles[handles[g]] = g \/ \E d \in Calls : call'[d].pc = "publish" /\ call'[d].handle = g
    BY <1>0 DEF NoLostProject
  <2>1. CASE handles[g] = call[c].key
    <3>1. g = h
      BY <1>2, <2>1 DEF LifecycleIInv, Tables, OneHandlePerProject
    <3> QED
      BY <1>2, <1>8, <3>1
  <2>2. CASE handles[g] # call[c].key
    <3>1. handles[g] \in Projects \ {call[c].key}
      BY <2>2, TableTypes DEF Maybe
    <3>2. CASE registry.handles[handles[g]] = g
      BY <1>8, <3>1, <3>2
    <3>3. CASE \E d \in Calls : call[d].pc = "publish" /\ call[d].handle = g
      BY <1>1, <1>2, <1>6, <2>2, <3>3
    <3> QED
      BY <3>2, <3>3 DEF LifecycleIInv, NoLostProject
  <2> QED
    BY <2>1, <2>2
<1>17. ClosedAreReopened'
  <2> SUFFICES ASSUME NEW u \in Targets, Installed(u) # None, ~Open(Installed(u))
               PROVE  \E d \in Calls : (Reopening(d) /\ WorkTarget(d) = u)'
    BY <1>0, <1>8 DEF ClosedAreReopened, Installed, Open
  <2>1. PICK d \in Calls : Reopening(d) /\ WorkTarget(d) = u
    BY DEF LifecycleIInv, ClosedAreReopened
  <2>2. d # c => (Reopening(d) /\ WorkTarget(d) = u)'
    BY <1>6, <2>1 DEF Reopening, WorkTarget
  <2> QED
    BY <1>12, <2>1, <2>2
<1> QED
  BY <1>10, <1>11, <1>13, <1>14, <1>15, <1>16, <1>17 DEF LifecycleIInv

\* A program opens under an identity that nobody refers to.
LEMMA OpenedProgram ==
  ASSUME LifecycleIInv, NEW c \in Calls, call[c].pc = "open", handles[call[c].handle] # None,
         NEW s \in SessionIds, FreshSession(s),
         sessions' = [sessions EXCEPT ![s] = [handle |-> call[c].handle, prog |-> call[c].prog, for |-> WorkTarget(c)]],
         Becomes(c, [call[c] EXCEPT !.pc = "init", !.new = s]), NoFault, UNCHANGED <<handles, registry, context>>
  PROVE  LifecycleIInv'
<1>0. /\ TypeOK /\ call[c] \in CallType /\ Shape(call[c]) /\ Course(call[c]) /\ Fits(c)
      /\ call[c].key \in Projects /\ call[c].key # None /\ call[c].lock \in LockIds /\ call[c].new = None
  BY Placed DEF Shape
<1>1. PICK x \in Targets : x = WorkTarget(c)
  BY <1>0, Placed
<1>2. PICK h \in HandleIds : h = call[c].handle /\ handles[h] = call[c].key
  BY <1>0 DEF Shape, CallType, Maybe, Fits, HandleFits
<1>3. call[c].op \in {"create", "load"} \/ call[c].on # None
  BY <1>0 DEF Course, Outside
<1>4. call[c].prog \in Programs
  BY <1>0, <1>3 DEF Shape
<1>5. sessions[s] = Closed /\ (\A u \in Targets : Installed(u) # s) /\ (\A d \in Calls : call[d].old # s /\ call[d].new # s)
      /\ s # None
  BY IdentitiesAssumption DEF FreshSession, Open, Referred
<1> DEFINE r == [call[c] EXCEPT !.pc = "init", !.new = s]
<1>6. r \in CallType
  <2>1. "init" \in Pcs /\ s \in Maybe(SessionIds)
    BY DEF Pcs, Maybe
  <2> QED
    BY <1>0, <2>1 DEF CallType
<1>7. /\ r.pc = "init" /\ r.handle = h /\ r.op = call[c].op /\ r.target = call[c].target /\ r.on = call[c].on
      /\ r.want = call[c].want /\ r.prog = call[c].prog /\ r.key = call[c].key /\ r.lock = call[c].lock
      /\ r.old = call[c].old /\ r.new = s
  BY <1>0, <1>2 DEF CallType
<1>8. call' \in [Calls -> CallType] /\ call'[c] = r /\ \A d \in Calls \ {c} : call'[d] = call[d]
  <2> HIDE DEF r
  <2> QED
    BY <1>0, <1>6, BecomesFields DEF r
<1> HIDE DEF r
<1> DEFINE v == [handle |-> h, prog |-> call[c].prog, for |-> x]
<1>9. v \in [handle : HandleIds, prog : Programs, for : Targets] /\ v # Closed /\ v.handle = h
  <2>1. v \in [handle : HandleIds, prog : Programs, for : Targets] /\ v.handle = h
    BY <1>4
  <2>2. Closed.handle # h
    BY IdentitiesAssumption DEF Closed
  <2> QED
    BY <2>1, <2>2
<1>10. /\ sessions' \in [SessionIds -> [handle : HandleIds, prog : Programs, for : Targets] \union {Closed}]
       /\ sessions'[s] = v /\ \A z \in SessionIds \ {s} : sessions'[z] = sessions[z]
  <2>1. sessions' = [sessions EXCEPT ![s] = v]
    BY <1>1, <1>2
  <2> HIDE DEF v
  <2> QED
    BY <1>9, <2>1, TableTypes
<1> HIDE DEF v
<1>11. TypeOK'
  BY <1>0, <1>8, <1>10, Faults, TableTypes, TypesAfter
<1>12. Open(s)' /\ Key(s)' = call[c].key
  BY <1>2, <1>5, <1>9, <1>10 DEF Open, Key
<1>13. \A z \in Maybe(SessionIds) : z # s => Open(z)' = Open(z) /\ (z # None => Key(z)' = Key(z))
  BY <1>10 DEF Open, Key, Maybe
<1>14. Shape(r) /\ Course(r)
  <2>1. Shape(r)
    BY <1>0, <1>5, <1>7 DEF Shape
  <2>2. Course(r)
    BY <1>0, <1>3, <1>7 DEF Course, Outside
  <2> QED
    BY <2>1, <2>2
<1>15. Steps' /\ Exclusion'
  <2>1. (HoldsProject(c)' => HoldsProject(c)) /\ (HoldsName(c)' => HoldsName(c))
    BY <1>7, <1>8 DEF HoldsProject, Inside, Outside, HoldsName
  <2>2. Itself(c)
    BY <1>2, <1>7, <1>8, <2>1, HandleIsMine DEF Itself
  <2> QED
    BY <1>8, <1>14, <2>2, ItselfExclusion DEF LifecycleIInv, Steps
<1>16. WorkTarget(c)' = WorkTarget(c) /\ (Reopening(c) => Reopening(c)')
  BY <1>7, <1>8 DEF WorkTarget, Reopening
<1>17. Fits(c)'
  <2>1. KeyFits(c)'
    <3>1. Mine(c)
      BY <1>0, <1>3 DEF Fits, KeyFits, Claims, Inside, Outside, Loose
    <3> QED
      BY <1>7, <1>8, <1>16, <3>1 DEF KeyFits, Mine
  <2>2. NewFits(c)' /\ HandleFits(c)' /\ PublishFits(c)'
    BY <1>2, <1>5, <1>7, <1>8, <1>12 DEF NewFits, HandleFits, PublishFits, Installed
  <2>3. OwnFits(c)'
    <3>1. OwnFits(c) /\ call[c].old \in Maybe(SessionIds)
      BY <1>0 DEF Fits, CallType
    <3> QED
      BY <1>0, <1>5, <1>7, <1>8, <1>13, <3>1 DEF OwnFits, Leases, Installed
  <2> QED
    BY <2>1, <2>2, <2>3 DEF Fits
<1>18. ASSUME NEW d \in Calls, d # c PROVE Fits(d)'
  <2>1. Fits(d) /\ call'[d] = call[d] /\ WorkTarget(d)' = WorkTarget(d)
        /\ call[d].old \in Maybe(SessionIds) /\ call[d].new \in Maybe(SessionIds) /\ call[d].old # s /\ call[d].new # s
    BY <1>5, <1>8, <1>18, Placed DEF WorkTarget, CallType
  <2>2. KeyFits(d)'
    BY <2>1 DEF Fits, KeyFits, Claims, Loose, Inside, Mine, Gone, Installed
  <2>3. NewFits(d)'
    BY <1>13, <2>1 DEF Fits, NewFits, Installed, Open
  <2>4. OwnFits(d)'
    BY <1>13, <2>1 DEF Fits, OwnFits, Leases, Installed, Open
  <2>5. HandleFits(d)'
    BY <2>1 DEF Fits, HandleFits
  <2>6. PublishFits(d)'
    <3> SUFFICES ASSUME call[d].pc = "publish" PROVE PublishFits(d)'
      BY <2>1 DEF PublishFits
    <3>1. PublishFits(d) /\ call[d].handle # h
      BY <1>2, <1>18, <2>1, HandleIsMine DEF Fits
    <3>2. \A z \in SessionIds : sessions'[z].handle # call[d].handle
      BY <1>9, <1>10, <3>1 DEF PublishFits
    <3> QED
      BY <1>7, <1>8, <2>1, <3>1, <3>2 DEF PublishFits
  <2> QED
    BY <2>2, <2>3, <2>4, <2>5, <2>6 DEF Fits
<1>19. Tables'
  <2>1. OneHandlePerProject' /\ RegisteredUnderItsProject' /\ OneTargetPerSession'
    BY DEF LifecycleIInv, Tables, OneHandlePerProject, RegisteredUnderItsProject, OneTargetPerSession, Installed
  <2>2. OpenProgramsHaveProjects'
    BY <1>0, <1>2, <1>9, <1>10 DEF LifecycleIInv, Tables, OpenProgramsHaveProjects
  <2>3. OpenSessionsAreServed'
    <3> SUFFICES ASSUME NEW u \in Targets, Open(Installed(u))' PROVE Served(u)'
      BY DEF OpenSessionsAreServed
    <3>1. Installed(u)' = Installed(u) /\ Installed(u) # s /\ Installed(u) \in Maybe(SessionIds)
      BY <1>5, TableTypes DEF Installed
    <3>2. Open(Installed(u)) /\ Served(u)
      BY <1>13, <3>1 DEF LifecycleIInv, Tables, OpenSessionsAreServed, Open
    <3> QED
      BY <1>10, <3>1, <3>2 DEF Served, Installed, Open, Key, Maybe
  <2> QED
    BY <2>1, <2>2, <2>3 DEF Tables
<1>20. NoLostProject'
  BY <1>0, <1>8 DEF LifecycleIInv, NoLostProject
<1>21. ClosedAreReopened'
  <2> SUFFICES ASSUME NEW u \in Targets, (Installed(u) # None /\ ~Open(Installed(u)))'
               PROVE  \E d \in Calls : (Reopening(d) /\ WorkTarget(d) = u)'
    BY DEF ClosedAreReopened
  <2>1. Installed(u) # None /\ ~Open(Installed(u))
    BY <1>5, <1>13, TableTypes DEF Installed, Open, Maybe
  <2>2. PICK d \in Calls : Reopening(d) /\ WorkTarget(d) = u
    BY <2>1 DEF LifecycleIInv, ClosedAreReopened
  <2>3. d # c => (Reopening(d) /\ WorkTarget(d) = u)'
    BY <1>8, <2>2 DEF Reopening, WorkTarget
  <2> QED
    BY <1>16, <2>2, <2>3
<1> QED
  BY <1>11, <1>15, <1>17, <1>18, <1>19, <1>20, <1>21 DEF LifecycleIInv

LEMMA OpenProgramStep ==
  ASSUME LifecycleIInv, NEW c \in Calls, OpenProgram(c)
  PROVE  LifecycleIInv'
<1>0. call[c].pc = "open" /\ UNCHANGED <<handles, registry, context>>
  BY DEF OpenProgram
<1>1. CASE /\ handles[call[c].handle] # None /\ \E s \in SessionIds : FreshSession(s)
           /\ sessions' = [sessions EXCEPT ![SomeSession] =
                [handle |-> call[c].handle, prog |-> call[c].prog, for |-> WorkTarget(c)]]
           /\ Becomes(c, [call[c] EXCEPT !.pc = "init", !.new = SomeSession])
           /\ NoFault
  <2>1. SomeSession \in SessionIds /\ FreshSession(SomeSession)
    BY <1>1 DEF SomeSession
  <2>2. PICK s \in SessionIds : s = SomeSession /\ FreshSession(s)
    BY <2>1
  <2> QED
    BY <1>0, <1>1, <2>2, OpenedProgram
<1>2. CASE (NoFault \/ Fault) /\ Fail(c) /\ UNCHANGED sessions
  BY <1>0, <1>2, FailStep, TableTypes
<1> QED
  BY <1>1, <1>2 DEF OpenProgram

-----------------------------------------------------------------------------
(* Taking the locks                                                        *)

LEMMA ResolveStep ==
  ASSUME LifecycleIInv, NEW c \in Calls, Resolve(c)
  PROVE  LifecycleIInv'
<1>0. /\ call[c].pc = "resolve" /\ UNCHANGED <<handles, sessions, context, faults>>
      /\ TypeOK /\ call[c] \in CallType /\ Shape(call[c]) /\ Course(call[c]) /\ Fits(c)
      /\ call[c].on = None /\ call[c].new = None /\ call[c].handle = None
  BY Placed DEF Resolve, Shape
<1>1. PICK t \in Targets : t = call[c].target
  BY <1>0 DEF Shape
<1>2. CASE End(c) /\ UNCHANGED registry
  <2>1. ~Reopening(c)
    BY <1>0 DEF Reopening
  <2> QED
    BY <1>0, <1>2, <2>1, EndStep, TableTypes DEF NoFault
<1>3. ASSUME NEW l, l = LockOf(t), NEW made, made = (registry.locks[t] = None),
             NEW k, k = IF call[c].op \in {"create", "register"} THEN call[c].want ELSE registry.projects[t],
             NEW o, o = IF call[c].op = "command" THEN Installed(t) ELSE None,
             registry' = [registry EXCEPT !.locks[t] = l],
             Becomes(c, [call[c] EXCEPT !.pc = "enter", !.lock = l, !.made = made, !.key = k, !.old = o]),
             call[c].op = "create" => Installed(t) = None, call[c].op = "command" => Installed(t) # None,
             call[c].op \notin {"create", "register"} => registry.projects[t] # None,
             registry.locks[t] = None => \E j \in LockIds : FreshLock(j)
      PROVE  LifecycleIInv'
  <2>1. l \in LockIds
    <3>1. CASE registry.locks[t] = None
      <4>1. SomeLock \in LockIds
        BY <1>3, <3>1 DEF SomeLock
      <4> QED
        BY <1>3, <3>1, <4>1 DEF LockOf
    <3>2. CASE registry.locks[t] # None
      BY <1>3, <3>2, TableTypes DEF LockOf, Maybe
    <3> QED
      BY <3>1, <3>2
  <2>2. k \in Projects
    BY <1>0, <1>1, <1>3, TableTypes DEF Shape, Maybe
  <2>3. o \in Maybe(SessionIds) /\ (call[c].op = "command" => o # None) /\ (call[c].op = "create" => o = None)
    BY <1>3, TableTypes DEF Maybe, Installed
  <2> DEFINE r == [call[c] EXCEPT !.pc = "enter", !.lock = l, !.made = made, !.key = k, !.old = o]
  <2>4. r \in CallType
    <3>1. "enter" \in Pcs /\ l \in Maybe(LockIds) /\ k \in Maybe(Projects) /\ made \in BOOLEAN
      BY <1>3, <2>1, <2>2 DEF Pcs, Maybe
    <3> HIDE <1>3
    <3> QED
      BY <1>0, <2>3, <3>1 DEF CallType
  <2>5. /\ r.pc = "enter" /\ r.lock = l /\ r.key = k /\ r.old = o /\ r.op = call[c].op /\ r.target = t /\ r.on = None
        /\ r.new = None /\ r.handle = call[c].handle /\ r.want = call[c].want /\ r.prog = call[c].prog
    BY <1>0, <1>1 DEF CallType
  <2>6. call' \in [Calls -> CallType] /\ call'[c] = r /\ \A d \in Calls \ {c} : call'[d] = call[d]
    <3>1. Becomes(c, r)
      BY <1>3
    <3> HIDE DEF r
    <3> QED
      BY <1>0, <2>4, <3>1, BecomesFields
  <2> HIDE DEF r
  <2>7. /\ registry' \in RegistryType /\ registry'.locks[t] # None
        /\ \A u \in Targets \ {t} : registry'.locks[u] = registry.locks[u]
        /\ registry'.sessions = registry.sessions /\ registry'.projects = registry.projects /\ registry'.handles = registry.handles
    BY <1>3, <2>1, TableTypes, IdentitiesAssumption DEF RegistryType, Maybe
  <2>8. Itself(c)
    <3>1. (HoldsName(c)' => HoldsName(c)) /\ ~HoldsProject(c)'
      BY <1>0, <2>5, <2>6 DEF HoldsName, HoldsProject, Inside, Outside
    <3> QED
      BY <1>1, <2>5, <2>6, <3>1, HandleIsMine DEF Itself
  <2>9. Quiet(c)
    <3>1. ~Reopening(c)
      BY <1>0 DEF Reopening
    <3> QED
      BY <1>0, <2>5, <2>6, <2>7, <3>1, HandleIsMine DEF Quiet
  <2>10. Fits(c)'
    <3>1. WorkTarget(c)' = t
      BY <2>5, <2>6 DEF WorkTarget
    <3>2. KeyFits(c)'
      <4> SUFFICES ASSUME Claims(c)' PROVE Mine(c)'
        BY DEF KeyFits
      <4>1. call[c].op \in {"sync", "load", "close", "remove", "synced"}
        BY <2>5, <2>6 DEF Claims, Inside, Outside, Loose
      <4> QED
        BY <1>3, <2>5, <2>6, <2>7, <3>1, <4>1 DEF Mine
    <3>3. NewFits(c)' /\ PublishFits(c)'
      BY <2>5, <2>6 DEF NewFits, PublishFits
    <3>4. HandleFits(c)'
      BY <1>0, <2>5, <2>6 DEF HandleFits
    <3>5. OwnFits(c)'
      BY <1>3, <2>5, <2>6, <2>7 DEF OwnFits, Leases, Installed
    <3> QED
      BY <3>2, <3>3, <3>4, <3>5 DEF Fits
  <2>11. Shape(r) /\ Course(r)
    <3>1. Shape(r)
      BY <1>0, <1>1, <2>1, <2>2, <2>3, <2>5 DEF Shape
    <3>2. Course(r)
      BY <2>5 DEF Course, Outside
    <3> QED
      BY <3>1, <3>2
  <2>12. TypeOK'
    BY <1>0, <2>6, <2>7, TableTypes, TypesAfter
  <2> QED
    BY <2>6, <2>8, <2>9, <2>10, <2>11, <2>12, ItselfExclusion, QuietStep
<1> QED
  <2>1. CASE \/ call[c].op = "create" /\ Installed(t) # None
             \/ call[c].op = "command" /\ Installed(t) = None
             \/ call[c].op \notin {"create", "register"} /\ (registry.locks[t] = None \/ registry.projects[t] = None)
    BY <1>1, <1>2, <2>1 DEF Resolve
  <2>2. CASE ~(\/ call[c].op = "create" /\ Installed(t) # None
               \/ call[c].op = "command" /\ Installed(t) = None
               \/ call[c].op \notin {"create", "register"} /\ (registry.locks[t] = None \/ registry.projects[t] = None))
    <3>1. /\ registry' = [registry EXCEPT !.locks[t] = LockOf(t)]
          /\ Becomes(c, [call[c] EXCEPT !.pc = "enter", !.lock = LockOf(t), !.made = registry.locks[t] = None,
                  !.key = IF call[c].op \in {"create", "register"} THEN call[c].want ELSE registry.projects[t],
                  !.old = IF call[c].op = "command" THEN Installed(t) ELSE None])
          /\ registry.locks[t] = None => \E j \in LockIds : FreshLock(j)
      BY <1>1, <2>2 DEF Resolve
    <3> QED
      BY <1>3, <2>2, <3>1
  <2> QED
    BY <2>1, <2>2

\* Nobody works on a target without a session whose name a call has.
LEMMA NobodyElse ==
  ASSUME LifecycleIInv, NEW c \in Calls, HoldsName(c), NEW t \in Targets, t = call[c].target, Installed(t) = None,
         NEW d \in Calls \ {c}, Claims(d), WorkTarget(d) = t
  PROVE  FALSE
<1>1. Course(call[d])
  BY Placed
<1>2. ~(HoldsName(d) /\ call[d].target = t)
  BY DEF LifecycleIInv, Exclusion, OneCallPerName
<1>3. CASE call[d].pc = "enter" /\ Loose(d)
  BY <1>2, <1>3 DEF Loose, HoldsName, WorkTarget
<1>4. CASE Inside(d) /\ call[d].pc # "uncontext" /\ call[d].op = "sync"
  BY <1>1, <1>2, <1>4 DEF Course, HoldsName, Inside, Outside, WorkTarget
<1>5. CASE Inside(d) /\ call[d].pc # "uncontext" /\ call[d].op # "sync"
  BY <1>5, NameOrSession DEF HoldsProject
<1> QED
  BY <1>3, <1>4, <1>5 DEF Claims

\* A target is bound.
LEMMA RegisterStep ==
  ASSUME LifecycleIInv, NEW c \in Calls, call[c].pc = "enter", call[c].op = "register", StillMine(c), End(c),
         registry' = Bound(c), UNCHANGED <<handles, sessions, context, faults>>
  PROVE  LifecycleIInv'
<1>0. /\ TypeOK /\ Shape(call[c]) /\ HoldsName(c)
      /\ call[c].key \in Projects /\ call[c].lock \in LockIds /\ call[c].lock # None
  BY Placed DEF HoldsName
<1>1. PICK t \in Targets : t = call[c].target
  BY <1>0 DEF Shape
<1>2. /\ registry' \in RegistryType /\ registry'.projects[t] = call[c].key
      /\ \A u \in Targets \ {t} : registry'.projects[u] = registry.projects[u]
      /\ registry'.sessions = registry.sessions /\ registry'.handles = registry.handles
      /\ \A u \in Targets : registry.locks[u] # None => registry'.locks[u] # None
  <2>1. registry' = [registry EXCEPT !.projects[t] = call[c].key, !.locks[t] = IF @ = None THEN call[c].lock ELSE @]
    BY <1>1 DEF Bound
  <2>2. PICK l \in Maybe(LockIds) : l = (IF registry.locks[t] = None THEN call[c].lock ELSE registry.locks[t]) /\ l # None
    BY <1>0, TableTypes DEF Maybe
  <2>3. registry' = [registry EXCEPT !.projects[t] = call[c].key, !.locks[t] = l]
    BY <2>1, <2>2, TableTypes DEF RegistryType
  <2>4. call[c].key \in Maybe(Projects)
    BY <1>0 DEF Maybe
  <2>5. /\ registry'.sessions = registry.sessions /\ registry'.handles = registry.handles
        /\ registry'.projects = [registry.projects EXCEPT ![t] = call[c].key]
        /\ registry'.locks = [registry.locks EXCEPT ![t] = l]
    BY <2>3, TableTypes DEF RegistryType
  <2>6. registry' \in RegistryType
    <3>1. /\ [registry.projects EXCEPT ![t] = call[c].key] \in [Targets -> Maybe(Projects)]
          /\ [registry.locks EXCEPT ![t] = l] \in [Targets -> Maybe(LockIds)]
      BY <2>2, <2>4, TableTypes
    <3>2. registry' = [registry EXCEPT !.projects = [registry.projects EXCEPT ![t] = call[c].key],
                                       !.locks = [registry.locks EXCEPT ![t] = l]]
      BY <2>3, TableTypes DEF RegistryType
    <3> QED
      BY <3>1, <3>2, TableTypes DEF RegistryType
  <2>7. \A u \in Targets : registry.locks[u] # None => registry'.locks[u] # None
    BY <2>2, <2>5, TableTypes
  <2> QED
    BY <2>5, <2>6, <2>7, TableTypes
<1>3. /\ call' \in [Calls -> CallType] /\ call'[c] = Idle /\ \A d \in Calls \ {c} : call'[d] = call[d]
      /\ Shape(call'[c]) /\ Course(call'[c]) /\ Fits(c)'
  BY <1>0, EndFields
<1>4. registry.projects[t] = call[c].key \/ Installed(t) = None
  <2>1. Installed(t) = None \/ (Open(Installed(t)) /\ Key(Installed(t)) = call[c].key)
    BY <1>1 DEF StillMine
  <2> QED
    BY <2>1 DEF LifecycleIInv, Tables, OpenSessionsAreServed, Served
<1>5. Quiet(c)
  <2>1. ~Reopening(c)
    BY DEF Reopening
  <2>2. Installed(t) = None => \A d \in Calls \ {c} : ~(Claims(d) /\ WorkTarget(d) = t)
    BY <1>0, <1>1, NobodyElse
  <2> QED
    BY <1>2, <1>3, <1>4, <2>1, <2>2, HandleIsMine DEF Quiet, Idle
<1>6. TypeOK'
  BY <1>0, <1>2, <1>3, TableTypes, TypesAfter
<1>7. Exclusion'
  BY <1>3, EndItself, ItselfExclusion
<1> QED
  BY <1>3, <1>5, <1>6, <1>7, QuietStep

\* The session of a target whose project is free is open.
LEMMA FreeIsOpen ==
  ASSUME LifecycleIInv, NEW t \in Targets, Installed(t) # None, registry.projects[t] \in Projects,
         ProjectIsFree(registry.projects[t])
  PROVE  Open(Installed(t)) /\ Served(t)
<1>1. Open(Installed(t))
  <2> SUFFICES ASSUME ~Open(Installed(t)) PROVE FALSE
    OBVIOUS
  <2>1. PICK d \in Calls : Reopening(d) /\ WorkTarget(d) = t
    BY DEF LifecycleIInv, ClosedAreReopened
  <2>2. Course(call[d])
    BY Placed
  <2>3. HoldsProject(d) /\ call[d].pc # "uncontext" /\ ~Loose(d)
    BY <2>1, <2>2 DEF Reopening, HoldsProject, Inside, Outside, Loose, Course
  <2>4. Mine(d)
    BY <2>3, ProjectClaims
  <2> QED
    BY <2>1, <2>3, <2>4 DEF Mine, ProjectIsFree
<1> QED
  BY <1>1 DEF LifecycleIInv, Tables, OpenSessionsAreServed

\* A call enters with its locks.
LEMMA EnteredStep ==
  ASSUME LifecycleIInv, NEW c \in Calls, call[c].pc = "enter", call[c].op # "register", StillMine(c),
         call[c].op # "sync" => ProjectIsFree(call[c].key), registry' = Bound(c), NEW pc \in Start(c),
         NEW t \in Targets, t = call[c].target, NEW on, on = IF call[c].op = "command" /\ pc = "close" THEN t ELSE None,
         Becomes(c, [call[c] EXCEPT !.pc = pc, !.on = on, !.was = registry.projects[t]]),
         UNCHANGED <<handles, sessions, context, faults>>
  PROVE  LifecycleIInv'
<1>0. /\ TypeOK /\ call[c] \in CallType /\ Shape(call[c]) /\ Course(call[c]) /\ Fits(c)
      /\ call[c].key \in Projects /\ call[c].key # None /\ call[c].lock \in LockIds /\ call[c].on = None /\ call[c].new = None
      /\ call[c].handle = None /\ call[c].op \in {"create", "load", "sync", "close", "remove", "command", "import"}
  <2>1. call[c].op \in Kinds \ {"none", "register", "synced", "restore"}
    BY Placed DEF Shape, CallType
  <2> QED
    BY <2>1, Placed DEF Shape, Kinds
<1>1. /\ pc \in {"running", "close", "handle"}
      /\ pc = "running" => call[c].op = "command"
      /\ pc = "close" => call[c].op \in {"command", "close", "remove"}
      /\ pc = "handle" => call[c].op \in {"create", "load", "sync", "import"}
  BY <1>0 DEF Start
<1>2. (on = None \/ on = t) /\ (on # None <=> call[c].op = "command" /\ pc = "close")
  BY IdentitiesAssumption
<1> DEFINE r == [call[c] EXCEPT !.pc = pc, !.on = on, !.was = registry.projects[t]]
<1>3. r \in CallType
  <2>1. pc \in Pcs /\ on \in Maybe(Targets) /\ registry.projects[t] \in Maybe(Projects)
    BY <1>1, <1>2, TableTypes DEF Pcs, Maybe
  <2> QED
    BY <1>0, <2>1 DEF CallType
<1>4. /\ r.pc = pc /\ r.on = on /\ r.op = call[c].op /\ r.target = t /\ r.key = call[c].key /\ r.lock = call[c].lock
      /\ r.handle = None /\ r.want = call[c].want /\ r.prog = call[c].prog /\ r.old = call[c].old /\ r.new = None
  BY <1>0 DEF CallType
<1>5. call' \in [Calls -> CallType] /\ call'[c] = r /\ \A d \in Calls \ {c} : call'[d] = call[d]
  <2> HIDE DEF r
  <2> QED
    BY <1>0, <1>3, BecomesFields DEF r
<1> HIDE DEF r
<1>6. /\ registry' \in RegistryType
      /\ registry'.projects[t] = IF call[c].op = "create" THEN call[c].key ELSE registry.projects[t]
      /\ \A u \in Targets \ {t} : registry'.projects[u] = registry.projects[u]
      /\ registry'.sessions = registry.sessions /\ registry'.handles = registry.handles /\ registry'.locks = registry.locks
  <2>1. CASE call[c].op = "create"
    <3>1. registry' = [registry EXCEPT !.projects[t] = call[c].key]
      BY <2>1 DEF Bound
    <3> QED
      BY <1>0, <2>1, <3>1, TableTypes DEF RegistryType, Maybe
  <2>2. CASE call[c].op # "create"
    <3>1. registry' = registry
      BY <2>2 DEF Bound
    <3> QED
      BY <2>2, <3>1, TableTypes
  <2> QED
    BY <2>1, <2>2
<1>7. call[c].op = "create" => Installed(t) = None
  BY DEF StillMine
<1>8. Quiet(c)
  <2>1. ~Reopening(c)
    BY <1>0 DEF Reopening
  <2>2. call[c].op = "create" => \A d \in Calls \ {c} : ~(Claims(d) /\ WorkTarget(d) = t)
    BY <1>7, NobodyElse DEF HoldsName
  <2> QED
    BY <1>4, <1>5, <1>6, <1>7, <2>1, <2>2, HandleIsMine DEF Quiet
<1>9. TypeOK'
  BY <1>0, <1>5, <1>6, TableTypes, TypesAfter
<1>10. Exclusion'
  <2>1. OneCallPerName'
    <3>1. HoldsName(c)' => HoldsName(c) /\ call'[c].target = call[c].target
      BY <1>4, <1>5 DEF HoldsName
    <3>2. \A d \in Calls \ {c} : HoldsName(d)' = HoldsName(d) /\ call'[d].target = call[d].target
      BY <1>5 DEF HoldsName
    <3> QED
      BY <3>1, <3>2 DEF LifecycleIInv, Exclusion, OneCallPerName
  <2>2. OneCallPerProject'
    <3>1. \A d \in Calls \ {c} : HoldsProject(d)' = HoldsProject(d) /\ call'[d].key = call[d].key
      BY <1>5 DEF HoldsProject, Inside
    <3>2. HoldsProject(c)' => call[c].op # "sync" /\ call'[c].key = call[c].key
      BY <1>4, <1>5 DEF HoldsProject
    <3> QED
      BY <3>1, <3>2 DEF LifecycleIInv, Exclusion, OneCallPerProject, ProjectIsFree
  <2> QED
    BY <2>1, <2>2 DEF Exclusion
<1>11. call[c].op = "command" =>
         /\ Installed(t) = call[c].old /\ call[c].old # None /\ registry.projects[t] = call[c].key
         /\ Open(call[c].old) /\ registry.locks[t] # None
  <2> SUFFICES ASSUME call[c].op = "command"
               PROVE  /\ Installed(t) = call[c].old /\ call[c].old # None /\ registry.projects[t] = call[c].key
                      /\ Open(call[c].old) /\ registry.locks[t] # None
    OBVIOUS
  <2>1. Installed(t) = call[c].old /\ call[c].old # None /\ registry.projects[t] = call[c].key
    BY <1>0 DEF StillMine, SameSession, Shape
  <2> QED
    BY <1>0, <2>1, FreeIsOpen DEF Served
<1>12. call[c].op = "import" => registry.projects[t] = call[c].key /\ call[c].key = call[c].want
  BY DEF StillMine
<1>13. WorkTarget(c)' = t
  BY <1>2, <1>4, <1>5 DEF WorkTarget
<1>14. Fits(c)'
  <2>1. KeyFits(c)'
    <3>1. CASE call[c].op \in {"create", "import", "command"}
      BY <1>4, <1>5, <1>6, <1>11, <1>12, <1>13, <3>1 DEF KeyFits, Mine
    <3>2. CASE call[c].op \in {"load", "sync", "close", "remove"}
      <4>1. Loose(c) /\ Claims(c) /\ WorkTarget(c) = t
        BY <1>0, <3>2 DEF Loose, Claims, WorkTarget
      <4>2. Mine(c) \/ Gone(c)
        BY <1>0, <4>1 DEF Fits, KeyFits
      <4>3. Loose(c)'
        BY <1>1, <1>2, <1>4, <1>5, <3>2 DEF Loose
      <4> QED
        BY <1>4, <1>5, <1>6, <1>13, <3>2, <4>1, <4>2, <4>3 DEF KeyFits, Mine, Gone, Installed
    <3> QED
      BY <1>0, <3>1, <3>2
  <2>2. NewFits(c)' /\ HandleFits(c)' /\ PublishFits(c)'
    BY <1>1, <1>4, <1>5 DEF NewFits, HandleFits, PublishFits
  <2>3. OwnFits(c)'
    <3>1. call[c].op = "create" => Installed(t) = None /\ registry.locks[t] # None
      BY <1>0 DEF Fits, OwnFits
    <3> QED
      BY <1>0, <1>1, <1>2, <1>4, <1>5, <1>6, <1>11, <3>1 DEF OwnFits, Leases, Installed, Open
  <2> QED
    BY <2>1, <2>2, <2>3 DEF Fits
<1>15. Shape(r) /\ Course(r)
  <2>1. Shape(r)
    BY <1>0, <1>1, <1>2, <1>4, <1>12 DEF Shape
  <2>2. Course(r)
    BY <1>1, <1>2, <1>4, IdentitiesAssumption DEF Course
  <2> QED
    BY <2>1, <2>2
<1> QED
  BY <1>5, <1>8, <1>9, <1>10, <1>14, <1>15, QuietStep

LEMMA EnterStep ==
  ASSUME LifecycleIInv, NEW c \in Calls, Enter(c)
  PROVE  LifecycleIInv'
<1>0. /\ call[c].pc = "enter" /\ UNCHANGED <<handles, sessions, context, faults>>
      /\ call[c].op # "sync" => ProjectIsFree(call[c].key)
  BY DEF Enter
<1>1. PICK t \in Targets : t = call[c].target
  BY <1>0, Placed
<1>2. CASE ~StillMine(c)
  <2>1. End(c) /\ registry' = registry
    BY <1>2 DEF Enter
  <2>2. ~Reopening(c)
    BY <1>0, Placed DEF Reopening, Shape
  <2> QED
    BY <1>0, <2>1, <2>2, EndStep, TableTypes DEF NoFault
<1>3. CASE StillMine(c) /\ call[c].op = "register"
  BY <1>0, <1>3, RegisterStep DEF Enter
<1>4. CASE StillMine(c) /\ call[c].op # "register"
  <2>1. PICK pc \in Start(c) :
          Becomes(c, [call[c] EXCEPT !.pc = pc, !.on = IF call[c].op = "command" /\ pc = "close" THEN call[c].target ELSE None,
                                     !.was = registry.projects[call[c].target]])
    BY <1>4 DEF Enter
  <2>2. registry' = Bound(c)
    BY <1>4 DEF Enter
  <2> QED
    BY <1>0, <1>1, <1>4, <2>1, <2>2, EnteredStep
<1> QED
  BY <1>2, <1>3, <1>4

-----------------------------------------------------------------------------
(* The theorems                                                            *)

LEMMA LifecycleInit ==
  ASSUME Init
  PROVE  LifecycleIInv
<1>1. TypeOK
  <2>1. call \in [Calls -> CallType]
    BY IdleIsCall DEF Init
  <2>2. registry \in RegistryType
    BY DEF Init, RegistryType, Maybe
  <2> QED
    BY <2>1, <2>2, IdentitiesAssumption DEF TypeOK, Init, Maybe
<1>2. \A c \in Calls : call[c] = Idle
  BY DEF Init
<1>3. Shape(Idle) /\ Course(Idle)
  BY DEF Shape, Course, Idle, Outside
<1>4. \A c \in Calls : ~HoldsName(c) /\ ~HoldsProject(c) /\ ~Claims(c) /\ ~Leases(c) /\ call[c].pc = "idle"
                       /\ call[c].op = "none" /\ call[c].handle = None
  BY <1>2 DEF HoldsName, HoldsProject, Claims, Inside, Outside, Leases, Idle
<1>5. \A c \in Calls : Fits(c)
  BY <1>4 DEF Fits, KeyFits, NewFits, OwnFits, HandleFits, PublishFits
<1>6. Steps /\ Exclusion
  BY <1>2, <1>3, <1>4 DEF Steps, Exclusion, OneCallPerName, OneCallPerProject
<1>7. /\ \A t \in Targets : Installed(t) = None
      /\ \A h \in HandleIds : handles[h] = None
      /\ \A s \in SessionIds : sessions[s] = Closed
      /\ \A k \in Projects : registry.handles[k] = None
  BY DEF Init, Installed
<1>8. Tables /\ NoLostProject /\ ClosedAreReopened
  BY <1>7 DEF Tables, OneHandlePerProject, RegisteredUnderItsProject, OpenProgramsHaveProjects, OneTargetPerSession,
              OpenSessionsAreServed, Open, NoLostProject, ClosedAreReopened
<1> QED
  BY <1>1, <1>5, <1>6, <1>8 DEF LifecycleIInv

LEMMA LifecycleNext ==
  ASSUME LifecycleIInv, [Next]_vars
  PROVE  LifecycleIInv'
<1>1. CASE UNCHANGED vars
  <2>1. /\ handles' = handles /\ sessions' = sessions /\ registry' = registry
        /\ context' = context /\ call' = call /\ faults' = faults
    BY <1>1 DEF vars
  <2>2. TypeOK' /\ Steps'
    BY <2>1 DEF LifecycleIInv, TypeOK, Steps
  <2>3. Exclusion'
    BY <2>1 DEF LifecycleIInv, Exclusion, OneCallPerName, OneCallPerProject, HoldsName, HoldsProject, Inside
  <2>4. ASSUME NEW c \in Calls PROVE Fits(c)'
    <3>1. Fits(c)
      BY DEF LifecycleIInv
    <3>2. KeyFits(c)'
      BY <2>1, <3>1 DEF Fits, KeyFits, Claims, Inside, Loose, Mine, Gone, WorkTarget, Installed
    <3>3. NewFits(c)'
      BY <2>1, <3>1 DEF Fits, NewFits, Open, Key, Installed
    <3>4. OwnFits(c)'
      BY <2>1, <3>1 DEF Fits, OwnFits, Leases, Open, Key, Installed
    <3>5. HandleFits(c)' /\ PublishFits(c)'
      BY <2>1, <3>1 DEF Fits, HandleFits, PublishFits
    <3> QED
      BY <3>2, <3>3, <3>4, <3>5 DEF Fits
  <2>5. Tables'
    <3>1. Tables
      BY DEF LifecycleIInv
    <3>2. (OneHandlePerProject /\ RegisteredUnderItsProject /\ OpenProgramsHaveProjects)'
      BY <2>1, <3>1 DEF Tables, OneHandlePerProject, RegisteredUnderItsProject, OpenProgramsHaveProjects
    <3>3. (OneTargetPerSession /\ OpenSessionsAreServed)'
      BY <2>1, <3>1 DEF Tables, OneTargetPerSession, OpenSessionsAreServed, Served, Open, Key, Installed
    <3> QED
      BY <3>2, <3>3 DEF Tables
  <2>6. NoLostProject'
    BY <2>1 DEF LifecycleIInv, NoLostProject
  <2>7. ClosedAreReopened'
    BY <2>1 DEF LifecycleIInv, ClosedAreReopened, Reopening, WorkTarget, Open, Installed
  <2> QED
    BY <2>2, <2>3, <2>4, <2>5, <2>6, <2>7 DEF LifecycleIInv
<1>2. ASSUME NEW c \in Calls, Step(c) PROVE LifecycleIInv'
  <2>1. CASE StartImport(c) \/ Resolve(c) \/ Enter(c)
    BY <2>1, StartImportStep, ResolveStep, EnterStep
  <2>2. CASE GiveUp(c) \/ Finish(c) \/ RemoveContext(c)
    BY <2>2, EndingSteps
  <2>3. CASE GetHandle(c) \/ OpenProject(c) \/ Publish(c) \/ Join(c) \/ Choose(c)
    BY <2>3, GetHandleStep, OpenProjectStep, PublishStep, JoinStep, ChooseStep
  <2>4. CASE OpenProgram(c) \/ InitContext(c) \/ Swap(c) \/ Install(c) \/ Validate(c)
    BY <2>4, OpenProgramStep, InitContextStep, SwapStep, InstallStep, ValidateStep
  <2>5. CASE RollBack(c) \/ RollBackReopen(c) \/ Cleanup(c)
    BY <2>5, RollBackStep, RollBackReopenStep, CleanupStep
  <2>6. CASE Close(c) \/ Forget(c) \/ Drop(c)
    BY <2>6, CloseStep, ForgetStep, DropStep
  <2> QED
    BY <1>2, <2>1, <2>2, <2>3, <2>4, <2>5, <2>6 DEF Step
<1>3. ASSUME NEW c \in Calls, NEW t \in Targets, Ask(c, t) PROVE LifecycleIInv'
  <2>1. None \in Maybe(Programs) /\ None \in Maybe(Projects)
        /\ (\A p \in Programs : p \in Maybe(Programs)) /\ \A k \in Projects : k \in Maybe(Projects)
    BY DEF Maybe
  <2>2. ASSUME NEW p \in Programs, NEW k \in Projects, Request(c, "create", t, p, k) PROVE LifecycleIInv'
    <3>1. "create" \in Kinds
      BY DEF Kinds
    <3> QED
      BY <2>1, <2>2, <3>1, RequestStep
  <2>3. ASSUME NEW k \in Projects, Request(c, "register", t, None, k) PROVE LifecycleIInv'
    <3>1. "register" \in Kinds
      BY DEF Kinds
    <3> QED
      BY <2>1, <2>3, <3>1, RequestStep
  <2>4. ASSUME NEW op \in {"load", "sync"}, NEW p \in Programs, Request(c, op, t, p, None) PROVE LifecycleIInv'
    <3>1. op \in Kinds
      BY DEF Kinds
    <3> QED
      BY <2>1, <2>4, <3>1, RequestStep
  <2>5. ASSUME NEW op \in {"close", "remove", "command"}, Request(c, op, t, None, None) PROVE LifecycleIInv'
    <3>1. op \in Kinds
      BY DEF Kinds
    <3> QED
      BY <2>1, <2>5, <3>1, RequestStep
  <2>6. CASE AdmitImport(c, t)
    BY <2>6, AdmitImportStep
  <2> QED
    BY <1>3, <2>2, <2>3, <2>4, <2>5, <2>6 DEF Ask
<1> QED
  BY <1>1, <1>2, <1>3 DEF Next

LEMMA LifecycleAlways == Spec => []LifecycleIInv
BY LifecycleInit, LifecycleNext, PTL DEF Spec

\* Whichever Ghidra calls fail, those of a rollback included, no open project is lost,
\* and a target that no call works on has no session, or one with an open program, its
\* project, that project's registered handle and a lock (target_lifecycle.py).
THEOREM RuntimeHolds == Spec => []RuntimeInvariant
<1>1. LifecycleIInv => RuntimeInvariant
  <2> SUFFICES ASSUME LifecycleIInv PROVE SessionsAreServed
    BY DEF LifecycleIInv, RuntimeInvariant
  <2> SUFFICES ASSUME NEW t \in Targets, AtRest(t), Installed(t) # None PROVE Served(t)
    BY DEF SessionsAreServed
  <2>1. Open(Installed(t))
    <3> SUFFICES ASSUME ~Open(Installed(t)) PROVE FALSE
      OBVIOUS
    <3>1. PICK d \in Calls : Reopening(d) /\ WorkTarget(d) = t
      BY DEF LifecycleIInv, ClosedAreReopened
    <3>2. Inside(d)
      BY <3>1 DEF Reopening, Inside, Outside
    <3> QED
      BY <3>1, <3>2 DEF AtRest
  <2> QED
    BY <2>1 DEF LifecycleIInv, Tables, OpenSessionsAreServed
<1> QED
  BY <1>1, LifecycleAlways, PTL

\* A command runs on the open program of its target, and an import in the open project
\* that it was accepted for, whatever was closed and opened again while they waited for
\* their locks (core_execution.py, program_lease.py, import_execution.py).
THEOREM WorkHolds == Spec => []WorkKeepsItsSession
<1>1. LifecycleIInv => WorkKeepsItsSession
  <2> SUFFICES ASSUME LifecycleIInv, NEW c \in Calls, call[c].pc = "running"
               PROVE  IF call[c].op = "command" THEN KeepsItsSession(c) ELSE KeepsItsProject(c)
    BY DEF WorkKeepsItsSession
  <2>1. call[c] \in CallType /\ Shape(call[c]) /\ Course(call[c]) /\ Fits(c) /\ call[c].key \in Projects
    BY Placed
  <2>2. call[c].on = None /\ call[c].op \in {"command", "import"}
    BY <2>1 DEF Course, Outside
  <2>3. CASE call[c].op = "command"
    BY <2>1, <2>3 DEF Fits, OwnFits, KeepsItsSession
  <2>4. CASE call[c].op = "import"
    <3>1. PICK h \in HandleIds : h = call[c].handle
      BY <2>1, <2>4 DEF Shape, CallType, Maybe
    <3>2. handles[h] = call[c].key /\ call[c].key = call[c].want
      BY <2>1, <2>4, <3>1 DEF Fits, OwnFits, Shape
    <3>3. registry.projects[call[c].target] = call[c].key
      BY <2>1, <2>2, <2>4 DEF Fits, KeyFits, Claims, Inside, Outside, Loose, Mine, WorkTarget
    <3>4. ~\E d \in Calls : call[d].pc = "publish" /\ call[d].handle = h
      BY <3>1, HandleIsMine
    <3>5. registry.handles[call[c].key] = h
      BY <2>1, <3>2, <3>4, IdentitiesAssumption DEF LifecycleIInv, NoLostProject
    <3> QED
      BY <2>4, <3>1, <3>2, <3>3, <3>5 DEF KeepsItsProject
  <2> QED
    BY <2>2, <2>3, <2>4
<1> QED
  BY <1>1, LifecycleAlways, PTL
==============================================================================
