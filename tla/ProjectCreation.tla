--------------------------- MODULE ProjectCreation ---------------------------
(***************************************************************************)
(* Making projects: create_project, with and without overwrite, and         *)
(* create_repository_cache_project, beside register_target and the opening  *)
(* of a project by a target.  create_project is exclusive under the         *)
(* runtime's operation lock, the others share it; another process makes     *)
(* projects whenever it likes.  A name may be spelled with the .gpr suffix, *)
(* which Ghidra's ProjectLocator removes.                                   *)
(***************************************************************************)
EXTENDS FiniteSets

CONSTANTS
  Calls,      \* calls in progress
  Names,      \* project names in one directory
  Repos,      \* repositories of the server
  None

VARIABLES
  disk,        \* what is at each name: None, [repo |-> None] or a cache of a repository
  registered,  \* the keys that targets are bound to
  handles,     \* the keys with an open project handle
  call,        \* [op, spelled, repo, overwrite, step] of each call, or Idle
  lost         \* projects that were replaced: [used, allowed]

vars == <<disk, registered, handles, call, lost>>

\* A name as a client spells it; the key of a project keeps the spelling.
Spellings == [name : Names, suffix : BOOLEAN]

Idle == [step |-> "idle"]
Local == [repo |-> None]
CacheOf(r) == [repo |-> r]

Init ==
  /\ disk \in [Names -> {None, Local} \union {CacheOf(r) : r \in Repos}]
  /\ registered = {} /\ handles = {}
  /\ call = [c \in Calls |-> Idle]
  /\ lost = {}

\* Mutant: any spelling is accepted, and compared as it is spelled.
AcceptsSuffix(spelled) == TRUE
\* "ProjectLocator removes a trailing .gpr.  Reject that spelling".
Normal(spelled) == ~spelled.suffix

Goes(c, step) == call' = [call EXCEPT ![c].step = step]
Ends(c) == call' = [call EXCEPT ![c] = Idle]
Busy(op) == \E c \in Calls : call[c] # Idle /\ call[c].op = op

----------------------------------------------------------------------------
(***************************************************************************)
(* The operation lock: one create_project, or any of the others             *)
(***************************************************************************)

\* bounded_write_lock gives up rather than wait: then nothing happens.
MayEnter(op) == ~Busy("create") /\ (op = "create" => \A c \in Calls : call[c] = Idle)

Enter(c, op, spelled, repo, overwrite) ==
  /\ call[c] = Idle
  /\ Normal(spelled)
  /\ MayEnter(op)
  /\ call' = [call EXCEPT ![c] = [op |-> op, spelled |-> spelled, repo |-> repo,
                                  overwrite |-> overwrite, step |-> "look"]]
  /\ UNCHANGED <<disk, registered, handles, lost>>

Works(c, op, step) == call[c] # Idle /\ call[c].op = op /\ call[c].step = step
Name(c) == call[c].spelled.name
InUse(spelled) == spelled \in registered \union handles

\* Ghidra replaces what is at the name: remember whose that was.
Replaced(n, allowed) ==
  IF disk[n] = None THEN lost
  ELSE lost \union {[used |-> \E s \in registered \union handles : s.name = n, allowed |-> allowed]}

----------------------------------------------------------------------------
(***************************************************************************)
(* create_project                                                           *)
(***************************************************************************)

\* Refused: the project is in use, or it exists and may not be replaced.
Look(c) ==
  /\ Works(c, "create", "look")
  /\ IF (IF call[c].overwrite THEN InUse(call[c].spelled) ELSE disk[Name(c)] # None)
       THEN Ends(c) ELSE Goes(c, "make")
  /\ UNCHANGED <<disk, registered, handles, lost>>

\* Mutant: GhidraProject.createProject for every new project.
MakesAlways(c) == TRUE
\* Without overwrite the project manager is used, which never deletes a project.
Makes(c) == call[c].overwrite \/ disk[Name(c)] = None

Make(c) ==
  /\ Works(c, "create", "make")
  /\ IF Makes(c)
       THEN /\ disk' = [disk EXCEPT ![Name(c)] = Local]
            /\ lost' = Replaced(Name(c), call[c].overwrite)
       ELSE UNCHANGED <<disk, lost>>
  /\ Ends(c)
  /\ UNCHANGED <<registered, handles>>

----------------------------------------------------------------------------
(***************************************************************************)
(* create_repository_cache_project                                          *)
(***************************************************************************)

\* What exists is used again if it is a cache of the repository, and otherwise
\* refused; in both cases nothing is made.
LookForCache(c) ==
  /\ Works(c, "cache", "look")
  /\ IF disk[Name(c)] # None THEN Ends(c) ELSE Goes(c, "connect")
  /\ UNCHANGED <<disk, registered, handles, lost>>

Connect(c) ==
  /\ Works(c, "cache", "connect")
  /\ Goes(c, "make") \/ Ends(c)
  /\ UNCHANGED <<disk, registered, handles, lost>>

MakeCache(c) ==
  /\ Works(c, "cache", "make")
  /\ IF disk[Name(c)] = None
       THEN disk' = [disk EXCEPT ![Name(c)] = CacheOf(call[c].repo)]
       ELSE UNCHANGED disk
  /\ Ends(c)
  /\ UNCHANGED <<registered, handles, lost>>

----------------------------------------------------------------------------
(***************************************************************************)
(* Targets and other processes                                              *)
(***************************************************************************)

\* register_target binds a target under the shared lock; the project need not
\* be opened, and need not exist.
Register(c) ==
  /\ Works(c, "register", "look")
  /\ registered' = registered \union {call[c].spelled}
  /\ Goes(c, "open") \/ Ends(c)
  /\ UNCHANGED <<disk, handles, lost>>

OpenProject(c) ==
  /\ Works(c, "register", "open")
  /\ IF disk[Name(c)] # None THEN handles' \in {handles, handles \union {call[c].spelled}}
                             ELSE UNCHANGED handles
  /\ Ends(c)
  /\ UNCHANGED <<disk, registered, lost>>

\* A target is closed: its binding goes, and its project is closed or stays open.
Forget(s) ==
  /\ ~Busy("create")
  /\ s \in registered
  /\ registered' = registered \ {s}
  /\ handles' \in {handles, handles \ {s}}
  /\ UNCHANGED <<disk, call, lost>>

\* An open project is locked against other processes by Ghidra.
OtherProcess(n) ==
  /\ \A s \in handles : s.name # n
  /\ disk' \in {[disk EXCEPT ![n] = d] : d \in {None, Local}}
  /\ UNCHANGED <<registered, handles, call, lost>>

Next ==
  \/ \E c \in Calls, s \in Spellings :
       \/ \E overwrite \in BOOLEAN : Enter(c, "create", s, None, overwrite)
       \/ \E r \in Repos : Enter(c, "cache", s, r, FALSE)
       \/ Enter(c, "register", s, None, FALSE)
  \/ \E c \in Calls : \/ Look(c) \/ Make(c) \/ LookForCache(c) \/ Connect(c) \/ MakeCache(c)
                      \/ Register(c) \/ OpenProject(c)
  \/ \E s \in Spellings : Forget(s)
  \/ \E n \in Names : OtherProcess(n)

Spec == Init /\ [][Next]_vars

----------------------------------------------------------------------------
\* A project is replaced only by a call that asked to overwrite it, and never
\* while a target of this server is bound to it or has it open, however its name
\* is spelled and whatever is created meanwhile (target_lifecycle.create_project).
OnlyUnusedAreReplaced == \A r \in lost : r.allowed /\ ~r.used
=============================================================================
