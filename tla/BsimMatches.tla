----------------------------- MODULE BsimMatches -----------------------------
(***************************************************************************)
(* Loading the program of a BSim match as a target (BsimService).  Loads   *)
(* of one program are serialised by a lock named after the program; the    *)
(* list of targets tells whether it is loaded already (the index of loaded *)
(* matches only proposes targets that the list has to confirm); a new      *)
(* session is validated inside create_session, before others may use it.   *)
(* Other clients open, close and change programs meanwhile.                *)
(***************************************************************************)
EXTENDS Naturals, FiniteSets

CONSTANTS
  Clients, Targets, Projects, Paths,
  Md5s,
  DefaultTarget,     \* the name a load takes when none is given, by MD5
  Worlds,            \* what the programs may hold at first
  Refs,              \* matched_refs: [md5, project, path]; no project: a remote repository without a cache
  NoProject, NoTarget, NoClient, NoProgram

Programs == [project : Projects, path : Paths]
LoadKeys == [project : Projects \union {NoProject}, path : Paths]

VARIABLES
  session,    \* [Targets -> the program its session has open, or NoProgram]
  busy,       \* [Targets -> the client that holds its lock in create_session]
  opener,     \* [Targets -> who opened it: "none", "other", "opening" (a load, not yet checked) or "load"]
  content,    \* [Programs -> its MD5, and whether the matched function is in it]
  lock,       \* [LoadKeys -> client or NoClient], the keyed load locks
  load        \* [Clients -> load record]

vars == <<session, busy, opener, content, lock, load>>

Idle == [step |-> "idle", ref |-> CHOOSE r \in Refs : TRUE, want |-> NoTarget, explicit |-> FALSE,
         found |-> NoTarget, checked |-> <<>>, answer |-> "none"]

Init ==
  /\ session = [t \in Targets |-> NoProgram] /\ opener = [t \in Targets |-> "none"]
  /\ busy = [t \in Targets |-> NoClient]
  /\ content \in Worlds
  /\ lock = [k \in LoadKeys |-> NoClient]
  /\ load = [c \in Clients |-> Idle]

-----------------------------------------------------------------------------
\* The program, when the reference names a project; else its repository.
LoadKey(ref) == [project |-> ref.project, path |-> ref.path]
Key(c) == LoadKey(load[c].ref)
ProgramOf(ref) == [project |-> ref.project, path |-> ref.path]

TargetMatches(ref, t) ==
  /\ session[t] # NoProgram /\ session[t].path = ref.path
  /\ ref.project # NoProject => session[t].project = ref.project

\* The requested target goes first, then any; without a project, only the
\* target the caller named.
LoadedTargets(l) ==
  LET matching == {t \in Targets : TargetMatches(l.ref, t)} IN
  IF l.want \in matching /\ (l.ref.project # NoProject \/ l.explicit) THEN {l.want}
  ELSE IF l.ref.project = NoProject THEN {} ELSE matching

\* bsim_validate_match on what the target has open.
Valid(ref, t) ==
  session[t] # NoProgram /\ session[t].path = ref.path /\ content[session[t]] = [md5 |-> ref.md5, function |-> TRUE]
Checked(t) == <<session[t], content[session[t]]>>

Set(c, l) == load' = [load EXCEPT ![c] = l]
Finish(c, l, answer) ==
  /\ Set(c, IF answer = "error" THEN Idle ELSE [l EXCEPT !.step = "ended", !.answer = answer])
  /\ lock' = [lock EXCEPT ![Key(c)] = NoClient]

-----------------------------------------------------------------------------
\* A caller that names no target gets the one named after the MD5.
MayWant(ref, want, explicit) == explicit \/ want = DefaultTarget[ref.md5]

Ask(c) ==
  /\ load[c].step \in {"idle", "ended"}
  /\ \E ref \in Refs, want \in Targets, explicit \in BOOLEAN :
       /\ MayWant(ref, want, explicit)
       /\ Set(c, [Idle EXCEPT !.step = "lock", !.ref = ref, !.want = want, !.explicit = explicit])
  /\ UNCHANGED <<session, busy, opener, content, lock>>

TakeLoadLock(c) ==
  /\ load[c].step = "lock" /\ lock[Key(c)] = NoClient
  /\ lock' = [lock EXCEPT ![Key(c)] = c]
  /\ Set(c, [load[c] EXCEPT !.step = "find"])
  /\ UNCHANGED <<session, busy, opener, content>>

Find(c) ==
  /\ load[c].step = "find"
  /\ \/ \E t \in LoadedTargets(load[c]) :
          Set(c, [load[c] EXCEPT !.step = "validate", !.found = t]) /\ UNCHANGED lock
     \/ /\ LoadedTargets(load[c]) = {}
        /\ IF load[c].ref.project = NoProject
             THEN Finish(c, load[c], "error")
             ELSE Set(c, [load[c] EXCEPT !.step = "create"]) /\ UNCHANGED lock
  /\ UNCHANGED <<session, busy, opener, content>>

\* The check of a loaded target is a core command, under the target's lock.
ValidateLoaded(c) ==
  /\ load[c].step = "validate" /\ busy[load[c].found] = NoClient
  /\ LET t == load[c].found IN
       IF Valid(load[c].ref, t)
         THEN Finish(c, [load[c] EXCEPT !.checked = Checked(t)], "already_loaded")
         ELSE Finish(c, load[c], "error")
  /\ UNCHANGED <<session, busy, opener, content>>

\* create_session opens the program and publishes the session, its locks held.
CreateSession(c) ==
  /\ load[c].step = "create" /\ busy[load[c].want] = NoClient
  /\ LET t == load[c].want IN
     \/ /\ Finish(c, load[c], "error")      \* the name is taken, or the program does not open
        /\ UNCHANGED <<session, busy, opener>>
     \/ /\ session[t] = NoProgram
        /\ session' = [session EXCEPT ![t] = ProgramOf(load[c].ref)]
        /\ opener' = [opener EXCEPT ![t] = "opening"]
        /\ busy' = [busy EXCEPT ![t] = c]
        /\ Set(c, [load[c] EXCEPT !.step = "check"])
        /\ UNCHANGED lock
  /\ UNCHANGED <<content>>

\* Its validation, still under the locks: a failure takes the session back.
ValidateCreated(c) ==
  /\ load[c].step = "check"
  /\ LET t == load[c].want IN
     /\ busy' = [busy EXCEPT ![t] = NoClient]
     /\ IF Valid(load[c].ref, t)
          THEN /\ Finish(c, [load[c] EXCEPT !.checked = Checked(t)], "loaded")
               /\ opener' = [opener EXCEPT ![t] = "load"]
               /\ UNCHANGED session
          ELSE /\ session' = [session EXCEPT ![t] = NoProgram]
               /\ opener' = [opener EXCEPT ![t] = "none"]
               /\ Finish(c, load[c], "error")
  /\ UNCHANGED <<content>>

-----------------------------------------------------------------------------
\* Other calls on targets and programs (external to the service).
OpenOther(t) ==
  /\ session[t] = NoProgram /\ busy[t] = NoClient
  /\ \E p \in Programs : session' = [session EXCEPT ![t] = p]
  /\ opener' = [opener EXCEPT ![t] = "other"]
  /\ UNCHANGED <<busy, content, lock, load>>

CloseTarget(t) ==
  /\ session[t] # NoProgram /\ busy[t] = NoClient
  /\ session' = [session EXCEPT ![t] = NoProgram] /\ opener' = [opener EXCEPT ![t] = "none"]
  /\ UNCHANGED <<busy, content, lock, load>>

EditFunction(t) ==
  /\ session[t] # NoProgram /\ busy[t] = NoClient
  /\ content' = [content EXCEPT ![session[t]].function = FALSE]
  /\ UNCHANGED <<session, busy, opener, lock, load>>

Next ==
  \/ \E c \in Clients :
       \/ Ask(c) \/ TakeLoadLock(c) \/ Find(c) \/ ValidateLoaded(c)
       \/ CreateSession(c) \/ ValidateCreated(c)
  \/ \E t \in Targets : OpenOther(t) \/ CloseTarget(t) \/ EditFunction(t)

Spec == Init /\ [][Next]_vars

-----------------------------------------------------------------------------
\* Loads never open one program twice: the second is given the first one's target.
LoadsShareTheTarget == \A s, t \in Targets :
  opener[s] = "load" /\ opener[t] = "load" /\ session[s] = session[t] => s = t

\* A load answers with a target only after a look at the program open in it:
\* of the reference's MD5 and path, with the function; and, if the load opened
\* it, of the reference's project.
AnswersAreValidated == \A c \in Clients :
  LET l == load[c] IN
  l.answer \in {"loaded", "already_loaded"} =>
    /\ l.checked # <<>>
    /\ l.checked[1].path = l.ref.path /\ l.checked[2] = [md5 |-> l.ref.md5, function |-> TRUE]
    /\ l.answer = "loaded" => l.checked[1] = ProgramOf(l.ref)

\* No session that a load opened and found stale is left to others.
FailuresLeaveNothing == \A t \in Targets : opener[t] = "opening" => busy[t] # NoClient

\* A reference that cannot be tied to a project is answered only with the
\* target the caller named.
StrangersAreNamed == \A c \in Clients :
  load[c].ref.project = NoProject /\ load[c].found # NoTarget =>
    load[c].explicit /\ load[c].found = load[c].want

MatchesInvariant ==
  LoadsShareTheTarget /\ AnswersAreValidated /\ FailuresLeaveNothing /\ StrangersAreNamed
=============================================================================
