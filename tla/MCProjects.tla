----------------------------- MODULE MCProjects -----------------------------
(***************************************************************************)
(* Projects and the targets bound to them, each in a small instance of its *)
(* own: the life of targets (TargetLifecycle), an import into a project    *)
(* (ProgramImport), the making of projects (ProjectCreation), and reading  *)
(* the past of a shared program (VersionReads).  A behaviour is one of     *)
(* them.                                                                   *)
(***************************************************************************)
EXTENDS MCTargetLifecycle

VARIABLES
  part,
  deprived,  \* the targets whose context a late cleanup took from a session it was not for
  asked, local, apart, remote, held, entry, whole, error, hijacked, cancel, job, reply,
  disk, registered, openHandles, making, lost,
  link, verified, latest, reading, opened, timer, differs, cut, answer, blind

importVars == <<asked, local, apart, remote, held, entry, whole, error, hijacked, cancel, job, reply>>
creationVars == <<disk, registered, openHandles, making, lost>>
versionVars == <<link, verified, latest, reading, opened, timer, differs, cut, answer, blind>>

\* Java longs of eight values: a whole space, a half one, one with two bytes per
\* addressable unit, and a program in the upper half; entry points at both ends.
Space(min, max, unit) == [min |-> min, max |-> max, unit |-> unit]
Imports ==
  {[analyze |-> analyze, entry |-> None] @@ Space(0, 3, 1) : analyze \in BOOLEAN}
  \union
  {[analyze |-> TRUE, entry |-> [by |-> by, value |-> value]] @@ space :
     by \in {"address", "offset"}, value \in {0, 2, 4},
     space \in {Space(0, 7, 2), Space(0, 3, 1), Space(2, 7, 1)}}
  \union
  {[analyze |-> FALSE, entry |-> [by |-> by, value |-> value]] @@ Space(-3, 7, 1) :
     by \in {"address", "offset"}, value \in {1, 2}}

Import == INSTANCE ProgramImport WITH Half <- 4

Creation == INSTANCE ProjectCreation WITH
  Calls <- {c1, c2}, Names <- {p}, Repos <- {k}, handles <- openHandles, call <- making

\* Histories, and diffs of one version with itself, with the next, and with one
\* that may not exist yet.
Readings ==
  {[op |-> "history", from |-> 1, to |-> 1, limit |-> limit, ranges |-> 0, include |-> FALSE, details |-> 0] :
     limit \in 1..2}
  \union
  {[op |-> "diff", from |-> 1, to |-> to, limit |-> 1, ranges |-> ranges, include |-> include, details |-> 1] :
     to \in 1..2, ranges \in 0..2, include \in BOOLEAN}

Versions == INSTANCE VersionReads WITH
  Requests <- Readings, Sizes <- 0..2, MaxVersion <- 2, call <- reading, reply <- answer

Shows(which) == part = which

\* A part that is not shown has no state.
NoImport ==
  /\ asked = None /\ local = None /\ apart = None /\ remote = None /\ held = None /\ entry = None
  /\ whole = None /\ error = None /\ hijacked = None /\ cancel = None /\ job = None /\ reply = None
NoCreation == disk = None /\ registered = None /\ openHandles = None /\ making = None /\ lost = None
NoVersions ==
  /\ link = None /\ verified = None /\ latest = None /\ reading = None /\ opened = None
  /\ timer = None /\ differs = None /\ cut = None /\ answer = None /\ blind = None

ProjectsInit ==
  /\ Init /\ deprived = {}
  /\ \/ part = "targets" /\ NoImport /\ NoCreation /\ NoVersions
     \/ part = "import" /\ Import!Init /\ NoCreation /\ NoVersions
     \/ part = "creation" /\ NoImport /\ Creation!Init /\ NoVersions
     \/ part = "versions" /\ NoImport /\ NoCreation /\ Versions!Init

\* A command whose program could not be opened again removes the context of its
\* target after it gave the target up: it may be the context of the session that
\* another call has installed or is about to.
OfAnother(c) ==
  LET t == call[c].target
  IN  /\ context[t] # None
      /\ \/ context[t] = Installed(t)
         \/ \E d \in Calls \ {c} : Inside(d) /\ call[d].target = t /\ call[d].new = context[t]
Deprived ==
  {call[c].target : c \in {c \in Calls : call[c].op = "command" /\ call[c].pc = "uncontext" /\ OfAnother(c)}}

\* A target is deprived until it is given a context again.
TargetsNext ==
  /\ Next
  /\ deprived' = {t \in deprived \union Deprived : context'[t] = None}

ProjectsNext ==
  \/ Shows("targets") /\ TargetsNext /\ UNCHANGED <<part, importVars, creationVars, versionVars>>
  \/ Shows("import") /\ Import!Next /\ UNCHANGED <<part, deprived, vars, creationVars, versionVars>>
  \/ Shows("creation") /\ Creation!Next /\ UNCHANGED <<part, deprived, vars, importVars, versionVars>>
  \/ Shows("versions") /\ Versions!Next /\ UNCHANGED <<part, deprived, vars, importVars, creationVars>>

ProjectsSpec == ProjectsInit /\ [][ProjectsNext]_<<part, deprived, vars, importVars, creationVars, versionVars>>

-----------------------------------------------------------------------------
\* An import leaves its program whole or not at all and says which; a project is
\* replaced only while nobody uses it; what a call reads of a program's past is
\* complete, checked, and let go.
ProgramsInvariant ==
  /\ Shows("import") => Import!ImportInvariant
  /\ Shows("creation") => Creation!OnlyUnusedAreReplaced
  /\ Shows("versions") => Versions!VersionsInvariant


\* The record of an import says "created" only of a program that is there, as
\* docs/usage.md says (ProgramImport).
CreatedMeansItExists == Shows("import") => Import!CreatedMeansItExists
=============================================================================
