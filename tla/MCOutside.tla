------------------------------ MODULE MCOutside ------------------------------
(***************************************************************************)
(* What calls change outside the server, each in a small instance of its   *)
(* own: a program's repository (ProgramSync), a file that several projects *)
(* share (SharedFiles), a BSim database (BsimDatabase), the targets that   *)
(* BSim matches are loaded as (BsimMatches), and the names that matches    *)
(* give to functions (BsimApply).  A behaviour is one of them.             *)
(***************************************************************************)
EXTENDS MCProgramSync

CONSTANTS x1, x2, x3, c1, c2, f1, f2, t1, t2, p1, p2, m1, m2

VARIABLES
  part,
  records, types, info, request,
  open, busy, opener, content, lock, load,
  rows, names, options, shown, plan, skipped, truncated, applied, failed, step,
  url, shared, issued, view, opens, taking, told

sharedVars == <<url, shared, issued, view, opens, taking, told>>
databaseVars == <<records, types, info, request>>
matchVars == <<open, busy, opener, content, lock, load>>
applyVars == <<rows, names, options, shown, plan, skipped, truncated, applied, failed, step>>

NoMap == [t \in {} |-> t]
Value(t, v) == [u \in {t} |-> v]

\* x1 is the program clients work on; x2's name looks like its name, x3's is its
\* name.  Two of them are more than the limit of a lookup.
Asked == {[op |-> r[1], exe |-> x1, by |-> r[2], set |-> r[3]] : r \in
  {<<"register", "md5", Value("x", "v")>>, <<"update", "md5", NoMap>>,
   <<"metadata", "md5", Value("x", "w")>>, <<"metadata", "name", Value("y", "v")>>,
   <<"delete", "name", NoMap>>, <<"get", "name", NoMap>>, <<"category", "md5", Value("y", "v")>>}}

Databases ==
  {[db |-> (x1 :> w[1]) @@ (x2 :> w[2]) @@ (x3 :> w[3]), configured |-> {"x"},
    info |-> [e \in {x1, x2, x3} |-> NoMap]] :
     w \in {<<None, None, None>>, <<NoMap, None, NoMap>>, <<NoMap, NoMap, NoMap>>}}

Database == INSTANCE BsimDatabase WITH
  Clients <- {c1, c2}, Executables <- {x1, x2, x3}, Types <- {"x", "y"}, LookupLimit <- 1,
  NameOf <- (x1 :> "a") @@ (x2 :> "A") @@ (x3 :> "a"), Alike <- {"a", "A"} \X {"a", "A"},
  Requests <- Asked, Worlds <- Databases, NoRecord <- None, NoExe <- None,
  db <- records, configured <- types, call <- request

\* One program in two projects, with the reference's MD5 in the second or in both,
\* and a reference to a repository without a project.
Matches == INSTANCE BsimMatches WITH
  Clients <- {c1, c2}, Targets <- {t1, t2}, Projects <- {p1, p2}, Paths <- {"/f"}, Md5s <- {m1, m2},
  DefaultTarget <- [m \in {m1, m2} |-> t1],
  Refs <- {[md5 |-> m1, project |-> p, path |-> "/f"] : p \in {p1, None}},
  Worlds <- {[f \in [project : {p1, p2}, path : {"/f"}] |->
                [md5 |-> IF f.project = p1 THEN m ELSE m1, function |-> TRUE]] : m \in {m1, m2}},
  NoProject <- None, NoTarget <- None, NoClient <- None, NoProgram <- None,
  session <- open

\* Up to three rows of one function, up to one of the other, all options.
Rows(names0) == [self : BOOLEAN, name : names0, similarity : 1..2]
Sorted(s) == \A i, j \in DOMAIN s : i < j => s[i].similarity >= s[j].similarity
Renamings ==
  {[rows |-> (f1 :> first) @@ (f2 :> second),
    names |-> (f1 :> [name |-> "old", source |-> source]) @@ (f2 :> [name |-> "A", source |-> "DEFAULT"]),
    options |-> option] :
     first \in {s \in UNION {[1..n -> Rows({"A", "default"})] : n \in {1, 3}} : Sorted(s)},
     second \in {<<>>, <<[self |-> FALSE, name |-> "A", similarity |-> 2]>>, <<[self |-> FALSE, name |-> "B", similarity |-> 2]>>},
     source \in {"DEFAULT", "USER_DEFINED"},
     option \in [perFunction : {2}, maxFunctions : {1}, onlyDefault : BOOLEAN, excludeSelf : BOOLEAN, dryRun : {FALSE}]
       \union [perFunction : {1}, maxFunctions : {2}, onlyDefault : {FALSE}, excludeSelf : {TRUE}, dryRun : BOOLEAN]}

Apply == INSTANCE BsimApply WITH
  Functions <- {f1, f2}, Worlds <- Renamings, DefaultName <- "default", kept <- shown

\* Two projects of one server under two spellings, or under two names; or a private
\* project beside another server's.
Url(host, port) == [host |-> host, port |-> port]
Spelled ==
  {(p1 :> Url("localhost", None)) @@ (p2 :> Url("127.0.0.1", 1)),
   (p1 :> Url("server", None)) @@ (p2 :> Url("Alias.", 1)),
   (p1 :> None) @@ (p2 :> Url("server", 2))}

SharedFile == INSTANCE SharedFiles WITH
  Caches <- {p1, p2}, Targets <- {t1, t2}, CacheOf <- (t1 :> p1) @@ (t2 :> p2), Worlds <- Spelled,
  Loopback <- {"localhost", "127.0.0.1"},
  Plain <- [h \in {"localhost", "127.0.0.1", "server", "Alias."} |-> IF h = "Alias." THEN "alias" ELSE h],
  Machine <- [h \in {"localhost", "127.0.0.1", "server", "alias"} |->
                IF h \in {"server", "alias"} THEN "far" ELSE "here"],
  DefaultPort <- 1, MaxFiles <- 3, MaxVersion <- 2, MaxCheckouts <- 4,
  file <- shared, session <- opens, call <- taking

Shows(which) == part = which

\* A part that is not shown has no state.
NoDatabase == records = None /\ types = None /\ info = None /\ request = None
NoMatches == open = None /\ busy = None /\ opener = None /\ content = None /\ lock = None /\ load = None
NoApply ==
  /\ rows = None /\ names = None /\ options = None /\ shown = None /\ plan = None
  /\ skipped = None /\ truncated = None /\ applied = None /\ failed = None /\ step = None
NoShared ==
  /\ url = None /\ shared = None /\ issued = None /\ view = None /\ opens = None
  /\ taking = None /\ told = None
Resting == repo.version = 0 /\ world = CHOOSE w \in Worlds : TRUE

\* Two failures, of a call and of what it undoes, in the world where the status
\* does not lag; nothing follows a call with two.
FewFaults == faults = 2 => ~world.lags /\ call.pc # "done"
\* The first project's target takes things away, at the first version.
OneTaker ==
  Shows("shared") => taking.target # t2 /\ taking.expected \in {0, 1} /\ taking.id \in {0, 3, 4}
Explored == FewFaults /\ OneTaker

OutsideInit ==
  /\ Init
  /\ \/ part = "repository" /\ NoDatabase /\ NoMatches /\ NoApply /\ NoShared
     \/ part = "database" /\ Resting /\ Database!Init /\ NoMatches /\ NoApply /\ NoShared
     \/ part = "matches" /\ Resting /\ NoDatabase /\ Matches!Init /\ NoApply /\ NoShared
     \/ part = "apply" /\ Resting /\ NoDatabase /\ NoMatches /\ Apply!Init /\ NoShared
     \/ part = "shared" /\ Resting /\ NoDatabase /\ NoMatches /\ NoApply /\ SharedFile!Init

OutsideNext ==
  \/ Shows("repository") /\ Next /\ UNCHANGED <<part, databaseVars, matchVars, applyVars, sharedVars>>
  \/ Shows("database") /\ Database!Next /\ UNCHANGED <<part, vars, matchVars, applyVars, sharedVars>>
  \/ Shows("matches") /\ Matches!Next /\ UNCHANGED <<part, vars, databaseVars, applyVars, sharedVars>>
  \/ Shows("apply") /\ Apply!Next /\ UNCHANGED <<part, vars, databaseVars, matchVars, sharedVars>>
  \/ Shows("apply") /\ step = "done" /\ UNCHANGED <<part, vars, databaseVars, matchVars, applyVars, sharedVars>>
  \/ Shows("shared") /\ SharedFile!Next /\ UNCHANGED <<part, vars, databaseVars, matchVars, applyVars>>

OutsideSpec == OutsideInit /\ [][OutsideNext]_<<part, vars, databaseVars, matchVars, applyVars, sharedVars>>

-----------------------------------------------------------------------------
\* A BSim call's failure says truly whether the database or the program changed,
\* a record is used only if it was the one of its identity, and a program that a
\* match names is loaded once, and checked before anyone is given its target, and
\* functions get only the one name their best matches agree on; what ended a checkout
\* or deleted a shared file says truly what it did.
OutsideInvariant ==
  /\ Shows("database") => Database!BsimInvariant
  /\ Shows("matches") => Matches!MatchesInvariant
  /\ Shows("apply") => Apply!ApplyInvariant
  /\ Shows("shared") => SharedFile!SharedFilesInvariant

\* A BSim write leaves the records and the categories alone that it was not asked
\* to change; what ends a checkout or deletes a shared file takes nothing that a
\* target of this server works on.
WritesAreNarrow ==
  [][/\ Shows("database") => Database!NarrowWrite
     /\ Shows("shared") => SharedFile!NothingOfOursIsTaken]_<<databaseVars, sharedVars>>
=============================================================================
