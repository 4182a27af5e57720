---------------------------- MODULE BsimDatabase ----------------------------
(***************************************************************************)
(* A BSim database and the tool calls that read and write it.  A call of   *)
(* the Java adapter (get, metadata, delete, category) holds no lock and    *)
(* may interleave with every other; a core command (register, update)      *)
(* holds its program's target lock.  Each query is a message to a server   *)
(* that can be out of reach, refuse the login, or do the work and lose the *)
(* answer.  Categories are maps from category types to values.             *)
(***************************************************************************)
EXTENDS Naturals, FiniteSets, TLC

CONSTANTS
  Clients,
  Executables,      \* by MD5
  NameOf,           \* the name of each executable
  Alike,            \* pairs of a name and a name the ILIKE filter finds for it, itself among them
  Types,            \* category types
  Requests,         \* what a client may ask: [op, exe, by, set]
  LookupLimit,      \* at least 1; 100 in the code
  Worlds,           \* initial databases: [db, configured, info]
  NoRecord, NoExe

VARIABLES
  db,           \* [Executables -> category map or NoRecord]
  configured,   \* the category types the database defines
  info,         \* [Executables -> the categories in the program's Program Information]
  call          \* [Clients -> call record]

vars == <<db, configured, info, call>>

NoCategories == [t \in {} |-> t]
CoreOps == {"register", "update"}
Idle == [op |-> "none", exe |-> NoExe, by |-> "md5", set |-> NoCategories, step |-> "idle",
         source |-> NoExe, manager |-> NoCategories, only |-> {},
         program |-> FALSE, external |-> FALSE, wrote |-> FALSE, alone |-> FALSE,
         answer |-> [state |-> "none", retry |-> FALSE]]

Init ==
  /\ \E world \in Worlds : db = world.db /\ configured = world.configured /\ info = world.info
  /\ call = [c \in Clients |-> Idle]

Registered == {e \in Executables : db[e] # NoRecord}
Only(map, types) == [t \in DOMAIN map \intersect types |-> map[t]]

-----------------------------------------------------------------------------
(* What a failure is reported as.                                          *)

Says == {"outage", "login", "ingested", "other"}
GenericCodes == {"NONE", "INIT", "QUERY", "INSERT"}
RefusedBeforeAnyChange ==
  {"INIT", "AUTHENTICATION", "GET_EXECUTABLE", "LIST_CATEGORIES", "NOT_FOUND", "AMBIGUOUS",
   "TRUNCATED", "NOT_CONFIGURED", "NO_FUNCTIONS"}
RetryableCodes == {"UNREACHABLE"}

\* The database's own error names a refused login by its category.
DatabaseError(code, says) == IF says = "login" THEN "AUTHENTICATION" ELSE code

\* A generic code gives way to what the text says; a specific one stays.
Classified(code, says, default) ==
  IF code \notin GenericCodes THEN code
  ELSE CASE says = "ingested" -> "ALREADY_REGISTERED"
         [] says = "login"    -> "AUTHENTICATION"
         [] says = "outage"   -> "UNREACHABLE"
         [] OTHER             -> IF code = "INIT" THEN "INIT" ELSE default

\* What the core's transaction record says; a call outside the core has none.
CoreOutputState(k) ==
  IF k.step \notin {"session", "stored", "send", "count"} \/ k.op \notin CoreOps THEN "none"
  ELSE IF k.external THEN "uncertain" ELSE IF k.program THEN "created" ELSE "absent"

ToolError(k, code) ==
  LET core == CoreOutputState(k)
      retryable == code \in RetryableCodes
      state == IF core # "none" THEN core
               ELSE IF retryable \/ code \in RefusedBeforeAnyChange THEN "absent" ELSE "uncertain"
  IN [state |-> state, retry |-> retryable /\ state = "absent"]

DefaultCode(op) ==
  CASE op = "register" -> "REGISTER" [] op = "update" -> "UPDATE" [] op = "metadata" -> "METADATA"
    [] op = "delete" -> "DELETE" [] op = "category" -> "ADD_CATEGORY" [] OTHER -> "GET_EXECUTABLE"

-----------------------------------------------------------------------------
(* The steps of a call.                                                    *)

Goto(c, step) == call' = [call EXCEPT ![c].step = step]
Ended(k, answer) ==
  [Idle EXCEPT !.op = k.op, !.step = "ended", !.program = k.program, !.wrote = k.wrote, !.answer = answer]
Answer(c, answer) == call' = [call EXCEPT ![c] = Ended(@, answer)]
Fail(c, code, says) ==
  Answer(c, ToolError(call[c], Classified(code, says, DefaultCode(call[c].op))))
Done == [state |-> "ok", retry |-> FALSE]

Ask(c) ==
  /\ call[c].step \in {"idle", "ended"}
  /\ \E r \in Requests :
       call' = [call EXCEPT ![c] =
         [Idle EXCEPT !.op = r.op, !.exe = r.exe, !.by = r.by, !.set = r.set,
                      !.step = CASE r.op = "register" /\ DOMAIN r.set # {} -> "ensure"
                                 [] r.op \in CoreOps -> "target"
                                 [] OTHER -> "open"]]
  /\ UNCHANGED <<db, configured, info>>

\* The database does not open.
InitFails(c) ==
  /\ call[c].step \in {"ensure", "session", "open"}
  /\ \E says \in Says \ {"ingested"} : Fail(c, DatabaseError("INIT", says), says)
  /\ UNCHANGED <<db, configured, info>>

\* register checks the category names before it gives the call to the core.
EnsureCategories(c) ==
  /\ call[c].step = "ensure"
  /\ IF DOMAIN call[c].set \subseteq configured
       THEN Goto(c, "target")
       ELSE Fail(c, "NOT_CONFIGURED", "other")
  /\ UNCHANGED <<db, configured, info>>

\* The call's categories overwrite those in the program's own information.
Applied(k) == [info EXCEPT ![k.exe] = k.set @@ @]

\* The core command begins under the target lock, and register stores the
\* categories in the program in a transaction of its own.
TakeTarget(c) ==
  /\ call[c].step = "target"
  /\ \A d \in Clients : ~(call[d].exe = call[c].exe /\ call[d].step \in {"session", "stored", "send", "count"}
                                                    /\ call[d].op \in CoreOps)
  /\ LET stores == call[c].op = "register" /\ DOMAIN call[c].set # {} IN
       /\ info' = IF stores THEN Applied(call[c]) ELSE info
       /\ call' = [call EXCEPT ![c].step = "session", ![c].program = stores]
  /\ UNCHANGED <<db, configured>>

\* A session opens: the configured types are read, the program is scanned.
OpenSession(c) ==
  /\ call[c].step = "session"
  /\ \/ Fail(c, "NO_FUNCTIONS", "other")
     \/ call' = [call EXCEPT ![c].step = IF call[c].op = "update" THEN "stored" ELSE "send",
                             ![c].source = call[c].exe,
                             ![c].manager = Only(info[call[c].exe], configured),
                             ![c].external = (call[c].op = "register")]
  /\ UNCHANGED <<db, configured, info>>

\* update merges the stored types the program does not define back in.
ReadStored(c) ==
  /\ call[c].step = "stored"
  /\ \/ \E says \in Says \ {"ingested"} : Fail(c, DatabaseError("GET_EXECUTABLE", says), says)
     \/ IF db[call[c].exe] = NoRecord
          THEN Fail(c, "NOT_FOUND", "other")
          ELSE call' = [call EXCEPT ![c].step = "send", ![c].manager = @ @@ db[call[c].exe],
                                    ![c].alone = TRUE, ![c].external = TRUE]
  /\ UNCHANGED <<db, configured, info>>

-----------------------------------------------------------------------------
Candidates(k) ==
  {e \in Registered : IF k.by = "md5" THEN e = k.exe ELSE <<NameOf[k.exe], NameOf[e]>> \in Alike}
Matches(k, e) == k.by = "md5" \/ NameOf[e] = NameOf[k.exe]
\* One record more than the limit is asked for, as a sentinel.
Pages(k) ==
  {page \in SUBSET Candidates(k) :
     \/ Cardinality(page) = LookupLimit + 1
     \/ page = Candidates(k) /\ Cardinality(page) <= LookupLimit}

\* The adapter opens the database; metadata and category read its types.
Open(c) ==
  /\ call[c].step = "open"
  /\ CASE call[c].op = "metadata" /\ ~(DOMAIN call[c].set \subseteq configured) -> Fail(c, "NOT_CONFIGURED", "other")
       [] call[c].op = "category" /\ DOMAIN call[c].set \subseteq configured -> Answer(c, Done)
       [] call[c].op = "category" -> Goto(c, "send")
       [] OTHER -> Goto(c, "lookup")
  /\ UNCHANGED <<db, configured, info>>

\* _select_unique_executable_record on one page of candidates.
Lookup(c) ==
  /\ call[c].step = "lookup"
  /\ \/ \E says \in Says \ {"ingested"}, code \in {"GET_EXECUTABLE", "NONE"} :
          Fail(c, DatabaseError(code, says), says)
     \/ \E page \in Pages(call[c]) :
          LET exact == {e \in page : Matches(call[c], e)} IN
          IF Cardinality(exact) > 1 THEN Fail(c, "AMBIGUOUS", "other")
          ELSE IF Cardinality(page) > LookupLimit THEN Fail(c, "TRUNCATED", "other")
          ELSE IF exact = {} THEN Fail(c, "NOT_FOUND", "other")
          ELSE \E e \in exact :
                 call' = [call EXCEPT ![c].source = e,
                                      ![c].manager = db[e],
                                      ![c].only = {d \in Candidates(call[c]) : Matches(call[c], d)},
                                      ![c].step = CASE call[c].op = "metadata" -> "reread"
                                                    [] call[c].op = "delete" -> "send"
                                                    [] OTHER -> "found"]
  /\ UNCHANGED <<db, configured, info>>

\* get_executable returns what it found.
Found(c) ==
  /\ call[c].step = "found"
  /\ Answer(c, Done)
  /\ UNCHANGED <<db, configured, info>>

\* Mutant: into what the lookup read.
MergedIntoFirst(k, e) == Only(k.set @@ k.manager, Types \ {t \in DOMAIN k.set : k.set[t] = "remove"})
\* What the caller asks for over what the record holds now.
Merged(k, e) == Only(k.set @@ db[e], Types \ {t \in DOMAIN k.set : k.set[t] = "remove"})

\* metadata reads the record again, by its MD5, and merges into that.
Reread(c) ==
  /\ call[c].step = "reread"
  /\ LET e == call[c].source IN
     \/ \E says \in Says \ {"ingested"} : Fail(c, DatabaseError("GET_EXECUTABLE", says), says)
     \/ IF db[e] = NoRecord
          THEN Fail(c, "NOT_FOUND", "other")
          ELSE call' = [call EXCEPT ![c].step = "send", ![c].alone = TRUE,
                                    ![c].manager = Merged(call[c], e)]
  /\ UNCHANGED <<db, configured, info>>

-----------------------------------------------------------------------------
(* The request that writes.                                                *)

\* The other calls that read this record read something older now.
Wrote(c, e) ==
  [d \in Clients |-> IF d # c /\ call[d].source = e THEN [call[d] EXCEPT !.alone = FALSE] ELSE call[d]]

CanWrite(k) ==
  CASE k.op = "register" -> db[k.source] = NoRecord
    [] k.op = "category" -> TRUE
    [] OTHER -> db[k.source] # NoRecord

WriteDatabase(k) ==
  CASE k.op = "category" -> configured' = configured \union DOMAIN k.set /\ UNCHANGED db
    [] k.op = "delete"   -> db' = [db EXCEPT ![k.source] = NoRecord] /\ UNCHANGED configured
    [] OTHER             -> db' = [db EXCEPT ![k.source] = k.manager] /\ UNCHANGED configured

\* Mutant: raised as any failed query.
WriteCodeOfAQuery(op) == "QUERY"
\* The code under which a write that went wrong is raised.
WriteCode(op) == CASE op = "register" -> "INSERT" [] OTHER -> DefaultCode(op)

\* The write is done: register counts afterwards, the others answer.
Send(c) ==
  /\ call[c].step = "send" /\ CanWrite(call[c])
  /\ WriteDatabase(call[c])
  /\ LET k == [call[c] EXCEPT !.wrote = TRUE] IN
       call' = [Wrote(c, k.source) EXCEPT ![c] =
                  IF k.op = "register" THEN [k EXCEPT !.step = "count"] ELSE Ended(k, Done)]
  /\ UNCHANGED info

\* The database finds nothing to write to: the record was removed, or is there already.
SendFindsNothing(c) ==
  /\ call[c].step = "send" /\ ~CanWrite(call[c])
  /\ CASE call[c].op = "register" -> Fail(c, "INSERT", "ingested")
       [] call[c].op = "update"   -> Fail(c, "NOT_FOUND", "other")
       [] call[c].op = "delete"   -> Fail(c, "DELETE", "other")
       [] OTHER                   -> Answer(c, Done)
  /\ UNCHANGED <<db, configured, info>>

\* The request fails before the server did its work, or after it.
SendFails(c) ==
  /\ call[c].step = "send"
  /\ \/ \E says \in Says \ {"ingested"} :
          /\ Fail(c, DatabaseError(WriteCode(call[c].op), says), says)
          /\ UNCHANGED <<db, configured>>
     \/ /\ CanWrite(call[c])
        /\ WriteDatabase(call[c])
        /\ \E says \in {"outage", "other"} :
             LET k == [call[c] EXCEPT !.wrote = TRUE] IN
             call' = [Wrote(c, k.source) EXCEPT ![c] =
                        Ended(k, ToolError(k, Classified(WriteCode(k.op), says, DefaultCode(k.op))))]
  /\ UNCHANGED info

\* register counts the executables: no answer is no count, an exception fails the call.
CountExecutables(c) ==
  /\ call[c].step = "count"
  /\ Answer(c, Done) \/ \E says \in Says \ {"ingested"} : Fail(c, "NONE", says)
  /\ UNCHANGED <<db, configured, info>>

Next == \E c \in Clients :
  \/ Ask(c) \/ InitFails(c) \/ EnsureCategories(c) \/ TakeTarget(c) \/ OpenSession(c) \/ ReadStored(c)
  \/ Open(c) \/ Lookup(c) \/ Found(c) \/ Reread(c)
  \/ Send(c) \/ SendFindsNothing(c) \/ SendFails(c) \/ CountExecutables(c)

Spec == Init /\ [][Next]_vars

-----------------------------------------------------------------------------
CategoryMaps == UNION {[S -> {"v", "w"}] : S \in SUBSET Types}

BsimTypeOK ==
  /\ db \in [Executables -> CategoryMaps \union {NoRecord}]
  /\ configured \subseteq Types
  /\ info \in [Executables -> CategoryMaps]

\* A failed call that says nothing changed, and one that may be retried, left
\* the database and the program as they were (_bsim_tool_error, _with_output_state).
FailuresAreTrue == \A c \in Clients :
  LET k == call[c] IN
  /\ k.answer.state = "absent" => ~k.wrote /\ ~k.program
  /\ k.answer.retry => k.answer.state = "absent"
  /\ k.answer.state = "created" => ~k.wrote

\* A record is used only when it was the one record of that identity.
LookupsAreUnique == \A c \in Clients :
  call[c].op \notin CoreOps /\ call[c].source # NoExe => call[c].only = {call[c].source}

BsimInvariant == BsimTypeOK /\ FailuresAreTrue /\ LookupsAreUnique

\* A write changes one record, and of that the categories it was asked to
\* change: a type that neither the caller nor the program names keeps its value
\* unless another call wrote the record after this one read it.
NarrowWrite == \A c \in Clients :
  ~call[c].wrote /\ call'[c].wrote =>
    LET k == call[c] IN
    /\ \A e \in Executables : db'[e] # db[e] => e = k.source
    /\ k.op \in {"update", "metadata"} /\ k.alone =>
         LET named == IF k.op = "update" THEN DOMAIN info[k.exe] ELSE DOMAIN k.set
         IN \A t \in Types \ named :
              /\ t \in DOMAIN db[k.source] <=> t \in DOMAIN db'[k.source]
              /\ t \in DOMAIN db[k.source] => db'[k.source][t] = db[k.source][t]
    /\ k.op = "register" => \A t \in DOMAIN k.set : t \in DOMAIN db'[k.source] /\ db'[k.source][t] = k.set[t]

WritesAreNarrow == [][NarrowWrite]_vars
=============================================================================
