----------------------------- MODULE SharedFiles -----------------------------
(***************************************************************************)
(* The two calls that take something away in a shared repository:          *)
(* terminate_project_program_checkout and delete_shared_project_file       *)
(* (runtime/sync_operations.py, sync_identity.py).  Several local projects *)
(* (caches) may hold copies of one repository file, reached under several  *)
(* spellings of the server's URL; the calls must not take away what a      *)
(* target of this server works on in any of them.  They hold the runtime's *)
(* lock alone; people at other servers hold no lock.                       *)
(*                                                                         *)
(* One domain path; what Ghidra knows of it in a cache is `view`, brought  *)
(* up to date by events (Notice) or by a forced refresh.                   *)
(***************************************************************************)
EXTENDS Naturals, FiniteSets

CONSTANTS
  Caches, Targets,
  CacheOf,        \* [Targets -> Caches]
  Worlds,         \* assignments of URLs to the caches: [host, port], or None
  Loopback,       \* the spellings of this machine's own name
  Plain,          \* [host spelling -> its lower-case form without a final dot]
  Machine,        \* [plain host -> the machine]
  DefaultPort, MaxFiles, MaxVersion, MaxCheckouts, None

VARIABLES
  url,      \* [Caches -> the project's URL]
  file,     \* [Caches -> the repository's file, shared by caches of one repository]
  issued,   \* file and checkout ids handed out so far
  view,     \* [Caches -> what the project knows: file id, its own checkout, hijacked]
  session,  \* [Targets -> "none", "open" or "past"]
  call,     \* the call that holds the runtime's lock
  told      \* the reply of the last step, or None

vars == <<url, file, issued, view, session, call, told>>

-----------------------------------------------------------------------------
(* Which caches share a file                                               *)

Port(u) == IF u.port = None THEN DefaultPort ELSE u.port
Host(u) == IF Plain[u.host] \in Loopback THEN "loopback" ELSE Plain[u.host]
\* _shared_project_identity: the normalized URL; a private project has none.
Identity(u) == IF u = None THEN None ELSE [host |-> Host(u), port |-> Port(u)]

\* The server a URL leads to, whatever it is called.
At(u) == [machine |-> Machine[Plain[u.host]], port |-> IF u.port = None THEN DefaultPort ELSE u.port]
Repository(c) == IF url[c] = None THEN [private |-> c] ELSE At(url[c])
Spellings == UNION {{w[c] : c \in Caches} : w \in Worlds} \ {None}
SameRepository(c, d) == Repository(c) = Repository(d)

\* _handles_share_destructive_file_identity: one project, one URL, or one file id.
ShareFile(c, d) ==
  \/ c = d
  \/ /\ url[c] # None /\ url[d] # None
     /\ \/ Identity(url[c]) = Identity(url[d])
        \/ view[c].id = view[d].id

\* An unknown file id ends the inspection of a cache under another URL.
IdMissing(c, d) ==
  /\ c # d /\ url[c] # None /\ url[d] # None /\ Identity(url[c]) # Identity(url[d])
  /\ 0 \in {view[c].id, view[d].id}

-----------------------------------------------------------------------------
NoFile == [id |-> 0, version |-> 0, checkouts |-> {}]
NoCall == [pc |-> "none", op |-> None, target |-> None, id |-> 0, expected |-> 0, left |-> {},
           done |-> FALSE, fresh |-> FALSE]
Fresh(c) == view[c].id = file[c].id
Shared(c) == url[c] # None

\* Every file has an id of its own, the same wherever it is checked out.
FirstIds == CHOOSE ids \in [Caches -> 1..Cardinality(Caches)] :
  \A c, d \in Caches : ids[c] = ids[d] <=> SameRepository(c, d)

Init ==
  /\ url \in Worlds
  /\ issued = Cardinality(Caches)
  /\ file = [c \in Caches |-> [id |-> FirstIds[c], version |-> 1, checkouts |-> {}]]
  /\ view = [c \in Caches |-> [id |-> FirstIds[c], checkout |-> 0, hijacked |-> FALSE]]
  /\ session = [t \in Targets |-> "none"]
  /\ call = NoCall /\ told = None

\* The file changes for every cache of c's repository.
Put(c, f) == file' = [d \in Caches |-> IF SameRepository(c, d) THEN f ELSE file[d]]

\* A cache whose checkout ended on the server is left with a hijacked file.
Refreshed(c) ==
  LET lost == view[c].checkout # 0 /\ view[c].checkout \notin file[c].checkouts
  IN [id |-> file[c].id,
      checkout |-> IF lost THEN 0 ELSE view[c].checkout,
      hijacked |-> view[c].hijacked \/ lost]
Refresh(c) == view' = [view EXCEPT ![c] = Refreshed(c)]

Quiet == told' = None

-----------------------------------------------------------------------------
(* Other calls hold the runtime's lock as readers                          *)

\* Mutant: the destructive calls share the lock.
MayAlways == TRUE
\* _target_operation(exclusive=True) waits for the others and keeps them out.
MayRun == call.pc = "none"

Load(t) ==
  /\ MayRun /\ session[t] = "none" /\ view[CacheOf[t]].id # 0
  /\ \E kind \in {"open", "past"} : session' = [session EXCEPT ![t] = kind]
  /\ Quiet /\ UNCHANGED <<url, file, issued, view, call>>

\* A closed session that stays in the table is passed over like none.
Unload(t) ==
  /\ MayRun /\ session[t] # "none"
  /\ session' = [session EXCEPT ![t] = "none"]
  /\ Quiet /\ UNCHANGED <<url, file, issued, view, call>>

CheckOut(t) ==
  LET c == CacheOf[t] IN
  /\ MayRun /\ Shared(c) /\ issued < MaxCheckouts
  /\ file[c].id # 0 /\ Refreshed(c).checkout = 0 /\ ~Refreshed(c).hijacked
  /\ issued' = issued + 1
  /\ Put(c, [file[c] EXCEPT !.checkouts = @ \union {issued'}])
  /\ view' = [view EXCEPT ![c] = [Refreshed(c) EXCEPT !.checkout = issued']]
  /\ Quiet /\ UNCHANGED <<url, session, call>>

CheckIn(t) ==
  LET c == CacheOf[t] IN
  /\ MayRun /\ Refreshed(c).checkout # 0
  /\ Put(c, [file[c] EXCEPT !.checkouts = @ \ {view[c].checkout}])
  /\ view' = [view EXCEPT ![c] = [Refreshed(c) EXCEPT !.checkout = 0]]
  /\ Quiet /\ UNCHANGED <<url, issued, session, call>>

-----------------------------------------------------------------------------
(* People at other servers, and Ghidra's events                            *)

Notice(c) == ~Fresh(c) /\ Refresh(c) /\ Quiet /\ UNCHANGED <<url, file, issued, session, call>>

\* A peer checks out, commits, ends a checkout of anyone, deletes or adds the file.
Peer(c) ==
  /\ Shared(c)
  /\ \/ /\ file[c].id # 0 /\ issued < MaxCheckouts /\ issued' = issued + 1
        /\ Put(c, [file[c] EXCEPT !.checkouts = @ \union {issued'}])
     \/ /\ file[c].version \in 1..(MaxVersion - 1)
        /\ Put(c, [file[c] EXCEPT !.version = @ + 1]) /\ UNCHANGED issued
     \/ /\ \E id \in file[c].checkouts : Put(c, [file[c] EXCEPT !.checkouts = @ \ {id}])
        /\ UNCHANGED issued
     \/ file[c].id # 0 /\ file[c].checkouts = {} /\ Put(c, NoFile) /\ UNCHANGED issued
     \/ /\ file[c].id = 0 /\ issued < MaxFiles /\ issued' = issued + 1
        /\ Put(c, [NoFile EXCEPT !.id = issued', !.version = 1])
  /\ Quiet /\ UNCHANGED <<url, view, session, call>>

-----------------------------------------------------------------------------
(* The calls                                                               *)

Own == CacheOf[call.target]
Goto(pc) == call' = [call EXCEPT !.pc = pc]
\* The call ends, and the lock is free.
Ends(is) ==
  /\ told' = [is |-> is, op |-> call.op, id |-> call.id, cache |-> Own, done |-> call.done]
  /\ call' = NoCall

Begin(t, op, id, expected) ==
  /\ MayRun /\ call.pc = "none"
  /\ call' = [NoCall EXCEPT !.pc = IF op = "delete" THEN "loaded" ELSE "status", !.op = op,
                            !.target = t, !.id = id, !.expected = expected]
  /\ Quiet /\ UNCHANGED <<url, file, issued, view, session>>

\* _find_loaded_target_across_shared_project_locked, past versions included.
LoadedWith(c) == {t \in Targets : session[t] # "none" /\ ShareFile(c, CacheOf[t])}

\* An inspection that fails refuses the call.
LookForLoaded ==
  /\ call.pc = "loaded"
  /\ \/ /\ LoadedWith(Own) = {}
        /\ \A t \in Targets : session[t] # "none" => ~IdMissing(Own, CacheOf[t])
        /\ call' = [call EXCEPT !.pc = "status", !.fresh = \A c \in Caches : Fresh(c)] /\ Quiet
     \/ Ends("refused")
  /\ UNCHANGED <<url, file, issued, view, session>>

\* The status after a forced refresh; without the file there is none.
Status(c) ==
  [versioned |-> Shared(c) /\ ~Refreshed(c).hijacked, hijacked |-> Refreshed(c).hijacked,
   own |-> Refreshed(c).checkout, checkouts |-> file[c].checkouts, version |-> file[c].version]

\* _ensure_delete_allowed, the opt-ins and the expected version.
DeleteAllowed(s) ==
  /\ ~s.hijacked
  /\ s.versioned => s.checkouts = {} /\ s.own = 0 /\ s.version = call.expected
\* _ensure_versioned_project, CHECKOUT_NOT_FOUND and the project's own checkout.
TerminateAllowed(s) == s.versioned /\ call.id \in s.checkouts /\ s.own # call.id

ReadStatus ==
  /\ call.pc = "status"
  /\ \/ /\ Refresh(Own) /\ file[Own].id # 0
        /\ LET s == Status(Own) IN
             CASE call.op = "delete" /\ DeleteAllowed(s) ->
                    call' = [call EXCEPT !.pc = "act"] /\ Quiet
               [] call.op = "terminate" /\ TerminateAllowed(s) ->
                    call' = [call EXCEPT !.pc = "owners", !.left = Targets] /\ Quiet
               [] OTHER -> Ends("refused")
     \/ Ends("refused") /\ (UNCHANGED view \/ Refresh(Own))
  /\ UNCHANGED <<url, file, issued, session>>

\* _find_loaded_checkout_owner_locked: one session after the other, each project
\* refreshed before its status is read.
LookForOwner(t) ==
  LET c == CacheOf[t] IN
  /\ call.pc = "owners" /\ t \in call.left
  /\ \/ /\ session[t] # "open" \/ (~ShareFile(Own, c) /\ ~IdMissing(Own, c))
        /\ call' = [call EXCEPT !.left = @ \ {t}] /\ Quiet /\ UNCHANGED view
     \/ /\ session[t] = "open" /\ ShareFile(Own, c) /\ ~IdMissing(Own, c) /\ Refresh(c)
        /\ IF Refreshed(c).checkout = call.id THEN Ends("refused")
           ELSE call' = [call EXCEPT !.left = @ \ {t}] /\ Quiet
     \/ session[t] = "open" /\ Ends("refused") /\ (UNCHANGED view \/ Refresh(c))
  /\ UNCHANGED <<url, file, issued, session>>

NoOwner == call.pc = "owners" /\ call.left = {} /\ Goto("act") /\ Quiet
           /\ UNCHANGED <<url, file, issued, view, session>>

\* terminateCheckout and delete succeed, or fail; the answer of either may be lost.
Terminate ==
  /\ call.pc = "act" /\ call.op = "terminate"
  /\ \/ /\ call.id \in file[Own].checkouts
        /\ Put(Own, [file[Own] EXCEPT !.checkouts = @ \ {call.id}])
        /\ \/ call' = [call EXCEPT !.pc = "verify", !.done = TRUE] /\ Quiet
           \/ Ends("failed")
     \/ Ends("failed") /\ UNCHANGED file
  /\ UNCHANGED <<url, issued, view, session>>

Delete ==
  /\ call.pc = "act" /\ call.op = "delete"
  /\ \/ /\ file[Own].id # 0
        /\ Put(Own, NoFile)
        /\ \/ call' = [call EXCEPT !.pc = "verify", !.done = TRUE] /\ Quiet
           \/ Ends("failed")
     \/ Ends("failed") /\ UNCHANGED file
  /\ UNCHANGED <<url, issued, view, session>>

\* The status is read again, or the path looked up; a peer may have added a file.
Verify ==
  /\ call.pc = "verify"
  /\ \/ /\ Refresh(Own)
        /\ CASE call.op = "delete" -> Ends(IF file[Own].id = 0 THEN "ok" ELSE "partial")
             [] OTHER -> Ends(IF file[Own].id # 0 /\ call.id \notin file[Own].checkouts
                              THEN "ok" ELSE "partial")
     \/ Ends("partial") /\ UNCHANGED view
  /\ UNCHANGED <<url, file, issued, session>>

Next ==
  \/ \E t \in Targets : Load(t) \/ Unload(t) \/ CheckOut(t) \/ CheckIn(t) \/ LookForOwner(t)
  \/ \E c \in Caches : Notice(c) \/ Peer(c)
  \/ \E t \in Targets, id \in 1..MaxCheckouts : Begin(t, "terminate", id, 0)
  \/ \E t \in Targets, expected \in 1..MaxVersion : Begin(t, "delete", 0, expected)
  \/ LookForLoaded \/ ReadStatus \/ NoOwner \/ Terminate \/ Delete \/ Verify

Spec == Init /\ [][Next]_vars

-----------------------------------------------------------------------------
\* "terminating the active checkout would hijack the local file": no step of a
\* terminate ends the checkout of the call's project or of a loaded program.
OwnCheckoutsStay ==
  call.pc = "act" /\ call.op = "terminate" /\ file' # file =>
    \A c \in Caches : SameRepository(c, Own) /\ view[c].checkout # 0 /\
       (c = Own \/ \E t \in Targets : CacheOf[t] = c /\ session[t] = "open")
       => view[c].checkout # call.id

\* "the file must be unloaded" (docs/shared-projects.md): no step of a delete takes a
\* file that a target has open in any project of the repository.  Where only the
\* file's id shows that two projects share it, what they knew of it was current.
LoadedFilesStay ==
  call.pc = "act" /\ call.op = "delete" /\ file' # file =>
    \A t \in Targets : SameRepository(CacheOf[t], Own) /\ session[t] # "none" =>
      /\ ~call.fresh
      /\ Identity(url[CacheOf[t]]) # Identity(url[Own])

\* A refusal changed nothing, success is what it says, and a partial success was
\* one; URLs of one identity lead to one server, and a URL to one server under one
\* host name has one identity however its port is spelled.
SharedFilesInvariant ==
  /\ told # None =>
       /\ told.is = "refused" => ~told.done
       /\ told.is \in {"ok", "partial"} => told.done
       /\ told.is = "ok" /\ told.op = "terminate" => told.id \notin file[told.cache].checkouts
       /\ told.is = "ok" /\ told.op = "delete" => file[told.cache].id = 0
  /\ \A u, v \in Spellings :
       /\ Identity(u) = Identity(v) => At(u) = At(v)
       /\ At(u) = At(v) /\ Host(u) = Host(v) => Identity(u) = Identity(v)

NothingOfOursIsTaken == OwnCheckoutsStay /\ LoadedFilesStay
=============================================================================
