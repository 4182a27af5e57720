---------------------------- MODULE VersionReads ----------------------------
(***************************************************************************)
(* The calls that read a shared program's past: get_version_history and     *)
(* get_version_diff.  Each refreshes the project's data, makes sure that    *)
(* the repository is connected, and reads the history; a diff then opens    *)
(* two versions, compares them under a time limit and lets both go.         *)
(* Meanwhile the connection may be lost, time passes, and a peer adds       *)
(* versions.  Calls follow one another: a verified connection is trusted    *)
(* for a while (project_handle.py).                                         *)
(***************************************************************************)
EXTENDS Naturals, FiniteSets, FiniteSetsExt

CONSTANTS
  Requests,    \* [op, from, to, limit, ranges, include, details]: the calls clients make
  Sizes,       \* how many ranges two versions may differ in
  MaxVersion   \* bound on the versions a peer adds

VARIABLES
  link,      \* "up", "lost" (and nobody knows), or "down"
  verified,  \* how long ago the connection was verified: "never", "recent" or "old"
  latest,    \* the repository's versions are 1 .. latest
  call,      \* [request, step, known], or Idle
  opened,    \* versions whose program the call holds
  timer,     \* the diff's time limit: "none", "armed" or "fired"
  differs,   \* the ranges of the comparison
  cut,       \* the comparison was stopped by the limit
  reply,     \* the last call's answer
  blind      \* some call went on with a connection that nobody had verified

vars == <<link, verified, latest, call, opened, timer, differs, cut, reply, blind>>
linkVars == <<link, verified>>
diffVars == <<opened, timer, differs, cut>>

Idle == [step |-> "idle"]
Nothing == [status |-> "none"]

Init ==
  /\ link = "up" /\ verified = "never" /\ latest = 1
  /\ call = Idle
  /\ opened = {} /\ timer = "none" /\ differs = 0 /\ cut = FALSE
  /\ reply = Nothing
  /\ blind = FALSE

----------------------------------------------------------------------------
(***************************************************************************)
(* The repository and time                                                  *)
(***************************************************************************)

LinkLost == link = "up" /\ link' = "lost" /\ UNCHANGED <<verified, latest, call, diffVars, reply, blind>>
LinkNoticed == link = "lost" /\ link' = "down" /\ UNCHANGED <<verified, latest, call, diffVars, reply, blind>>
LinkBack == link = "lost" /\ link' = "up" /\ UNCHANGED <<verified, latest, call, diffVars, reply, blind>>
IntervalPasses ==
  /\ verified = "recent"
  /\ verified' = "old"
  /\ UNCHANGED <<link, latest, call, diffVars, reply, blind>>
PeerCommits ==
  /\ latest < MaxVersion
  /\ latest' = latest + 1
  /\ UNCHANGED <<linkVars, call, diffVars, reply, blind>>
TimerFires ==
  /\ timer = "armed"
  /\ timer' = "fired"
  /\ UNCHANGED <<linkVars, latest, call, opened, differs, cut, reply, blind>>

----------------------------------------------------------------------------
(***************************************************************************)
(* The connection                                                           *)
(***************************************************************************)

At(step) == call.step = step
Goes(step) == call' = [call EXCEPT !.step = step] /\ UNCHANGED reply
Fails(why) == call' = Idle /\ reply' = [status |-> why]

\* Mutant: once verified, the connection is trusted for ever.
EverVerified == verified # "never"
RecentlyVerified == verified = "recent"

\* verifyConnection answers truly, or fails.
Verifies == link = "up"

\* _ensure_repository_connected_locked: a connected adapter is verified unless
\* that was done a moment ago, a disconnected one is connected.
Ensure(from, to) ==
  /\ At(from)
  /\ \/ /\ link \in {"up", "lost"} /\ RecentlyVerified
        /\ blind' = (blind \/ (link = "lost" /\ verified # "recent"))
        /\ Goes(to) /\ UNCHANGED linkVars
     \/ /\ link = "up" /\ ~RecentlyVerified
        /\ verified' = "recent"
        /\ Goes(to) /\ UNCHANGED <<link, blind>>
     \/ /\ link \in {"up", "lost"} /\ ~RecentlyVerified
        /\ verified' = "never"
        /\ Fails("failed") /\ UNCHANGED <<link, blind>>
     \/ /\ link = "down"
        /\ link' = "up"
        /\ Goes(to) /\ UNCHANGED <<verified, blind>>
     \/ Fails("failed") /\ UNCHANGED <<linkVars, blind>>
  /\ UNCHANGED <<latest, diffVars>>

Refresh ==
  /\ At("refresh")
  /\ Goes("verify") \/ Fails("failed")
  /\ UNCHANGED <<linkVars, latest, diffVars, blind>>

\* After a refresh the connection is verified whatever was known of it.
VerifyAfterRefresh ==
  /\ At("verify")
  /\ \/ Verifies /\ Goes("status")
     \/ Fails("failed")
  /\ UNCHANGED <<linkVars, latest, diffVars, blind>>

\* The program's status must be read, and say that it is versioned.
ReadStatus ==
  /\ At("status")
  /\ Goes("again") \/ Fails("failed")
  /\ UNCHANGED <<linkVars, latest, diffVars, blind>>

----------------------------------------------------------------------------
(***************************************************************************)
(* The history                                                              *)
(***************************************************************************)

Ask(r) ==
  /\ At("idle")
  /\ call' = [request |-> r, step |-> "ensure", known |-> {}]
  /\ reply' = Nothing
  /\ UNCHANGED <<linkVars, latest, diffVars, blind>>

ReadHistory ==
  /\ At("history")
  /\ \/ /\ call' = [call EXCEPT !.known = 1 .. latest,
                                !.step = IF call.request.op = "history" THEN "newest" ELSE "check"]
        /\ UNCHANGED reply
     \/ Fails("failed")
  /\ UNCHANGED <<linkVars, latest, diffVars, blind>>

Newest(n, versions) == {v \in versions : Cardinality({w \in versions : w > v}) < n}

ListNewest ==
  /\ At("newest")
  /\ \/ /\ call' = Idle
        /\ reply' = [status |-> "history", versions |-> Newest(call.request.limit, call.known),
                     total |-> Cardinality(call.known), limit |-> call.request.limit, latest |-> latest]
     \/ Fails("failed")
  /\ UNCHANGED <<linkVars, latest, diffVars, blind>>

----------------------------------------------------------------------------
(***************************************************************************)
(* The diff                                                                 *)
(***************************************************************************)

Described(r, ranges) == IF r.include THEN Min({r.details, ranges}) ELSE 0

\* _collect_diff_ranges and _collect_diff_details: how many ranges are listed and
\* described, and what the two flags say of the rest.
DiffReply(r, total) ==
  LET ranges == Min({r.ranges, total})
  IN  [status |-> "diff", total |-> total, ranges |-> ranges, described |-> Described(r, ranges),
       request |-> r, ranges_truncated |-> total > ranges,
       details_truncated |-> r.include /\ (ranges > Described(r, ranges) \/ total > ranges)]

CheckVersions ==
  /\ At("check")
  /\ IF ~({call.request.from, call.request.to} \subseteq call.known)
       THEN Fails("not_found") /\ UNCHANGED diffVars
       ELSE IF call.request.from = call.request.to
              THEN /\ call' = Idle
                   /\ reply' = DiffReply(call.request, 0)
                   /\ UNCHANGED diffVars
              ELSE /\ timer' = "armed"
                   /\ Goes("from")
                   /\ UNCHANGED <<opened, differs, cut>>
  /\ UNCHANGED <<linkVars, latest, blind>>

\* A version opens, cannot be opened, or opens as nothing; nothing fails the diff
\* only after the other was opened too.
Opens(from, version, to) ==
  /\ At(from)
  /\ \/ opened' = opened \union {version} /\ Goes(to)
     \/ UNCHANGED opened /\ Goes(to)
     \/ UNCHANGED opened /\ Goes("failing")
  /\ UNCHANGED <<linkVars, latest, timer, differs, cut, blind>>

OpenFrom == At("from") /\ Opens("from", call.request.from, "to")
OpenTo == At("to") /\ Opens("to", call.request.to, "compare")

\* A comparison that the limit stops raises, or returns what it has.
Compare ==
  /\ At("compare")
  /\ \/ /\ opened = {call.request.from, call.request.to}
        /\ differs' \in Sizes
        /\ cut' = (timer = "fired")
        /\ Goes("limit")
     \/ UNCHANGED <<differs, cut>> /\ Goes("failing")
  /\ UNCHANGED <<linkVars, latest, opened, timer, blind>>

\* Mutant: only a comparison that raised is taken to have run out of time.
NeverLate == FALSE
\* didTimeout is asked once more before the result is believed.
Late == timer = "fired"

\* Both ways out ask the monitor, and let the versions and the monitor go.
LetGo == opened' = {} /\ timer' = "none" /\ differs' = 0 /\ cut' = FALSE

Conclude ==
  /\ At("limit")
  /\ call' = Idle
  /\ reply' = IF Late THEN [status |-> "timeout"]
                      ELSE [DiffReply(call.request, differs) EXCEPT !.status = IF cut THEN "cut" ELSE "diff"]
  /\ LetGo
  /\ UNCHANGED <<linkVars, latest, blind>>

GiveUp ==
  /\ At("failing")
  /\ Fails(IF timer = "fired" THEN "timeout" ELSE "failed")
  /\ LetGo
  /\ UNCHANGED <<linkVars, latest, blind>>

Next ==
  \/ LinkLost \/ LinkNoticed \/ LinkBack \/ IntervalPasses \/ PeerCommits \/ TimerFires
  \/ \E r \in Requests : Ask(r)
  \/ Ensure("ensure", "refresh") \/ Refresh \/ VerifyAfterRefresh \/ ReadStatus
  \/ Ensure("again", "history") \/ ReadHistory \/ ListNewest
  \/ CheckVersions \/ OpenFrom \/ OpenTo \/ Compare \/ Conclude \/ GiveUp

Spec == Init /\ [][Next]_vars

----------------------------------------------------------------------------
(***************************************************************************)
(* What reading versions promises                                           *)
(***************************************************************************)

\* A lost connection is noticed by the first call after the interval in which a
\* verification is trusted.
NoCallIsBlind == ~blind

\* Versions are held, and a limit runs, only while a diff compares them: every
\* way out of get_version_diff lets them go.
HeldOnlyWhileComparing ==
  opened # {} \/ timer # "none" => call.step \in {"from", "to", "compare", "limit", "failing"}

\* A diff is told only if the limit did not stop it, and its flags say whether
\* ranges were left out of the list, or out of the details asked for.
DiffsAreWhole ==
  /\ reply.status # "cut"
  /\ reply.status = "diff" =>
       /\ reply.ranges_truncated <=> reply.ranges < reply.total
       /\ reply.details_truncated <=> reply.request.include /\ reply.described < reply.total

\* A history lists the newest versions up to the limit: none it leaves out is
\* newer than one it lists, and it is never shorter than it need be.
HistoriesAreTheNewest ==
  reply.status = "history" =>
    /\ Cardinality(reply.versions) = Min({reply.limit, reply.total})
    /\ \A v \in reply.versions, w \in 1 .. reply.total : w > v => w \in reply.versions

VersionsInvariant ==
  NoCallIsBlind /\ HeldOnlyWhileComparing /\ DiffsAreWhole /\ HistoriesAreTheNewest
=============================================================================
