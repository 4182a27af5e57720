------------------------------- MODULE GuiRelay -------------------------------
(***************************************************************************)
(* How the clients of one project find its GUI runtime, and what they tell *)
(* of calls it may not have run (presentation/gui_relay.py,                *)
(* gui_registry.py, and the GUI branch of cli.py).                         *)
(*                                                                         *)
(* A relay takes the launch lock, looks whether a runtime holds the        *)
(* runtime lock, and reads its record or launches a detached runtime; a    *)
(* server in the foreground becomes the runtime itself, or a relay.  Both  *)
(* locks are of the operating system, which drops them with the process;   *)
(* the record stays behind.  A relay forwards calls with the token of the  *)
(* runtime it located and never looks for another one.                     *)
(*                                                                         *)
(* A token is the runtime's identity.  Polling loops are their steps; both *)
(* waits may time out at any moment.  Left out: what differs in a          *)
(* configuration, the wire format, Windows.                                *)
(***************************************************************************)
EXTENDS Naturals, FiniteSets

CONSTANTS
  Relays,       \* stdio clients
  Foreground,   \* servers started with --transport http
  Detached,     \* runtimes that relays may start: their number is the bound
  Forwarded,    \* tool calls
  Ports,
  Groups,       \* of clients: those of one behaviour are one of them
  Nobody

Clients == Relays \cup Foreground
Runtimes == Foreground \cup Detached

Records == [of : Runtimes, state : {"starting", "ready", "failed"}]

ASSUME ProcessesAssumption ==
  /\ Relays \cap Runtimes = {} /\ Foreground \cap Detached = {}
  /\ {Nobody, "probe"} \cap (Clients \cup Runtimes) = {} /\ Nobody \notin Records \cup {"probe"}

VARIABLES
  launchLock, runtimeLock,   \* who holds the lock file; "probe" while a relay looks
  record,                    \* the registry's record: [of, state], or Nobody
  client,                    \* [pc, child, to, refusal] of each relay
  runtime,                   \* [pc, port, listens] of each runtime
  forwarded,                 \* [pc, by, at, ran, reply] of each call
  interrupted                \* a relay has left a runtime it was starting

relayVars == <<launchLock, runtimeLock, record, client, runtime, forwarded, interrupted>>

RelayInit ==
  /\ launchLock = Nobody /\ runtimeLock = Nobody /\ record = Nobody
  /\ \E group \in Groups :
       client = [c \in Clients |->
         [pc |-> IF c \notin group THEN "ended" ELSE IF c \in Relays THEN "locate" ELSE "claim",
          child |-> Nobody, to |-> Nobody, refusal |-> "none"]]
  /\ runtime = [r \in Runtimes |-> [pc |-> "unborn", port |-> Nobody, listens |-> FALSE]]
  /\ forwarded = [k \in Forwarded |-> [pc |-> "new", by |-> Nobody, at |-> Nobody, ran |-> Nobody, reply |-> "none"]]
  /\ interrupted = FALSE

Goes(c, pc) == client' = [client EXCEPT ![c].pc = pc]
Becomes(r, pc) == runtime' = [runtime EXCEPT ![r].pc = pc]
Without(lock, holder) == IF lock = holder THEN Nobody ELSE lock

Registered(r) == record # Nobody /\ record.of = r
Published == {"starting", "ready", "failed", "closed"}
Alive(r) == runtime[r].pc \notin {"unborn", "dead"}

-----------------------------------------------------------------------------
(* Locating the runtime *)

NextStep(c) == Goes(c, IF client[c].pc = "claim" THEN "claiming" ELSE "probing")
TakeNothing(c) ==
  /\ client[c].pc \in {"locate", "claim"} /\ NextStep(c)
  /\ UNCHANGED <<launchLock, runtimeLock, record, runtime, forwarded, interrupted>>

TakeLaunchLock(c) ==
  /\ client[c].pc \in {"locate", "claim"} /\ launchLock = Nobody
  /\ launchLock' = c /\ NextStep(c)
  /\ UNCHANGED <<runtimeLock, record, runtime, forwarded, interrupted>>

\* With why = "none" the relay serves by forwarding, else by refusing.
Located(c, r, why) ==
  /\ client' = [client EXCEPT ![c].pc = "serving", ![c].to = r, ![c].refusal = why]
  /\ launchLock' = Nobody

LaunchLockTimesOut(c) ==
  /\ client[c].pc \in {"locate", "claim"} /\ launchLock \notin {Nobody, c}
  /\ client' = [client EXCEPT ![c].pc = IF @ = "claim" THEN "ended" ELSE "serving", ![c].refusal = "unavailable"]
  /\ UNCHANGED <<launchLock, runtimeLock, record, runtime, forwarded, interrupted>>

\* The look takes the lock for a moment if it is free.
Probe(c) ==
  /\ client[c].pc = "probing"
  /\ IF runtimeLock = Nobody
       THEN runtimeLock' = "probe" /\ Goes(c, "probed")
       ELSE Goes(c, "alive") /\ UNCHANGED runtimeLock
  /\ UNCHANGED <<launchLock, record, runtime, forwarded, interrupted>>

EndProbe(c) ==
  /\ client[c].pc = "probed"
  /\ runtimeLock' = Nobody /\ Goes(c, "removing")
  /\ UNCHANGED <<launchLock, record, runtime, forwarded, interrupted>>

\* A record was found: the relay's configuration fits the runtime's or not.
ReadRecord(c) ==
  /\ client[c].pc = "alive"
  /\ IF record = Nobody
       THEN Located(c, Nobody, "unavailable")
       ELSE \E why \in {"none", "mismatch"} : Located(c, record.of, why)
  /\ UNCHANGED <<runtimeLock, record, runtime, forwarded, interrupted>>

RemoveStale(c) ==
  /\ client[c].pc = "removing"
  /\ record' = Nobody /\ Goes(c, "launching")
  /\ UNCHANGED <<launchLock, runtimeLock, runtime, forwarded, interrupted>>

Launch(c) ==
  /\ client[c].pc = "launching"
  /\ \/ \E r \in Detached :
          /\ runtime[r].pc = "unborn"
          /\ Becomes(r, "born")
          /\ client' = [client EXCEPT ![c].pc = "waiting", ![c].child = r]
          /\ UNCHANGED launchLock
     \/ Located(c, Nobody, "unavailable") /\ UNCHANGED runtime
  /\ UNCHANGED <<runtimeLock, record, forwarded, interrupted>>

\* The configuration of the runtime it started is the relay's own.
SeeRegistration(c) ==
  /\ client[c].pc = "waiting" /\ Registered(client[c].child) /\ runtimeLock # Nobody
  /\ Located(c, client[c].child, "none")
  /\ UNCHANGED <<runtimeLock, record, runtime, forwarded, interrupted>>

SeeEnd(c) ==
  /\ client[c].pc = "waiting" /\ ~Alive(client[c].child)
  /\ Located(c, Nobody, "failed")
  /\ UNCHANGED <<runtimeLock, record, runtime, forwarded, interrupted>>

WaitTimesOut(c) ==
  /\ client[c].pc = "waiting"
  /\ Located(c, Nobody, "unavailable")
  /\ interrupted' = TRUE
  /\ UNCHANGED <<runtimeLock, record, runtime, forwarded>>

Locate(c) ==
  \/ TakeLaunchLock(c) \/ LaunchLockTimesOut(c) \/ Probe(c) \/ EndProbe(c) \/ ReadRecord(c)
  \/ RemoveStale(c) \/ Launch(c) \/ SeeRegistration(c) \/ SeeEnd(c) \/ WaitTimesOut(c)

-----------------------------------------------------------------------------
(* The runtime's side *)

\* In the foreground, under the launch lock, which it keeps until it has published.
ClaimInForeground(c) ==
  /\ client[c].pc = "claiming"
  /\ IF runtimeLock = Nobody
       THEN runtimeLock' = c /\ Becomes(c, "claimed") /\ Goes(c, "runtime") /\ UNCHANGED launchLock
       ELSE launchLock' = Nobody /\ Goes(c, "locate") /\ UNCHANGED <<runtimeLock, runtime>>
  /\ UNCHANGED <<record, forwarded, interrupted>>

ClaimDetached(r) ==
  /\ r \in Detached /\ runtime[r].pc = "born"
  /\ IF runtimeLock = Nobody
       THEN runtimeLock' = r /\ Becomes(r, "claimed")
       ELSE Becomes(r, "dead") /\ UNCHANGED runtimeLock
  /\ UNCHANGED <<launchLock, record, client, forwarded, interrupted>>

\* A port of no living process; a detached runtime listens before it publishes.
Publish(r) ==
  /\ runtime[r].pc = "claimed"
  /\ \E port \in Ports \ {runtime[s].port : s \in {s \in Runtimes : Alive(s)}} :
       runtime' = [runtime EXCEPT ![r] = [pc |-> "starting", port |-> port, listens |-> r \in Detached]]
  /\ record' = [of |-> r, state |-> "starting"]
  /\ launchLock' = Without(launchLock, r)
  /\ UNCHANGED <<runtimeLock, client, forwarded, interrupted>>

Listen(r) ==
  /\ runtime[r].pc \in Published /\ ~runtime[r].listens
  /\ runtime' = [runtime EXCEPT ![r].listens = TRUE]
  /\ UNCHANGED <<launchLock, runtimeLock, record, client, forwarded, interrupted>>

\* Its record is written anew, whether a relay has removed it or not.
StartupEnds(r) ==
  /\ runtime[r].pc = "starting"
  /\ \E state \in {"ready", "failed"} :
       Becomes(r, state) /\ record' = [of |-> r, state |-> state]
  /\ UNCHANGED <<launchLock, runtimeLock, client, forwarded, interrupted>>

\* The human closes the project; the runtime notices within a second.
ProjectCloses(r) ==
  /\ runtime[r].pc = "ready" /\ Becomes(r, "closed")
  /\ UNCHANGED <<launchLock, runtimeLock, record, client, forwarded, interrupted>>

RemoveRecord(r) ==
  /\ runtime[r].pc = "closed" /\ Becomes(r, "unregistered")
  /\ record' = IF Registered(r) THEN Nobody ELSE record
  /\ UNCHANGED <<launchLock, runtimeLock, client, forwarded, interrupted>>

\* From here on the process is a plain Ghidra.
ReleaseLock(r) ==
  /\ runtime[r].pc = "unregistered" /\ Becomes(r, "plain")
  /\ runtimeLock' = Without(runtimeLock, r)
  /\ UNCHANGED <<launchLock, record, client, forwarded, interrupted>>

Serving(r) ==
  \/ ClaimDetached(r) \/ Publish(r) \/ Listen(r) \/ StartupEnds(r)
  \/ ProjectCloses(r) \/ RemoveRecord(r) \/ ReleaseLock(r)

-----------------------------------------------------------------------------
(* Processes end, however.  On a relay that serves nothing of others depends. *)

RuntimeDies(r) ==
  /\ Alive(r)
  /\ runtime' = [runtime EXCEPT ![r].pc = "dead", ![r].listens = FALSE]
  /\ runtimeLock' = Without(runtimeLock, r)
  /\ launchLock' = Without(launchLock, r)
  /\ UNCHANGED <<record, client, forwarded, interrupted>>

RelayDies(c) ==
  /\ client[c].pc \notin {"runtime", "serving", "ended"}
  /\ Goes(c, "ended")
  /\ launchLock' = Without(launchLock, c)
  /\ runtimeLock' = IF client[c].pc = "probed" THEN Nobody ELSE runtimeLock
  /\ interrupted' = (interrupted \/ client[c].pc = "waiting")
  /\ UNCHANGED <<record, runtime, forwarded>>

-----------------------------------------------------------------------------
(* Forwarding *)

\* No restart: later calls hear why, as the runtime's record tells it.
Refusal(c) ==
  IF Registered(client[c].to) /\ record.state = "failed" THEN "failed" ELSE "runtime_gone"
RuntimeGone(c) ==
  client' = IF client[c].refusal = "none" THEN [client EXCEPT ![c].refusal = Refusal(c)] ELSE client
Answer(k, pc, reply) == forwarded' = [forwarded EXCEPT ![k].pc = pc, ![k].reply = reply]

Send(k, c) ==
  /\ forwarded[k].pc = "new" /\ client[c].pc = "serving"
  /\ forwarded' = [forwarded EXCEPT ![k] =
       IF client[c].refusal = "none" THEN [@ EXCEPT !.pc = "sent", !.by = c]
       ELSE [@ EXCEPT !.pc = "ended", !.by = c, !.reply = "refused"]]
  /\ UNCHANGED <<launchLock, runtimeLock, record, client, runtime, interrupted>>

\* The living runtime behind the port the relay was told.
Behind(k) == {r \in Runtimes :
  /\ Alive(r) /\ runtime[r].listens
  /\ runtime[r].port = runtime[client[forwarded[k].by].to].port}
Waits(k) == forwarded[k].reply = "none"

\* A public runtime too refuses a token that is not its own.
PublicTakesAny(k, r) == r \in Foreground \/ r = client[forwarded[k].by].to
Authorized(k, r) == r = client[forwarded[k].by].to

Arrive(k) ==
  /\ forwarded[k].pc = "sent"
  /\ \E r \in Behind(k) :
       IF Authorized(k, r)
         THEN /\ forwarded' = [forwarded EXCEPT ![k].pc = "accepted", ![k].at = r]
              /\ UNCHANGED client
         ELSE /\ Answer(k, "ended", IF Waits(k) THEN "refused" ELSE forwarded[k].reply)
              /\ IF Waits(k) THEN RuntimeGone(forwarded[k].by) ELSE UNCHANGED client
  /\ UNCHANGED <<launchLock, runtimeLock, record, runtime, interrupted>>

\* The tool runs, or the runtime answers that it is starting, failed or closed.
Run(k) ==
  LET r == forwarded[k].at
  IN /\ forwarded[k].pc = "accepted" /\ Alive(r)
     /\ forwarded' = [forwarded EXCEPT ![k].pc = "ran", ![k].ran = IF runtime[r].pc = "ready" THEN r ELSE Nobody]
     /\ UNCHANGED <<launchLock, runtimeLock, record, client, runtime, interrupted>>

Reply(k) ==
  /\ forwarded[k].pc = "ran" /\ Waits(k) /\ Alive(forwarded[k].at)
  /\ Answer(k, "ended", IF forwarded[k].ran = Nobody THEN "error" ELSE "ok")
  /\ UNCHANGED <<launchLock, runtimeLock, record, client, runtime, interrupted>>

\* The connection is not made (the request never left) ...
NotReached(k) ==
  /\ forwarded[k].pc = "sent" /\ Waits(k)
  /\ RuntimeGone(forwarded[k].by) /\ Answer(k, "ended", "refused")
  /\ UNCHANGED <<launchLock, runtimeLock, record, runtime, interrupted>>

\* ... or it breaks or the reply is late: the runtime may run the call yet.
Broken(k) ==
  /\ forwarded[k].pc \in {"sent", "accepted", "ran"} /\ Waits(k)
  /\ RuntimeGone(forwarded[k].by) /\ Answer(k, forwarded[k].pc, "unknown")
  /\ UNCHANGED <<launchLock, runtimeLock, record, runtime, interrupted>>

Exchange(k) == (\E c \in Clients : Send(k, c)) \/ Arrive(k) \/ Run(k) \/ Reply(k) \/ NotReached(k) \/ Broken(k)

-----------------------------------------------------------------------------
RelayNext ==
  \/ \E c \in Clients : Locate(c) \/ RelayDies(c)
  \/ \E c \in Foreground : ClaimInForeground(c)
  \/ \E r \in Runtimes : Serving(r) \/ RuntimeDies(r)
  \/ \E k \in Forwarded : Exchange(k)

RelaySpec == RelayInit /\ [][RelayNext]_relayVars

-----------------------------------------------------------------------------
ClientPcs ==
  {"locate", "claim", "claiming", "probing", "probed", "alive", "removing", "launching", "waiting",
   "runtime", "serving", "ended"}
Refusals == {"none", "unavailable", "mismatch", "failed", "runtime_gone"}
RuntimePcs == {"unborn", "born", "claimed", "unregistered", "plain", "dead"} \cup Published
Replies == {"none", "ok", "error", "refused", "unknown"}

ClientType ==
  [pc : ClientPcs, child : Detached \cup {Nobody}, to : Runtimes \cup {Nobody}, refusal : Refusals]
RuntimeType == [pc : RuntimePcs, port : Ports \cup {Nobody}, listens : BOOLEAN]
ForwardedType ==
  [pc : {"new", "sent", "accepted", "ran", "ended"}, by : Clients \cup {Nobody},
   at : Runtimes \cup {Nobody}, ran : Runtimes \cup {Nobody}, reply : Replies]

RelayTypeOK ==
  /\ launchLock \in Clients \cup {Nobody}
  /\ runtimeLock \in Runtimes \cup {Nobody, "probe"}
  /\ record \in Records \cup {Nobody}
  /\ client \in [Clients -> ClientType]
  /\ runtime \in [Runtimes -> RuntimeType]
  /\ forwarded \in [Forwarded -> ForwardedType]
  /\ interrupted \in BOOLEAN

\* A record that is there while a published runtime holds the lock is that
\* runtime's: no other process writes it, and who ends leaves no later one's.
RecordIsTheHolders ==
  \A r \in Runtimes :
    runtimeLock = r /\ runtime[r].pc \in Published /\ record # Nobody => Registered(r)

\* As long as no relay has left a runtime that it was starting: a relay that
\* takes the launch lock finds the record of the runtime that lives, and
\* concurrent first starts make one runtime.
StartsAreSafe ==
  ~interrupted =>
    /\ \A r \in Runtimes : runtimeLock = r /\ runtime[r].pc \in Published => Registered(r)
    /\ launchLock = Nobody => \A r \in Runtimes : runtime[r].pc \notin {"born", "claimed"}
    /\ Cardinality({r \in Runtimes : Alive(r) /\ runtime[r].pc # "plain"}) <= 1

\* A runtime keeps its lock from the claim until its project is closed, so two
\* never hold one project, however relays and runtimes end in between.
HoldersOnly ==
  \A r \in Runtimes : runtime[r].pc \in {"claimed", "unregistered"} \cup Published => runtimeLock = r

\* What the registry's two locks and its record are for.
RegistryInvariant == RelayTypeOK /\ RecordIsTheHolders /\ HoldersOnly /\ StartsAreSafe

\* A call runs on the runtime its relay located or on none, whoever listens on
\* the port by then; a refused call has not run and will not run, and a relay
\* says that a runtime failed to start only if it did.
RefusedNeverRuns ==
  /\ \A k \in Forwarded :
       /\ forwarded[k].ran # Nobody => forwarded[k].ran = client[forwarded[k].by].to
       /\ forwarded[k].reply = "ok" => forwarded[k].ran # Nobody
       /\ forwarded[k].reply \in {"refused", "error"} => forwarded[k].pc = "ended" /\ forwarded[k].ran = Nobody
  /\ \A c \in Clients :
       client[c].refusal = "failed" =>
         \E r \in {client[c].to, client[c].child} \cap Runtimes : runtime[r].pc \in {"failed", "dead"}
=============================================================================
