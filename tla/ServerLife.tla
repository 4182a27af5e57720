----------------------------- MODULE ServerLife -----------------------------
(***************************************************************************)
(* The life of one server process: the startup of Ghidra on a thread of    *)
(* its own beside the transport, the gate every tool call waits at, and    *)
(* the shutdown, which a client, a failed startup or a signal starts       *)
(* (presentation/startup.py, transport.py, cli.py: main and _run_cli).     *)
(* One step of the startup runs on the event loop's thread.                *)
(***************************************************************************)
EXTENDS Naturals

CONSTANTS
  LastStep,    \* the steps are 1..LastStep; the first starts the JVM
  LoopStep,    \* the one that runs on the event loop's thread
  SessionStep, \* one that opens a program
  GateCalls    \* tool calls made while the server runs

ASSUME ServerAssumption ==
  /\ LastStep \in Nat \ {0} /\ LoopStep \in 2..LastStep /\ SessionStep \in 2..LastStep

VARIABLES
  kind,       \* the transport
  gate,       \* _state and _failure
  thread,     \* the startup thread: where it is, its step, its outcome
  loop,       \* the event loop: off, running, ending, closed
  posted,     \* the step posted to the loop: none, queued, ran, raised
  process,    \* the main thread: where it is, how it came to end, its exit code
  stopping,   \* _stop
  serving,    \* FALSE once should_exit is set
  ghidra,     \* the JVM, the programs it has open, who closes them, whether closing failed
  gateCall    \* each call at the gate

threadVars == <<thread, posted>>
serverVars == <<kind, gate, threadVars, loop, process, stopping, serving, ghidra, gateCall>>

ServerInit ==
  /\ kind \in {"stdio", "http"}
  /\ gate = [state |-> "starting", failure |-> FALSE]
  /\ thread = [pc |-> "none", step |-> 1, outcome |-> "none"]
  /\ loop = "off" /\ posted = "none"
  /\ process = [pc |-> "preparing", signal |-> FALSE, raised |-> FALSE, pending |-> FALSE, struck |-> FALSE, code |-> 0]
  /\ stopping = FALSE /\ serving = TRUE
  /\ ghidra = [jvm |-> FALSE, open |-> FALSE, closed |-> FALSE, closing |-> {}, failed |-> FALSE]
  /\ gateCall = [c \in GateCalls |-> "new"]

Thread(pc) == thread' = [thread EXCEPT !.pc = pc]
Process(pc) == process' = [process EXCEPT !.pc = pc]

-----------------------------------------------------------------------------
(* The startup thread                                                      *)

\* stop is looked at between two steps only.
Boundary ==
  /\ thread.pc = "boundary"
  /\ thread' = IF thread.step > LastStep THEN [thread EXCEPT !.pc = "leaving", !.outcome = "done"]
               ELSE IF stopping THEN [thread EXCEPT !.pc = "leaving", !.outcome = "stopped"]
               ELSE [thread EXCEPT !.pc = IF thread.step = LoopStep THEN "posting" ELSE "running"]
  /\ UNCHANGED <<kind, gate, posted, loop, process, stopping, serving, ghidra, gateCall>>

Succeeded == [thread EXCEPT !.pc = "boundary", !.step = @ + 1]
Failed == [thread EXCEPT !.pc = "releasing", !.outcome = "failed"]
Stopped == [thread EXCEPT !.pc = "leaving", !.outcome = "stopped"]

\* The JVM may be up although its step failed.
RunStep ==
  /\ thread.pc = "running"
  /\ thread' \in {Succeeded, Failed}
  /\ \E jvm \in BOOLEAN :
       /\ thread' = Succeeded => jvm = (ghidra.jvm \/ thread.step = 1)
       /\ thread.step # 1 => jvm = ghidra.jvm
       /\ ghidra' = [ghidra EXCEPT !.jvm = jvm, !.open = @ \/ (thread.step = SessionStep /\ thread' = Succeeded)]
  /\ UNCHANGED <<kind, gate, posted, loop, process, stopping, serving, gateCall>>

PostStep ==
  /\ thread.pc = "posting"
  /\ IF loop = "closed" THEN thread' = Stopped /\ UNCHANGED posted
     ELSE Thread("waiting") /\ posted' = "queued"
  /\ UNCHANGED <<kind, gate, loop, process, stopping, serving, ghidra, gateCall>>

\* Cancelling the tasks runs the loop once more.
LoopRunsStep ==
  /\ posted = "queued" /\ loop \in {"running", "ending"}
  /\ posted' \in {"ran", "raised"}
  /\ UNCHANGED <<kind, gate, thread, loop, process, stopping, serving, ghidra, gateCall>>

StepDone ==
  /\ thread.pc = "waiting" /\ posted \in {"ran", "raised"}
  /\ thread' = IF posted = "ran" THEN Succeeded ELSE Failed
  /\ UNCHANGED <<kind, gate, posted, loop, process, stopping, serving, ghidra, gateCall>>

\* Mutant: only the callback ends the wait.
StepWaits ==
  /\ thread.pc = "waiting" /\ posted = "ran" /\ loop = "ending"
  /\ thread' = Stopped
  /\ UNCHANGED <<kind, gate, posted, loop, process, stopping, serving, ghidra, gateCall>>

StepAbandoned ==
  /\ thread.pc = "waiting" /\ loop \in {"ending", "closed"}
  /\ thread' = Stopped
  /\ UNCHANGED <<kind, gate, posted, loop, process, stopping, serving, ghidra, gateCall>>

\* close_ghidra, of the startup thread or of the final cleanup; it may fail.
CloseBegins(who) == ghidra' = [ghidra EXCEPT !.closing = @ \cup {who}]
CloseEnds(who) ==
  \/ ghidra' = [ghidra EXCEPT !.closing = @ \ {who}, !.closed = TRUE, !.open = FALSE]
  \/ ghidra' = [ghidra EXCEPT !.closing = @ \ {who}, !.failed = TRUE]

NeedsClosing == ghidra.jvm /\ ~ghidra.closed

Release ==
  /\ thread.pc = "releasing"
  /\ IF ~NeedsClosing THEN Thread("leaving") /\ UNCHANGED ghidra
     ELSE IF "startup" \notin ghidra.closing THEN CloseBegins("startup") /\ UNCHANGED thread
     ELSE CloseEnds("startup") /\ Thread("leaving")
  /\ UNCHANGED <<kind, gate, posted, loop, process, stopping, serving, gateCall>>

LeaveStartup ==
  /\ thread.pc = "leaving"
  /\ Thread(CASE thread.outcome = "stopped" -> "ended" [] thread.outcome = "failed" -> "telling" [] OTHER -> "opening")
  /\ UNCHANGED <<kind, gate, posted, loop, process, stopping, serving, ghidra, gateCall>>

\* mark_failed writes the reason and then the state, mark_ready the state; the
\* lock they hold is not the readers'.
GiveReason ==
  /\ thread.pc = "telling" /\ ~gate.failure
  /\ gate' = [gate EXCEPT !.failure = TRUE]
  /\ UNCHANGED <<kind, threadVars, loop, process, stopping, serving, ghidra, gateCall>>

MarkFailed ==
  /\ thread.pc = "telling" /\ gate.failure
  /\ gate' = [gate EXCEPT !.state = "failed"]
  /\ Thread("quitting")
  /\ UNCHANGED <<kind, posted, loop, process, stopping, serving, ghidra, gateCall>>

StopServing ==
  /\ thread.pc = "quitting"
  /\ serving' = (kind # "http")
  /\ Thread("ended")
  /\ UNCHANGED <<kind, gate, posted, loop, process, stopping, ghidra, gateCall>>

MarkReady ==
  /\ thread.pc = "opening"
  /\ gate' = [gate EXCEPT !.state = "ready"]
  /\ Thread("ended")
  /\ UNCHANGED <<kind, posted, loop, process, stopping, serving, ghidra, gateCall>>

StartupThread ==
  \/ Boundary \/ RunStep \/ PostStep \/ StepDone \/ StepAbandoned
  \/ Release \/ LeaveStartup \/ GiveReason \/ MarkFailed \/ StopServing \/ MarkReady

-----------------------------------------------------------------------------
(* A call at the gate (StartupGate.wait): three reads of the state          *)

Answer(c, what) == gateCall' = [gateCall EXCEPT ![c] = what]

Arrive(c) ==
  /\ gateCall[c] = "new" /\ loop = "running"
  /\ Answer(c, IF gate.state = "starting" THEN "waiting" ELSE "reading")
  /\ UNCHANGED <<kind, gate, threadVars, loop, process, stopping, serving, ghidra>>

\* The state changed, or the time is over.
Awake(c) ==
  /\ gateCall[c] = "waiting" /\ loop = "running"
  /\ Answer(c, "reading")
  /\ UNCHANGED <<kind, gate, threadVars, loop, process, stopping, serving, ghidra>>

ReadFailed(c) ==
  /\ gateCall[c] = "reading" /\ loop = "running"
  /\ Answer(c, IF gate.state = "failed" THEN IF gate.failure THEN "failed" ELSE "no_reason" ELSE "notFailed")
  /\ UNCHANGED <<kind, gate, threadVars, loop, process, stopping, serving, ghidra>>

ReadStarting(c) ==
  /\ gateCall[c] = "notFailed" /\ loop = "running"
  /\ Answer(c, IF gate.state = "starting" THEN "retry"
               ELSE IF gate.state = "ready" THEN "run" ELSE "run_on_failed")
  /\ UNCHANGED <<kind, gate, threadVars, loop, process, stopping, serving, ghidra>>

-----------------------------------------------------------------------------
(* The main thread                                                         *)

\* asyncio.run, and the transport starts the startup.
Serve ==
  /\ process.pc = "preparing" /\ ~process.raised
  /\ Process("serving") /\ loop' = "running" /\ Thread("boundary")
  /\ UNCHANGED <<kind, gate, posted, stopping, serving, ghidra, gateCall>>

\* What can be checked without the JVM ends with a line and exit code 1.
Misconfigured ==
  /\ process.pc = "preparing"
  /\ process' = [process EXCEPT !.pc = "cleanup", !.code = 1]
  /\ UNCHANGED <<kind, gate, threadVars, loop, stopping, serving, ghidra, gateCall>>

\* Only the first signal counts.  While the loop runs it raises in a callback of
\* its own.
SignalServing ==
  /\ ~process.signal /\ process.pc = "serving"
  /\ process' = [process EXCEPT !.signal = TRUE]
  /\ UNCHANGED <<kind, gate, threadVars, loop, stopping, serving, ghidra, gateCall>>

\* Otherwise it raises where the main thread is: on its way to the cleanup, or at
\* the cleanup's first line, which is then skipped, or after it.
SignalRaises ==
  /\ ~process.signal
  /\ \/ /\ process.pc \in {"preparing", "returning"}
        /\ process' = [process EXCEPT !.signal = TRUE, !.raised = TRUE, !.pc = "cleanup"]
     \/ /\ process.pc = "cleanup"
        /\ process' = [process EXCEPT !.signal = TRUE, !.raised = TRUE, !.struck = TRUE, !.pc = "scripts"]
     \/ /\ process.pc = "scripts"
        /\ process' = [process EXCEPT !.signal = TRUE, !.raised = TRUE]
  /\ UNCHANGED <<kind, gate, threadVars, loop, stopping, serving, ghidra, gateCall>>

\* defer_shutdown_signals
SignalDeferred ==
  /\ ~process.signal /\ process.pc \in {"joining", "closing"}
  /\ process' = [process EXCEPT !.signal = TRUE, !.pending = TRUE]
  /\ UNCHANGED <<kind, gate, threadVars, loop, stopping, serving, ghidra, gateCall>>

\* The transport ends: its client left, the server is to exit, or a signal raises.
TransportEnds ==
  /\ loop = "running"
  /\ kind = "stdio" \/ ~serving \/ process.signal
  /\ loop' = "ending"
  /\ process' = [process EXCEPT !.raised = process.signal]
  /\ gateCall' = [c \in GateCalls |-> IF gateCall[c] \in {"waiting", "reading", "notFailed"} THEN "cancelled" ELSE gateCall[c]]
  /\ UNCHANGED <<kind, gate, threadVars, stopping, serving, ghidra>>

LoopCloses ==
  /\ loop = "ending"
  /\ loop' = "closed"
  /\ Process(IF process.raised THEN "cleanup" ELSE "returning")
  /\ UNCHANGED <<kind, gate, threadVars, stopping, serving, ghidra, gateCall>>

Return ==
  /\ process.pc = "returning"
  /\ process' = [process EXCEPT !.pc = "cleanup", !.code = IF gate.state = "failed" THEN 1 ELSE 0]
  /\ UNCHANGED <<kind, gate, threadVars, loop, stopping, serving, ghidra, gateCall>>

StopStartup ==
  /\ process.pc = "cleanup"
  /\ stopping' = TRUE
  /\ Process("joining")
  /\ UNCHANGED <<kind, gate, threadVars, loop, serving, ghidra, gateCall>>

\* Mutant: the cleanup does not wait for the step in progress.
JoinNothing ==
  /\ process.pc = "joining"
  /\ Process("closing")
  /\ UNCHANGED <<kind, gate, threadVars, loop, stopping, serving, ghidra, gateCall>>

JoinStartup ==
  /\ process.pc = "joining" /\ thread.pc \in {"none", "ended"}
  /\ Process("closing")
  /\ UNCHANGED <<kind, gate, threadVars, loop, stopping, serving, ghidra, gateCall>>

\* A signal that waited raises once the projects are closed.
Close ==
  /\ process.pc = "closing"
  /\ IF NeedsClosing /\ "main" \notin ghidra.closing THEN CloseBegins("main") /\ UNCHANGED process
     ELSE /\ IF NeedsClosing THEN CloseEnds("main") ELSE UNCHANGED ghidra
          /\ process' = [process EXCEPT !.pc = "scripts", !.raised = @ \/ process.pending]
  /\ UNCHANGED <<kind, gate, threadVars, loop, stopping, serving, gateCall>>

\* script_service.shutdown, and the exit, by the signal if there was one.
Exit ==
  /\ process.pc = "scripts"
  /\ process' = [process EXCEPT !.pc = "exited", !.code = IF process.signal THEN 128 ELSE @]
  /\ UNCHANGED <<kind, gate, threadVars, loop, stopping, serving, ghidra, gateCall>>

MainThread == Serve \/ Return \/ StopStartup \/ JoinStartup \/ Close \/ Exit

CallSteps == \E c \in GateCalls : Awake(c) \/ ReadFailed(c) \/ ReadStarting(c)

ServerNext ==
  \/ StartupThread \/ LoopRunsStep \/ MainThread \/ Misconfigured
  \/ SignalServing \/ SignalRaises \/ SignalDeferred \/ TransportEnds \/ LoopCloses
  \/ \E c \in GateCalls : Arrive(c) \/ Awake(c) \/ ReadFailed(c) \/ ReadStarting(c)

ServerSpec == ServerInit /\ [][ServerNext]_serverVars

-----------------------------------------------------------------------------
(* Properties                                                              *)

ServerTypeOK ==
  /\ kind \in {"stdio", "http"}
  /\ gate \in [state : {"starting", "ready", "failed"}, failure : BOOLEAN]
  /\ thread.step \in 1..(LastStep + 1) /\ thread.outcome \in {"none", "done", "failed", "stopped"}
  /\ loop \in {"off", "running", "ending", "closed"}
  /\ posted \in {"none", "queued", "ran", "raised"}
  /\ process.code \in {0, 1, 128}
  /\ ghidra.closing \subseteq {"startup", "main"}

\* What the startup opens is closed before the process ends, whatever ended it,
\* unless the closing failed or a signal struck at its first line; and nobody
\* closes Ghidra beside a step that still opens something, nor twice at a time
\* (startup.py:250, cli.py:1179).
ClosedOnce ==
  /\ process.pc = "exited" /\ ghidra.open => ghidra.failed \/ process.struck
  /\ ghidra.closing # {} => thread.pc \in {"none", "releasing", "ended"}
  /\ ghidra.closing # {"startup", "main"}
  /\ ghidra.closed => ~ghidra.open

\* The gate opens only over everything the startup did, and says failed only
\* once what the earlier steps opened was released; a refused call hears why
\* (startup.py:195, "before the gate reports the failure").
GateIsTrue ==
  /\ gate.state = "ready" => thread.step = LastStep + 1 /\ ghidra.jvm
  /\ gate.state = "failed" => gate.failure /\ thread.outcome = "failed"
  /\ \A c \in GateCalls : gateCall[c] # "no_reason"

\* A server that ended because its startup failed says so with its exit code.
FailureIsTheExitCode ==
  process.pc = "exited" /\ ~serving => process.code # 0

ServerInvariant == ServerTypeOK /\ ClosedOnce /\ GateIsTrue /\ FailureIsTheExitCode

\* A shutdown has begun, or a failed startup ends an http server
\* (startup.py:247-258, transport.py:215).
MustEnd == process.signal \/ loop = "ending" \/ ~serving

\* A call at the gate is to be answered, or its connection to end.
AtTheGate(c) == gateCall[c] \in {"waiting", "reading"}
PassedTheGate(c) == gateCall[c] \notin {"waiting", "reading", "notFailed"}

\* No call passes the gate of a failed startup (startup.py:110, "STARTUP_FAILED
\* once the startup failed").
NoCallAfterFailure == \A c \in GateCalls : gateCall[c] # "run_on_failed"
=============================================================================
