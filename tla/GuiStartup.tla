------------------------------ MODULE GuiStartup ------------------------------
(***************************************************************************)
(* How the GUI backend comes up and goes down: the main thread with the    *)
(* JVM and GhidraRun (gui/launch.py), the startup thread's waits           *)
(* (gui/readiness.py), the server's thread and the signals                 *)
(* (presentation/gui_runtime.py).  The threads share the events of         *)
(* GuiLaunch, whose lock decides between abort and GhidraRun, and the stop  *)
(* flag of the waits.  What GhidraRun shows, and when, is the human's and   *)
(* Ghidra's.                                                               *)
(*                                                                         *)
(* A poll of a wait is a step and a tick of its limits.  A wait for a check *)
(* reads the launcher's failure and its end one after the other.           *)
(***************************************************************************)
EXTENDS Naturals

CONSTANTS
  Limit,      \* polls after which a wait gives up
  BusyLimit   \* polls for which GhidraRun's own thread may run with no dialog up

VARIABLES
  main,      \* the main thread: where it is, and its exit code
  launch,    \* the events of GuiLaunch, its failure and its abort
  startup,   \* the startup thread: its step, how far a poll read, how it ended, whether it told the server
  quiet,     \* polls since the wait last saw progress
  busy,      \* polls for which GhidraRun's thread ran with no dialog up
  server,    \* the server's thread, and what its abort answered
  halt,      \* status.stop
  screen,    \* what GhidraRun shows: its thread, FrontEnd, project, workspace, tool, a dialog
  closings   \* FrontEndTool.close() calls that are posted or ask

guiVars == <<main, launch, startup, quiet, busy, server, halt, screen, closings>>

GuiInit ==
  /\ main = [pc |-> "jvm", code |-> 0]
  /\ launch = [jvm |-> FALSE, checks |-> FALSE, started |-> FALSE, finished |-> FALSE, aborted |-> FALSE,
               failure |-> "none"]
  /\ startup = [at |-> "jvm", read |-> FALSE, told |-> FALSE, outcome |-> "running"]
  /\ quiet = 0 /\ busy = 0
  /\ server = [pc |-> "serving", abort |-> "none"]
  /\ halt = FALSE
  /\ screen = [thread |-> FALSE, frontEnd |-> FALSE, project |-> "none", workspace |-> FALSE, tool |-> FALSE,
               dialog |-> FALSE]
  /\ closings = 0

Running == main.pc # "exited"

-----------------------------------------------------------------------------
(* The main thread *)

\* run() returns: the GUI was not started.
Fails(stage) ==
  /\ launch' = [launch EXCEPT !.failure = IF @ = "none" THEN stage ELSE @, !.finished = TRUE]
  /\ main' = [main EXCEPT !.pc = "left"]

StartJvm ==
  /\ main.pc = "jvm"
  /\ \/ launch' = [launch EXCEPT !.jvm = TRUE] /\ main' = [main EXCEPT !.pc = "display"]
     \/ Fails("gui")
  /\ UNCHANGED <<startup, quiet, busy, server, halt, screen, closings>>

Check(stage, next) ==
  /\ main.pc = stage
  /\ \/ main' = [main EXCEPT !.pc = next] /\ UNCHANGED launch
     \/ Fails(stage)
  /\ UNCHANGED <<startup, quiet, busy, server, halt, screen, closings>>

DecideUnlocked ==
  /\ main.pc = "decide"
  /\ launch' = [launch EXCEPT !.checks = TRUE, !.started = TRUE]
  /\ main' = [main EXCEPT !.pc = "gui"]
  /\ screen' = [screen EXCEPT !.thread = TRUE]
  /\ UNCHANGED <<startup, quiet, busy, server, halt, closings>>

\* Under the lock: abort either sees GhidraRun started or keeps it from starting.
Decide ==
  /\ main.pc = "decide"
  /\ IF launch.aborted
       THEN Fails("gui") /\ UNCHANGED screen
       ELSE /\ launch' = [launch EXCEPT !.checks = TRUE, !.started = TRUE]
            /\ main' = [main EXCEPT !.pc = "gui"]
            /\ screen' = [screen EXCEPT !.thread = TRUE]
  /\ UNCHANGED <<startup, quiet, busy, server, halt, closings>>

GhidraRunRaises ==
  /\ main.pc = "gui" /\ ~screen.frontEnd /\ ~screen.dialog /\ Fails("gui")
  /\ screen' = [screen EXCEPT !.thread = FALSE]
  /\ UNCHANGED <<startup, quiet, busy, server, halt, closings>>

\* Ghidra exits, and its JVM ends the process.
GhidraExits ==
  /\ main.pc = "gui" /\ screen.frontEnd
  /\ main' = [main EXCEPT !.pc = "exited"] /\ halt' = TRUE
  /\ UNCHANGED <<launch, startup, quiet, busy, server, screen, closings>>

\* The main thread gives the startup time to tell the calls, then cleans up: it
\* joins the startup thread before it returns.
AwaitServer ==
  /\ main.pc = "left"
  /\ main' = [pc |-> "cleanup", code |-> 1] /\ halt' = TRUE
  /\ UNCHANGED <<launch, startup, quiet, busy, server, screen, closings>>
JoinGuiStartup ==
  /\ main.pc = "cleanup" /\ startup.outcome # "running"
  /\ main' = [main EXCEPT !.pc = "exited"]
  /\ UNCHANGED <<launch, startup, quiet, busy, server, halt, screen, closings>>

GuiMainThread ==
  \/ Check("display", "project_lock") \/ Check("project_lock", "decide") \/ Decide
  \/ AwaitServer \/ JoinGuiStartup

-----------------------------------------------------------------------------
(* The startup thread *)

After == [jvm |-> "display", display |-> "project_lock", project_lock |-> "front_end", front_end |-> "project_open",
          project_open |-> "workspace", workspace |-> "code_browser", code_browser |-> "core", core |-> "ready"]

Goes(step) ==
  /\ startup' = IF step = "ready" THEN [startup EXCEPT !.outcome = "ready"] ELSE [startup EXCEPT !.at = step, !.read = FALSE]
  /\ quiet' = 0 /\ busy' = 0
Passes == Goes(After[startup.at])
Raises == startup' = [startup EXCEPT !.outcome = "failed"] /\ UNCHANGED <<quiet, busy>>
Stops == startup' = [startup EXCEPT !.outcome = "stopped"] /\ UNCHANGED <<quiet, busy>>

\* Nothing yet: a wait goes on, as long as its limit allows when it saw no progress.
GoesOn(progress, working) ==
  IF (~progress /\ ~working /\ quiet >= Limit) \/ (working /\ ~progress /\ busy >= BusyLimit) THEN Raises
  ELSE /\ quiet' = IF progress \/ working THEN 0 ELSE quiet + 1
       /\ busy' = IF working /\ ~progress THEN busy + 1 ELSE busy
       /\ UNCHANGED startup

\* A deadline that stands still while a dialog is up.
DeadlineGoesOn ==
  IF ~screen.dialog /\ quiet >= Limit THEN Raises
  ELSE quiet' = (IF screen.dialog THEN quiet ELSE quiet + 1) /\ UNCHANGED <<startup, busy>>

At(step) == Running /\ startup.outcome = "running" /\ startup.at = step
Unmoved == UNCHANGED <<main, launch, server, halt, screen, closings>>

WaitForJvm ==
  /\ At("jvm") /\ Unmoved
  /\ IF launch.jvm \/ launch.finished THEN IF launch.failure = "gui" \/ ~launch.jvm THEN Raises ELSE Passes
     ELSE IF halt THEN Stops
     ELSE GoesOn(FALSE, FALSE)

\* The launcher's outcome first; the display passed if the lock is what failed.
ReadFailure(step) ==
  /\ At(step) /\ ~startup.read /\ Unmoved
  /\ IF launch.checks THEN Passes
     ELSE IF launch.failure = "none" THEN startup' = [startup EXCEPT !.read = TRUE] /\ UNCHANGED <<quiet, busy>>
     ELSE IF step = "display" /\ launch.failure = "project_lock" THEN Passes
     ELSE Raises

ReadEnd(step) ==
  /\ At(step) /\ startup.read /\ Unmoved
  /\ IF launch.finished THEN Raises
     ELSE IF halt THEN Stops
     ELSE startup' = [startup EXCEPT !.read = FALSE] /\ UNCHANGED <<quiet, busy>>

WaitForFrontEnd ==
  /\ At("front_end") /\ Unmoved
  /\ IF halt THEN Stops
     ELSE IF launch.finished THEN Raises
     ELSE IF screen.frontEnd THEN Passes
     ELSE GoesOn(screen.dialog, screen.thread)

\* Another project is a failure; so is an event thread that does not serve the round trip.
WaitForProject ==
  /\ At("project_open") /\ Unmoved
  /\ IF halt THEN Stops
     ELSE IF screen.project = "other" THEN Raises
     ELSE IF screen.project = "ours" THEN Passes \/ Raises
     ELSE GoesOn(screen.dialog, FALSE)

WaitForWorkspace ==
  /\ At("workspace") /\ Unmoved
  /\ IF screen.workspace THEN Passes
     ELSE IF halt THEN Stops
     ELSE DeadlineGoesOn

\* The stop is looked at once, before the wait.
WaitForCodeBrowser ==
  /\ At("code_browser") /\ Unmoved
  /\ IF startup.read THEN IF screen.tool THEN Passes ELSE DeadlineGoesOn
     ELSE IF halt THEN Stops
     ELSE startup' = [startup EXCEPT !.read = TRUE] /\ UNCHANGED <<quiet, busy>>

LoadCore == At("core") /\ Unmoved /\ (Passes \/ Raises)

\* After the failure was marked: the server goes on once GhidraRun has started.
KeepServing ==
  /\ Running /\ startup.outcome = "failed" /\ ~startup.told
  /\ startup' = [startup EXCEPT !.told = TRUE]
  /\ server' = IF launch.started \/ server.pc # "serving" THEN server ELSE [server EXCEPT !.pc = "told"]
  /\ UNCHANGED <<main, launch, quiet, busy, halt, screen, closings>>

GuiStartupThread ==
  \/ WaitForJvm \/ (\E step \in {"display", "project_lock"} : ReadFailure(step) \/ ReadEnd(step))
  \/ WaitForFrontEnd \/ WaitForProject \/ WaitForWorkspace \/ WaitForCodeBrowser \/ LoadCore \/ KeepServing

-----------------------------------------------------------------------------
(* The server's thread *)

\* It was told to stop, or stops with an error.
EndServing ==
  /\ Running /\ server.pc \in {"serving", "told"}
  /\ server' = [server EXCEPT !.pc = "ended"] /\ halt' = TRUE
  /\ UNCHANGED <<main, launch, startup, quiet, busy, screen, closings>>

Abort ==
  /\ Running /\ server.pc = "ended" /\ server.abort = "none"
  /\ launch' = [launch EXCEPT !.aborted = TRUE]
  /\ server' = [server EXCEPT !.abort = IF launch.started THEN "late" ELSE "in_time"]
  /\ UNCHANGED <<main, startup, quiet, busy, halt, screen, closings>>

-----------------------------------------------------------------------------
(* Ghidra, the human and signals *)

Shows ==
  /\ main.pc = "gui"
  /\ \/ screen.thread /\ screen' = [screen EXCEPT !.thread = FALSE]
     \/ screen.thread /\ screen' = [screen EXCEPT !.frontEnd = TRUE]
     \/ screen' = [screen EXCEPT !.dialog = ~@]
     \/ screen.frontEnd /\ screen.project = "none" /\ \E p \in {"ours", "other"} : screen' = [screen EXCEPT !.project = p]
     \/ screen.project # "none" /\ screen' = [screen EXCEPT !.workspace = TRUE]
     \/ screen.workspace /\ screen' = [screen EXCEPT !.tool = TRUE]
  /\ UNCHANGED <<main, launch, startup, quiet, busy, server, halt, closings>>

\* SIGINT or SIGTERM: Ghidra's own exit, asked for once, or the end of a process
\* whose project window does not exist.
Signal ==
  /\ Running
  /\ IF launch.started /\ screen.frontEnd
       THEN closings' = (IF closings = 0 THEN 1 ELSE closings) /\ UNCHANGED main
       ELSE main' = [pc |-> "exited", code |-> 130] /\ UNCHANGED closings
  /\ UNCHANGED <<launch, startup, quiet, busy, server, halt, screen>>

Cancelled ==
  /\ main.pc = "gui" /\ closings > 0 /\ closings' = closings - 1
  /\ UNCHANGED <<main, launch, startup, quiet, busy, server, halt, screen>>

-----------------------------------------------------------------------------
GuiNext ==
  \/ StartJvm \/ GuiMainThread \/ GhidraRunRaises \/ GhidraExits
  \/ GuiStartupThread \/ EndServing \/ Abort \/ Shows \/ Signal \/ Cancelled

GuiSpec == GuiInit /\ [][GuiNext]_guiVars

-----------------------------------------------------------------------------
GuiTypeOK ==
  /\ main \in [pc : {"jvm", "display", "project_lock", "decide", "gui", "left", "cleanup", "exited"}, code : {0, 1, 130}]
  /\ launch \in [jvm : BOOLEAN, checks : BOOLEAN, started : BOOLEAN, finished : BOOLEAN, aborted : BOOLEAN,
                 failure : {"none", "display", "project_lock", "gui"}]
  /\ startup \in [at : DOMAIN After, read : BOOLEAN, told : BOOLEAN, outcome : {"running", "failed", "stopped", "ready"}]
  /\ quiet \in 0..Limit /\ busy \in 0..BusyLimit /\ closings \in 0..1
  /\ server \in [pc : {"serving", "told", "ended"}, abort : {"none", "in_time", "late"}] /\ halt \in BOOLEAN
  /\ screen \in [thread : BOOLEAN, frontEnd : BOOLEAN, project : {"none", "ours", "other"}, workspace : BOOLEAN,
                 tool : BOOLEAN, dialog : BOOLEAN]

\* The stage that calls are told is where the launcher failed, unless it failed
\* between the two looks of a poll.
StageIsTrue ==
  startup.outcome = "failed" =>
    CASE startup.at \in {"display", "project_lock"} -> launch.failure \in {startup.at, "gui"} \/ startup.read
      [] startup.at = "jvm" -> launch.failure \in {"none", "gui"} \/ quiet = Limit
      [] OTHER -> launch.started

\* An abort that came in time keeps GhidraRun from starting, for good, and the
\* exit code is an error only for a GUI that was not started.
AbortOrGui ==
  /\ server.abort = "in_time" => ~launch.started
  /\ server.abort = "late" => launch.started
  /\ main.code = 1 => launch.failure # "none" /\ main.pc \in {"cleanup", "exited"}
  /\ main.pc = "exited" /\ main.code = 1 => startup.outcome # "running"

\* A server is ready only where GhidraRun showed its project and a tool.
ReadyIsUsable == startup.outcome = "ready" => launch.started /\ screen.project = "ours" /\ screen.tool

GuiInvariant == GuiTypeOK /\ StageIsTrue /\ AbortOrGui /\ ReadyIsUsable
=============================================================================
