------------------------------ MODULE MCServer ------------------------------
(***************************************************************************)
(* One server process in small instances, of which a behaviour shows one:  *)
(* its startup, gate and shutdown (ServerLife), the locks its calls take   *)
(* (RuntimeLocks), the barrier between commands and scripts with a clock   *)
(* (MCScriptBarrierTimed), the way the GUI backend comes up and goes down  *)
(* (GuiStartup), and the writes of its commands to a program              *)
(* (ProgramWrites).                                                        *)
(***************************************************************************)
EXTENDS ServerLife, MCRuntimeLocks, GuiStartup, MCProgramWrites

CONSTANTS t1, t2, t3

VARIABLES
  part,
  inside, active, depth, pending, ticket, waiting, timer, signalled, stop, interrupting, readFor, heldOff

barrierVars ==
  <<inside, active, depth, pending, ticket, waiting, timer, signalled, stop, interrupting, readFor, heldOff>>

\* No read section outlasts the grace.
Barrier == INSTANCE MCScriptBarrierTimed WITH
  Threads <- {t1, t2, t3}, Stoppable <- {}, Grace <- 1, MaxDepth <- 1, LongReads <- FALSE,
  readers <- inside, writer <- active, gate <- timer

\* Which part a behaviour shows, and whose waiting it follows: the process (None)
\* or a call at the gate, a call and its locks, a thread at the barrier, the
\* startup or the end of the GUI, or a write.
Parts ==
  ({"server"} \X (GateCalls \cup {None})) \cup ({"locks"} \X Calls) \cup ({"barrier"} \X {t1})
  \cup ({"gui"} \X {"startup", "end"}) \cup ({"writes"} \X {None})
Follows(which) == part[1] = which

PartsInit ==
  /\ part \in Parts
  /\ ServerInit /\ LocksInit /\ Barrier!TimedInit /\ GuiInit /\ WritesInit
  /\ Follows("locks") \/ plan = CHOOSE some \in Plans : TRUE
  /\ Follows("server") \/ kind = "stdio"
  /\ Follows("writes") \/ backend = "headless"

ServerPart ==
  Follows("server") /\ ServerNext /\ UNCHANGED <<part, lockVars, barrierVars, guiVars, writesVars>>
LocksPart ==
  Follows("locks") /\ LocksNext /\ UNCHANGED <<part, serverVars, barrierVars, guiVars, writesVars>>
BarrierPart ==
  Follows("barrier") /\ Barrier!TimedNext /\ UNCHANGED <<part, serverVars, lockVars, guiVars, writesVars>>
GuiPart ==
  Follows("gui") /\ GuiNext /\ UNCHANGED <<part, serverVars, lockVars, barrierVars, writesVars>>
\* Beside a batch, others act once.
WritesPart ==
  /\ Follows("writes") /\ WritesNext
  /\ cmd'.kind = "batch" => foreign' <= 1
  /\ UNCHANGED <<part, serverVars, lockVars, barrierVars, guiVars>>

PartsNext == ServerPart \/ LocksPart \/ BarrierPart \/ GuiPart \/ WritesPart

\* The threads and the loop of a server run on; a step of the startup and the
\* closing of the projects return; a server told to exit ends its transport.
FairServer ==
  /\ WF_serverVars(Follows("server") /\ StartupThread)
  /\ WF_serverVars(Follows("server") /\ MainThread)
  /\ WF_serverVars(Follows("server") /\ (LoopRunsStep \/ LoopCloses))
  /\ WF_serverVars(Follows("server") /\ CallSteps)
  /\ WF_serverVars(Follows("server") /\ (process.signal \/ ~serving) /\ TransportEnds)

\* A thread runs on, time passes, and an operation ends unless it is a long one,
\* such as the analysis of an import.  Every release of the runtime lock wakes
\* all who wait for it: the reader that is followed, woken to a free lock again
\* and again, gets in.
FairCall(c) ==
  /\ WF_lockVars(Follows("locks") /\ Forward(c))
  /\ WF_lockVars(Follows("locks") /\ Deadline(c))
  /\ WF_lockVars(Follows("locks") /\ plan[c].kind # "long" /\ Finish(c))

\* Threads that were notified run, interrupts notify, time passes and sections
\* end.  Nothing makes a caller take or give up a lock: Read, Write and the
\* deadlines have no fairness.
FairBarrier(u) ==
  /\ WF_barrierVars(Follows("barrier") /\ Barrier!Step(u) /\ (Barrier!ReadWake(u) \/ Barrier!WriteWake(u)))
  /\ WF_barrierVars(Follows("barrier") /\ Barrier!Step(u) /\ (Barrier!ReadExit(u) \/ Barrier!WriteExit(u)))
  /\ WF_barrierVars(Follows("barrier") /\ Barrier!Step(u) /\ Barrier!NotifyStop(u))

\* The GUI's threads run on; a server that was told to stop ends.  Nothing makes
\* Ghidra or the human do anything, nor the JVM start.
FairGui ==
  /\ WF_guiVars(Follows("gui") /\ GuiStartupThread)
  /\ WF_guiVars(Follows("gui") /\ GuiMainThread)
  /\ WF_guiVars(Follows("gui") /\ server.pc = "told" /\ EndServing)
  /\ WF_guiVars(Follows("gui") /\ Abort)

\* Every step of a running command takes place: polls and EDT waits have
\* deadlines, and nothing in the section waits.
FairWrites ==
  /\ WF_writesVars(Follows("writes") /\ cmd.pc # "done" /\ MechaNext)
  /\ WF_writesVars(Follows("writes") /\ DeadlinePasses)

PartsSpec ==
  /\ PartsInit /\ [][PartsNext]_<<part, serverVars, lockVars, barrierVars, guiVars, writesVars>>
  /\ FairServer /\ FairGui /\ FairWrites
  /\ \A c \in Calls : FairCall(c)
  /\ SF_lockVars(\E c \in Calls : part = <<"locks", c>> /\ EnterAsReader(c))
  /\ \A u \in {t1, t2, t3} : FairBarrier(u)
  /\ WF_barrierVars(Follows("barrier") /\ Barrier!UrgentTick)

-----------------------------------------------------------------------------
Waits ==
  CASE Follows("server") -> IF part[2] = None THEN MustEnd ELSE AtTheGate(part[2])
    [] Follows("locks") -> MustReturn(part[2])
    [] Follows("gui") -> IF part[2] = "end" THEN launch.failure # "none" ELSE Running
    [] Follows("writes") -> cmd.pc # "done"
    [] OTHER -> part[2] \in Barrier!Queued
Served ==
  CASE Follows("server") -> IF part[2] = None THEN process.pc = "exited" ELSE PassedTheGate(part[2])
    [] Follows("locks") -> at[part[2]] = "idle"
    [] Follows("gui") -> ~Running \/ (part[2] = "startup" /\ (startup.outcome # "running" \/ screen.dialog))
    [] Follows("writes") -> cmd.pc = "done"
    [] OTHER -> part[2] \notin Barrier!Queued

\* Whoever waits is served or gives up: a process told to end exits, however its
\* startup goes; a call at the gate is answered; a call gets its locks or times
\* out, gives them back and returns; and a writer in the barrier's queue gets its
\* turn or gives up, however many readers keep arriving, if none outlasts the grace.
\* A GUI that was not started ends its process, and the startup's waits end
\* whatever Ghidra shows or does not show, but for a dialog the human leaves open.
\* A write to a program that the GUI shares ends: its poll, its retries on the EDT
\* and the start of its work are bounded, whoever keeps transactions open.
EveryWaitEnds == Waits ~> Served
=============================================================================
