----------------------------- MODULE ServerProofs -----------------------------
(***************************************************************************)
(* Proofs about one server process, for any number of startup steps and of *)
(* calls: its life (ServerLife), the locks its calls take (RuntimeLocks)   *)
(* and the GUI's threads (GuiStartup).                                     *)
(*                                                                         *)
(* That Ghidra is closed once and before the process ends needs who may    *)
(* close it when (Closing), which needs where the main thread and the      *)
(* startup thread can be at the same time (ProcessProgress) and what the   *)
(* startup thread has decided by then (StartupProgress).                   *)
(*                                                                         *)
(* That the GUI's threads agree needs how far the launcher came            *)
(* (MainProgress), and that the startup passed a step only where the next  *)
(* one's ground was laid (StartupPassed).                                  *)
(***************************************************************************)
EXTENDS ServerLife, RuntimeLocks, GuiStartup, FiniteSetTheorems, TLAPS

-----------------------------------------------------------------------------
(* The life of the process                                                 *)

ThreadPcs == {"none", "boundary", "running", "posting", "waiting", "releasing", "leaving",
              "telling", "opening", "quitting", "ended"}
ProcessPcs == {"preparing", "serving", "returning", "cleanup", "joining", "closing", "scripts", "exited"}
Answers == {"new", "waiting", "reading", "notFailed", "failed", "no_reason", "retry", "run",
            "run_on_failed", "cancelled"}

GateType == [state : {"starting", "ready", "failed"}, failure : BOOLEAN]
ThreadType == [pc : ThreadPcs, step : 1..(LastStep + 1), outcome : {"none", "done", "failed", "stopped"}]
ProcessType == [pc : ProcessPcs, signal : BOOLEAN, raised : BOOLEAN, pending : BOOLEAN, struck : BOOLEAN, code : {0, 1, 128}]
GhidraType == [jvm : BOOLEAN, open : BOOLEAN, closed : BOOLEAN, closing : SUBSET {"startup", "main"}, failed : BOOLEAN]

LifeTypeOK ==
  /\ kind \in {"stdio", "http"} /\ gate \in GateType
  /\ thread \in ThreadType /\ posted \in {"none", "queued", "ran", "raised"}
  /\ loop \in {"off", "running", "ending", "closed"}
  /\ process \in ProcessType
  /\ stopping \in BOOLEAN /\ serving \in BOOLEAN
  /\ ghidra \in GhidraType /\ gateCall \in [GateCalls -> Answers]

\* What the startup thread has decided, and what that says of the gate.
StartupProgress ==
  /\ thread.pc \in {"running", "posting", "waiting"} => thread.step <= LastStep
  /\ thread.pc \in {"posting", "waiting"} => thread.step = LoopStep
  /\ thread.pc \in {"none", "boundary", "running", "posting", "waiting"} => thread.outcome = "none"
  /\ thread.pc \in {"releasing", "telling", "quitting"} => thread.outcome = "failed"
  /\ thread.pc = "leaving" => thread.outcome # "none"
  /\ thread.pc = "opening" => thread.outcome = "done"
  /\ thread.outcome = "done" => thread.step = LastStep + 1
  /\ thread.step > 1 => ghidra.jvm
  /\ gate.state = "ready" => thread.pc = "ended" /\ thread.outcome = "done"
  /\ gate.state = "failed" => thread.pc \in {"quitting", "ended"} /\ thread.outcome = "failed" /\ gate.failure
  /\ thread.pc = "quitting" => gate.state = "failed"
  /\ ~serving => kind = "http" /\ gate.state = "failed"

\* Where the main thread is, the event loop's state and the startup thread's.
ProcessProgress ==
  /\ process.pc = "preparing" => thread.pc = "none" /\ loop = "off"
  /\ process.pc = "serving" <=> loop \in {"running", "ending"}
  /\ process.pc = "returning" => loop = "closed"
  /\ process.pc = "closing" => thread.pc \in {"none", "ended"}
  /\ process.raised \/ process.pending => process.signal
  /\ loop \in {"ending", "closed"} /\ kind = "http" => process.signal \/ ~serving
  /\ process.pc \in {"cleanup", "joining", "closing", "scripts"} /\ kind = "http" =>
       process.signal \/ process.code = 1
  /\ process.pc = "exited" /\ kind = "http" => process.code # 0

\* Who closes Ghidra when, and what is open then.
Closing ==
  /\ ghidra.open => thread.step > 1
  /\ thread.pc = "none" => ~ghidra.jvm
  /\ "startup" \in ghidra.closing => thread.pc = "releasing"
  /\ "main" \in ghidra.closing => process.pc = "closing"
  /\ ghidra.closing # {} => NeedsClosing
  /\ ghidra.closed => ~ghidra.open /\ thread.pc \in {"ended", "leaving", "telling", "quitting"}
  /\ ghidra.closed /\ thread.pc = "leaving" => thread.outcome = "failed"
  /\ process.pc \in {"scripts", "exited"} /\ ~process.struck =>
       thread.pc \in {"none", "ended"} /\ (ghidra.open => ghidra.failed)

ServerIInv ==
  /\ LifeTypeOK /\ StartupProgress /\ ProcessProgress /\ Closing
  /\ \A c \in GateCalls : gateCall[c] # "no_reason"

\* The records keep their types, one kind of update at a time.
LEMMA ProcessTypes ==
  ASSUME process \in ProcessType,
         MainThread \/ Misconfigured \/ SignalServing \/ SignalRaises \/ SignalDeferred \/ TransportEnds \/ LoopCloses
  PROVE  process' \in ProcessType
<1> USE DEF ProcessType, ProcessPcs, Process
<1>1. CASE Serve \/ StopStartup \/ JoinStartup
  BY <1>1 DEF Serve, StopStartup, JoinStartup
<1>2. CASE Exit
  BY <1>2, ZenonT(60) DEF Exit
<1>3. CASE Return
  BY <1>3, ZenonT(60) DEF Return
<1>4. CASE Misconfigured
  BY <1>4 DEF Misconfigured
<1>5. CASE Close
  <2> DEFINE raised == process.raised \/ process.pending
  <2>1. raised \in BOOLEAN
    OBVIOUS
  <2>2. process' = process \/ process' = [process EXCEPT !.pc = "scripts", !.raised = raised]
    BY <1>5 DEF Close
  <2> HIDE DEF raised
  <2>3. CASE process' = [process EXCEPT !.pc = "scripts", !.raised = raised]
    BY <2>1, <2>3
  <2> QED
    BY <2>2, <2>3
<1>6. CASE SignalServing
  BY <1>6 DEF SignalServing
<1>10. CASE SignalDeferred
  BY <1>10 DEF SignalDeferred
<1>7. CASE SignalRaises
  <2>1. \/ process' = [process EXCEPT !.signal = TRUE, !.raised = TRUE, !.pc = "cleanup"]
        \/ process' = [process EXCEPT !.signal = TRUE, !.raised = TRUE, !.struck = TRUE, !.pc = "scripts"]
        \/ process' = [process EXCEPT !.signal = TRUE, !.raised = TRUE]
    BY <1>7 DEF SignalRaises
  <2>2. CASE process' = [process EXCEPT !.signal = TRUE, !.raised = TRUE, !.pc = "cleanup"]
    BY <2>2
  <2>3. CASE process' = [process EXCEPT !.signal = TRUE, !.raised = TRUE, !.struck = TRUE, !.pc = "scripts"]
    BY <2>3
  <2>4. CASE process' = [process EXCEPT !.signal = TRUE, !.raised = TRUE]
    BY <2>4
  <2> QED
    BY <2>1, <2>2, <2>3, <2>4
<1>8. CASE TransportEnds
  BY <1>8 DEF TransportEnds
<1>9. CASE LoopCloses
  BY <1>9 DEF LoopCloses
<1> QED
  BY <1>1, <1>2, <1>3, <1>4, <1>5, <1>6, <1>7, <1>8, <1>9, <1>10 DEF MainThread

LEMMA ThreadTypes ==
  ASSUME thread \in ThreadType, StartupProgress, StartupThread \/ Serve
  PROVE  thread' \in ThreadType
<1> USE ServerAssumption DEF ThreadType, ThreadPcs, Thread
<1>1. CASE Boundary
  BY <1>1 DEF Boundary
<1>2. CASE RunStep \/ StepDone
  <2>1. thread.pc \in {"running", "waiting"} /\ thread' \in {Succeeded, Failed}
    BY <1>2 DEF RunStep, StepDone
  <2>2. thread.step <= LastStep
    BY <2>1 DEF StartupProgress
  <2>3. CASE thread' = Succeeded
    <3> DEFINE step == thread.step + 1
    <3>1. step \in 1..(LastStep + 1)
      BY <2>2
    <3>2. thread' = [thread EXCEPT !.pc = "boundary", !.step = step]
      BY <2>3 DEF Succeeded
    <3> HIDE DEF step
    <3> QED
      BY <3>1, <3>2
  <2>4. CASE thread' = Failed
    BY <2>4 DEF Failed
  <2> QED
    BY <2>1, <2>3, <2>4
<1>3. CASE PostStep \/ StepAbandoned
  BY <1>3 DEF PostStep, StepAbandoned, Stopped
<1>5. CASE Release
  BY <1>5 DEF Release
<1>6. CASE LeaveStartup \/ GiveReason
  BY <1>6 DEF LeaveStartup, GiveReason, threadVars
<1>7. CASE MarkFailed \/ StopServing \/ MarkReady \/ Serve
  BY <1>7 DEF MarkFailed, StopServing, MarkReady, Serve
<1> QED
  BY <1>1, <1>2, <1>3, <1>5, <1>6, <1>7 DEF StartupThread

LEMMA GhidraTypes ==
  ASSUME ghidra \in GhidraType, RunStep \/ Release \/ Close
  PROVE  ghidra' \in GhidraType
<1> USE DEF GhidraType
<1>1. CASE RunStep
  <2>1. PICK jvm \in BOOLEAN :
          ghidra' = [ghidra EXCEPT !.jvm = jvm, !.open = @ \/ (thread.step = SessionStep /\ thread' = Succeeded)]
    BY <1>1 DEF RunStep
  <2> DEFINE open == ghidra.open \/ (thread.step = SessionStep /\ thread' = Succeeded)
  <2>2. open \in BOOLEAN
    OBVIOUS
  <2>3. ghidra' = [ghidra EXCEPT !.jvm = jvm, !.open = open]
    BY <2>1
  <2> HIDE DEF open
  <2> QED
    BY <2>2, <2>3
<1>2. ASSUME NEW who \in {"startup", "main"}, ghidra' = ghidra \/ CloseBegins(who) \/ CloseEnds(who)
      PROVE  ghidra' \in GhidraType
  <2>1. CASE ghidra' = ghidra \/ CloseBegins(who)
    BY <1>2, <2>1 DEF CloseBegins
  <2>2. CASE CloseEnds(who)
    BY <1>2, <2>2 DEF CloseEnds
  <2> QED
    BY <1>2, <2>1, <2>2
<1>3. CASE Release
  BY <1>2, <1>3 DEF Release
<1>4. CASE Close
  BY <1>2, <1>4 DEF Close
<1> QED
  BY <1>1, <1>3, <1>4

LEMMA GateTypes ==
  ASSUME gate \in GateType, GiveReason \/ MarkFailed \/ MarkReady
  PROVE  gate' \in GateType
BY DEF GateType, GiveReason, MarkFailed, MarkReady

LEMMA AnswerTypes ==
  ASSUME gateCall \in [GateCalls -> Answers],
         TransportEnds \/ \E c \in GateCalls : Arrive(c) \/ Awake(c) \/ ReadFailed(c) \/ ReadStarting(c)
  PROVE  gateCall' \in [GateCalls -> Answers]
BY DEF Answers, TransportEnds, Arrive, Awake, ReadFailed, ReadStarting, Answer

LEMMA LifeTypeStep ==
  ASSUME LifeTypeOK, StartupProgress, ServerNext
  PROVE  LifeTypeOK'
<1> USE DEF LifeTypeOK, threadVars
<1>1. CASE Boundary \/ RunStep \/ PostStep \/ StepDone \/ StepAbandoned
  BY <1>1, ThreadTypes, GhidraTypes, ZenonT(60) DEF Boundary, RunStep, PostStep, StepDone, StepAbandoned, StartupThread
<1>2. CASE Release \/ LeaveStartup \/ GiveReason
  BY <1>2, ThreadTypes, GhidraTypes, GateTypes DEF Release, LeaveStartup, GiveReason, StartupThread
<1>3. CASE MarkFailed \/ StopServing \/ MarkReady
  BY <1>3, ThreadTypes, GateTypes DEF MarkFailed, StopServing, MarkReady, StartupThread
<1>4. CASE MainThread \/ Misconfigured
  <2>1. process' \in ProcessType /\ (Serve => thread' \in ThreadType) /\ (Close => ghidra' \in GhidraType)
    BY <1>4, ProcessTypes, ThreadTypes, GhidraTypes
  <2>2. CASE Serve \/ Return \/ StopStartup \/ JoinStartup
    BY <2>1, <2>2 DEF Serve, Return, StopStartup, JoinStartup
  <2>3. CASE Close \/ Exit \/ Misconfigured
    BY <2>1, <2>3 DEF Close, Exit, Misconfigured
  <2> QED
    BY <1>4, <2>2, <2>3 DEF MainThread
<1>5. CASE SignalServing \/ SignalRaises \/ SignalDeferred \/ LoopCloses \/ LoopRunsStep
  <2>1. LoopRunsStep \/ process' \in ProcessType
    BY <1>5, ProcessTypes
  <2> QED
    BY <1>5, <2>1 DEF SignalServing, SignalRaises, SignalDeferred, LoopCloses, LoopRunsStep
<1>6. CASE TransportEnds
  BY <1>6, ProcessTypes, AnswerTypes DEF TransportEnds
<1>7. CASE \E c \in GateCalls : Arrive(c) \/ Awake(c) \/ ReadFailed(c) \/ ReadStarting(c)
  BY <1>7, AnswerTypes DEF Arrive, Awake, ReadFailed, ReadStarting
<1> QED
  BY <1>1, <1>2, <1>3, <1>4, <1>5, <1>6, <1>7 DEF ServerNext, StartupThread

LEMMA StartupProgressStep ==
  ASSUME LifeTypeOK, StartupProgress, ProcessProgress, ServerNext
  PROVE  StartupProgress'
<1>0. /\ thread \in ThreadType /\ gate \in GateType /\ ghidra \in GhidraType
      /\ kind \in {"stdio", "http"} /\ serving \in BOOLEAN
  BY DEF LifeTypeOK
<1> USE <1>0, ServerAssumption DEF StartupProgress, ThreadType, ThreadPcs, Thread, threadVars
<1>1. CASE Boundary
  BY <1>1 DEF Boundary
<1>2. CASE RunStep
  <2>1. PICK jvm \in BOOLEAN :
          /\ thread' = Succeeded => jvm = (ghidra.jvm \/ thread.step = 1)
          /\ thread.step # 1 => jvm = ghidra.jvm
          /\ ghidra' = [ghidra EXCEPT !.jvm = jvm, !.open = @ \/ (thread.step = SessionStep /\ thread' = Succeeded)]
    BY <1>2 DEF RunStep
  <2>2. ghidra'.jvm = jvm
    BY <2>1 DEF GhidraType
  <2>3. CASE thread' = Succeeded
    BY <1>2, <2>1, <2>2, <2>3 DEF RunStep, Succeeded
  <2>4. CASE thread' = Failed
    BY <1>2, <2>1, <2>2, <2>4 DEF RunStep, Failed
  <2> QED
    BY <1>2, <2>3, <2>4 DEF RunStep
<1>3. CASE PostStep
  BY <1>3, ZenonT(60) DEF PostStep, Stopped
<1>4. CASE StepDone
  BY <1>4 DEF StepDone, Succeeded, Failed
<1>5. CASE StepAbandoned
  BY <1>5 DEF StepAbandoned, Stopped
<1>6. CASE Release
  <2>1. ghidra'.jvm = ghidra.jvm
    BY <1>6 DEF Release, CloseBegins, CloseEnds, GhidraType
  <2> QED
    BY <1>6, <2>1 DEF Release
<1>7. CASE LeaveStartup
  BY <1>7 DEF LeaveStartup
<1>8. CASE GiveReason
  BY <1>8 DEF GiveReason, GateType
<1>9. CASE MarkFailed
  BY <1>9 DEF MarkFailed, GateType
<1>10. CASE StopServing
  BY <1>10 DEF StopServing
<1>11. CASE MarkReady
  BY <1>11 DEF MarkReady, GateType
<1>12. CASE MainThread \/ Misconfigured
  <2>1. ghidra'.jvm = ghidra.jvm
    BY <1>12 DEF MainThread, Misconfigured, Serve, Return, StopStartup, JoinStartup, Close, Exit, CloseBegins, CloseEnds, GhidraType
  <2>2. CASE Serve
    BY <2>1, <2>2 DEF Serve, ProcessProgress
  <2>3. CASE ~Serve
    BY <1>12, <2>1, <2>3 DEF MainThread, Misconfigured, Return, StopStartup, JoinStartup, Close, Exit
  <2> QED
    BY <2>2, <2>3
<1>13. CASE SignalServing \/ SignalRaises \/ SignalDeferred \/ TransportEnds \/ LoopCloses \/ LoopRunsStep
  BY <1>13 DEF SignalServing, SignalRaises, SignalDeferred, TransportEnds, LoopCloses, LoopRunsStep
<1>14. CASE \E c \in GateCalls : Arrive(c) \/ Awake(c) \/ ReadFailed(c) \/ ReadStarting(c)
  BY <1>14 DEF Arrive, Awake, ReadFailed, ReadStarting
<1> QED
  BY <1>1, <1>2, <1>3, <1>4, <1>5, <1>6, <1>7, <1>8, <1>9, <1>10, <1>11, <1>12, <1>13, <1>14 DEF ServerNext, StartupThread

LEMMA ProcessProgressStep ==
  ASSUME LifeTypeOK, StartupProgress, ProcessProgress, ServerNext
  PROVE  ProcessProgress'
<1>0. /\ thread \in ThreadType /\ process \in ProcessType
      /\ kind \in {"stdio", "http"} /\ serving \in BOOLEAN
      /\ loop \in {"off", "running", "ending", "closed"}
  BY DEF LifeTypeOK
<1> USE <1>0, ServerAssumption DEF ProcessProgress, ProcessType, ProcessPcs, Process, threadVars
<1>1. ASSUME StartupThread
      PROVE  ProcessProgress'
  <2>1. UNCHANGED <<kind, process, loop>> /\ thread.pc \notin {"none", "ended"} /\ (serving' = serving \/ StopServing)
    BY <1>1 DEF StartupThread, Boundary, RunStep, PostStep, StepDone, StepAbandoned, Release, LeaveStartup,
       GiveReason, MarkFailed, StopServing, MarkReady
  <2>2. ~serving => ~serving'
    BY <2>1 DEF StopServing, StartupProgress
  <2> QED
    BY <2>1, <2>2
<1>2. CASE Serve
  BY <1>2 DEF Serve, Thread, ThreadType
<1>3. CASE Return
  BY <1>3 DEF Return, StartupProgress
<1>4. CASE StopStartup \/ JoinStartup
  BY <1>4 DEF StopStartup, JoinStartup
<1>5. CASE Close
  <2>1. \/ process' = process
        \/ process' = [process EXCEPT !.pc = "scripts", !.raised = @ \/ process.pending]
    BY <1>5 DEF Close
  <2>2. process.pc = "closing" /\ UNCHANGED <<kind, thread, loop, serving>>
    BY <1>5 DEF Close
  <2>3. CASE process' = [process EXCEPT !.pc = "scripts", !.raised = @ \/ process.pending]
    <3>1. /\ process'.pc = "scripts" /\ process'.signal = process.signal /\ process'.code = process.code
          /\ process'.pending = process.pending /\ (process'.raised => process.raised \/ process.pending)
      BY <2>3
    <3> QED
      BY <2>2, <3>1
  <2> QED
    BY <2>1, <2>2, <2>3
<1>13. CASE Exit
  BY <1>13 DEF Exit
<1>6. CASE Misconfigured
  BY <1>6 DEF Misconfigured
<1>7. CASE SignalServing
  BY <1>7 DEF SignalServing
<1>8. CASE SignalDeferred
  BY <1>8 DEF SignalDeferred
<1>9. CASE SignalRaises
  <2>1. /\ process'.signal /\ process.pc \in {"preparing", "returning", "cleanup", "scripts"}
        /\ process'.pc \in {"cleanup", "scripts"}
    BY <1>9, ZenonT(60) DEF SignalRaises
  <2>2. UNCHANGED <<kind, thread, loop, serving>>
    BY <1>9 DEF SignalRaises
  <2> QED
    BY <2>1, <2>2
<1>10. CASE TransportEnds
  BY <1>10 DEF TransportEnds
<1>11. CASE LoopCloses
  BY <1>11 DEF LoopCloses
<1>12. CASE LoopRunsStep \/ \E c \in GateCalls : Arrive(c) \/ Awake(c) \/ ReadFailed(c) \/ ReadStarting(c)
  BY <1>12 DEF LoopRunsStep, Arrive, Awake, ReadFailed, ReadStarting
<1> QED
  BY <1>1, <1>2, <1>3, <1>4, <1>5, <1>6, <1>7, <1>8, <1>9, <1>10, <1>11, <1>12, <1>13 DEF ServerNext, MainThread

LEMMA ClosingStep ==
  ASSUME LifeTypeOK, StartupProgress, ProcessProgress, Closing, ServerNext
  PROVE  Closing'
<1>0. thread \in ThreadType /\ process \in ProcessType /\ ghidra \in GhidraType
  BY DEF LifeTypeOK
<1>a. ghidra.open => ghidra.jvm
  BY DEF Closing, StartupProgress
<1> USE <1>0 DEF Closing, NeedsClosing, threadVars
<1>1. CASE Boundary \/ PostStep \/ StepDone \/ StepAbandoned
  <2>1. /\ thread.pc \in {"boundary", "posting", "waiting"} /\ UNCHANGED <<process, ghidra>>
        /\ thread'.step \in {thread.step, thread.step + 1} /\ thread'.pc # "none"
    <3>1. CASE Boundary
      BY <3>1 DEF Boundary, ThreadType
    <3>2. CASE PostStep
      BY <3>2 DEF PostStep, Stopped, Thread, ThreadType
    <3>3. CASE StepDone
      BY <3>3 DEF StepDone, Succeeded, Failed, ThreadType
    <3>4. CASE StepAbandoned
      BY <3>4 DEF StepAbandoned, Stopped, ThreadType
    <3> QED
      BY <1>1, <3>1, <3>2, <3>3, <3>4
  <2>2. process.pc \notin {"preparing", "closing"} /\ (process.pc \in {"scripts", "exited"} => process.struck)
    BY <2>1 DEF ProcessProgress
  <2>3. thread.step \in Nat /\ thread'.step \in Nat
    BY <1>1, LifeTypeStep DEF LifeTypeOK, ThreadType
  <2> QED
    BY <2>1, <2>2, <2>3
<1>14. CASE LeaveStartup
  BY <1>14 DEF LeaveStartup, Thread, ThreadType, StartupProgress
<1>2. CASE RunStep
  <2>1. PICK jvm \in BOOLEAN :
          /\ thread.step # 1 => jvm = ghidra.jvm
          /\ ghidra' = [ghidra EXCEPT !.jvm = jvm, !.open = @ \/ (thread.step = SessionStep /\ thread' = Succeeded)]
    BY <1>2 DEF RunStep
  <2>2. /\ ghidra'.jvm = jvm /\ ghidra'.closing = ghidra.closing /\ ghidra'.closed = ghidra.closed
        /\ ghidra'.open => ghidra.open \/ thread.step = SessionStep
    BY <2>1 DEF GhidraType
  <2>3. thread.pc = "running" /\ UNCHANGED process
    BY <1>2 DEF RunStep
  <2>4. ~ghidra.closed /\ "startup" \notin ghidra.closing
    BY <2>3
  <2>5. process.pc \notin {"preparing", "closing"} /\ (process.pc \in {"scripts", "exited"} => process.struck)
    BY <2>3 DEF ProcessProgress
  <2>6. ghidra'.open => thread'.step > 1
    <3>1. CASE thread' = Succeeded
      BY <2>2, <3>1, ServerAssumption DEF Succeeded, ThreadType
    <3>2. CASE thread' = Failed
      <4>1. thread'.step = thread.step
        BY <3>2 DEF Failed, ThreadType
      <4> QED
        BY <2>1, <2>2, <3>2, <4>1, ServerAssumption
    <3> QED
      BY <1>2, <3>1, <3>2 DEF RunStep
  <2>7. ghidra.closing = {}
    BY <2>4, <2>5 DEF GhidraType
  <2>8. thread'.pc # "none"
    BY <1>2 DEF RunStep, Succeeded, Failed, ThreadType
  <2> QED
    BY <2>2, <2>3, <2>4, <2>5, <2>6, <2>7, <2>8
<1>3. CASE Release
  <2>1. /\ thread.pc = "releasing" /\ thread.outcome = "failed" /\ UNCHANGED process
        /\ process.pc # "closing" /\ (process.pc \in {"scripts", "exited"} => process.struck)
    BY <1>3 DEF Release, StartupProgress, ProcessProgress
  <2>2. thread'.outcome = "failed" /\ thread'.step = thread.step /\ thread'.pc \in {"releasing", "leaving"}
    BY <1>3, <2>1 DEF Release, Thread, ThreadType
  <2>3. \/ ghidra' = ghidra /\ "startup" \notin ghidra.closing
        \/ CloseBegins("startup") /\ NeedsClosing /\ thread'.pc = "releasing"
        \/ CloseEnds("startup") /\ thread'.pc = "leaving"
    <3>1. CASE ~NeedsClosing
      BY <1>3, <3>1 DEF Release, GhidraType
    <3>2. CASE NeedsClosing /\ "startup" \notin ghidra.closing
      BY <1>3, <2>1, <3>2 DEF Release, NeedsClosing
    <3>3. CASE NeedsClosing /\ "startup" \in ghidra.closing
      BY <1>3, <3>3 DEF Release, Thread, ThreadType
    <3> QED
      BY <3>1, <3>2, <3>3
  <2>4. CASE ghidra' = ghidra
    BY <2>1, <2>2, <2>3, <2>4, ZenonT(60) DEF CloseBegins, CloseEnds, GhidraType, NeedsClosing
  <2>5. CASE CloseBegins("startup") /\ NeedsClosing /\ thread'.pc = "releasing"
    BY <2>1, <2>2, <2>5 DEF CloseBegins, GhidraType, NeedsClosing
  <2>6. CASE CloseEnds("startup") /\ thread'.pc = "leaving"
    <3>1. /\ ghidra'.closing \subseteq ghidra.closing /\ "startup" \notin ghidra'.closing
          /\ ghidra'.jvm = ghidra.jvm
          /\ ghidra'.open => ghidra.open
          /\ ghidra'.closed => ~ghidra'.open
          /\ ghidra'.closing # {} => ghidra.closing # {}
      BY <2>6, ZenonT(60) DEF CloseEnds, GhidraType
    <3>2. "main" \notin ghidra.closing
      BY <2>1
    <3>3. ghidra'.closing = {}
      BY <3>1, <3>2 DEF GhidraType
    <3> QED
      BY <2>1, <2>2, <2>6, <3>1, <3>3
  <2> QED
    BY <2>3, <2>4, <2>5, <2>6
<1>4. CASE GiveReason \/ MarkFailed \/ StopServing \/ MarkReady
  BY <1>4 DEF GiveReason, MarkFailed, StopServing, MarkReady, Thread, ThreadType, StartupProgress
<1>5. CASE Serve
  <2>1. process.pc = "preparing" /\ UNCHANGED ghidra /\ process'.pc = "serving" /\ thread'.pc = "boundary" /\ thread'.step = thread.step
    BY <1>5 DEF Serve, Process, Thread, ProcessType, ThreadType
  <2>2. thread.pc = "none" /\ ~ghidra.closed
    BY <2>1 DEF ProcessProgress
  <2> QED
    BY <2>1, <2>2 DEF NeedsClosing
<1>6. CASE Return \/ StopStartup \/ JoinStartup \/ Misconfigured
  <2>1. /\ UNCHANGED <<thread, ghidra>> /\ process.pc \in {"preparing", "returning", "cleanup", "joining"}
        /\ process'.pc \in {"cleanup", "joining", "closing"}
    <3>1. CASE Return
      BY <1>6, <3>1 DEF Return, ProcessType
    <3>2. CASE Misconfigured
      BY <1>6, <3>2 DEF Misconfigured, ProcessType
    <3>3. CASE StopStartup \/ JoinStartup
      BY <1>6, <3>3 DEF StopStartup, JoinStartup, Process, ProcessType
    <3> QED
      BY <1>6, <3>1, <3>2, <3>3
  <2> QED
    BY <2>1 DEF NeedsClosing
<1>7. CASE Close
  <2>1. process.pc = "closing" /\ thread.pc \in {"none", "ended"} /\ UNCHANGED thread
    BY <1>7 DEF Close, ProcessProgress
  <2>2. \/ process' = process /\ CloseBegins("main") /\ ~ghidra.closed
        \/ process'.pc = "scripts" /\ ((NeedsClosing /\ CloseEnds("main")) \/ (ghidra' = ghidra /\ ~NeedsClosing))
    BY <1>7, ZenonT(60) DEF Close, NeedsClosing, ProcessType
  <2>3. CASE process' = process /\ CloseBegins("main") /\ ~ghidra.closed
    <3>1. NeedsClosing
      BY <1>7, <2>3 DEF Close, CloseBegins, GhidraType
    <3> QED
      BY <2>1, <2>3, <3>1 DEF CloseBegins, NeedsClosing, GhidraType
  <2>4. CASE process'.pc = "scripts" /\ NeedsClosing /\ CloseEnds("main")
    <3>1. ghidra.closing \ {"main"} = {}
      BY <2>1 DEF GhidraType
    <3>2. CASE ghidra' = [ghidra EXCEPT !.closing = @ \ {"main"}, !.closed = TRUE, !.open = FALSE]
      <4>1. ghidra'.closing = {} /\ ghidra'.jvm = ghidra.jvm /\ ~ghidra'.open
        BY <3>1, <3>2 DEF GhidraType
      <4> QED
        BY <2>1, <2>4, <4>1
    <3>3. CASE ghidra' = [ghidra EXCEPT !.closing = @ \ {"main"}, !.failed = TRUE]
      <4>1. /\ ghidra'.closing = {} /\ ghidra'.jvm = ghidra.jvm /\ ghidra'.failed
            /\ ghidra'.open = ghidra.open /\ ghidra'.closed = ghidra.closed
        BY <3>1, <3>3 DEF GhidraType
      <4> QED
        BY <2>1, <2>4, <4>1
    <3> QED
      BY <2>4, <3>2, <3>3 DEF CloseEnds
  <2>5. CASE process'.pc = "scripts" /\ ghidra' = ghidra /\ ~NeedsClosing
    BY <1>a, <2>1, <2>5 DEF NeedsClosing, GhidraType
  <2> QED
    BY <2>2, <2>3, <2>4, <2>5
<1>8. CASE Exit
  BY <1>8 DEF Exit, ProcessType
<1>9. CASE SignalServing
  BY <1>9 DEF SignalServing, ProcessType
<1>13. CASE SignalDeferred
  BY <1>13 DEF SignalDeferred, ProcessType
<1>10. CASE SignalRaises
  BY <1>10 DEF SignalRaises, ProcessType
<1>11. CASE TransportEnds \/ LoopCloses
  BY <1>11 DEF TransportEnds, LoopCloses, Process, ProcessType, ProcessProgress
<1>12. CASE LoopRunsStep \/ \E c \in GateCalls : Arrive(c) \/ Awake(c) \/ ReadFailed(c) \/ ReadStarting(c)
  BY <1>12 DEF LoopRunsStep, Arrive, Awake, ReadFailed, ReadStarting
<1> QED
  BY <1>1, <1>2, <1>3, <1>4, <1>5, <1>6, <1>7, <1>8, <1>9, <1>10, <1>11, <1>12, <1>13, <1>14 DEF ServerNext, StartupThread, MainThread

\* No call is told of a failure without its reason.
LEMMA AnswerStep ==
  ASSUME LifeTypeOK, StartupProgress, ServerNext, \A c \in GateCalls : gateCall[c] # "no_reason"
  PROVE  \A c \in GateCalls : gateCall'[c] # "no_reason"
<1>1. gateCall \in [GateCalls -> Answers]
  BY DEF LifeTypeOK
<1>2. CASE TransportEnds
  BY <1>1, <1>2 DEF TransportEnds
<1>3. ASSUME NEW c \in GateCalls, Arrive(c) \/ Awake(c) \/ ReadFailed(c) \/ ReadStarting(c)
      PROVE  \A d \in GateCalls : gateCall'[d] # "no_reason"
  BY <1>1, <1>3 DEF Arrive, Awake, ReadFailed, ReadStarting, Answer, StartupProgress
<1>4. CASE StartupThread
  BY <1>4 DEF StartupThread, Boundary, RunStep, PostStep, StepDone, StepAbandoned, Release, LeaveStartup,
     GiveReason, MarkFailed, StopServing, MarkReady
<1>5. CASE MainThread
  BY <1>5 DEF MainThread, Serve, Return, StopStartup, JoinStartup, Close, Exit
<1>6. CASE Misconfigured \/ SignalServing \/ SignalRaises \/ SignalDeferred \/ LoopCloses \/ LoopRunsStep
  BY <1>6 DEF Misconfigured, SignalServing, SignalRaises, SignalDeferred, LoopCloses, LoopRunsStep
<1> QED
  BY <1>2, <1>3, <1>4, <1>5, <1>6 DEF ServerNext

LEMMA ServerInitHolds == ServerInit => ServerIInv
<1> SUFFICES ASSUME ServerInit PROVE ServerIInv
  OBVIOUS
<1> USE ServerAssumption DEF ServerInit
<1>1. LifeTypeOK
  <2>1. gate \in GateType /\ thread \in ThreadType
    BY DEF GateType, ThreadType, ThreadPcs
  <2>2. process \in ProcessType /\ ghidra \in GhidraType
    BY DEF ProcessType, ProcessPcs, GhidraType
  <2> QED
    BY <2>1, <2>2 DEF LifeTypeOK, Answers
<1>2. StartupProgress /\ ProcessProgress /\ Closing
  BY DEF StartupProgress, ProcessProgress, Closing, NeedsClosing
<1> QED
  BY <1>1, <1>2 DEF ServerIInv

LEMMA ServerStep ==
  ASSUME ServerIInv, [ServerNext]_serverVars
  PROVE  ServerIInv'
<1>1. CASE ServerNext
  BY <1>1, LifeTypeStep, StartupProgressStep, ProcessProgressStep, ClosingStep, AnswerStep DEF ServerIInv
<1>2. CASE UNCHANGED serverVars
  <2>1. LifeTypeOK'
    BY <1>2 DEF serverVars, threadVars, ServerIInv, LifeTypeOK
  <2>2. StartupProgress' /\ ProcessProgress' /\ Closing'
    BY <1>2 DEF serverVars, threadVars, ServerIInv, StartupProgress, ProcessProgress, Closing, NeedsClosing
  <2> QED
    BY <1>2, <2>1, <2>2 DEF serverVars, ServerIInv
<1> QED
  BY <1>1, <1>2

LEMMA ServerIInvImplies == ServerIInv => ServerInvariant
<1> SUFFICES ASSUME ServerIInv PROVE ServerInvariant
  OBVIOUS
<1>1. ServerTypeOK
  BY DEF ServerIInv, LifeTypeOK, GateType, ThreadType, ProcessType, GhidraType, ServerTypeOK
<1>2. ClosedOnce
  <2>1. Closing /\ StartupProgress /\ ProcessProgress
    BY DEF ServerIInv
  <2>2. ghidra.closing \subseteq {"startup", "main"}
    BY DEF ServerIInv, LifeTypeOK, GhidraType
  <2> QED
    BY <2>1, <2>2 DEF Closing, StartupProgress, ProcessProgress, ClosedOnce
<1>3. GateIsTrue
  <2>1. StartupProgress /\ \A c \in GateCalls : gateCall[c] # "no_reason"
    BY DEF ServerIInv
  <2> QED
    BY <2>1, ServerAssumption DEF StartupProgress, GateIsTrue
<1>4. FailureIsTheExitCode
  BY DEF ServerIInv, StartupProgress, ProcessProgress, FailureIsTheExitCode
<1> QED
  BY <1>1, <1>2, <1>3, <1>4 DEF ServerInvariant

\* However many steps the startup has and wherever a signal, a failure or the end
\* of the transport strikes: Ghidra is closed once and before the process ends,
\* the gate says what the startup did, and a failed startup shows in the exit code.
THEOREM ServerHolds == ServerSpec => []ServerInvariant
<1>1. ServerInit => ServerIInv
  BY ServerInitHolds
<1>2. ServerIInv /\ [ServerNext]_serverVars => ServerIInv'
  BY ServerStep
<1>3. ServerIInv => ServerInvariant
  BY ServerIInvImplies
<1> QED
  BY <1>1, <1>2, <1>3, PTL DEF ServerSpec

-----------------------------------------------------------------------------
(* The locks of its calls                                                  *)
(*                                                                         *)
(* That two calls with the same key have the same lock is not inductive:   *)
(* the entry goes with its last user, so an entry's count has to be the    *)
(* number of calls that still have its lock (UsersAreCounted), and a call  *)
(* that unlocks has to be the lock's owner (HoldersOwn).                   *)

\* The calls that have reserved a lock, for whatever key.
UsersOf(l) == {c \in Calls : \E k \in Keys : lockOf[c][k] = l}

UsersAreCounted == \A l \in Locks : users[l] = Cardinality(UsersOf(l))

\* A call holds only locks it reserved, and owns each of them.
HoldersOwn ==
  \A c \in Calls : \A k \in held[c] : lockOf[c][k] # None /\ owner[lockOf[c][k]] = c

\* What a call has reserved and noted where it stands: all it wants while it locks,
\* all it holds but at most the one it unlocks next.
Paperwork ==
  \A c \in Calls :
    /\ at[c] = "locking" => Reserved(c) = Wanted(c)
    /\ at[c] \in {"waiting", "working"} => noted[c] = held[c]
    /\ at[c] = "unlocking" /\ noted[c] # held[c] =>
         \E k \in Keys : IsLast(c, k, held[c]) /\ noted[c] = held[c] \ {k}

\* A writer that fasteners let wait is in its queue.
WritersQueue ==
  \A c \in Calls :
    at[c] = "waiting" /\ plan[c].kind = "write" => \E i \in DOMAIN pendingWriters : pendingWriters[i] = c

LocksIInv == LocksInvariant /\ UsersAreCounted /\ HoldersOwn /\ Paperwork /\ WritersQueue

LEMMA LocksInitHolds == LocksInit => LocksIInv
<1> SUFFICES ASSUME LocksInit PROVE LocksIInv
  OBVIOUS
<1> USE LocksAssumption DEF LocksInit
<1>1. LocksTypeOK
  BY DEF LocksTypeOK
<1>2. OneLockPerKey /\ KeysAreExclusive /\ ReportsWhatItHolds /\ RuntimeExclusive
  BY DEF OneLockPerKey, KeysAreExclusive, ReportsWhatItHolds, RuntimeExclusive
<1>3. HoldersOwn /\ Paperwork /\ WritersQueue
  BY DEF HoldersOwn, Paperwork, WritersQueue
<1>4. \A l \in Locks : UsersOf(l) = {}
  BY DEF UsersOf
<1>5. UsersAreCounted
  BY <1>4, FS_EmptySet DEF UsersAreCounted
<1> QED
  BY <1>1, <1>2, <1>3, <1>5 DEF LocksIInv, LocksInvariant

\* Plans name keys only.
LEMMA WantedKeys ==
  ASSUME LocksTypeOK, NEW c \in Calls
  PROVE  /\ \A i \in DOMAIN plan[c].keys : plan[c].keys[i] \in Keys
         /\ plan[c].kind \in Kinds
BY LocksAssumption DEF LocksTypeOK

\* There is one last key among those that are done.
LEMMA OneLast ==
  ASSUME LocksTypeOK, NEW c \in Calls, NEW done, NEW j, NEW k, IsLast(c, j, done), IsLast(c, k, done)
  PROVE  j = k
<1>1. plan[c].keys \in Seq(Keys)
  BY LocksAssumption DEF LocksTypeOK
<1>2. DOMAIN plan[c].keys \subseteq Nat
  BY <1>1
<1> QED
  BY <1>2 DEF IsLast

\* A reservation: the lock of the key's entry, or one nobody has.
LEMMA ReserveStep ==
  ASSUME LocksIInv, NEW c \in Calls, NEW k \in Keys, NEW l \in Locks, Reserve(c, k, l)
  PROVE  LocksIInv'
<1>0. LocksTypeOK /\ OneLockPerKey /\ UsersAreCounted /\ HoldersOwn
  BY DEF LocksIInv, LocksInvariant
<1>1. /\ pool \in [Keys -> Locks \union {None}] /\ users \in [Locks -> Nat]
      /\ lockOf \in [Calls -> [Keys -> Locks \union {None}]]
  BY <1>0 DEF LocksTypeOK
<1>2. /\ pool' = [pool EXCEPT ![k] = l] /\ users' = [users EXCEPT ![l] = @ + 1]
      /\ lockOf' = [lockOf EXCEPT ![c][k] = l] /\ EntryFor(k, l)
      /\ UNCHANGED <<plan, at, owner, held, noted, tardy, readers, writer, pendingWriters>>
  BY DEF Reserve, runtimeLock
<1>3. lockOf[c][k] = None
  BY DEF Reserve, IsNext, Reserved
<1>4. c \notin UsersOf(l)
  BY <1>0, <1>1, <1>2, <1>3, LocksAssumption DEF EntryFor, OneLockPerKey, UsersOf
<1>5. /\ pool' \in [Keys -> Locks \union {None}] /\ users' \in [Locks -> Nat]
      /\ lockOf' \in [Calls -> [Keys -> Locks \union {None}]]
  BY <1>1, <1>2
<1>6. LocksTypeOK'
  BY <1>0, <1>2, <1>5 DEF LocksTypeOK
<1>7. OneLockPerKey'
  <2>1. \A d \in Calls, j \in Keys : lockOf'[d][j] # None => lockOf'[d][j] = pool'[j]
    BY <1>0, <1>1, <1>2, LocksAssumption DEF EntryFor, OneLockPerKey
  <2>2. \A j \in Keys : pool'[j] # None => users'[pool'[j]] > 0
    BY <1>0, <1>1, <1>2, LocksAssumption DEF EntryFor, OneLockPerKey
  <2>3. \A i, j \in Keys : pool'[i] = pool'[j] /\ pool'[i] # None => i = j
    BY <1>0, <1>1, <1>2, LocksAssumption DEF EntryFor, OneLockPerKey
  <2> QED
    BY <2>1, <2>2, <2>3 DEF OneLockPerKey
<1>8. UsersAreCounted'
  <2>1. \A d \in Calls, j \in Keys : lockOf'[d][j] = IF d = c /\ j = k THEN l ELSE lockOf[d][j]
    BY <1>1, <1>2
  <2>2. UsersOf(l)' = UsersOf(l) \union {c}
    BY <2>1 DEF UsersOf
  <2>3. \A m \in Locks \ {l} : UsersOf(m)' = UsersOf(m)
    BY <1>3, <2>1, LocksAssumption DEF UsersOf
  <2>4. IsFiniteSet(UsersOf(l))
    BY LocksAssumption, FS_Subset DEF UsersOf
  <2>5. Cardinality(UsersOf(l)') = Cardinality(UsersOf(l)) + 1
    BY <1>4, <2>2, <2>4, FS_AddElement
  <2> QED
    BY <1>0, <1>1, <1>2, <2>3, <2>5 DEF UsersAreCounted
<1>9. HoldersOwn'
  BY <1>0, <1>1, <1>2, <1>3 DEF HoldersOwn, LocksTypeOK
<1> QED
  <2>1. KeysAreExclusive' /\ ReportsWhatItHolds' /\ RuntimeExclusive'
    BY <1>2 DEF LocksIInv, LocksInvariant, KeysAreExclusive, ReportsWhatItHolds, RuntimeExclusive
  <2>2. Paperwork' /\ WritersQueue'
    <3>1. \A d \in Calls : d # c => Reserved(d)' = Reserved(d)
      BY <1>1, <1>2 DEF Reserved
    <3>2. at[c] = "reserving"
      BY DEF Reserve
    <3> QED
      BY <1>2, <3>1, <3>2 DEF LocksIInv, Paperwork, WritersQueue, Wanted, IsLast
  <2> QED
    BY <1>6, <1>7, <1>8, <1>9, <2>1, <2>2 DEF LocksIInv, LocksInvariant

\* The end of one; the last user's takes the entry with it.
LEMMA UnreserveStep ==
  ASSUME LocksIInv, NEW c \in Calls, NEW k \in Keys, Unreserve(c, k)
  PROVE  LocksIInv'
<1>0. LocksTypeOK /\ OneLockPerKey /\ UsersAreCounted /\ HoldersOwn
  BY DEF LocksIInv, LocksInvariant
<1>1. /\ pool \in [Keys -> Locks \union {None}] /\ users \in [Locks -> Nat]
      /\ lockOf \in [Calls -> [Keys -> Locks \union {None}]] /\ held \in [Calls -> SUBSET Keys]
  BY <1>0 DEF LocksTypeOK
<1>2. PICK l \in Locks : l = lockOf[c][k]
  BY <1>1 DEF Unreserve, IsLast, Reserved
<1>3. /\ pool' = Popped(k, l) /\ users' = [users EXCEPT ![l] = @ - 1]
      /\ lockOf' = [lockOf EXCEPT ![c][k] = None] /\ held[c] = {}
      /\ UNCHANGED <<plan, at, owner, held, noted, tardy, readers, writer, pendingWriters>>
  BY <1>2 DEF Unreserve, runtimeLock
<1>4. l = pool[k]
  BY <1>0, <1>2, LocksAssumption DEF OneLockPerKey
<1>5. \A d \in Calls, j \in Keys : lockOf[d][j] = l => j = k
  BY <1>0, <1>4, LocksAssumption DEF OneLockPerKey
<1>6. \A d \in Calls, j \in Keys : lockOf'[d][j] = IF d = c /\ j = k THEN None ELSE lockOf[d][j]
  BY <1>1, <1>3
<1>7. UsersOf(l)' = UsersOf(l) \ {c} /\ c \in UsersOf(l)
  BY <1>2, <1>5, <1>6, LocksAssumption DEF UsersOf
<1>8. \A m \in Locks \ {l} : UsersOf(m)' = UsersOf(m)
  BY <1>2, <1>6, LocksAssumption DEF UsersOf
<1>9. IsFiniteSet(UsersOf(l)) /\ IsFiniteSet(UsersOf(l)')
  BY LocksAssumption, FS_Subset DEF UsersOf
<1>10. /\ users[l] = Cardinality(UsersOf(l)) /\ Cardinality(UsersOf(l)') = Cardinality(UsersOf(l)) - 1
       /\ Cardinality(UsersOf(l)') \in Nat
  BY <1>0, <1>7, <1>9, FS_RemoveElement, FS_CardinalityType DEF UsersAreCounted
<1>11. users' \in [Locks -> Nat] /\ users'[l] = Cardinality(UsersOf(l)')
  BY <1>1, <1>3, <1>10
<1>12. UsersAreCounted'
  BY <1>0, <1>1, <1>3, <1>8, <1>11 DEF UsersAreCounted
<1>13. LocksTypeOK'
  <2>1. pool' \in [Keys -> Locks \union {None}]
    BY <1>1, <1>3 DEF Popped
  <2>2. lockOf' \in [Calls -> [Keys -> Locks \union {None}]]
    BY <1>1, <1>3
  <2> QED
    BY <1>0, <1>3, <1>11, <2>1, <2>2 DEF LocksTypeOK
<1>14. OneLockPerKey'
  <2>1. ASSUME NEW d \in Calls, NEW j \in Keys, lockOf'[d][j] # None
        PROVE  lockOf'[d][j] = pool'[j]
    <3>1. lockOf'[d][j] = lockOf[d][j] /\ lockOf[d][j] = pool[j]
      BY <1>0, <1>6, <2>1 DEF OneLockPerKey
    <3>2. CASE pool'[j] # pool[j]
      <4>1. j = k /\ users[l] = 1
        BY <1>1, <1>3, <3>2 DEF Popped
      <4>2. d \in UsersOf(l)'
        BY <1>4, <3>1, <4>1 DEF UsersOf
      <4>3. Cardinality(UsersOf(l)') = 0
        BY <1>10, <4>1
      <4> QED
        BY <1>9, <4>2, <4>3, FS_EmptySet
    <3> QED
      BY <3>1, <3>2
  <2>2. ASSUME NEW j \in Keys, pool'[j] # None
        PROVE  users'[pool'[j]] > 0 /\ pool'[j] = pool[j]
    <3>1. pool'[j] = pool[j] /\ users[pool[j]] > 0
      BY <1>0, <1>1, <1>3, <2>2 DEF OneLockPerKey, Popped
    <3>2. CASE j = k
      BY <1>1, <1>3, <1>4, <2>2, <3>1, <3>2 DEF Popped
    <3>3. CASE j # k
      <4>1. pool[j] # l /\ pool[j] \in Locks
        BY <1>0, <1>1, <1>4, <2>2, <3>1, <3>3 DEF OneLockPerKey
      <4> QED
        BY <1>1, <1>3, <3>1, <4>1
    <3> QED
      BY <3>1, <3>2, <3>3
  <2>3. ASSUME NEW i \in Keys, NEW j \in Keys, pool'[i] = pool'[j], pool'[i] # None
        PROVE  i = j
    BY <1>0, <2>2, <2>3 DEF OneLockPerKey
  <2> QED
    BY <2>1, <2>2, <2>3 DEF OneLockPerKey
<1>15. HoldersOwn'
  BY <1>0, <1>3, <1>6 DEF HoldersOwn, LocksTypeOK
<1> QED
  <2>1. KeysAreExclusive' /\ ReportsWhatItHolds' /\ RuntimeExclusive'
    BY <1>3 DEF LocksIInv, LocksInvariant, KeysAreExclusive, ReportsWhatItHolds, RuntimeExclusive
  <2>2. Paperwork' /\ WritersQueue'
    <3>1. \A d \in Calls : d # c => Reserved(d)' = Reserved(d)
      BY <1>1, <1>3 DEF Reserved
    <3>2. at[c] = "unlocking"
      BY DEF Unreserve
    <3> QED
      BY <1>3, <3>1, <3>2 DEF LocksIInv, Paperwork, WritersQueue, Wanted, IsLast
  <2> QED
    BY <1>12, <1>13, <1>14, <1>15, <2>1, <2>2 DEF LocksIInv, LocksInvariant

\* The locks themselves, taken and given back by their owner.
LEMMA LockStep ==
  ASSUME LocksIInv, NEW c \in Calls, NEW k \in Keys, Lock(c, k) \/ Unlock(c, k)
  PROVE  LocksIInv'
<1>0. LocksTypeOK /\ OneLockPerKey /\ HoldersOwn /\ KeysAreExclusive /\ ReportsWhatItHolds
  BY DEF LocksIInv, LocksInvariant
<1>1. /\ pool \in [Keys -> Locks \union {None}] /\ owner \in [Locks -> Calls \union {None}]
      /\ lockOf \in [Calls -> [Keys -> Locks \union {None}]]
      /\ held \in [Calls -> SUBSET Keys] /\ noted \in [Calls -> SUBSET Keys]
  BY <1>0 DEF LocksTypeOK
<1>2. UNCHANGED <<plan, at, pool, users, lockOf, noted, tardy, readers, writer, pendingWriters>>
  BY DEF Lock, Unlock, runtimeLock
<1>3. \A d \in Calls : \A j \in held[d] :
        lockOf[d][j] \in Locks /\ lockOf[d][j] = pool[j] /\ owner[lockOf[d][j]] = d
  BY <1>0, <1>1 DEF HoldersOwn, OneLockPerKey
<1>4. \A d, e \in Calls : \A i \in held[d], j \in held[e] : lockOf[d][i] = lockOf[e][j] => i = j
  BY <1>0, <1>1, <1>3, LocksAssumption DEF OneLockPerKey
<1>5. CASE Lock(c, k)
  <2>1. /\ k \notin held[c] /\ owner[lockOf[c][k]] = None /\ noted[c] = held[c]
        /\ owner' = [owner EXCEPT ![lockOf[c][k]] = c] /\ held' = [held EXCEPT ![c] = @ \union {k}]
        /\ at[c] = "locking" /\ k \in Wanted(c)
    BY <1>5 DEF Lock, IsNext, Wanted
  <2>2. PICK l \in Locks : l = lockOf[c][k]
    BY <1>1, <2>1 DEF LocksIInv, Paperwork, Reserved
  <2>3. l = pool[k] /\ owner[l] = None /\ owner' = [owner EXCEPT ![l] = c]
    BY <1>0, <2>1, <2>2, LocksAssumption DEF OneLockPerKey
  <2>4. \A d \in Calls : k \notin held[d]
    BY <1>3, <2>3, LocksAssumption
  <2>5. owner' \in [Locks -> Calls \union {None}] /\ held' \in [Calls -> SUBSET Keys]
    BY <1>1, <2>1, <2>3, ZenonT(60)
  <2>6. LocksTypeOK'
    BY <1>0, <1>2, <2>5 DEF LocksTypeOK
  <2>7. HoldersOwn'
    <3>1. ASSUME NEW d \in Calls, NEW j \in held'[d]
          PROVE  lockOf'[d][j] # None /\ owner'[lockOf'[d][j]] = d
      <4>1. lockOf'[d][j] = lockOf[d][j] /\ (j \in held[d] \/ (d = c /\ j = k))
        BY <1>1, <1>2, <2>1, <3>1
      <4>2. CASE j \in held[d]
        BY <1>1, <1>3, <2>3, <4>1, <4>2, LocksAssumption
      <4>3. CASE d = c /\ j = k
        BY <1>1, <2>2, <2>3, <4>1, <4>3, LocksAssumption
      <4> QED
        BY <4>1, <4>2, <4>3
    <3> QED
      BY <3>1 DEF HoldersOwn
  <2>8. KeysAreExclusive' /\ ReportsWhatItHolds'
    BY <1>0, <1>1, <1>2, <2>1, <2>4 DEF KeysAreExclusive, ReportsWhatItHolds
  <2>9. Paperwork'
    <3>1. \A d \in Calls : d # c => held'[d] = held[d]
      BY <1>1, <2>1
    <3> QED
      BY <1>2, <2>1, <3>1 DEF LocksIInv, Paperwork, Reserved, Wanted, IsLast
  <2> QED
    BY <1>2, <2>6, <2>7, <2>8, <2>9 DEF LocksIInv, LocksInvariant, OneLockPerKey, UsersAreCounted, UsersOf,
       RuntimeExclusive, WritersQueue
<1>6. CASE Unlock(c, k)
  <2>1. /\ k \in held[c] /\ noted[c] # held[c] /\ IsLast(c, k, held[c]) /\ at[c] = "unlocking"
        /\ owner' = [owner EXCEPT ![lockOf[c][k]] = None] /\ held' = [held EXCEPT ![c] = @ \ {k}]
    BY <1>6 DEF Unlock, IsLast
  <2>2. noted[c] = held[c] \ {k}
    BY <1>0, <2>1, OneLast DEF LocksIInv, Paperwork
  <2>3. PICK l \in Locks : l = lockOf[c][k]
    BY <1>3, <2>1
  <2>4. owner' = [owner EXCEPT ![l] = None]
    BY <2>1, <2>3
  <2>5. owner' \in [Locks -> Calls \union {None}] /\ held' \in [Calls -> SUBSET Keys]
    BY <1>1, <2>1, <2>4
  <2>6. LocksTypeOK'
    BY <1>0, <1>2, <2>5 DEF LocksTypeOK
  <2>7. HoldersOwn'
    <3>1. ASSUME NEW d \in Calls, NEW j \in held'[d]
          PROVE  lockOf'[d][j] # None /\ owner'[lockOf'[d][j]] = d
      <4>1. j \in held[d] /\ lockOf'[d][j] = lockOf[d][j] /\ (d = c => j # k)
        BY <1>1, <1>2, <2>1, <3>1
      <4>2. lockOf[d][j] # l
        BY <1>3, <1>4, <2>1, <2>3, <4>1
      <4> QED
        BY <1>1, <1>3, <2>4, <4>1, <4>2, LocksAssumption
    <3> QED
      BY <3>1 DEF HoldersOwn
  <2>8. KeysAreExclusive' /\ ReportsWhatItHolds'
    BY <1>0, <1>1, <1>2, <2>1, <2>2 DEF KeysAreExclusive, ReportsWhatItHolds
  <2>9. Paperwork'
    <3>1. held'[c] = noted'[c] /\ \A d \in Calls : d # c => held'[d] = held[d]
      BY <1>1, <1>2, <2>1, <2>2
    <3>2. Paperwork /\ \A d \in Calls : Reserved(d)' = Reserved(d) /\ Wanted(d)' = Wanted(d)
      BY <1>2 DEF LocksIInv, Reserved, Wanted
    <3>3. \A d \in Calls, j \in Keys : d # c => (IsLast(d, j, held[d])' <=> IsLast(d, j, held[d]))
      BY <1>2, <3>1 DEF IsLast
    <3> QED
      BY <1>2, <2>1, <3>1, <3>2, <3>3 DEF Paperwork
  <2> QED
    BY <1>2, <2>6, <2>7, <2>8, <2>9 DEF LocksIInv, LocksInvariant, OneLockPerKey, UsersAreCounted, UsersOf,
       RuntimeExclusive, WritersQueue
<1> QED
  BY <1>5, <1>6

\* What a call notes of them.
LEMMA NoteStep ==
  ASSUME LocksIInv, NEW c \in Calls, NoteAcquired(c) \/ \E k \in Keys : NoteReleased(c, k)
  PROVE  LocksIInv'
<1>0. LocksTypeOK /\ ReportsWhatItHolds /\ Paperwork
  BY DEF LocksIInv, LocksInvariant
<1>1. held \in [Calls -> SUBSET Keys] /\ noted \in [Calls -> SUBSET Keys]
  BY <1>0 DEF LocksTypeOK
<1>2. UNCHANGED <<plan, at, pool, users, owner, lockOf, held, tardy, readers, writer, pendingWriters>>
  BY DEF NoteAcquired, NoteReleased, runtimeLock
<1>3. \/ at[c] = "locking" /\ noted' = [noted EXCEPT ![c] = held[c]]
      \/ \E k \in Keys :
           /\ at[c] = "unlocking" /\ noted[c] = held[c] /\ IsLast(c, k, held[c])
           /\ noted' = [noted EXCEPT ![c] = @ \ {k}]
  BY DEF NoteAcquired, NoteReleased
<1>4. noted' \in [Calls -> SUBSET Keys]
  BY <1>1, <1>3
<1>5. LocksTypeOK'
  BY <1>0, <1>2, <1>4 DEF LocksTypeOK
<1>6. ReportsWhatItHolds' /\ Paperwork'
  BY <1>0, <1>1, <1>2, <1>3 DEF ReportsWhatItHolds, Paperwork, Reserved, Wanted, IsLast
<1> QED
  BY <1>2, <1>5, <1>6 DEF LocksIInv, LocksInvariant, OneLockPerKey, UsersAreCounted, UsersOf, HoldersOwn,
     KeysAreExclusive, RuntimeExclusive, WritersQueue

\* The way between the locks, and the runtime's lock.
LEMMA RuntimeLockStep ==
  ASSUME LocksIInv, NEW c \in Calls,
         \/ Begin(c) \/ StartLocking(c) \/ End(c) \/ Deadline(c) \/ (\E k \in Keys : LockTimeout(c, k))
         \/ Locked(c) \/ EnterAsReader(c) \/ EnterAsWriter(c) \/ EnterBounded(c) \/ GiveUp(c) \/ Finish(c)
  PROVE  LocksIInv'
<1>0. LocksTypeOK /\ RuntimeExclusive /\ Paperwork /\ WritersQueue
  BY DEF LocksIInv, LocksInvariant
<1>1. /\ at \in [Calls -> {"idle", "reserving", "locking", "waiting", "working", "unlocking"}]
      /\ tardy \subseteq Calls /\ readers \subseteq Calls /\ writer \in Calls \union {None}
      /\ pendingWriters \in Seq(Calls)
  BY <1>0 DEF LocksTypeOK
<1>2. UNCHANGED <<plan, pool, users, owner, lockOf, held, noted>>
  BY DEF Begin, StartLocking, End, Deadline, LockTimeout, Locked, EnterAsReader, EnterAsWriter, EnterBounded,
     GiveUp, Finish, keyed
<1>3. ASSUME at' \in [Calls -> {"idle", "reserving", "locking", "waiting", "working", "unlocking"}],
             tardy' \subseteq Calls, readers' \subseteq Calls, writer' \in Calls \union {None},
             pendingWriters' \in Seq(Calls), RuntimeExclusive', Paperwork', WritersQueue'
      PROVE  LocksIInv'
  <2>1. LocksTypeOK'
    BY <1>0, <1>2, <1>3 DEF LocksTypeOK
  <2> QED
    BY <1>2, <1>3, <2>1 DEF LocksIInv, LocksInvariant, OneLockPerKey, UsersAreCounted, UsersOf, HoldersOwn,
       KeysAreExclusive, ReportsWhatItHolds
<1>4. ASSUME NEW to \in {"idle", "reserving", "locking", "unlocking"}, Move(c, to), tardy' \subseteq Calls, UNCHANGED runtimeLock,
             at[c] # "working", to = "locking" => Reserved(c) = Wanted(c),
             to = "unlocking" => noted[c] = held[c]
      PROVE  LocksIInv'
  <2>1. at' \in [Calls -> {"idle", "reserving", "locking", "waiting", "working", "unlocking"}]
    BY <1>1, <1>4 DEF Move
  <2>2. RuntimeExclusive'
    BY <1>0, <1>1, <1>4 DEF RuntimeExclusive, Move, runtimeLock
  <2>3. Paperwork'
    BY <1>0, <1>1, <1>2, <1>4 DEF Paperwork, Move, Reserved, Wanted, IsLast
  <2>4. WritersQueue'
    BY <1>0, <1>1, <1>2, <1>4 DEF WritersQueue, Move, runtimeLock
  <2> QED
    BY <1>1, <1>3, <1>4, <2>1, <2>2, <2>3, <2>4 DEF runtimeLock
<1>5. CASE Begin(c) \/ StartLocking(c) \/ End(c) \/ (\E k \in Keys : LockTimeout(c, k)) \/ GiveUp(c)
  <2>1. CASE Begin(c)
    BY <1>1, <1>4, <2>1 DEF Begin
  <2>2. CASE StartLocking(c)
    BY <1>1, <1>4, <2>2 DEF StartLocking
  <2>3. CASE End(c)
    BY <1>1, <1>4, <2>3 DEF End
  <2>4. CASE \E k \in Keys : LockTimeout(c, k)
    BY <1>1, <1>4, <2>4 DEF LockTimeout
  <2>5. CASE GiveUp(c)
    BY <1>0, <1>1, <1>4, <2>5 DEF GiveUp, Paperwork
  <2> QED
    BY <1>5, <2>1, <2>2, <2>3, <2>4, <2>5
<1>6. CASE Deadline(c)
  <2>1. UNCHANGED <<at, runtimeLock>> /\ tardy' \subseteq Calls
    BY <1>1, <1>6 DEF Deadline
  <2>2. RuntimeExclusive' /\ Paperwork' /\ WritersQueue'
    BY <1>0, <1>2, <2>1 DEF RuntimeExclusive, Paperwork, WritersQueue, Reserved, Wanted, IsLast, runtimeLock
  <2> QED
    BY <1>1, <1>3, <2>1, <2>2 DEF runtimeLock
<1>7. CASE Locked(c)
  <2>1. /\ at[c] = "locking" /\ noted[c] = held[c] /\ at' = [at EXCEPT ![c] = "waiting"] /\ tardy' \subseteq Calls
        /\ pendingWriters' = IF plan[c].kind = "write" THEN Append(pendingWriters, c) ELSE pendingWriters
        /\ UNCHANGED <<readers, writer>>
    BY <1>1, <1>7 DEF Locked, Move
  <2>2. at' \in [Calls -> {"idle", "reserving", "locking", "waiting", "working", "unlocking"}]
    BY <1>1, <2>1
  <2>3. /\ pendingWriters' \in Seq(Calls)
        /\ \A i \in DOMAIN pendingWriters : i \in DOMAIN pendingWriters' /\ pendingWriters'[i] = pendingWriters[i]
        /\ plan[c].kind = "write" => \E i \in DOMAIN pendingWriters' : pendingWriters'[i] = c
    BY <1>1, <2>1
  <2>4. WritersQueue'
    BY <1>0, <1>1, <1>2, <2>1, <2>3 DEF WritersQueue
  <2>5. RuntimeExclusive' /\ Paperwork'
    BY <1>0, <1>1, <1>2, <2>1 DEF RuntimeExclusive, Paperwork, Reserved, Wanted, IsLast
  <2> QED
    BY <1>1, <1>3, <2>1, <2>2, <2>3, <2>4, <2>5
<1>8. CASE EnterAsReader(c) \/ EnterBounded(c) \/ EnterAsWriter(c)
  <2>1. /\ at[c] = "waiting" /\ at' = [at EXCEPT ![c] = "working"] /\ UNCHANGED tardy
        /\ writer = None /\ readers' \subseteq Calls /\ writer' \in {None, c} /\ (writer' = c => readers' = {})
    BY <1>1, <1>8, LocksAssumption DEF EnterAsReader, EnterBounded, EnterAsWriter, Move, Taken
  <2>2. at' \in [Calls -> {"idle", "reserving", "locking", "waiting", "working", "unlocking"}]
    BY <1>1, <2>1
  <2>3. pendingWriters' \in Seq(Calls) /\ WritersQueue'
    <3>1. CASE UNCHANGED pendingWriters
      BY <1>0, <1>1, <1>2, <2>1, <3>1 DEF WritersQueue
    <3>2. CASE EnterAsWriter(c)
      <4>1. pendingWriters # <<>> /\ Head(pendingWriters) = c /\ pendingWriters' = Tail(pendingWriters)
        BY <1>0, <3>2 DEF EnterAsWriter, WritersQueue
      <4>2. pendingWriters' \in Seq(Calls) /\ Len(pendingWriters') = Len(pendingWriters) - 1
        BY <1>1, <4>1
      <4>3. ASSUME NEW d \in Calls, at'[d] = "waiting", plan'[d].kind = "write"
            PROVE  \E i \in DOMAIN pendingWriters' : pendingWriters'[i] = d
        <5>1. d # c /\ at[d] = "waiting"
          BY <1>1, <2>1, <4>3
        <5>2. PICK i \in 1..Len(pendingWriters) : pendingWriters[i] = d
          BY <1>0, <1>1, <1>2, <4>3, <5>1 DEF WritersQueue
        <5>3. i # 1
          BY <1>1, <4>1, <5>1, <5>2
        <5>4. i - 1 \in DOMAIN pendingWriters' /\ pendingWriters'[i - 1] = d
          BY <1>1, <4>1, <4>2, <5>2, <5>3
        <5> QED
          BY <5>4
      <4> QED
        BY <4>2, <4>3 DEF WritersQueue
    <3> QED
      BY <1>8, <3>1, <3>2 DEF EnterAsReader, EnterBounded
  <2>4. RuntimeExclusive' /\ Paperwork'
    BY <1>0, <1>1, <1>2, <2>1, LocksAssumption DEF RuntimeExclusive, Paperwork, Reserved, Wanted, IsLast
  <2> QED
    BY <1>1, <1>3, <2>1, <2>2, <2>3, <2>4
<1>9. CASE Finish(c)
  <2>1. /\ at[c] = "working" /\ at' = [at EXCEPT ![c] = "unlocking"] /\ UNCHANGED <<tardy, pendingWriters>>
        /\ readers' = readers \ {c} /\ writer' = IF writer = c THEN None ELSE writer
    BY <1>9 DEF Finish, Move
  <2>2. at' \in [Calls -> {"idle", "reserving", "locking", "waiting", "working", "unlocking"}]
    BY <1>1, <2>1
  <2>3. RuntimeExclusive' /\ Paperwork'
    BY <1>0, <1>1, <1>2, <2>1 DEF RuntimeExclusive, Paperwork, Reserved, Wanted, IsLast
  <2>4. WritersQueue'
    BY <1>0, <1>1, <1>2, <2>1 DEF WritersQueue
  <2> QED
    BY <1>1, <1>3, <2>1, <2>2, <2>3, <2>4
<1> QED
  BY <1>5, <1>6, <1>7, <1>8, <1>9

LEMMA LocksStep ==
  ASSUME LocksIInv, [LocksNext]_lockVars
  PROVE  LocksIInv'
<1>1. CASE LocksNext
  BY <1>1, ReserveStep, UnreserveStep, LockStep, NoteStep, RuntimeLockStep DEF LocksNext, Forward
<1>2. CASE UNCHANGED lockVars
  <2>1. UNCHANGED <<plan, at, pool, users, owner, lockOf, held, noted, tardy, readers, writer, pendingWriters>>
    BY <1>2 DEF lockVars, keyed, runtimeLock
  <2>2. LocksTypeOK'
    BY <2>1 DEF LocksIInv, LocksInvariant, LocksTypeOK
  <2> QED
    BY <2>1, <2>2 DEF LocksIInv, LocksInvariant, OneLockPerKey, UsersAreCounted, UsersOf, HoldersOwn,
       KeysAreExclusive, ReportsWhatItHolds, RuntimeExclusive, WritersQueue, Paperwork, Reserved, Wanted, IsLast
<1> QED
  BY <1>1, <1>2

\* However many calls with whatever keys: calls that name the same key have the same
\* lock, no two work under it, a call reports only what it holds, and a writer works
\* alone, also when calls time out half way and entries come and go (LockManager,
\* CallLocks, OperationLock).
THEOREM LocksHold == LocksSpec => []LocksInvariant
<1>1. LocksInit => LocksIInv
  BY LocksInitHolds
<1>2. LocksIInv /\ [LocksNext]_lockVars => LocksIInv'
  BY LocksStep
<1>3. LocksIInv => LocksInvariant
  BY DEF LocksIInv
<1> QED
  BY <1>1, <1>2, <1>3, PTL DEF LocksSpec

-----------------------------------------------------------------------------
(* The GUI's threads                                                       *)

GuiMainType == [pc : {"jvm", "display", "project_lock", "decide", "gui", "left", "cleanup", "exited"}, code : {0, 1, 130}]
LaunchType == [jvm : BOOLEAN, checks : BOOLEAN, started : BOOLEAN, finished : BOOLEAN, aborted : BOOLEAN,
               failure : {"none", "display", "project_lock", "gui"}]
StartupSteps == {"jvm", "display", "project_lock", "front_end", "project_open", "workspace", "code_browser", "core"}
StartupType == [at : StartupSteps, read : BOOLEAN, told : BOOLEAN, outcome : {"running", "failed", "stopped", "ready"}]
GuiServerType == [pc : {"serving", "told", "ended"}, abort : {"none", "in_time", "late"}]
ScreenType == [thread : BOOLEAN, frontEnd : BOOLEAN, project : {"none", "ours", "other"}, workspace : BOOLEAN,
               tool : BOOLEAN, dialog : BOOLEAN]

GuiTyped ==
  /\ main \in GuiMainType /\ launch \in LaunchType /\ startup \in StartupType
  /\ quiet \in 0..Limit /\ busy \in 0..BusyLimit /\ closings \in 0..1
  /\ server \in GuiServerType /\ halt \in BOOLEAN /\ screen \in ScreenType

\* How far the main thread came, and what the launcher says of it then: one
\* failure, after which the main thread only leaves.
MainProgress ==
  /\ main.pc \in {"jvm", "display", "project_lock", "decide", "gui"} => main.code = 0 /\ launch.failure = "none"
  /\ main.pc \in {"jvm", "display", "project_lock", "decide"} => ~launch.started
  /\ main.pc = "jvm" => ~launch.jvm
  /\ main.pc \in {"display", "project_lock", "decide", "gui"} => launch.jvm
  /\ main.pc = "left" => main.code = 0 /\ launch.failure # "none"
  /\ main.pc = "cleanup" => main.code = 1
  /\ launch.checks <=> launch.started
  /\ launch.finished <=> launch.failure # "none"
  /\ launch.started => launch.jvm /\ launch.failure \in {"none", "gui"}
  /\ ~launch.jvm => launch.failure \in {"none", "gui"}

\* A step of the startup that passed has seen what the next one relies on; one
\* that failed for the JVM saw the launcher's failure or ran out of time.
StartupPassed ==
  /\ startup.at = "project_lock" => launch.started \/ launch.failure = "project_lock"
  /\ startup.at \in {"front_end", "project_open", "workspace", "code_browser", "core"} => launch.started
  /\ startup.at \in {"workspace", "code_browser", "core"} => screen.project = "ours"
  /\ startup.at = "core" => screen.tool
  /\ startup.outcome = "ready" => startup.at = "core"
  /\ startup.outcome = "failed" /\ startup.at = "jvm" => launch.failure = "gui" \/ quiet = Limit

AbortIsRemembered == launch.aborted <=> server.abort # "none"

GuiParts == StageIsTrue /\ AbortOrGui /\ ReadyIsUsable /\ MainProgress /\ StartupPassed /\ AbortIsRemembered
GuiIInv == GuiTyped /\ GuiParts

\* The types under their names.
LEMMA GuiTypes == GuiTyped => GuiTypeOK
<1>1. DOMAIN After = StartupSteps
  BY DEF After, StartupSteps
<1> QED
  BY <1>1 DEF GuiTyped, GuiTypeOK, GuiMainType, LaunchType, StartupType, GuiServerType, ScreenType

\* The launch that failed: the first failure stays.
LEMMA FailsEffect ==
  ASSUME main \in GuiMainType, launch \in LaunchType, NEW stage \in {"display", "project_lock", "gui"}, Fails(stage)
  PROVE  /\ main' \in GuiMainType /\ main'.pc = "left" /\ main'.code = main.code
         /\ launch' \in LaunchType /\ launch'.finished /\ (launch'.jvm <=> launch.jvm)
         /\ (launch'.checks <=> launch.checks) /\ (launch'.started <=> launch.started)
         /\ (launch'.aborted <=> launch.aborted)
         /\ launch'.failure = IF launch.failure = "none" THEN stage ELSE launch.failure
<1>1. main' \in GuiMainType /\ main'.pc = "left" /\ main'.code = main.code
  BY DEF Fails, GuiMainType
<1>2. (IF launch.failure = "none" THEN stage ELSE launch.failure) \in {"none", "display", "project_lock", "gui"}
  BY DEF LaunchType
<1>3. launch' = [launch EXCEPT !.failure = IF launch.failure = "none" THEN stage ELSE launch.failure, !.finished = TRUE]
  BY DEF Fails
<1> QED
  BY <1>1, <1>2, <1>3 DEF LaunchType

\* The step after one that passed.
LEMMA PassesEffect ==
  ASSUME startup \in StartupType, Passes
  PROVE  /\ startup' \in StartupType /\ quiet' = 0 /\ busy' = 0
         /\ startup.at = "core" => startup'.at = "core" /\ startup'.outcome = "ready"
         /\ startup.at # "core" => startup'.outcome = startup.outcome
         /\ startup.at = "jvm" => startup'.at = "display"
         /\ startup.at = "display" => startup'.at = "project_lock"
         /\ startup.at = "project_lock" => startup'.at = "front_end"
         /\ startup.at = "front_end" => startup'.at = "project_open"
         /\ startup.at = "project_open" => startup'.at = "workspace"
         /\ startup.at = "workspace" => startup'.at = "code_browser"
         /\ startup.at = "code_browser" => startup'.at = "core"
<1>1. quiet' = 0 /\ busy' = 0
  BY DEF Passes, Goes
<1>2. CASE startup.at = "core"
  <2>1. After[startup.at] = "ready"
    BY <1>2 DEF After
  <2>2. startup' = [startup EXCEPT !.outcome = "ready"]
    BY <2>1 DEF Passes, Goes
  <2> QED
    BY <1>1, <1>2, <2>2 DEF StartupType
<1>3. CASE startup.at # "core"
  <2>1. startup.at \in StartupSteps \ {"core"}
    BY <1>3 DEF StartupType
  <2>2. /\ After["jvm"] = "display" /\ After["display"] = "project_lock" /\ After["project_lock"] = "front_end"
        /\ After["front_end"] = "project_open" /\ After["project_open"] = "workspace"
        /\ After["workspace"] = "code_browser" /\ After["code_browser"] = "core"
    BY DEF After
  <2>3. After[startup.at] \in StartupSteps \ {"ready"}
    BY <2>1, <2>2 DEF StartupSteps
  <2>4. startup' = [startup EXCEPT !.at = After[startup.at], !.read = FALSE]
    BY <2>3 DEF Passes, Goes, StartupSteps
  <2> QED
    BY <1>1, <1>3, <2>1, <2>2, <2>3, <2>4 DEF StartupType
<1> QED
  BY <1>2, <1>3

\* How a step ends the thread.
LEMMA RaisesEffect ==
  ASSUME startup \in StartupType, Raises
  PROVE  /\ startup' \in StartupType /\ quiet' = quiet /\ busy' = busy
         /\ startup'.at = startup.at /\ (startup'.read <=> startup.read) /\ startup'.outcome = "failed"
BY DEF Raises, StartupType

LEMMA StopsEffect ==
  ASSUME startup \in StartupType, Stops
  PROVE  /\ startup' \in StartupType /\ quiet' = quiet /\ busy' = busy
         /\ startup'.at = startup.at /\ (startup'.read <=> startup.read) /\ startup'.outcome = "stopped"
BY DEF Stops, StartupType

\* A wait that goes on stays within its limits, and one of the JVM only raises
\* at the first limit.
LEMMA GoesOnEffect ==
  ASSUME Limit \in Nat, BusyLimit \in Nat, quiet \in 0..Limit, busy \in 0..BusyLimit,
         startup \in StartupType, startup.outcome = "running",
         NEW progress \in BOOLEAN, NEW working \in BOOLEAN, GoesOn(progress, working)
  PROVE  /\ quiet' \in 0..Limit /\ busy' \in 0..BusyLimit
         /\ Raises \/ startup' = startup
         /\ Raises /\ ~working => quiet = Limit
<1>1. Raises => startup' # startup
  BY DEF Raises, StartupType
<1> QED
  BY <1>1 DEF GoesOn, Raises

LEMMA DeadlineEffect ==
  ASSUME Limit \in Nat, quiet \in 0..Limit, busy \in 0..BusyLimit, DeadlineGoesOn
  PROVE  /\ quiet' \in 0..Limit /\ busy' \in 0..BusyLimit
         /\ Raises \/ startup' = startup
BY DEF DeadlineGoesOn, Raises

\* Where the process begins.
LEMMA GuiInitially == ASSUME Limit \in Nat, BusyLimit \in Nat, GuiInit PROVE GuiIInv
<1>1. main \in GuiMainType /\ main.pc = "jvm" /\ main.code = 0
  BY DEF GuiInit, GuiMainType
<1>2. launch \in LaunchType /\ launch.failure = "none" /\ ~launch.started /\ ~launch.checks /\ ~launch.finished
      /\ ~launch.aborted /\ ~launch.jvm
  BY DEF GuiInit, LaunchType
<1>3. startup \in StartupType /\ startup.at = "jvm" /\ startup.outcome = "running"
  BY DEF GuiInit, StartupType, StartupSteps
<1>4. server \in GuiServerType /\ server.abort = "none"
  BY DEF GuiInit, GuiServerType
<1>5. screen \in ScreenType
  BY DEF GuiInit, ScreenType
<1>6. quiet \in 0..Limit /\ busy \in 0..BusyLimit /\ closings \in 0..1
  BY DEF GuiInit
<1>7. halt \in BOOLEAN
  BY Zenon DEF GuiInit
<1>8. GuiParts
  BY <1>1, <1>2, <1>3, <1>4 DEF GuiParts, StageIsTrue, AbortOrGui, ReadyIsUsable, MainProgress, StartupPassed,
     AbortIsRemembered
<1> QED
  BY <1>1, <1>2, <1>3, <1>4, <1>5, <1>6, <1>7, <1>8 DEF GuiIInv, GuiTyped

\* The launch fails at a stage the main thread has reached.
LEMMA FailureKeeps ==
  ASSUME GuiIInv, NEW stage \in {"display", "project_lock", "gui"}, Fails(stage),
         stage = main.pc \/ (stage = "gui" /\ main.pc \in {"jvm", "decide", "gui"}),
         UNCHANGED <<startup, quiet, busy, server, halt, closings>>,
         screen' \in ScreenType, screen'.project = screen.project, screen'.tool <=> screen.tool
  PROVE  GuiIInv'
<1>1. GuiTyped /\ main \in GuiMainType /\ launch \in LaunchType
  BY DEF GuiIInv, GuiTyped
<1>2. /\ main' \in GuiMainType /\ main'.pc = "left" /\ main'.code = main.code
      /\ launch' \in LaunchType /\ launch'.finished /\ (launch'.jvm <=> launch.jvm)
      /\ (launch'.checks <=> launch.checks) /\ (launch'.started <=> launch.started)
      /\ (launch'.aborted <=> launch.aborted)
      /\ launch'.failure = IF launch.failure = "none" THEN stage ELSE launch.failure
  BY <1>1, FailsEffect
<1>3. GuiTyped'
  BY <1>1, <1>2 DEF GuiTyped
<1>4. launch.failure = "none" /\ main.code = 0 /\ launch'.failure = stage
  BY <1>2 DEF GuiIInv, GuiParts, MainProgress
<1>5. stage # "gui" => ~launch.started /\ launch.jvm
  BY DEF GuiIInv, GuiParts, MainProgress
<1>6. StageIsTrue' /\ AbortOrGui' /\ ReadyIsUsable'
  BY <1>2, <1>4, <1>5 DEF GuiIInv, GuiParts, StageIsTrue, AbortOrGui, ReadyIsUsable, MainProgress, StartupPassed
<1>7. MainProgress' /\ StartupPassed' /\ AbortIsRemembered'
  BY <1>2, <1>4, <1>5 DEF GuiIInv, GuiParts, MainProgress, StartupPassed, AbortIsRemembered
<1> QED
  BY <1>3, <1>6, <1>7 DEF GuiIInv, GuiParts

\* A step of the main thread, or the end of Ghidra.
LEMMA MainKeeps ==
  ASSUME GuiIInv, StartJvm \/ GuiMainThread \/ GhidraRunRaises \/ GhidraExits
  PROVE  GuiIInv'
<1> USE DEF GuiIInv, GuiParts
<1>1. main \in GuiMainType /\ launch \in LaunchType /\ screen \in ScreenType /\ GuiTyped
  BY DEF GuiTyped
<1>2. CASE StartJvm
  <2>1. CASE Fails("gui")
    BY <1>1, <1>2, <2>1, FailureKeeps DEF StartJvm
  <2>2. CASE launch' = [launch EXCEPT !.jvm = TRUE] /\ main' = [main EXCEPT !.pc = "display"]
    <3>1. /\ main' \in GuiMainType /\ main'.pc = "display" /\ main'.code = main.code /\ main.pc = "jvm"
          /\ launch' \in LaunchType /\ launch'.jvm /\ (launch'.finished <=> launch.finished)
          /\ (launch'.checks <=> launch.checks) /\ (launch'.started <=> launch.started)
          /\ (launch'.aborted <=> launch.aborted) /\ launch'.failure = launch.failure
      BY <1>1, <1>2, <2>2 DEF GuiMainType, LaunchType, StartJvm
    <3>2. GuiTyped'
      BY <1>1, <1>2, <3>1 DEF GuiTyped, StartJvm
    <3>3. StageIsTrue' /\ AbortOrGui' /\ ReadyIsUsable' /\ MainProgress' /\ StartupPassed' /\ AbortIsRemembered'
      BY <1>2, <3>1 DEF StartJvm, StageIsTrue, AbortOrGui, ReadyIsUsable, MainProgress, StartupPassed, AbortIsRemembered
    <3> QED
      BY <3>2, <3>3
  <2> QED
    BY <1>2, <2>1, <2>2 DEF StartJvm
<1>3. ASSUME NEW stage \in {"display", "project_lock"}, NEW next \in {"project_lock", "decide"}, Check(stage, next)
      PROVE  GuiIInv'
  <2>1. CASE Fails(stage)
    BY <1>1, <1>3, <2>1, FailureKeeps DEF Check
  <2>2. CASE main' = [main EXCEPT !.pc = next] /\ UNCHANGED launch
    <3>1. main' \in GuiMainType /\ main'.pc = next /\ main'.code = main.code /\ main.pc = stage
      BY <1>1, <1>3, <2>2 DEF GuiMainType, Check
    <3>2. GuiTyped'
      BY <1>1, <1>3, <2>2, <3>1 DEF GuiTyped, Check
    <3>3. StageIsTrue' /\ AbortOrGui' /\ ReadyIsUsable' /\ MainProgress' /\ StartupPassed' /\ AbortIsRemembered'
      BY <1>3, <2>2, <3>1 DEF Check, StageIsTrue, AbortOrGui, ReadyIsUsable, MainProgress, StartupPassed, AbortIsRemembered
    <3> QED
      BY <3>2, <3>3
  <2> QED
    BY <1>3, <2>1, <2>2 DEF Check
<1>4. CASE Decide
  <2>1. CASE launch.aborted
    BY <1>1, <1>4, <2>1, FailureKeeps DEF Decide
  <2>2. CASE ~launch.aborted
    <3>1. /\ main' \in GuiMainType /\ main'.pc = "gui" /\ main'.code = main.code /\ main.pc = "decide"
          /\ launch' \in LaunchType /\ (launch'.jvm <=> launch.jvm) /\ (launch'.finished <=> launch.finished)
          /\ launch'.checks /\ launch'.started
          /\ (launch'.aborted <=> launch.aborted) /\ launch'.failure = launch.failure
      <4>1. main' = [main EXCEPT !.pc = "gui"] /\ main.pc = "decide"
            /\ launch' = [launch EXCEPT !.checks = TRUE, !.started = TRUE]
        BY <1>4, <2>2 DEF Decide
      <4> QED
        BY <1>1, <4>1 DEF GuiMainType, LaunchType
    <3>2. screen' \in ScreenType /\ screen'.project = screen.project /\ (screen'.tool <=> screen.tool)
      BY <1>1, <1>4, <2>2 DEF ScreenType, Decide
    <3>3. GuiTyped'
      BY <1>1, <1>4, <3>1, <3>2 DEF GuiTyped, Decide
    <3>4. StageIsTrue' /\ AbortOrGui' /\ ReadyIsUsable' /\ MainProgress' /\ StartupPassed' /\ AbortIsRemembered'
      BY <1>4, <2>2, <3>1, <3>2 DEF Decide, StageIsTrue, AbortOrGui, ReadyIsUsable, MainProgress, StartupPassed, AbortIsRemembered
    <3> QED
      BY <3>3, <3>4
  <2> QED
    BY <2>1, <2>2
<1>5. CASE GhidraRunRaises
  <2>1. screen' \in ScreenType /\ screen'.project = screen.project /\ (screen'.tool <=> screen.tool)
    BY <1>1, <1>5 DEF ScreenType, GhidraRunRaises
  <2> QED
    BY <1>5, <2>1, FailureKeeps DEF GhidraRunRaises
<1>6. CASE GhidraExits
  <2>1. main' \in GuiMainType /\ main'.pc = "exited" /\ main'.code = main.code /\ main.pc = "gui"
    BY <1>1, <1>6 DEF GuiMainType, GhidraExits
  <2>2. halt' \in BOOLEAN
    BY <1>1, <1>6, Zenon DEF GuiTyped, GhidraExits
  <2>3. GuiTyped'
    BY <1>1, <1>6, <2>1, <2>2 DEF GuiTyped, GhidraExits
  <2>4. StageIsTrue' /\ AbortOrGui' /\ ReadyIsUsable'
    BY <1>1, <1>6, <2>1, <2>2 DEF GhidraExits, StageIsTrue, AbortOrGui, ReadyIsUsable, MainProgress, StartupPassed, AbortIsRemembered
  <2>5. MainProgress' /\ StartupPassed' /\ AbortIsRemembered'
    BY <1>1, <1>6, <2>1, <2>2 DEF GhidraExits, StageIsTrue, AbortOrGui, ReadyIsUsable, MainProgress, StartupPassed, AbortIsRemembered
  <2> QED
    BY <2>3, <2>4, <2>5 DEF GuiIInv, GuiParts
<1>7. CASE AwaitServer
  <2>1. main' \in GuiMainType /\ main'.pc = "cleanup" /\ main'.code = 1 /\ main.pc = "left"
    BY <1>1, <1>7 DEF GuiMainType, AwaitServer
  <2>2. halt' \in BOOLEAN
    BY <1>1, <1>7, Zenon DEF GuiTyped, AwaitServer
  <2>3. GuiTyped'
    BY <1>1, <1>7, <2>1, <2>2 DEF GuiTyped, AwaitServer
  <2>4. StageIsTrue' /\ AbortOrGui' /\ ReadyIsUsable'
    BY <1>1, <1>7, <2>1, <2>2 DEF AwaitServer, StageIsTrue, AbortOrGui, ReadyIsUsable, MainProgress, StartupPassed, AbortIsRemembered
  <2>5. MainProgress' /\ StartupPassed' /\ AbortIsRemembered'
    BY <1>1, <1>7, <2>1, <2>2 DEF AwaitServer, StageIsTrue, AbortOrGui, ReadyIsUsable, MainProgress, StartupPassed, AbortIsRemembered
  <2> QED
    BY <2>3, <2>4, <2>5 DEF GuiIInv, GuiParts
<1>8. CASE JoinGuiStartup
  <2>1. main' \in GuiMainType /\ main'.pc = "exited" /\ main'.code = main.code /\ main.pc = "cleanup"
    BY <1>1, <1>8 DEF GuiMainType, JoinGuiStartup
  <2>2. halt' \in BOOLEAN
    BY <1>1, <1>8, Zenon DEF GuiTyped, JoinGuiStartup
  <2>3. GuiTyped'
    BY <1>1, <1>8, <2>1, <2>2 DEF GuiTyped, JoinGuiStartup
  <2>4. StageIsTrue' /\ AbortOrGui' /\ ReadyIsUsable'
    BY <1>1, <1>8, <2>1, <2>2 DEF JoinGuiStartup, StageIsTrue, AbortOrGui, ReadyIsUsable, MainProgress, StartupPassed, AbortIsRemembered
  <2>5. MainProgress' /\ StartupPassed' /\ AbortIsRemembered'
    BY <1>1, <1>8, <2>1, <2>2 DEF JoinGuiStartup, StageIsTrue, AbortOrGui, ReadyIsUsable, MainProgress, StartupPassed, AbortIsRemembered
  <2> QED
    BY <2>3, <2>4, <2>5 DEF GuiIInv, GuiParts
<1> QED
  BY <1>2, <1>3, <1>4, <1>5, <1>6, <1>7, <1>8 DEF GuiMainThread

\* A step of the startup thread.
LEMMA StartupKeeps ==
  ASSUME Limit \in Nat, BusyLimit \in Nat, GuiIInv, GuiStartupThread
  PROVE  GuiIInv'
<1> USE DEF GuiIInv, GuiParts
<1>1. startup \in StartupType /\ quiet \in 0..Limit /\ busy \in 0..BusyLimit /\ 0 \in 0..Limit /\ 0 \in 0..BusyLimit
  BY DEF GuiTyped
<1>2. screen.dialog \in BOOLEAN /\ screen.thread \in BOOLEAN
  BY DEF GuiTyped, ScreenType
\* Whatever a step does, the facts to show are about what it saw when it ended.
<1>3. ASSUME Unmoved, startup.outcome = "running", Passes,
             startup.at = "display" => launch.checks \/ launch.failure = "project_lock",
             startup.at = "project_lock" => launch.checks,
             startup.at = "project_open" => screen.project = "ours",
             startup.at = "code_browser" => screen.tool
      PROVE  GuiIInv'
  <2>1. /\ startup' \in StartupType /\ quiet' = 0 /\ busy' = 0
        /\ startup.at = "core" => startup'.at = "core" /\ startup'.outcome = "ready"
        /\ startup.at # "core" => startup'.outcome = "running"
        /\ startup.at = "jvm" => startup'.at = "display"
        /\ startup.at = "display" => startup'.at = "project_lock"
        /\ startup.at = "project_lock" => startup'.at = "front_end"
        /\ startup.at = "front_end" => startup'.at = "project_open"
        /\ startup.at = "project_open" => startup'.at = "workspace"
        /\ startup.at = "workspace" => startup'.at = "code_browser"
        /\ startup.at = "code_browser" => startup'.at = "core"
    BY <1>1, <1>3, PassesEffect
  <2>2. GuiTyped'
    BY <1>1, <1>3, <2>1 DEF GuiTyped, Unmoved
  <2>3. startup.at \in StartupSteps
    BY <1>1 DEF StartupType
  <2>4. StageIsTrue' /\ AbortOrGui' /\ MainProgress' /\ AbortIsRemembered'
    BY <1>3, <2>1, <2>3 DEF Unmoved, StartupSteps, StageIsTrue, AbortOrGui, MainProgress, AbortIsRemembered
  <2>5. StartupPassed' /\ ReadyIsUsable'
    BY <1>3, <2>1, <2>3 DEF Unmoved, StartupSteps, ReadyIsUsable, MainProgress, StartupPassed
  <2> QED
    BY <2>2, <2>4, <2>5
<1>4. ASSUME Unmoved, Raises,
             startup.at = "jvm" => launch.failure = "gui" \/ quiet = Limit,
             startup.at \in {"display", "project_lock"} => launch.failure \in {startup.at, "gui"} \/ startup.read
      PROVE  GuiIInv'
  <2>1. /\ startup' \in StartupType /\ quiet' = quiet /\ busy' = busy
        /\ startup'.at = startup.at /\ (startup'.read <=> startup.read) /\ startup'.outcome = "failed"
    BY <1>1, <1>4, RaisesEffect
  <2>2. GuiTyped'
    BY <1>1, <1>4, <2>1 DEF GuiTyped, Unmoved
  <2>3. startup.at \in StartupSteps
    BY <1>1 DEF StartupType
  <2>4. StageIsTrue'
    BY <1>4, <2>1, <2>3 DEF Unmoved, StartupSteps, StageIsTrue, StartupPassed
  <2>5. AbortOrGui' /\ ReadyIsUsable' /\ MainProgress' /\ StartupPassed' /\ AbortIsRemembered'
    BY <1>4, <2>1 DEF Unmoved, AbortOrGui, ReadyIsUsable, MainProgress, StartupPassed, AbortIsRemembered
  <2> QED
    BY <2>2, <2>4, <2>5
<1>5. ASSUME Unmoved, startup.outcome = "running", startup' \in StartupType, quiet' \in 0..Limit, busy' \in 0..BusyLimit,
             startup'.at = startup.at, startup'.outcome \in {"running", "stopped"}
      PROVE  GuiIInv'
  <2>1. GuiTyped'
    BY <1>5 DEF GuiTyped, Unmoved
  <2>2. StageIsTrue' /\ AbortOrGui' /\ ReadyIsUsable' /\ MainProgress' /\ StartupPassed' /\ AbortIsRemembered'
    BY <1>5 DEF Unmoved, StageIsTrue, AbortOrGui, ReadyIsUsable, MainProgress, StartupPassed, AbortIsRemembered
  <2> QED
    BY <2>1, <2>2
<1>6. ASSUME Unmoved, startup.outcome = "running", Stops
      PROVE  GuiIInv'
  BY <1>1, <1>5, <1>6, StopsEffect
<1>7. CASE WaitForJvm
  <2>1. Unmoved /\ startup.outcome = "running" /\ startup.at = "jvm"
    BY <1>7 DEF WaitForJvm, At
  <2>2. CASE Passes
    BY <1>3, <2>1, <2>2
  <2>3. CASE Stops
    BY <1>6, <2>1, <2>3
  <2>4. CASE Raises /\ (launch.jvm \/ launch.finished) /\ (launch.failure = "gui" \/ ~launch.jvm)
    <3>1. launch.failure = "gui"
      BY <2>4 DEF MainProgress
    <3> QED
      BY <1>4, <2>1, <2>4, <3>1
  <2>5. CASE GoesOn(FALSE, FALSE)
    <3>1. quiet' \in 0..Limit /\ busy' \in 0..BusyLimit /\ (Raises \/ startup' = startup) /\ (Raises => quiet = Limit)
      BY <1>1, <2>1, <2>5, GoesOnEffect
    <3> QED
      BY <1>1, <1>4, <1>5, <2>1, <3>1
  <2> QED
    BY <1>7, <2>2, <2>3, <2>4, <2>5 DEF WaitForJvm
<1>8. ASSUME NEW step \in {"display", "project_lock"}, ReadFailure(step)
      PROVE  GuiIInv'
  <2>1. Unmoved /\ startup.outcome = "running" /\ startup.at = step
    BY <1>8 DEF ReadFailure, At
  <2>2. CASE launch.checks
    <3>1. Passes
      BY <1>8, <2>2 DEF ReadFailure
    <3> QED
      BY <1>3, <2>1, <2>2, <3>1
  <2>3. CASE ~launch.checks /\ launch.failure = "none"
    <3>1. startup' = [startup EXCEPT !.read = TRUE] /\ quiet' = quiet /\ busy' = busy
      BY <1>8, <2>3 DEF ReadFailure
    <3>2. startup' \in StartupType /\ startup'.at = startup.at /\ startup'.outcome = startup.outcome
      BY <1>1, <3>1 DEF StartupType
    <3> QED
      BY <1>1, <1>5, <2>1, <3>1, <3>2
  <2>4. CASE ~launch.checks /\ step = "display" /\ launch.failure = "project_lock"
    BY <1>3, <1>8, <2>1, <2>4 DEF ReadFailure
  <2>5. CASE ~launch.checks /\ launch.failure # "none" /\ ~(step = "display" /\ launch.failure = "project_lock")
    <3>1. Raises
      BY <1>8, <2>5 DEF ReadFailure
    <3>2. launch.failure \in {"display", "project_lock", "gui"}
      BY <2>5 DEF GuiTyped, LaunchType
    <3>3. launch.failure \in {startup.at, "gui"}
      BY <2>1, <2>5, <3>2 DEF StartupPassed, MainProgress
    <3> QED
      BY <1>4, <2>1, <3>1, <3>3
  <2> QED
    BY <2>2, <2>3, <2>4, <2>5
<1>9. ASSUME NEW step \in {"display", "project_lock"}, ReadEnd(step)
      PROVE  GuiIInv'
  <2>1. Unmoved /\ startup.outcome = "running" /\ startup.at = step /\ startup.read
    BY <1>9 DEF ReadEnd, At
  <2>2. CASE Raises
    BY <1>4, <2>1, <2>2
  <2>3. CASE Stops
    BY <1>6, <2>1, <2>3
  <2>4. CASE startup' = [startup EXCEPT !.read = FALSE] /\ UNCHANGED <<quiet, busy>>
    <3>1. startup' \in StartupType /\ startup'.at = startup.at /\ startup'.outcome = startup.outcome
      BY <1>1, <2>4 DEF StartupType
    <3> QED
      BY <1>1, <1>5, <2>1, <2>4, <3>1
  <2> QED
    BY <1>9, <2>2, <2>3, <2>4 DEF ReadEnd
<1>10. CASE WaitForFrontEnd
  <2>1. Unmoved /\ startup.outcome = "running" /\ startup.at = "front_end"
    BY <1>10 DEF WaitForFrontEnd, At
  <2>2. CASE Passes
    BY <1>3, <2>1, <2>2
  <2>3. CASE Raises
    BY <1>4, <2>1, <2>3
  <2>4. CASE Stops
    BY <1>6, <2>1, <2>4
  <2>5. CASE GoesOn(screen.dialog, screen.thread)
    <3>1. quiet' \in 0..Limit /\ busy' \in 0..BusyLimit /\ (Raises \/ startup' = startup)
      BY <1>1, <1>2, <2>1, <2>5, GoesOnEffect
    <3> QED
      BY <1>1, <1>5, <2>1, <2>3, <3>1
  <2> QED
    BY <1>10, <2>2, <2>3, <2>4, <2>5 DEF WaitForFrontEnd
<1>11. CASE WaitForProject
  <2>1. Unmoved /\ startup.outcome = "running" /\ startup.at = "project_open"
    BY <1>11 DEF WaitForProject, At
  <2>2. CASE Passes /\ screen.project = "ours"
    BY <1>3, <2>1, <2>2
  <2>3. CASE Raises
    BY <1>4, <2>1, <2>3
  <2>4. CASE Stops
    BY <1>6, <2>1, <2>4
  <2>5. CASE GoesOn(screen.dialog, FALSE)
    <3>1. quiet' \in 0..Limit /\ busy' \in 0..BusyLimit /\ (Raises \/ startup' = startup)
      BY <1>1, <1>2, <2>1, <2>5, GoesOnEffect
    <3> QED
      BY <1>1, <1>5, <2>1, <2>3, <3>1
  <2> QED
    BY <1>11, <2>2, <2>3, <2>4, <2>5 DEF WaitForProject
<1>12. CASE WaitForWorkspace
  <2>1. Unmoved /\ startup.outcome = "running" /\ startup.at = "workspace"
    BY <1>12 DEF WaitForWorkspace, At
  <2>2. CASE Passes
    BY <1>3, <2>1, <2>2
  <2>3. CASE Raises
    BY <1>4, <2>1, <2>3
  <2>4. CASE Stops
    BY <1>6, <2>1, <2>4
  <2>5. CASE DeadlineGoesOn
    <3>1. quiet' \in 0..Limit /\ busy' \in 0..BusyLimit /\ (Raises \/ startup' = startup)
      BY <1>1, <2>5, DeadlineEffect
    <3> QED
      BY <1>1, <1>5, <2>1, <2>3, <3>1
  <2> QED
    BY <1>12, <2>2, <2>3, <2>4, <2>5 DEF WaitForWorkspace
<1>13. CASE WaitForCodeBrowser
  <2>1. Unmoved /\ startup.outcome = "running" /\ startup.at = "code_browser"
    BY <1>13 DEF WaitForCodeBrowser, At
  <2>2. CASE Passes /\ screen.tool
    BY <1>3, <2>1, <2>2
  <2>3. CASE Raises
    BY <1>4, <2>1, <2>3
  <2>4. CASE DeadlineGoesOn
    <3>1. quiet' \in 0..Limit /\ busy' \in 0..BusyLimit /\ (Raises \/ startup' = startup)
      BY <1>1, <2>4, DeadlineEffect
    <3> QED
      BY <1>1, <1>5, <2>1, <2>3, <3>1
  <2>5. CASE Stops
    BY <1>6, <2>1, <2>5
  <2>6. CASE startup' = [startup EXCEPT !.read = TRUE] /\ UNCHANGED <<quiet, busy>>
    <3>1. startup' \in StartupType /\ startup'.at = startup.at /\ startup'.outcome = startup.outcome
      BY <1>1, <2>6 DEF StartupType
    <3> QED
      BY <1>1, <1>5, <2>1, <2>6, <3>1
  <2> QED
    BY <1>13, <2>2, <2>3, <2>4, <2>5, <2>6 DEF WaitForCodeBrowser
<1>14. CASE LoadCore
  <2>1. Unmoved /\ startup.outcome = "running" /\ startup.at = "core"
    BY <1>14 DEF LoadCore, At
  <2>2. CASE Passes
    BY <1>3, <2>1, <2>2
  <2>3. CASE Raises
    BY <1>4, <2>1, <2>3
  <2> QED
    BY <1>14, <2>2, <2>3 DEF LoadCore
<1>15. CASE KeepServing
  <2>1. startup' \in StartupType /\ startup'.at = startup.at /\ startup'.outcome = startup.outcome
        /\ (startup'.read <=> startup.read)
    BY <1>1, <1>15 DEF KeepServing, StartupType
  <2>2. server' \in GuiServerType /\ server'.abort = server.abort
    BY <1>15 DEF KeepServing, GuiTyped, GuiServerType
  <2>3. GuiTyped'
    BY <1>1, <1>15, <2>1, <2>2 DEF GuiTyped, KeepServing
  <2>4. StageIsTrue' /\ AbortOrGui' /\ ReadyIsUsable'
    BY <1>1, <1>15, <2>1, <2>2 DEF KeepServing, StageIsTrue, AbortOrGui, ReadyIsUsable, MainProgress, StartupPassed, AbortIsRemembered
  <2>5. MainProgress' /\ StartupPassed' /\ AbortIsRemembered'
    BY <1>1, <1>15, <2>1, <2>2 DEF KeepServing, StageIsTrue, AbortOrGui, ReadyIsUsable, MainProgress, StartupPassed, AbortIsRemembered
  <2> QED
    BY <2>3, <2>4, <2>5 DEF GuiIInv, GuiParts
<1> QED
  BY <1>7, <1>8, <1>9, <1>10, <1>11, <1>12, <1>13, <1>14, <1>15 DEF GuiStartupThread

\* A step of the server, of Ghidra, of the human or of a signal.
LEMMA OutsideKeeps ==
  ASSUME GuiIInv, EndServing \/ Abort \/ Shows \/ Signal \/ Cancelled
  PROVE  GuiIInv'
<1> USE DEF GuiIInv, GuiParts
<1>1. main \in GuiMainType /\ launch \in LaunchType /\ server \in GuiServerType /\ screen \in ScreenType /\ GuiTyped
  BY DEF GuiTyped
<1>2. CASE EndServing
  <2>1. server' \in GuiServerType /\ server'.abort = server.abort
    BY <1>1, <1>2 DEF EndServing, GuiServerType
  <2>2. halt' \in BOOLEAN
    BY <1>2, Zenon DEF EndServing
  <2>3. GuiTyped'
    BY <1>1, <1>2, <2>1, <2>2 DEF GuiTyped, EndServing
  <2>4. StageIsTrue' /\ AbortOrGui' /\ ReadyIsUsable'
    BY <1>1, <1>2, <2>1, <2>2 DEF EndServing, StageIsTrue, AbortOrGui, ReadyIsUsable, MainProgress, StartupPassed, AbortIsRemembered
  <2>5. MainProgress' /\ StartupPassed' /\ AbortIsRemembered'
    BY <1>1, <1>2, <2>1, <2>2 DEF EndServing, StageIsTrue, AbortOrGui, ReadyIsUsable, MainProgress, StartupPassed, AbortIsRemembered
  <2> QED
    BY <2>3, <2>4, <2>5 DEF GuiIInv, GuiParts
<1>3. CASE Abort
  <2>1. server' \in GuiServerType /\ server'.abort = IF launch.started THEN "late" ELSE "in_time"
    BY <1>1, <1>3 DEF Abort, GuiServerType
  <2>2. /\ launch' \in LaunchType /\ (launch'.jvm <=> launch.jvm) /\ (launch'.finished <=> launch.finished)
        /\ (launch'.checks <=> launch.checks) /\ (launch'.started <=> launch.started)
        /\ launch'.aborted /\ launch'.failure = launch.failure
    BY <1>1, <1>3 DEF Abort, LaunchType
  <2>3. GuiTyped'
    BY <1>1, <1>3, <2>1, <2>2 DEF GuiTyped, Abort
  <2>4. StageIsTrue' /\ AbortOrGui' /\ ReadyIsUsable'
    BY <1>1, <1>3, <2>1, <2>2 DEF Abort, StageIsTrue, AbortOrGui, ReadyIsUsable, MainProgress, StartupPassed, AbortIsRemembered
  <2>5. MainProgress' /\ StartupPassed' /\ AbortIsRemembered'
    BY <1>1, <1>3, <2>1, <2>2 DEF Abort, StageIsTrue, AbortOrGui, ReadyIsUsable, MainProgress, StartupPassed, AbortIsRemembered
  <2> QED
    BY <2>3, <2>4, <2>5 DEF GuiIInv, GuiParts
<1>4. CASE Shows
  <2>1. screen' \in ScreenType /\ (screen.project # "none" => screen'.project = screen.project) /\ (screen.tool => screen'.tool)
    BY <1>1, <1>4 DEF Shows, ScreenType
  <2>2. GuiTyped'
    BY <1>1, <1>4, <2>1 DEF GuiTyped, Shows
  <2>3. StageIsTrue' /\ AbortOrGui' /\ ReadyIsUsable'
    BY <1>1, <1>4, <2>1 DEF Shows, StageIsTrue, AbortOrGui, ReadyIsUsable, MainProgress, StartupPassed, AbortIsRemembered
  <2>4. MainProgress' /\ StartupPassed' /\ AbortIsRemembered'
    BY <1>1, <1>4, <2>1 DEF Shows, StageIsTrue, AbortOrGui, ReadyIsUsable, MainProgress, StartupPassed, AbortIsRemembered
  <2> QED
    BY <2>2, <2>3, <2>4 DEF GuiIInv, GuiParts
<1>5. CASE Signal
  <2>1. main' \in GuiMainType /\ (main' = main \/ (main'.pc = "exited" /\ main'.code = 130))
    BY <1>1, <1>5 DEF Signal, GuiMainType
  <2>2. closings' \in 0..1
    BY <1>1, <1>5 DEF Signal, GuiTyped
  <2>3. GuiTyped'
    BY <1>1, <1>5, <2>1, <2>2 DEF GuiTyped, Signal
  <2>4. StageIsTrue' /\ AbortOrGui' /\ ReadyIsUsable'
    BY <1>1, <1>5, <2>1, <2>2 DEF Signal, StageIsTrue, AbortOrGui, ReadyIsUsable, MainProgress, StartupPassed, AbortIsRemembered
  <2>5. MainProgress' /\ StartupPassed' /\ AbortIsRemembered'
    BY <1>1, <1>5, <2>1, <2>2 DEF Signal, StageIsTrue, AbortOrGui, ReadyIsUsable, MainProgress, StartupPassed, AbortIsRemembered
  <2> QED
    BY <2>3, <2>4, <2>5 DEF GuiIInv, GuiParts
<1>6. CASE Cancelled
  <2>1. closings' \in 0..1
    BY <1>1, <1>6 DEF Cancelled, GuiTyped
  <2>2. GuiTyped'
    BY <1>1, <1>6, <2>1 DEF GuiTyped, Cancelled
  <2>3. StageIsTrue' /\ AbortOrGui' /\ ReadyIsUsable'
    BY <1>1, <1>6, <2>1 DEF Cancelled, StageIsTrue, AbortOrGui, ReadyIsUsable, MainProgress, StartupPassed, AbortIsRemembered
  <2>4. MainProgress' /\ StartupPassed' /\ AbortIsRemembered'
    BY <1>1, <1>6, <2>1 DEF Cancelled, StageIsTrue, AbortOrGui, ReadyIsUsable, MainProgress, StartupPassed, AbortIsRemembered
  <2> QED
    BY <2>2, <2>3, <2>4 DEF GuiIInv, GuiParts
<1> QED
  BY <1>2, <1>3, <1>4, <1>5, <1>6

\* The GUI's invariant is inductive.
LEMMA GuiStep ==
  ASSUME Limit \in Nat, BusyLimit \in Nat, GuiIInv, [GuiNext]_guiVars
  PROVE  GuiIInv'
<1>1. CASE UNCHANGED guiVars
  <2>1. GuiTyped'
    BY <1>1 DEF GuiIInv, guiVars, GuiTyped
  <2>2. GuiParts'
    BY <1>1 DEF GuiIInv, guiVars, GuiParts, StageIsTrue, AbortOrGui, ReadyIsUsable, MainProgress, StartupPassed, AbortIsRemembered
  <2> QED
    BY <2>1, <2>2 DEF GuiIInv
<1> QED
  BY <1>1, MainKeeps, StartupKeeps, OutsideKeeps DEF GuiNext

\* Calls are told the stage at which the launch failed, an abort either keeps
\* GhidraRun from starting or sees it started, and a server is ready only where
\* GhidraRun showed its project and a tool, whatever the limits of the waits.
THEOREM GuiHolds == ASSUME Limit \in Nat, BusyLimit \in Nat PROVE GuiSpec => []GuiInvariant
<1>1. GuiInit => GuiIInv
  BY GuiInitially
<1>2. GuiIInv /\ [GuiNext]_guiVars => GuiIInv'
  BY GuiStep
<1>3. GuiIInv => GuiInvariant
  BY GuiTypes DEF GuiIInv, GuiParts, GuiInvariant
<1> QED
  BY <1>1, <1>2, <1>3, PTL DEF GuiSpec
=============================================================================
