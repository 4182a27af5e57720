------------------------------ MODULE MCSharing ------------------------------
(***************************************************************************)
(* Who may use a project, in four small instances of which a behaviour     *)
(* shows one: the threads of one process, by the script barrier            *)
(* (ScriptBarrier), the processes of one user, by the lock files of the    *)
(* GUI runtime (GuiRelay), the calls and the human who share the programs  *)
(* of the GUI (GuiPrograms), and the sessions that share a project's       *)
(* handle (ProjectHandle).                                                 *)
(***************************************************************************)
EXTENDS ScriptBarrier, GuiRelay, GuiPrograms, ProjectHandle, TLC

CONSTANTS t1, t2, t3, relay1, relay2, server, detached1, detached2, k1, g1, g2, f1, a, b, oldA, s1, s2, s3

MCThreads == {t1, t2, t3}
MCSymmetry == Permutations(Threads) \cup Permutations({g1, g2})

\* Two relays that start together, or a relay and a server in the foreground.
MCGroups == {{relay1, relay2}, {relay1, server}}

\* Two programs and a past version of one.
MCProgramKeys == {a, b, oldA}
MCReadOnly == {oldA}
MCSessions == {s1, s2, s3}

VARIABLE part

sharedVars == <<part, vars, relayVars, guiVars, handleVars>>

SharingInit ==
  /\ part \in {"threads", "processes", "gui", "handle"}
  /\ Init /\ RelayInit /\ GuiInit /\ HandleInit
  /\ part = "processes" \/ client[server].pc = "ended"
  /\ part = "gui" \/ running

ThreadsPart == part = "threads" /\ Next /\ UNCHANGED <<part, relayVars, guiVars, handleVars>>
ProcessesPart == part = "processes" /\ RelayNext /\ UNCHANGED <<part, vars, guiVars, handleVars>>
GuiPart == part = "gui" /\ GuiNext /\ UNCHANGED <<part, vars, relayVars, handleVars>>
HandlePart == part = "handle" /\ HandleNext /\ UNCHANGED <<part, vars, relayVars, guiVars>>

\* The other parts may be at rest; that the threads never block each
\* other for good, TLC checks.
OthersRest == part # "threads" /\ UNCHANGED sharedVars

SharingSpec ==
  SharingInit /\ [][ThreadsPart \/ ProcessesPart \/ GuiPart \/ HandlePart \/ OthersRest]_sharedVars
=============================================================================
