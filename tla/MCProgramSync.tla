----------------------------- MODULE MCProgramSync -----------------------------
(* Small instances of ProgramSync for TLC.                                 *)
EXTENDS ProgramSync, TLC

CONSTANTS e1, e2

\* The status may lag behind a save, or commands and closes may fail late; both
\* together are left to their own question.
CarefulWorlds ==
  {[lags |-> TRUE, closeFails |-> FALSE, commandsFailLate |-> FALSE],
   [lags |-> FALSE, closeFails |-> TRUE, commandsFailLate |-> TRUE]}
AllWorlds == [lags : BOOLEAN, closeFails : BOOLEAN, commandsFailLate : BOOLEAN]

EditSymmetry == Permutations(Edits)
=============================================================================
