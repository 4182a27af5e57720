-------------------------- MODULE MCProgramWrites --------------------------
(* A small instance of ProgramWrites. *)
EXTENDS ProgramWrites
AllBackends == {"headless", "gui"}
AllKinds == {"edit", "variable", "matches", "batch", "undo", "redo", "register", "update"}
=============================================================================
