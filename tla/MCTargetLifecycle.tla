------------------------- MODULE MCTargetLifecycle -------------------------
(* Small instances of TargetLifecycle.                                     *)
EXTENDS TargetLifecycle, TLC

CONSTANTS t1, t2, c1, c2, k, l, p, q

AllOps == {"create", "register", "load", "sync", "close", "remove", "command", "import"}

Symmetry == Permutations(Targets) \union Permutations(Calls)
            \union Permutations(Projects) \union Permutations(Programs)

UsedTargets == {t \in Targets : \/ registry.locks[t] # None \/ registry.projects[t] # None
                                \/ context[t] # None \/ \E c \in Calls : call[c].target = t}
UsedProjects == {x \in Projects : \/ registry.handles[x] # None
                                  \/ \E t \in Targets : registry.projects[t] = x
                                  \/ \E c \in Calls : x \in {call[c].want, call[c].key, call[c].was}}
UsedPrograms == {x \in Programs : \/ \E s \in SessionIds : sessions[s].prog = x
                                  \/ \E c \in Calls : call[c].prog = x}
One(S) == Cardinality(S) <= 1
\* With two targets or two projects, some operations are explored without failures only.
TwoTargets == {"none", "create", "load", "close"} \union (IF faults = 0 THEN {"sync", "synced", "command"} ELSE {})
TwoProjects == {"none", "create", "command"} \union (IF faults = 0 THEN AllOps \union {"synced"} ELSE {})

\* The runs explore three neighbourhoods of the initial state: two programs of one
\* target, two targets with one program, two projects of one target.
Scope ==
  \/ One(UsedTargets) /\ One(UsedProjects)
  \/ One(UsedProjects) /\ One(UsedPrograms) /\ faults <= 1 /\ \A c \in Calls : call[c].op \in TwoTargets
  \/ One(UsedTargets) /\ One(UsedPrograms) /\ faults <= 1 /\ \A c \in Calls : call[c].op \in TwoProjects
=============================================================================
