------------------------------ MODULE BsimApply ------------------------------
(***************************************************************************)
(* bsim_apply_matches: functions are renamed after their best BSim match.  *)
(* The database returns the best rows per function; rows of the program    *)
(* itself are dropped; functions are planned best match first, up to a     *)
(* limit; the plan is carried out in one transaction in which single       *)
(* renames may fail.                                                       *)
(***************************************************************************)
EXTENDS Naturals, Sequences, FiniteSets, SequencesExt

CONSTANTS
  Functions,
  Worlds,        \* [rows, names, options]: see the variables
  DefaultName    \* a name Ghidra assigned

VARIABLES
  rows,       \* [Functions -> all rows the database has for it, best first: [self, name, similarity]]
  names,      \* [Functions -> [name, source]]
  options,    \* [perFunction, maxFunctions, onlyDefault, excludeSelf, dryRun]
  kept,       \* [matched functions -> the rows that count]
  plan,       \* [planned functions -> new name]
  skipped,    \* [skipped functions -> reason]
  truncated,  \* the plan is full
  applied, failed,
  step

vars == <<rows, names, options, kept, plan, skipped, truncated, applied, failed, step>>

Nothing == [f \in {} |-> f]

Init ==
  /\ \E w \in Worlds : rows = w.rows /\ names = w.names /\ options = w.options
  /\ kept = Nothing /\ plan = Nothing /\ skipped = Nothing /\ truncated = FALSE
  /\ applied = {} /\ failed = {} /\ step = "query"

Upto(s, n) == SubSeq(s, 1, IF Len(s) < n THEN Len(s) ELSE n)
Extend(map, f, v) == [g \in DOMAIN map \union {f} |-> IF g = f THEN v ELSE map[g]]

\* One row more is asked for when rows of the program itself are dropped.
Queried(f) == Upto(rows[f], options.perFunction + (IF options.excludeSelf THEN 1 ELSE 0))
\* The foreign rows, capped again.
Collected(f) ==
  Upto(SelectSeq(Queried(f), LAMBDA r : ~(options.excludeSelf /\ r.self)), options.perFunction)

\* A function without a row is not matched.
Query ==
  /\ step = "query" /\ step' = "plan"
  /\ kept' = [f \in {g \in Functions : Collected(g) # <<>>} |-> Collected(f)]
  /\ UNCHANGED <<rows, names, options, plan, skipped, truncated, applied, failed>>

Usable(f) == SelectSeq(kept[f], LAMBDA r : r.name # DefaultName)
Best(f) == Usable(f)[1]
Ambiguous(f) == \E i \in DOMAIN Usable(f) :
  /\ Usable(f)[i].name # Best(f).name
  /\ \A j \in 1..i : Usable(f)[j].similarity = Best(f).similarity

Reason(f) ==
  IF Usable(f) = <<>> THEN "default_match_name"
  ELSE IF Ambiguous(f) THEN "ambiguous"
  ELSE IF names[f].name = Best(f).name THEN "same_name"
  ELSE IF options.onlyDefault /\ names[f].source # "DEFAULT" THEN "not_default_name"
  ELSE "none"

\* Matches are sorted, so the function with the best one is next.
Pending == DOMAIN kept \ (DOMAIN plan \union DOMAIN skipped)
IsNext(f) == f \in Pending /\ \A g \in Pending : kept[g][1].similarity <= kept[f][1].similarity

Consider(f) ==
  /\ step = "plan" /\ IsNext(f) /\ Cardinality(DOMAIN plan) < options.maxFunctions
  /\ IF Reason(f) = "none"
       THEN plan' = Extend(plan, f, Best(f).name) /\ UNCHANGED skipped
       ELSE skipped' = Extend(skipped, f, Reason(f)) /\ UNCHANGED plan
  /\ UNCHANGED <<rows, names, options, kept, truncated, applied, failed, step>>

EndPlan ==
  /\ step = "plan"
  /\ Pending = {} \/ Cardinality(DOMAIN plan) >= options.maxFunctions
  /\ truncated' = (Pending # {})
  /\ IF plan # Nothing /\ ~options.dryRun
       THEN step' = "rename" /\ UNCHANGED applied
       ELSE step' = "done" /\ applied' = DOMAIN plan
  /\ UNCHANGED <<rows, names, options, kept, plan, skipped, failed>>

\* One rename after the other, in one transaction; one that fails is reported.
Rename(f) ==
  /\ step = "rename" /\ f \in DOMAIN plan \ (applied \union failed)
  /\ \/ /\ names' = [names EXCEPT ![f] = [name |-> plan[f], source |-> "USER_DEFINED"]]
        /\ applied' = applied \union {f}
        /\ UNCHANGED failed
     \/ /\ failed' = failed \union {f}
        /\ UNCHANGED <<names, applied>>
  /\ UNCHANGED <<rows, options, kept, plan, skipped, truncated, step>>

EndRenames ==
  /\ step = "rename" /\ applied \union failed = DOMAIN plan
  /\ step' = "done"
  /\ UNCHANGED <<rows, names, options, kept, plan, skipped, truncated, applied, failed>>

Next == Query \/ EndPlan \/ EndRenames \/ \E f \in Functions : Consider(f) \/ Rename(f)

Spec == Init /\ [][Next]_vars

-----------------------------------------------------------------------------
\* What should count: the best foreign rows.
Foreign(f) == SelectSeq(rows[f], LAMBDA r : ~(options.excludeSelf /\ r.self))
SelfRows(f) == {i \in DOMAIN rows[f] : rows[f][i].self}

\* Dropping the program's own row costs no foreign one; a name is planned only if
\* it is the one name of the best similarity, never a name Ghidra assigned, and
\* replaces a name the user gave only when that was asked for.
PlansAreSafe ==
  /\ step # "query" => \A f \in Functions :
       Cardinality(SelfRows(f)) <= 1 =>
         (IF f \in DOMAIN kept THEN kept[f] ELSE <<>>) = Upto(Foreign(f), options.perFunction)
  /\ \A f \in DOMAIN plan :
       LET named == {i \in DOMAIN kept[f] : kept[f][i].name # DefaultName}
           best == {i \in named : \A j \in named : kept[f][j].similarity <= kept[f][i].similarity}
       IN {kept[f][i].name : i \in best} = {plan[f]}
  /\ options.onlyDefault => \A f \in DOMAIN plan : f \in applied \/ names[f].source = "DEFAULT"

\* The reply accounts for every matched function, and only the applied ones of a
\* real run changed their names.
RepliesAccount == step = "done" =>
  /\ applied \union failed = DOMAIN plan /\ applied \intersect failed = {}
  /\ ~truncated => DOMAIN kept = DOMAIN plan \union DOMAIN skipped
  /\ truncated => Cardinality(DOMAIN plan) = options.maxFunctions
  /\ \A f \in Functions :
       f \in applied /\ ~options.dryRun <=> f \in DOMAIN plan /\ names[f] = [name |-> plan[f], source |-> "USER_DEFINED"]

ApplyInvariant == PlansAreSafe /\ RepliesAccount
=============================================================================
