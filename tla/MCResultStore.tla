-------------------------- MODULE MCResultStore --------------------------
(* A small instance of ResultStore. *)
EXTENDS ResultStore

SomeBytes == <<2, 3, 6>>
SomeMemory == <<3, 2, 2>>
SomeIndexes == <<1, 2>>

\* Texts of characters that cost more when escaped, arrays with a row too large
\* for a page, every pattern over two characters with at most two ways to match
\* at a position.
Costs == UNION {[1..n -> 1..2] : n \in 0..4}
Rows == UNION {[1..n -> {1, 2, 4}] : n \in 0..3}
Ways(p) == {<<>>} \cup {<<e>> : e \in p..2} \cup {s \in (p..2) \X (p..2) : s[1] # s[2]}
Patterns == {f \in [0..2 -> UNION {Ways(p) : p \in 0..2}] : \A p \in 0..2 : f[p] \in Ways(p)}
SomeTexts ==
  {[mode |-> "text", data |-> d] : d \in Costs} \cup {[mode |-> "json", data |-> d] : d \in Rows}
    \cup {[mode |-> "search", data |-> f] : f \in Patterns}

\* The store and the reading of one result do not touch each other: each is
\* explored while the other rests.
OneAtATime == made = 0 \/ (pages.mode = "text" /\ pages.data = <<1, 1>> /\ pages.at = 0)
=============================================================================
