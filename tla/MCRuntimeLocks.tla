--------------------------- MODULE MCRuntimeLocks ---------------------------
(* A small instance of RuntimeLocks. *)
EXTENDS RuntimeLocks

CONSTANTS c1, c2, c3, t, proj, l1, l2

Call(kind, keys) == [kind |-> kind, keys |-> keys]

Plan(p1, p2, p3) == [c \in Calls |-> CASE c = c1 -> p1 [] c = c2 -> p2 [] OTHER -> p3]

\* A call of a target and its project between one of each; two bounded writers, and
\* two queued ones, of which one names no target (create_project, close_all); and a
\* long operation beside a bounded writer and a reader of one target.
SomePlans ==
  {Plan(Call("read", <<t, proj>>), Call("bounded", <<t>>), Call("write", <<proj>>)),
   Plan(Call("bounded", <<>>), Call("bounded", <<t>>), Call("read", <<t>>)),
   Plan(Call("write", <<>>), Call("write", <<t>>), Call("bounded", <<t>>)),
   Plan(Call("long", <<>>), Call("bounded", <<t>>), Call("read", <<t>>))}
=============================================================================
