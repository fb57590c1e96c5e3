------------------------------ MODULE MCRouter ------------------------------
(* Small instances of Router.                                              *)
EXTENDS Router

P(segs, slash) == [segs |-> segs, slash |-> slash]

NoPath == P(<<>>, FALSE)

(* Stacks: one path, lists of up to two middlewares.                       *)
StackPaths == {NoPath}
StackLists == {<<>>, <<"x">>, <<"y">>, <<"x", "y">>}

(* Dispatch: no middlewares.  Below "/a" and the wildcard the empty path   *)
(* and "/" differ in the slash; "/a/" alone is given with one, so that an  *)
(* entry without it can come from no other registration.                   *)
DispatchPaths ==
  {NoPath, P(<<>>, TRUE), P(<<"a">>, TRUE), P(<<Wild>>, FALSE)}
DispatchLists == {<<>>}

AllQueries ==
  {[method |-> m, segs |-> s, kind |-> k] :
     m \in {"GET", "POST"},
     s \in UNION {[1 .. n -> {"a", "b"}] : n \in 1 .. 3},
     k \in {"leaf", "end"}}
  \cup {[method |-> m, segs |-> <<>>, kind |-> "end"] : m \in {"GET", "POST"}}
=============================================================================
