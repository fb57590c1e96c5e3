------------------------------- MODULE Scopes -------------------------------
(***************************************************************************)
(* What a tree of routers promises, without slices, arrays and a mux: a    *)
(* router is a scope with a path prefix and a stack of middlewares.  A     *)
(* scope derived from another starts with what that one has at that        *)
(* moment; from then on each goes its own way.  A registered handler runs  *)
(* the stack its scope had at registration, outermost first, for the path  *)
(* below its scope's prefix: for that path alone, or for all below it too. *)
(* Router.tla shows that router.go implements this.                        *)
(***************************************************************************)
EXTENDS Naturals, Sequences

CONSTANTS
  Routers,  \* numbered from 1, in the order they are made
  Lists,    \* the lists of middlewares given to Use and With
  Paths     \* the paths given to Group and to registrations

VARIABLES
  count,    \* how many scopes there are
  prefix,   \* prefix[r]: the segments of the path prefix of scope r
  stack,    \* stack[r]: its middlewares
  table     \* the registered handlers

scopeVars == <<count, prefix, stack, table>>

Init ==
  /\ count = 1
  /\ \E p \in Paths : prefix = [r \in Routers |-> p.segs]
  /\ stack = [r \in Routers |-> <<>>]
  /\ table = {}

Use(r, ms) ==
  /\ stack' = [stack EXCEPT ![r] = @ \o ms]
  /\ UNCHANGED <<count, prefix, table>>

(* A scope below r, with a longer path or with more middlewares.           *)
Derive(r, segs, ms) ==
  /\ count + 1 \in Routers
  /\ count' = count + 1
  /\ prefix' = [prefix EXCEPT ![count + 1] = prefix[r] \o segs]
  /\ stack' = [stack EXCEPT ![count + 1] = stack[r] \o ms]
  /\ UNCHANGED table

(* What entry e, registered with path, covers: that path alone without a   *)
(* trailing slash, "/" alone for a method, otherwise the tree below it; a  *)
(* mount always the tree.                                                  *)
Extends(e, path) ==
  /\ e.kind = "leaf" <=> ~path.slash /\ ~e.strip /\ e.segs # <<>>
  /\ e.kind = "end" <=> e.method # "" /\ e.segs = <<>>

Register(r, path) ==
  /\ \E e \in table' :
       /\ e.segs = prefix[r] \o path.segs
       /\ e.chain = stack[r] /\ Extends(e, path)
       /\ table' = table \cup {e}
  /\ UNCHANGED <<count, prefix, stack>>

Next ==
  \E r \in 1 .. count :
    \/ \E ms \in Lists : Use(r, ms) \/ Derive(r, <<>>, ms)
    \/ \E p \in Paths : Derive(r, p.segs, <<>>) \/ Register(r, p)

Spec == Init /\ [][Next]_scopeVars
=============================================================================
