-------------------------- MODULE Dispatch_proofs ---------------------------
(* Proofs about the dispatch of Router: of the patterns that match a       *)
(* request one is always the most specific, and a listed route is always   *)
(* reached; for any paths, methods and requests.                           *)
EXTENDS Router_proofs

(* A path of an entry or of a request.                                     *)
PathOK(e) == Len(e.segs) \in Nat /\ DOMAIN e.segs = 1 .. Len(e.segs)

(* An entry has a path and a kind.                                         *)
LEMMA EntryPath ==
  ASSUME NEW e, EntryOK(e)
  PROVE  PathOK(e) /\ e.kind \in Kinds
  BY LenProperties DEF EntryOK, PathOK

(* No method is called like the absence of one.                            *)
LEMMA AnyIsNone == AnyMethod # "GET" /\ AnyMethod # "HEAD" /\ "GET" # "HEAD"
  BY Zenon DEF AnyMethod

-----------------------------------------------------------------------------
(* The order of patterns.                                                  *)

(* Being covered is transitive.                                            *)
LEMMA CoversTransitive ==
  ASSUME NEW d, NEW e, NEW f, PathOK(d), PathOK(e), PathOK(f),
         Covers(d, e), Covers(e, f)
  PROVE  Covers(d, f)
<1>1. CoversMethod(d, f)
  <2>1. CoversMethod(d, e) /\ CoversMethod(e, f)
    BY Zenon DEF Covers
  <2> QED
    BY <2>1, AnyIsNone DEF CoversMethod
<1>2. CoversPath(d, f)
  <2>1. CoversPath(d, e) /\ CoversPath(e, f)
    BY Zenon DEF Covers
  <2> QED
    BY <2>1 DEF CoversPath, PathOK
<1>3. CoversEnd(d, f)
  <2>1. /\ CoversEnd(d, e) /\ CoversEnd(e, f)
        /\ Len(d.segs) =< Len(e.segs) /\ Len(e.segs) =< Len(f.segs)
    BY Zenon DEF Covers, CoversPath
  <2> QED
    BY <2>1 DEF CoversEnd, PathOK
<1> QED
  BY <1>1, <1>2, <1>3 DEF Covers

(* Two patterns that match one request overlap.                            *)
LEMMA MatchingOverlap ==
  ASSUME NEW e, NEW f, NEW q, PathOK(e), PathOK(f), PathOK(q),
         q.kind \in {"leaf", "end"}, Covers(e, q), Covers(f, q)
  PROVE  Overlap(e, f)
<1>1. OverlapMethod(e, f)
  <2>1. CoversMethod(e, q) /\ CoversMethod(f, q)
    BY Zenon DEF Covers
  <2> QED
    BY <2>1, AnyIsNone DEF CoversMethod, OverlapMethod
<1>2. OverlapPath(e, f)
  <2>1. CoversPath(e, q) /\ CoversPath(f, q)
    BY Zenon DEF Covers
  <2> QED
    BY <2>1 DEF CoversPath, OverlapPath
<1>3. OverlapEnd(e, f)
  <2>1. /\ CoversEnd(e, q) /\ CoversEnd(f, q)
        /\ Len(e.segs) =< Len(q.segs) /\ Len(f.segs) =< Len(q.segs)
    BY Zenon DEF Covers, CoversPath
  <2> QED
    BY <2>1 DEF CoversEnd, OverlapEnd, PathOK
<1> QED
  BY <1>1, <1>2, <1>3 DEF Overlap

(* Two patterns that cover each other overlap too.                         *)
LEMMA EquivalentOverlap ==
  ASSUME NEW e, NEW f, PathOK(e), PathOK(f), e.kind \in Kinds, f.kind \in Kinds,
         Covers(e, f), Covers(f, e)
  PROVE  Overlap(e, f)
<1>1. OverlapMethod(e, f)
  <2>1. CoversMethod(e, f) /\ CoversMethod(f, e)
    BY Zenon DEF Covers
  <2> QED
    BY <2>1, AnyIsNone DEF CoversMethod, OverlapMethod
<1>2. OverlapPath(e, f)
  <2>1. CoversPath(e, f) /\ CoversPath(f, e)
    BY Zenon DEF Covers
  <2> QED
    BY <2>1 DEF CoversPath, OverlapPath
<1>3. OverlapEnd(e, f)
  <2>1. /\ CoversEnd(e, f) /\ CoversEnd(f, e)
        /\ Len(e.segs) =< Len(f.segs) /\ Len(f.segs) =< Len(e.segs)
    BY Zenon DEF Covers, CoversPath
  <2> QED
    BY <2>1 DEF CoversEnd, OverlapEnd, PathOK, Kinds
<1> QED
  BY <1>1, <1>2, <1>3 DEF Overlap

(* Overlapping is symmetric.                                               *)
LEMMA OverlapSymmetric ==
  ASSUME NEW e, NEW f, PathOK(e), PathOK(f), Overlap(e, f)
  PROVE  Overlap(f, e)
<1>1. OverlapMethod(e, f) /\ OverlapPath(e, f) /\ OverlapEnd(e, f)
  BY Zenon DEF Overlap
<1>2. OverlapMethod(f, e)
  BY <1>1 DEF OverlapMethod
<1>3. OverlapPath(f, e)
  BY <1>1 DEF OverlapPath
<1>4. OverlapEnd(f, e)
  BY <1>1 DEF OverlapEnd, PathOK
<1> QED
  BY <1>2, <1>3, <1>4 DEF Overlap

-----------------------------------------------------------------------------
(* Sets of patterns and the most specific one that matches a request.      *)

QueryOK(q) == PathOK(q) /\ q.kind \in {"leaf", "end"}

Clash(e, f) == Overlap(e, f) /\ (Covers(e, f) <=> Covers(f, e))

OrderedSet(M) ==
  /\ \A e \in M : EntryOK(e)
  /\ \A e, f \in M : Clash(e, f) => e = f

Least(M, q, e) ==
  /\ e \in M /\ Covers(e, q)
  /\ \A f \in M : Covers(f, q) => Covers(f, e)

(* A new pattern that clashes with none keeps them in order.               *)
LEMMA OrderedAdd ==
  ASSUME NEW M, NEW n, OrderedSet(M), EntryOK(n), \A f \in M : ~Clash(n, f)
  PROVE  OrderedSet(M \cup {n})
<1>1. \A e \in M \cup {n} : EntryOK(e)
  BY DEF OrderedSet
<1>2. ASSUME NEW e \in M \cup {n}, NEW f \in M \cup {n}, Clash(e, f)
      PROVE  e = f
  <2>1. CASE e \in M /\ f \in M
    BY <2>1, <1>2 DEF OrderedSet
  <2>2. CASE e = n /\ f \in M
    BY <2>2, <1>2
  <2>3. CASE e \in M /\ f = n
    <3>1. Overlap(f, e)
      BY <1>1, <1>2, EntryPath, OverlapSymmetric DEF Clash
    <3>2. Clash(f, e)
      BY <3>1, <1>2 DEF Clash
    <3> QED
      BY <3>2, <2>3
  <2> QED
    BY <2>1, <2>2, <2>3
<1> QED
  BY <1>1, <1>2 DEF OrderedSet

(* There is one most specific pattern.                                     *)
LEMMA LeastUnique ==
  ASSUME NEW M, NEW q, NEW e, NEW f, OrderedSet(M), Least(M, q, e), Least(M, q, f)
  PROVE  e = f
<1>1. e \in M /\ f \in M /\ Covers(e, f) /\ Covers(f, e)
  BY DEF Least
<1>2. Overlap(e, f)
  BY <1>1, EntryPath, EquivalentOverlap DEF OrderedSet
<1> QED
  BY <1>1, <1>2 DEF OrderedSet, Clash

(* A new pattern takes the place of the most specific one only if it is    *)
(* more specific itself.                                                   *)
LEMMA LeastAdd ==
  ASSUME NEW M, NEW n, NEW q, NEW e, OrderedSet(M), EntryOK(n), QueryOK(q),
         \A f \in M : ~Clash(n, f), Least(M, q, e)
  PROVE  \/ Least(M \cup {n}, q, e)
         \/ Least(M \cup {n}, q, n) /\ Covers(e, n) /\ ~Covers(n, e)
<1>1. CASE ~Covers(n, q)
  BY <1>1 DEF Least
<1>2. CASE Covers(n, q)
  <2>1. e \in M /\ Covers(e, q) /\ PathOK(e) /\ PathOK(n) /\ PathOK(q)
    BY EntryPath DEF Least, OrderedSet, QueryOK
  <2>2. Overlap(n, e)
    BY <1>2, <2>1, MatchingOverlap DEF QueryOK
  <2>3. ~(Covers(n, e) <=> Covers(e, n))
    BY <2>1, <2>2 DEF Clash
  <2>4. CASE Covers(n, e)
    BY <2>4 DEF Least
  <2>5. CASE Covers(e, n) /\ ~Covers(n, e)
    <3>1. ASSUME NEW f \in M, Covers(f, q) PROVE Covers(f, n)
      <4>1. Covers(f, e) /\ PathOK(f)
        BY <3>1, EntryPath DEF Least, OrderedSet
      <4> QED
        BY <4>1, <2>1, <2>5, CoversTransitive
    <3>2. Covers(n, n)
      BY <2>1 DEF Covers, CoversMethod, CoversPath, CoversEnd, PathOK
    <3> QED
      BY <1>2, <2>5, <3>1, <3>2 DEF Least
  <2> QED
    BY <2>3, <2>4, <2>5
<1> QED
  BY <1>1, <1>2

(* A new pattern is the most specific one where nothing matched before.    *)
LEMMA LeastFirst ==
  ASSUME NEW M, NEW n, NEW q, EntryOK(n), Covers(n, q),
         \A f \in M : ~Covers(f, q)
  PROVE  Least(M \cup {n}, q, n)
<1>1. Covers(n, n)
  BY EntryPath DEF Covers, CoversMethod, CoversPath, CoversEnd, PathOK
<1> QED
  BY <1>1 DEF Least

(* The CHOOSE of Best picks the most specific pattern.                     *)
Chosen(M, q) ==
  CHOOSE e \in {f \in M : Covers(f, q)} :
    \A f \in {g \in M : Covers(g, q)} : Covers(f, e)

LEMMA ChosenIs ==
  ASSUME NEW M, NEW q, NEW e, OrderedSet(M), Least(M, q, e)
  PROVE  Chosen(M, q) = e
<1> DEFINE C == {f \in M : Covers(f, q)}
<1>1. e \in C /\ \A f \in C : Covers(f, e)
  BY DEF Least
<1>2. Chosen(M, q) \in C /\ \A f \in C : Covers(f, Chosen(M, q))
  BY <1>1 DEF Chosen
<1>3. Least(M, q, Chosen(M, q))
  BY <1>2 DEF Least
<1> QED
  BY <1>3, LeastUnique

-----------------------------------------------------------------------------
(* What the operations register.                                           *)

(* Every step leaves the mux and the list alone or registers one entry     *)
(* that clashes with none, and lists it at most if it came from Method.    *)
Registers(e) ==
  /\ EntryOK(e)
  /\ ~Conflicts(e)
  /\ mux' = mux \cup {e}
  /\ \/ routes' = routes
     \/ /\ routes' = Append(routes, [method |-> e.method, segs |-> e.segs,
                                     kind |-> e.kind])
        /\ e.method \in Methods /\ ~e.strip
        /\ e.kind = "tree" => e.segs # <<>>

(* The paths of entries are paths.                                         *)
LEMMA WrapPathOK ==
  ASSUME Inv, NEW r \in Made, NEW p \in Paths
  PROVE  WrapPath(r, p).segs \in Seq(Segments)
<1>1. r \in Routers /\ prefix[r] \in Seq(Segments)
  <2>1. count \in Routers /\ prefix \in [Routers -> Seq(Segments)]
    BY Zenon DEF Inv, TypeOK
  <2> QED
    BY <2>1, RoutersAssumption DEF Made, Routers
<1>2. p.segs \in Seq(Segments)
  BY PathsAssumption
<1> QED
  BY <1>1, <1>2, ConcatProperties DEF WrapPath

LEMMA MuxStep ==
  ASSUME Inv, Next
  PROVE  (mux' = mux /\ routes' = routes) \/ \E e : Registers(e)
<1>1. PICK r \in Made :
        \/ \E ms \in Lists : Use(r, ms) \/ With(r, ms)
        \/ Route(r) \/ NotFound(r)
        \/ \E p \in Paths :
             \/ Group(r, p) \/ Handle(r, p) \/ Mount(r, p)
             \/ \E m \in Methods : Method(r, m, p)
  BY DEF Next
<1>2. CASE \/ \E ms \in Lists : Use(r, ms) \/ With(r, ms)
           \/ Route(r) \/ NotFound(r)
           \/ \E p \in Paths : Group(r, p)
  BY <1>2 DEF Use, With, Route, NotFound, Group, Clone
<1>3. CASE \E p \in Paths : Handle(r, p) \/ Mount(r, p)
  <2>1. PICK p \in Paths : Handle(r, p) \/ Mount(r, p)
    BY <1>3
  <2> DEFINE w == WrapPath(r, p)
  <2>2. PICK e : /\ e.segs = w.segs /\ e.kind \in {"leaf", "tree"}
                 /\ Register(e, routes)
    BY <2>1 DEF Handle, Mount, Entry
  <2>3. EntryOK(e)
    BY <2>2, WrapPathOK DEF EntryOK, Kinds
  <2> QED
    BY <2>2, <2>3 DEF Register, Installed, Registers
<1>4. CASE \E p \in Paths : \E m \in Methods : Method(r, m, p)
  <2>1. PICK p \in Paths, m \in Methods : Method(r, m, p)
    BY <1>4
  <2> DEFINE w == WrapPath(r, p)
  <2>2. PICK e : /\ e.segs = w.segs /\ e.kind = MethodKind(w)
                 /\ e.method \in Methods /\ ~e.strip
                 /\ Register(e, Listed(e))
    BY <2>1 DEF Method, Entry
  <2>3. EntryOK(e) /\ (e.kind = "tree" => e.segs # <<>>)
    BY <2>2, WrapPathOK DEF EntryOK, Kinds, MethodKind
  <2> QED
    BY <2>2, <2>3 DEF Register, Installed, Listed, Registers
<1> QED
  BY <1>1, <1>2, <1>3, <1>4

-----------------------------------------------------------------------------
(* The invariant.                                                          *)

(* The parts of DispatchOK, for the set and the list they are about.       *)
LEMMA DispatchParts ==
  DispatchOK <=> /\ OrderedSet(mux)
                 /\ ListedInMux
                 /\ \A q \in Queries : Definite(q)
  BY DEF DispatchOK, OrderedSet, Ordered, Clash

(* A request that is matched has a most specific pattern.                  *)
LEMMA DefiniteLeast ==
  ASSUME NEW q
  PROVE  Definite(q) <=> (Matching(q) # {} => \E e \in mux : Least(mux, q, e))
  BY DEF Definite, Matching, Least

LEMMA InitDispatch == Init => DispatchOK
  BY DEF Init, DispatchOK, Ordered, ListedInMux, Definite, Matching

(* Requests are what their assumption says.                                *)
LEMMA QueryType == \A q \in Queries : QueryOK(q)
  BY QueriesAssumption DEF QueryOK, PathOK

(* One registration keeps the patterns in order.                           *)
LEMMA RegisterDispatch ==
  ASSUME DispatchOK, NEW e, Registers(e)
  PROVE  DispatchOK'
<1>1. /\ EntryOK(e) /\ mux' = mux \cup {e}
      /\ \A f \in mux : ~Clash(e, f)
  BY DEF Registers, Conflicts, Clash
<1>2. OrderedSet(mux) /\ ListedInMux /\ \A q \in Queries : Definite(q)
  BY DispatchParts
<1>3. OrderedSet(mux')
  BY <1>1, <1>2, OrderedAdd
<1>4. ListedInMux'
  <2> DEFINE Listing == [method : Methods, segs : Seq(Segments), kind : Kinds]
  <2>1. CASE routes' = routes
    BY <2>1, <1>1, <1>2 DEF ListedInMux
  <2>2. CASE /\ routes' = Append(routes, [method |-> e.method, segs |-> e.segs,
                                         kind |-> e.kind])
             /\ e.method \in Methods /\ ~e.strip
             /\ e.kind = "tree" => e.segs # <<>>
    <3> DEFINE route == [method |-> e.method, segs |-> e.segs, kind |-> e.kind]
    <3>1. route \in Listing /\ routes \in Seq(Listing)
      BY <2>2, <1>1, <1>2 DEF EntryOK, ListedInMux
    <3>2. route.method = e.method /\ route.segs = e.segs /\ route.kind = e.kind
      OBVIOUS
    <3> HIDE DEF Listing, route
    <3>3. /\ routes' \in Seq(Listing)
          /\ DOMAIN routes' = 1 .. Len(routes) + 1
          /\ DOMAIN routes = 1 .. Len(routes)
          /\ \A i \in DOMAIN routes : routes'[i] = routes[i]
          /\ routes'[Len(routes) + 1] = route
      <4>1. routes' = Append(routes, route)
        BY <2>2 DEF route
      <4> QED
        BY <3>1, <4>1, AppendProperties, LenProperties
    <3>4. ASSUME NEW i \in DOMAIN routes'
          PROVE  /\ routes'[i].kind = "tree" => routes'[i].segs # <<>>
                 /\ \E f \in mux' :
                      /\ ~f.strip /\ f.method = routes'[i].method
                      /\ f.segs = routes'[i].segs /\ f.kind = routes'[i].kind
      <4>1. CASE i \in DOMAIN routes
        <5>1. /\ routes[i].kind = "tree" => routes[i].segs # <<>>
              /\ \E f \in mux :
                   /\ ~f.strip /\ f.method = routes[i].method
                   /\ f.segs = routes[i].segs /\ f.kind = routes[i].kind
          BY <4>1, <1>2 DEF ListedInMux
        <5>2. routes'[i] = routes[i] /\ mux \subseteq mux'
          BY <4>1, <3>3, <1>1
        <5> QED
          BY <5>1, <5>2
      <4>2. CASE i = Len(routes) + 1
        BY <4>2, <3>2, <3>3, <2>2, <1>1
      <4> QED
        BY <4>1, <4>2, <3>1, <3>3, LenProperties
    <3> QED
      BY <3>3, <3>4 DEF ListedInMux, Listing
  <2> QED
    BY <2>1, <2>2 DEF Registers
<1>5. ASSUME NEW q \in Queries PROVE Definite(q)'
  <2> SUFFICES ASSUME Matching(q)' # {}
               PROVE  \E f \in mux' : Least(mux', q, f)
    BY DEF Definite, Matching, Least
  <2>1. CASE Matching(q) # {}
    <3>1. PICK f \in mux : Least(mux, q, f)
      BY <2>1, <1>2, DefiniteLeast
    <3>2. Least(mux', q, f) \/ Least(mux', q, e)
      BY <3>1, <1>1, <1>2, QueryType, LeastAdd
    <3> QED
      BY <3>2 DEF Least
  <2>2. CASE Matching(q) = {}
    <3>1. Covers(e, q) /\ \A f \in mux : ~Covers(f, q)
      BY <2>2, <1>1 DEF Matching
    <3>2. Least(mux', q, e)
      BY <3>1, <1>1, LeastFirst
    <3> QED
      BY <3>2 DEF Least
  <2> QED
    BY <2>1, <2>2
<1>6. DispatchOK' <=> /\ OrderedSet(mux')
                      /\ ListedInMux'
                      /\ \A q \in Queries : Definite(q)'
  BY DEF DispatchOK, OrderedSet, Ordered, Clash
<1> QED
  BY <1>3, <1>4, <1>5, <1>6

(* Every step keeps the patterns in order.                                 *)
LEMMA StepDispatch ==
  ASSUME Inv, DispatchOK, [Next]_vars
  PROVE  DispatchOK'
<1>1. CASE mux' = mux /\ routes' = routes
  <2>1. Ordered' <=> Ordered
    BY <1>1 DEF Ordered
  <2>2. ListedInMux' <=> ListedInMux
    BY <1>1 DEF ListedInMux
  <2>3. \A q \in Queries : Definite(q)' <=> Definite(q)
    BY <1>1 DEF Definite, Matching
  <2> QED
    BY <1>1, <2>1, <2>2, <2>3 DEF DispatchOK
<1>2. CASE \E e : Registers(e)
  BY <1>2, RegisterDispatch
<1> QED
  BY <1>1, <1>2, MuxStep DEF vars

(* In every reachable state the patterns registered are in order, every    *)
(* request that one of them matches has a most specific one, and what is   *)
(* listed is registered (router.go:238-257).                               *)
THEOREM DispatchInvariance == Spec => []DispatchOK
<1>1. Init => DispatchOK
  BY InitDispatch
<1>2. Inv /\ DispatchOK /\ [Next]_vars => DispatchOK'
  BY StepDispatch
<1> QED
  BY <1>1, <1>2, Invariance, PTL DEF Spec

-----------------------------------------------------------------------------
(* Listed routes are reached.                                              *)

(* Best picks from the mux of its state.                                   *)
LEMMA BestChosen ==
  ASSUME NEW q
  PROVE  Best(q) = Chosen(mux, q)
  BY DEF Best, Matching, Chosen

(* The entry of a route matches the request made of its pattern.           *)
LEMMA OwnCovered ==
  ASSUME NEW e, EntryOK(e), NEW route,
         route.method = e.method, route.segs = e.segs, route.kind = e.kind
  PROVE  Covers(e, Own(route))
<1> DEFINE q == Own(route)
<1>1. PathOK(e) /\ e.kind \in Kinds
  BY EntryPath
<1>2. /\ q.method = e.method
      /\ q.kind = IF e.kind = "leaf" THEN "leaf" ELSE "end"
      /\ q.segs = [i \in 1 .. Len(e.segs) |->
                     IF e.segs[i] = Wild THEN Fresh ELSE e.segs[i]]
  BY <1>1 DEF Own, PathOK
<1>3. Len(q.segs) = Len(e.segs)
  BY <1>1, <1>2 DEF PathOK
<1> HIDE DEF q
<1>4. CoversMethod(e, q)
  BY <1>2 DEF CoversMethod
<1>5. CoversPath(e, q)
  BY <1>1, <1>2, <1>3 DEF CoversPath, PathOK
<1>6. CoversEnd(e, q)
  BY <1>1, <1>2, <1>3 DEF CoversEnd, Kinds
<1> QED
  BY <1>4, <1>5, <1>6 DEF Covers, q

(* Whatever else matches that request covers the whole pattern: where it   *)
(* has a wildcard the request has a segment that no pattern names.         *)
LEMMA OwnLeast ==
  ASSUME NEW e, EntryOK(e), NEW route,
         route.method = e.method, route.segs = e.segs, route.kind = e.kind,
         e.kind = "tree" => e.segs # <<>>,
         NEW f, EntryOK(f), Covers(f, Own(route))
  PROVE  Covers(f, e)
<1> DEFINE q == Own(route)
<1>1. /\ PathOK(e) /\ e.kind \in Kinds
      /\ PathOK(f) /\ f.kind \in Kinds
  BY EntryPath
<1>2. /\ q.method = e.method
      /\ q.kind = IF e.kind = "leaf" THEN "leaf" ELSE "end"
      /\ q.segs = [i \in 1 .. Len(e.segs) |->
                     IF e.segs[i] = Wild THEN Fresh ELSE e.segs[i]]
  BY <1>1 DEF Own, PathOK
<1>3. Len(q.segs) = Len(e.segs)
  BY <1>1, <1>2 DEF PathOK
<1> HIDE DEF q
<1>4. CoversMethod(f, q) /\ CoversPath(f, q) /\ CoversEnd(f, q)
  BY Zenon DEF Covers, q
<1>5. CoversMethod(f, e)
  BY <1>2, <1>4 DEF CoversMethod
<1>6. CoversPath(f, e)
  <2>1. ASSUME NEW i \in DOMAIN f.segs PROVE f.segs[i] \in {Wild, e.segs[i]}
    <3>1. f.segs[i] \in {Wild, q.segs[i]} /\ i \in 1 .. Len(e.segs)
      BY <1>1, <1>3, <1>4 DEF CoversPath, PathOK
    <3>2. f.segs[i] \in Segments
      BY <1>1, ElementOfSeq DEF EntryOK, PathOK
    <3> QED
      BY <3>1, <3>2, <1>2, FreshAssumption
  <2> QED
    BY <2>1, <1>3, <1>4 DEF CoversPath
<1>7. CoversEnd(f, e)
  <2>1. CASE Len(f.segs) # Len(e.segs)
    BY <2>1, <1>3, <1>4 DEF CoversEnd
  <2>2. CASE Len(f.segs) = Len(e.segs) /\ e.kind # "tree"
    BY <2>2, <1>1, <1>2, <1>3, <1>4 DEF CoversEnd, Kinds
  <2>3. CASE Len(f.segs) = Len(e.segs) /\ e.kind = "tree"
    <3>1. Len(e.segs) # 0
      BY <2>3, <1>1, EmptySeq DEF EntryOK
    <3>2. f.kind # "end"
      BY <2>3, <3>1 DEF EntryOK
    <3> QED
      BY <2>3, <3>2, <1>2, <1>3, <1>4 DEF CoversEnd
  <2> QED
    BY <2>1, <2>2, <2>3
<1> QED
  BY <1>5, <1>6, <1>7 DEF Covers

(* So the request is answered by that entry.                               *)
LEMMA OwnAnswered ==
  ASSUME DispatchOK, NEW i \in DOMAIN routes
  PROVE  LET a == Answer(Own(routes[i])) IN
           /\ a.kind = "handler"
           /\ a.entry.method = routes[i].method
           /\ a.entry.segs = routes[i].segs /\ a.entry.kind = routes[i].kind
<1>1. PICK e \in mux :
        /\ ~e.strip /\ e.method = routes[i].method
        /\ e.segs = routes[i].segs /\ e.kind = routes[i].kind
        /\ e.kind = "tree" => e.segs # <<>>
  BY DEF DispatchOK, ListedInMux
<1>2. PICK route : route = routes[i]
  OBVIOUS
<1>3. PICK q : q = Own(route)
  OBVIOUS
<1>4. OrderedSet(mux) /\ EntryOK(e) /\ \A f \in mux : EntryOK(f)
  BY DispatchParts DEF OrderedSet
<1>5. Covers(e, q)
  BY <1>1, <1>2, <1>3, <1>4, OwnCovered
<1>6. Least(mux, q, e)
  BY <1>1, <1>2, <1>3, <1>4, <1>5, OwnLeast DEF Least
<1>7. Matching(q) # {} /\ Best(q) = e
  BY <1>4, <1>6, BestChosen, ChosenIs DEF Least, Matching
<1>8. ~Redirected(q)
  <2>1. q.kind = IF e.kind = "leaf" THEN "leaf" ELSE "end"
    BY <1>1, <1>2, <1>3 DEF Own
  <2> QED
    BY <2>1, <1>7 DEF Redirected, Exact
<1>9. Answer(q) = [kind |-> "handler", entry |-> e, params |-> notFound[1] = 0]
  BY <1>1, <1>7, <1>8 DEF Answer, Handled, Stripped
<1> QED
  BY <1>1, <1>2, <1>3, <1>9

(* Every listed route answers the request made of its pattern, whatever    *)
(* was registered before or after it, on whatever router, for any paths    *)
(* and methods.                                                            *)
THEOREM ListedRoutesAreReached == Spec => []ListedIsReached
<1>1. DispatchOK => ListedIsReached
  BY OwnAnswered DEF ListedIsReached
<1> QED
  BY <1>1, DispatchInvariance, PTL

=============================================================================
