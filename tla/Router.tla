------------------------------- MODULE Router --------------------------------
(***************************************************************************)
(* router.go: the tree of routers behind an App, the registration of       *)
(* handlers with it and the dispatch of a request.                         *)
(*                                                                         *)
(* Use, With, Group and Route make and extend middleware stacks.  A stack  *)
(* is a Go slice: a length over an array that append() writes in place     *)
(* while it has room, so two routers over one array would overwrite each   *)
(* other's middlewares.  The model has arrays and slices for that reason.  *)
(* An array is named after the router it was made for and its capacity,    *)
(* which grows with every new one.                                         *)
(*                                                                         *)
(* All routers of an App share its http.ServeMux and its list of routes.   *)
(* ServeMux itself is external: Matches, Conflicts and Best are its rules. *)
(* Paths are sequences of segments and a flag for the trailing slash.      *)
(***************************************************************************)
EXTENDS Integers, Sequences, FiniteSets

CONSTANTS
  MaxRouters,    \* bound: the routers of one App
  MaxUse,        \* bound: the length of a middleware stack
  MaxRoutes,     \* bound: the handlers registered
  Middlewares,
  Lists,         \* the lists of middlewares given to Use and With
  Segments,      \* the parts of a path, {id} included
  Paths,         \* the paths given to Group, Method, Handle and Mount
  Methods,       \* the methods given to Method
  Queries,       \* the requests the App may get
  Wild,          \* the segment {id}
  Fresh,         \* a segment no path names
  NoMiddleware   \* an array cell nothing was written to

ASSUME RoutersAssumption == MaxRouters \in Nat \ {0}
ASSUME ListsAssumption   == Lists \subseteq Seq(Middlewares) /\ <<>> \in Lists
ASSUME PathsAssumption   == Paths \subseteq [segs : Seq(Segments), slash : BOOLEAN]
ASSUME MethodsAssumption == "" \notin Methods
ASSUME FreshAssumption   == Fresh \notin Segments
                            /\ [segs |-> <<>>, slash |-> FALSE] \in Paths
ASSUME QueriesAssumption ==
  \A q \in Queries : /\ Len(q.segs) \in Nat /\ DOMAIN q.segs = 1 .. Len(q.segs)
                      /\ q.kind \in {"leaf", "end"}

VARIABLES
  count,     \* the routers made so far, the App's own is 1
  prefix,    \* prefix[r]: the field prefix, its segments
  slice,     \* slice[r]: the field middlewares
  arrays,    \* the arrays under the slices
  notFound,  \* notFound[r]: the router whose NotFound call set the field
             \* notFoundHandler, 0 for nil
  mux,       \* what is registered with the ServeMux
  routes     \* the shared list of RouteInfo

vars == <<count, prefix, slice, arrays, notFound, mux, routes>>

Routers == 1 .. MaxRouters
Made    == 1 .. count

Array(r, c) == [owner |-> r, cap |-> c]

Init ==
  /\ count = 1
  /\ \E p \in Paths : prefix = [r \in Routers |-> p.segs]
  /\ slice = [r \in Routers |-> [at |-> Array(r, 0), len |-> 0]]
  /\ arrays = [a \in {Array(r, 0) : r \in Routers} |-> <<>>]
  /\ notFound \in {[r \in Routers |-> n] : n \in {0, 1}}
  /\ mux = {}
  /\ routes = <<>>

-----------------------------------------------------------------------------
(* Slices.                                                                 *)

Cap(s) == s.at.cap

(* What a router's stack holds.                                            *)
Stack(r) == [i \in 1 .. slice[r].len |-> arrays[slice[r].at][i]]

(* append(s, ms...) writes in place while it fits; else it moves to an     *)
(* array of twice the capacity, or just enough, in steps of two from four. *)
Fits(s, ms) == s.len + Len(ms) =< Cap(s)

Grown(s, ms) ==
  LET n == s.len + Len(ms)
      c == IF n > 2 * Cap(s) THEN n ELSE 2 * Cap(s)
  IN  IF c > 4 /\ c % 2 = 1 THEN c + 1 ELSE c

(* The slice after the append, in an array of router r.                    *)
Longer(r, s, ms) ==
  [at |-> IF Fits(s, ms) THEN s.at ELSE Array(r, Grown(s, ms)),
   len |-> s.len + Len(ms)]

(* The cells of that array: ms behind the n cells in use.                  *)
Cells(old, n, ms, c) ==
  [i \in 1 .. c |-> IF i > n /\ i =< n + Len(ms) THEN ms[i - n]
                    ELSE IF i =< Len(old) THEN old[i]
                    ELSE NoMiddleware]

Put(a, cells, m) ==
  [x \in DOMAIN m \cup {a} |-> IF x = a THEN cells ELSE m[x]]

(* Router r's stack becomes append(s, ms...), over the arrays m.           *)
SetStack(r, s, ms, m) == LET l == Longer(r, s, ms) IN
  /\ slice' = [slice EXCEPT ![r] = l]
  /\ arrays' = Put(l.at, Cells(m[s.at], s.len, ms, Cap(l)), m)

-----------------------------------------------------------------------------
(* Routers.                                                                *)

Use(r, ms) ==
  /\ slice[r].len + Len(ms) =< MaxUse
  /\ SetStack(r, slice[r], ms, arrays)
  /\ UNCHANGED <<count, prefix, notFound, mux, routes>>

(* The middlewares of clone(): make and copy.  Fault: only the slice is    *)
(* copied, the array is shared.                                            *)
SharedStack(r) == slice[r]
ClonedStack(r) == [at |-> Array(count + 1, slice[r].len), len |-> slice[r].len]

(* clone(), with the prefix set by Group and the Use made by With before   *)
(* anyone else sees the new router.                                        *)
Clone(r, segs, ms) ==
  /\ count < MaxRouters
  /\ slice[r].len + Len(ms) =< MaxUse
  /\ count' = count + 1
  /\ prefix' = [prefix EXCEPT ![count + 1] = segs]
  /\ notFound' = [notFound EXCEPT ![count + 1] = notFound[r]]
  /\ SetStack(count + 1, ClonedStack(r), ms,
              Put(Array(count + 1, slice[r].len), Stack(r), arrays))
  /\ UNCHANGED <<mux, routes>>

(* wrapPath: path.Join drops a trailing slash, it is put back; the empty   *)
(* path is "/".  Fault: it is not put back.                                *)
WrapCut(r, p)  == LET segs == prefix[r] \o p.segs
                  IN  [segs |-> segs, slash |-> segs = <<>>]
WrapPath(r, p) == LET segs == prefix[r] \o p.segs
                  IN  [segs |-> segs, slash |-> p.slash \/ segs = <<>>]

With(r, ms)  == Clone(r, prefix[r], ms)
Group(r, p)  == Clone(r, WrapPath(r, p).segs, <<>>)

(* Route hands out a clone on which only Method is called.                 *)
Route(r) == Clone(r, prefix[r], <<>>)

NotFound(r) ==
  /\ notFound' = [notFound EXCEPT ![r] = r]
  /\ UNCHANGED <<count, prefix, slice, arrays, mux, routes>>

-----------------------------------------------------------------------------
(* The patterns of http.ServeMux (external).  An entry of kind "leaf"      *)
(* matches a path without a trailing slash, "end" one with, "tree" one     *)
(* with and all paths below.  A request is of kind "leaf" or "end".        *)

AnyMethod == ""

(* f matches whatever e does: its method, its path and the path's end.     *)
CoversMethod(f, e) ==
  f.method \in {AnyMethod, e.method} \/ (f.method = "GET" /\ e.method = "HEAD")

CoversPath(f, e) ==
  /\ Len(f.segs) =< Len(e.segs)
  /\ \A i \in DOMAIN f.segs : f.segs[i] \in {Wild, e.segs[i]}

CoversEnd(f, e) ==
  IF Len(f.segs) = Len(e.segs)
  THEN f.kind = e.kind \/ (f.kind = "tree" /\ e.kind = "end")
  ELSE f.kind = "tree"

Covers(f, e) == CoversMethod(f, e) /\ CoversPath(f, e) /\ CoversEnd(f, e)

(* Some request matches both.                                              *)
OverlapMethod(e, f) ==
  e.method = f.method \/ AnyMethod \in {e.method, f.method}
    \/ {e.method, f.method} = {"GET", "HEAD"}

OverlapPath(e, f) ==
  \A i \in DOMAIN e.segs \cap DOMAIN f.segs :
    e.segs[i] = f.segs[i] \/ Wild \in {e.segs[i], f.segs[i]}

OverlapEnd(e, f) ==
  CASE Len(e.segs) = Len(f.segs) ->
         e.kind = f.kind \/ "leaf" \notin {e.kind, f.kind}
    [] Len(e.segs) < Len(f.segs) -> e.kind = "tree"
    [] OTHER -> f.kind = "tree"

Overlap(e, f) == OverlapMethod(e, f) /\ OverlapPath(e, f) /\ OverlapEnd(e, f)

(* Neither or each is more specific: the registration panics.              *)
Conflicts(e) == \E f \in mux : Overlap(e, f) /\ (Covers(e, f) <=> Covers(f, e))

-----------------------------------------------------------------------------
(* Registration.                                                           *)

(* What chain() closes over: the stack at this moment.                     *)
Entry(r, method, segs, kind, strip) ==
  [method |-> method, segs |-> segs, kind |-> kind, strip |-> strip,
   chain |-> Stack(r), by |-> r]

(* Fault: the route is listed before the mux has taken it.                 *)
ListedFirst(e) == Append(routes, [method |-> e.method, segs |-> e.segs,
                                  kind |-> e.kind])
Listed(e) == IF Conflicts(e) THEN routes
             ELSE Append(routes, [method |-> e.method, segs |-> e.segs,
                                  kind |-> e.kind])

Installed(e) == IF Conflicts(e) THEN mux ELSE mux \cup {e}

Register(e, list) ==
  /\ Cardinality(mux) < MaxRoutes /\ Len(routes) < MaxRoutes
  /\ mux' = Installed(e)
  /\ routes' = list
  /\ UNCHANGED <<count, prefix, slice, arrays, notFound>>

(* Method and everything built on it; "/" alone stands for itself only.    *)
MethodKind(w) == IF w.segs = <<>> THEN "end" 
                 ELSE IF w.slash THEN "tree" ELSE "leaf"

Method(r, method, p) ==
  LET w == WrapPath(r, p)
      e == Entry(r, method, w.segs, MethodKind(w), FALSE)
  IN  Register(e, Listed(e))

(* Handle without a method in the pattern.                                 *)
Handle(r, p) ==
  LET w == WrapPath(r, p)
  IN  Register(Entry(r, AnyMethod, w.segs, IF w.slash THEN "tree" ELSE "leaf", FALSE),
               routes)

(* Mount: the whole tree, with the prefix cut off the request's path.      *)
Mount(r, p) ==
  LET w == WrapPath(r, p)
  IN  Register(Entry(r, AnyMethod, w.segs, "tree", TRUE), routes)

Next ==
  \E r \in Made :
    \/ \E ms \in Lists : Use(r, ms) \/ With(r, ms)
    \/ Route(r) \/ NotFound(r)
    \/ \E p \in Paths :
         \/ Group(r, p) \/ Handle(r, p) \/ Mount(r, p)
         \/ \E m \in Methods : Method(r, m, p)

Spec == Init /\ [][Next]_vars

-----------------------------------------------------------------------------
(* Dispatch: what the App answers to request q.                            *)

Matching(q) == {e \in mux : Covers(e, q)}

(* The most specific entry.                                                *)
Best(q) == CHOOSE e \in Matching(q) : \A f \in Matching(q) : Covers(f, e)

(* ServeMux redirects a path without a slash to the tree of that name,     *)
(* unless something else matches the path exactly.                         *)
Slashed(q) == [q EXCEPT !.kind = "end"]

Exact(q) ==
  /\ Matching(q) # {}
  /\ Best(q).kind = "tree" => q.kind = "end" /\ Len(Best(q).segs) = Len(q.segs)

Redirected(q) == q.kind = "leaf" /\ ~Exact(q) /\ Exact(Slashed(q))

(* http.StripPrefix compares with the pattern itself, {id} included, and   *)
(* answers 404 when the path does not start with it.                       *)
Stripped(e) == e.strip => \A i \in DOMAIN e.segs : e.segs[i] # Wild

Unmatched(q) ==
  IF notFound[1] # 0 THEN [kind |-> "custom404", chain |-> Stack(1)]
  ELSE [kind |-> IF \E e \in mux : Covers([e EXCEPT !.method = AnyMethod], q)
                 THEN "405" ELSE "404"]

Handled(e) == [kind |-> IF Stripped(e) THEN "handler" ELSE "404",
               entry |-> e, params |-> notFound[1] = 0]

(* ServeHTTP: with a NotFound handler the App asks the mux for a handler   *)
(* and calls it itself, which leaves the request without path values.      *)
Answer(q) ==
  IF Redirected(q) THEN [kind |-> "redirect"]
  ELSE IF Matching(q) # {} THEN Handled(Best(q))
  ELSE Unmatched(q)

-----------------------------------------------------------------------------
(* Properties.                                                             *)

TypeOK ==
  /\ count \in Routers
  /\ prefix \in [Routers -> Seq(Segments)]
  /\ slice \in [Routers -> [at : DOMAIN arrays, len : Nat]]
  /\ \A r \in Routers : slice[r].len =< Cap(slice[r])
  /\ \A a \in DOMAIN arrays :
       /\ a \in [owner : Routers, cap : Nat]
       /\ arrays[a] \in [1 .. a.cap -> Middlewares \cup {NoMiddleware}]
  /\ notFound \in [Routers -> Routers \cup {0}]

(* Nobody but router r writes to the array under r's stack, and no cell in *)
(* use is one that nothing was written to.                                 *)
OwnArray ==
  \A r \in Routers :
    /\ slice[r].at.owner = r
    /\ \A i \in 1 .. slice[r].len : Stack(r)[i] \in Middlewares

Inv == TypeOK /\ OwnArray

(* Whatever one router does to its stack, the others keep theirs: clones,  *)
(* appends in place and moves to larger arrays leave every stack exactly   *)
(* what the calls so far say, and so are the chains of the handlers        *)
(* registered with it (README.md:161), their paths, and what these cover:  *)
(* a trailing slash is neither lost nor added under any prefix.            *)
Scope == INSTANCE Scopes WITH
           stack <- [r \in Routers |-> Stack(r)],
           table <- mux

ImplementsScopes == Scope!Spec

(* The request made of the pattern of a listed route itself.               *)
Own(route) ==
  [method |-> route.method,
   segs |-> [i \in DOMAIN route.segs |->
               IF route.segs[i] = Wild THEN Fresh ELSE route.segs[i]],
   kind |-> IF route.kind = "leaf" THEN "leaf" ELSE "end"]

(* No route that Routes() lists is dead: whatever was registered before or *)
(* after it, through whatever router, with or without a NotFound handler,  *)
(* the request made of its pattern reaches a handler of that method and    *)
(* pattern.  In particular a registration that panicked is not listed.     *)
ListedIsReached ==
  \A i \in DOMAIN routes : LET a == Answer(Own(routes[i])) IN
    /\ a.kind = "handler"
    /\ a.entry.method = routes[i].method
    /\ a.entry.segs = routes[i].segs /\ a.entry.kind = routes[i].kind

-----------------------------------------------------------------------------
(* The inductive invariant behind the last one (see Dispatch_proofs).      *)

Kinds == {"leaf", "end", "tree"}

(* Only "/" is registered for itself alone.                                *)
EntryOK(e) ==
  /\ e.segs \in Seq(Segments)
  /\ e.kind \in Kinds
  /\ e.kind = "end" => e.segs = <<>>

(* Of two patterns that share a request one is more specific.              *)
Ordered == \A e, f \in mux : Overlap(e, f) /\ (Covers(e, f) <=> Covers(f, e)) => e = f

(* What is listed is registered, and never the tree of "/".                *)
ListedInMux ==
  /\ routes \in Seq([method : Methods, segs : Seq(Segments), kind : Kinds])
  /\ \A i \in DOMAIN routes :
       /\ routes[i].kind = "tree" => routes[i].segs # <<>>
       /\ \E e \in mux : /\ ~e.strip /\ e.method = routes[i].method
                        /\ e.segs = routes[i].segs /\ e.kind = routes[i].kind

(* So every request that some pattern matches has a most specific one.     *)
Definite(q) ==
  Matching(q) # {} => \E e \in Matching(q) : \A f \in Matching(q) : Covers(f, e)

DispatchOK ==
  /\ \A e \in mux : EntryOK(e)
  /\ Ordered
  /\ ListedInMux
  /\ \A q \in Queries : Definite(q)

-----------------------------------------------------------------------------
(* What the documentation says; it fails.                                  *)

(* ctx.go:89: Param returns the path parameter value.  With a NotFound     *)
(* handler there are none, for any route.                                  *)
ParamsBound ==
  \A q \in Queries : LET a == Answer(q) IN
    (a.kind = "handler" /\ \E i \in DOMAIN a.entry.segs : a.entry.segs[i] = Wild)
    => a.params
=============================================================================
