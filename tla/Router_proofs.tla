--------------------------- MODULE Router_proofs ----------------------------
(* Proofs about Router: no two routers ever share an array, and router.go  *)
(* implements Scopes, for any number of routers, middlewares and paths.    *)
EXTENDS Router, SequenceTheorems, TLAPS

(* What is known of a slice s of router r over the arrays m.               *)
Owned(r, s, m) ==
  /\ s \in [at : DOMAIN m, len : Nat]
  /\ s.at.owner = r /\ s.len =< Cap(s)
  /\ \A a \in DOMAIN m : /\ a \in [owner : Routers, cap : Nat]
                         /\ m[a] \in [1 .. a.cap -> Middlewares \cup {NoMiddleware}]
  /\ \A i \in 1 .. s.len : m[s.at][i] \in Middlewares

Held(s, m) == [i \in 1 .. s.len |-> m[s.at][i]]

(* A sequence given by its elements.                                       *)
LEMMA HeldSeq ==
  ASSUME NEW r \in Routers, NEW s, NEW m, Owned(r, s, m)
  PROVE  /\ Held(s, m) \in Seq(Middlewares)
         /\ Len(Held(s, m)) = s.len
  BY DEF Owned, Held

(* The new array has room for what append() puts there.                    *)
LEMMA GrownFits ==
  ASSUME NEW s, s.len \in Nat, Cap(s) \in Nat, NEW ms \in Seq(Middlewares)
  PROVE  /\ Grown(s, ms) \in Nat
         /\ s.len + Len(ms) =< Grown(s, ms)
         /\ Cap(s) =< Grown(s, ms)
<1>1. Len(ms) \in Nat
  BY LenProperties
<1> DEFINE n == s.len + Len(ms)
           c == IF n > 2 * Cap(s) THEN n ELSE 2 * Cap(s)
<1>2. c \in Nat /\ n =< c /\ Cap(s) =< c
  BY <1>1
<1>3. Grown(s, ms) = c \/ Grown(s, ms) = c + 1
  BY DEF Grown
<1> HIDE DEF c
<1> QED
  BY <1>1, <1>2, <1>3

(* append() leaves router r with an array of its own that holds what s did *)
(* and the new middlewares behind it; the arrays of the others stay.       *)
LEMMA SetStackOwned ==
  ASSUME NEW r \in Routers, NEW s, NEW m, Owned(r, s, m),
         NEW ms \in Seq(Middlewares),
         slice \in [Routers -> [at : DOMAIN arrays, len : Nat]],
         SetStack(r, s, ms, m)
  PROVE  /\ Owned(r, slice'[r], arrays')
         /\ Held(slice'[r], arrays') = Held(s, m) \o ms
         /\ \A q \in Routers \ {r} : slice'[q] = slice[q]
         /\ DOMAIN m \subseteq DOMAIN arrays'
         /\ \A a \in DOMAIN m : a.owner # r => arrays'[a] = m[a]
<1> DEFINE l == Longer(r, s, ms)
           cells == Cells(m[s.at], s.len, ms, Cap(l))
<1>1. slice' = [slice EXCEPT ![r] = l] /\ arrays' = Put(l.at, cells, m)
  BY DEF SetStack
<1>2. slice'[r] = l /\ \A q \in Routers \ {r} : slice'[q] = slice[q]
  BY <1>1
<1>3. /\ s.at \in DOMAIN m /\ s.len \in Nat /\ Cap(s) \in Nat
      /\ s.at.owner = r /\ s.len =< Cap(s)
      /\ m[s.at] \in [1 .. Cap(s) -> Middlewares \cup {NoMiddleware}]
  BY DEF Owned, Cap
<1>4. /\ Len(ms) \in Nat
      /\ \A i \in 1 .. Len(ms) : ms[i] \in Middlewares
  BY LenProperties
<1>5. /\ l.at \in [owner : Routers, cap : Nat] /\ l.at.owner = r
      /\ l.len = s.len + Len(ms)
      /\ l.len =< Cap(l) /\ Cap(s) =< Cap(l)
      /\ l = [at |-> l.at, len |-> l.len]
  <2>1. CASE Fits(s, ms)
    BY <2>1, <1>3, <1>4 DEF Longer, Fits, Cap, Owned
  <2>2. CASE ~Fits(s, ms)
    <3>1. l = [at |-> Array(r, Grown(s, ms)), len |-> s.len + Len(ms)]
      BY <2>2 DEF Longer
    <3> QED
      BY <3>1, GrownFits, <1>3, <1>4 DEF Array, Cap
  <2> QED
    BY <2>1, <2>2
<1> HIDE DEF l
<1>6. Cap(l) \in Nat
  BY <1>5 DEF Cap
<1>7. /\ cells = [i \in 1 .. Cap(l) |-> cells[i]]
      /\ \A i \in 1 .. Cap(l) :
           cells[i] = IF i > s.len /\ i =< s.len + Len(ms) THEN ms[i - s.len]
                      ELSE IF i =< Len(m[s.at]) THEN m[s.at][i]
                      ELSE NoMiddleware
  BY DEF Cells
<1>8. Len(m[s.at]) = Cap(s)
  BY <1>3
<1>9. /\ \A i \in 1 .. s.len : cells[i] = m[s.at][i]
      /\ \A i \in s.len + 1 .. l.len : cells[i] = ms[i - s.len]
      /\ \A i \in 1 .. Cap(l) : cells[i] \in Middlewares \cup {NoMiddleware}
  <2>1. ASSUME NEW i \in 1 .. s.len PROVE cells[i] = m[s.at][i]
    <3>1. i \in 1 .. Cap(l) /\ ~(i > s.len) /\ i =< Cap(s)
      BY <1>3, <1>5, <1>6
    <3> QED
      BY <3>1, <1>7, <1>8
  <2>2. ASSUME NEW i \in s.len + 1 .. l.len PROVE cells[i] = ms[i - s.len]
    <3>1. i \in 1 .. Cap(l) /\ i > s.len /\ i =< s.len + Len(ms)
      BY <1>3, <1>4, <1>5, <1>6
    <3> QED
      BY <3>1, <1>7
  <2>3. ASSUME NEW i \in 1 .. Cap(l)
        PROVE  cells[i] \in Middlewares \cup {NoMiddleware}
    <3>1. CASE i > s.len /\ i =< s.len + Len(ms)
      <4>1. i - s.len \in 1 .. Len(ms)
        BY <3>1, <1>3, <1>4, <1>6
      <4> QED
        BY <3>1, <4>1, <1>4, <1>7
    <3>2. CASE ~(i > s.len /\ i =< s.len + Len(ms)) /\ i =< Cap(s)
      <4>1. i \in 1 .. Cap(s)
        BY <3>2, <1>3, <1>6
      <4> QED
        BY <3>2, <4>1, <1>3, <1>7, <1>8
    <3>3. CASE ~(i > s.len /\ i =< s.len + Len(ms)) /\ ~(i =< Cap(s))
      BY <3>3, <1>7, <1>8
    <3> QED
      BY <3>1, <3>2, <3>3
  <2> QED
    BY <2>1, <2>2, <2>3
<1>10. cells \in [1 .. Cap(l) -> Middlewares \cup {NoMiddleware}]
  BY <1>7, <1>9
<1> HIDE DEF cells
<1>11. /\ DOMAIN arrays' = DOMAIN m \cup {l.at}
       /\ arrays'[l.at] = cells
       /\ \A a \in DOMAIN m : a # l.at => arrays'[a] = m[a]
  BY <1>1 DEF Put
<1>12. \A i \in 1 .. l.len : cells[i] \in Middlewares
  <2> TAKE i \in 1 .. l.len
  <2>1. CASE i =< s.len
    <3>1. i \in 1 .. s.len
      BY <2>1, <1>3, <1>4, <1>5
    <3> QED
      BY <3>1, <1>9 DEF Owned
  <2>2. CASE i > s.len
    <3>1. i \in s.len + 1 .. l.len /\ i - s.len \in 1 .. Len(ms)
      BY <2>2, <1>3, <1>4, <1>5
    <3> QED
      BY <3>1, <1>4, <1>9
  <2> QED
    BY <2>1, <2>2, <1>3, <1>4, <1>5
<1>13. Owned(r, slice'[r], arrays')
  <2>1. l \in [at : DOMAIN arrays', len : Nat] /\ l.at.owner = r /\ l.len =< Cap(l)
    BY <1>3, <1>4, <1>5, <1>11
  <2>2. \A a \in DOMAIN arrays' :
          /\ a \in [owner : Routers, cap : Nat]
          /\ arrays'[a] \in [1 .. a.cap -> Middlewares \cup {NoMiddleware}]
    BY <1>5, <1>10, <1>11 DEF Owned, Cap
  <2> QED
    BY <1>2, <1>11, <1>12, <2>1, <2>2 DEF Owned
<1>14. Held(slice'[r], arrays') = Held(s, m) \o ms
  <2>1. /\ Held(s, m) \in Seq(Middlewares) /\ Len(Held(s, m)) = s.len
        /\ Held(l, arrays') \in Seq(Middlewares) /\ Len(Held(l, arrays')) = l.len
    BY HeldSeq, <1>2, <1>13
  <2>2. /\ Held(s, m) \o ms \in Seq(Middlewares)
        /\ Len(Held(s, m) \o ms) = l.len
        /\ \A i \in 1 .. l.len :
             (Held(s, m) \o ms)[i] =
               IF i =< s.len THEN Held(s, m)[i] ELSE ms[i - s.len]
    BY <2>1, <1>5, ConcatProperties
  <2>3. ASSUME NEW i \in 1 .. l.len
        PROVE  Held(l, arrays')[i] = (Held(s, m) \o ms)[i]
    <3>1. Held(l, arrays')[i] = cells[i]
      BY <1>11 DEF Held
    <3>4. i =< s.len \/ i > s.len
      BY <1>3, <1>4, <1>5
    <3>2. CASE i =< s.len
      <4>1. i \in 1 .. s.len
        BY <3>2, <1>3, <1>4, <1>5
      <4>2. Held(s, m)[i] = m[s.at][i]
        BY <4>1 DEF Held
      <4> QED
        BY <3>1, <3>2, <4>1, <4>2, <2>2, <1>9
    <3>3. CASE i > s.len
      <4>1. i \in s.len + 1 .. l.len /\ ~(i =< s.len)
        BY <3>3, <1>3, <1>4, <1>5
      <4> QED
        BY <3>1, <4>1, <2>2, <1>9
    <3> QED
      BY <3>2, <3>3, <3>4
  <2> QED
    BY <2>1, <2>2, <2>3, <1>2, SeqEqual
<1> QED
  BY <1>2, <1>5, <1>11, <1>13, <1>14

(* The invariant says of every router what Owned says of one slice.        *)
LEMMA InvOwned ==
  ASSUME NEW r \in Routers, Inv
  PROVE  Owned(r, slice[r], arrays) /\ Stack(r) = Held(slice[r], arrays)
<1>1. Owned(r, slice[r], arrays)
  BY DEF Inv, TypeOK, OwnArray, Owned, Stack
<1>2. Stack(r) = Held(slice[r], arrays)
  BY DEF Stack, Held
<1> QED
  BY <1>1, <1>2

(* Conversely, Owned for every router is the part of the invariant that is *)
(* about slices.                                                           *)
Parts ==
  /\ \A r \in Routers : Owned(r, slice[r], arrays)
  /\ slice \in [Routers -> [at : DOMAIN arrays, len : Nat]]
  /\ count \in Routers
  /\ prefix \in [Routers -> Seq(Segments)]
  /\ notFound \in [Routers -> Routers \cup {0}]

(* They are all of the invariant.                                          *)
LEMMA OwnedInv == Parts => Inv
<1> SUFFICES ASSUME Parts PROVE Inv
  OBVIOUS
<1> USE DEF Parts
<1>1. \A r \in Routers : slice[r].len =< Cap(slice[r])
  BY DEF Owned
<1>2. 1 \in Routers
  BY RoutersAssumption DEF Routers
<1>3. \A a \in DOMAIN arrays :
        /\ a \in [owner : Routers, cap : Nat]
        /\ arrays[a] \in [1 .. a.cap -> Middlewares \cup {NoMiddleware}]
  BY <1>2 DEF Owned
<1>4. OwnArray
  BY DEF OwnArray, Owned, Stack
<1> QED
  BY <1>1, <1>3, <1>4 DEF Inv, TypeOK

(* The same after a step.                                                  *)
LEMMA OwnedInvNext == Parts' => Inv'
  BY OwnedInv, PTL

(* The first router satisfies the invariant.                               *)
LEMMA InitInv == Init => Inv
<1> SUFFICES ASSUME Init PROVE Inv
  OBVIOUS
<1>1. 1 \in Routers
  BY RoutersAssumption DEF Routers
<1>2. prefix \in [Routers -> Seq(Segments)]
  BY PathsAssumption DEF Init
<1>3. /\ DOMAIN arrays = {Array(r, 0) : r \in Routers}
      /\ \A a \in DOMAIN arrays : arrays[a] = <<>>
  BY DEF Init
<1>4. slice \in [Routers -> [at : DOMAIN arrays, len : Nat]]
  BY <1>3 DEF Init
<1>5. ASSUME NEW r \in Routers PROVE Owned(r, slice[r], arrays)
  <2>1. slice[r] = [at |-> Array(r, 0), len |-> 0]
    BY DEF Init
  <2>2. \A a \in DOMAIN arrays :
          /\ a \in [owner : Routers, cap : Nat]
          /\ arrays[a] \in [1 .. a.cap -> Middlewares \cup {NoMiddleware}]
    <3> TAKE a \in DOMAIN arrays
    <3>1. a \in [owner : Routers, cap : Nat] /\ a.cap = 0
      BY <1>3 DEF Array
    <3>2. arrays[a] = <<>> /\ <<>> \in [1 .. 0 -> Middlewares \cup {NoMiddleware}]
      BY <1>3
    <3> QED
      BY <3>1, <3>2
  <2> QED
    BY <2>1, <2>2, <1>3, <1>4 DEF Owned, Array, Cap
<1> QED
  BY <1>1, <1>2, <1>4, <1>5, OwnedInv DEF Init, Parts

(* append() on one router's stack leaves the stacks of the others alone.   *)
LEMMA OthersKept ==
  ASSUME Inv, NEW r \in Routers, NEW s, NEW m, NEW ms \in Seq(Middlewares),
         Owned(r, s, m), SetStack(r, s, ms, m),
         DOMAIN arrays \subseteq DOMAIN m,
         \A a \in DOMAIN arrays : a.owner # r => m[a] = arrays[a]
  PROVE  /\ \A q \in Routers : Owned(q, slice'[q], arrays')
         /\ slice' \in [Routers -> [at : DOMAIN arrays', len : Nat]]
         /\ Stack(r)' = Held(s, m) \o ms
         /\ \A q \in Routers \ {r} : Stack(q)' = Stack(q)
<1>1. slice \in [Routers -> [at : DOMAIN arrays, len : Nat]]
  BY DEF Inv, TypeOK
<1>2. /\ Owned(r, slice'[r], arrays')
      /\ Held(slice'[r], arrays') = Held(s, m) \o ms
      /\ \A q \in Routers \ {r} : slice'[q] = slice[q]
      /\ DOMAIN m \subseteq DOMAIN arrays'
      /\ \A a \in DOMAIN m : a.owner # r => arrays'[a] = m[a]
  BY <1>1, SetStackOwned
<1>3. ASSUME NEW q \in Routers \ {r}
      PROVE  /\ Owned(q, slice'[q], arrays')
             /\ Held(slice'[q], arrays') = Held(slice[q], arrays)
  <2>1. Owned(q, slice[q], arrays)
    BY InvOwned
  <2>2. /\ slice[q].at \in DOMAIN arrays'
        /\ arrays'[slice[q].at] = arrays[slice[q].at]
    BY <1>2, <2>1 DEF Owned
  <2>3. \A a \in DOMAIN arrays' :
          /\ a \in [owner : Routers, cap : Nat]
          /\ arrays'[a] \in [1 .. a.cap -> Middlewares \cup {NoMiddleware}]
    BY <1>2 DEF Owned
  <2>4. slice'[q] = slice[q]
    BY <1>2
  <2>5. slice[q] \in [at : DOMAIN arrays', len : Nat]
    BY <2>1, <2>2 DEF Owned
  <2>6. Owned(q, slice[q], arrays')
    BY <2>1, <2>2, <2>3, <2>5 DEF Owned
  <2> QED
    BY <2>2, <2>4, <2>6 DEF Held
<1>4. \A q \in Routers : Owned(q, slice'[q], arrays')
  BY <1>2, <1>3
<1>5. slice' \in [Routers -> [at : DOMAIN arrays', len : Nat]]
  <2>1. DOMAIN slice' = Routers /\ slice' = [q \in Routers |-> slice'[q]]
    BY <1>1 DEF SetStack
  <2>2. \A q \in Routers : slice'[q] \in [at : DOMAIN arrays', len : Nat]
    BY <1>4 DEF Owned
  <2> QED
    BY <2>1, <2>2
<1>6. Stack(r)' = Held(s, m) \o ms
  BY <1>2 DEF Stack, Held
<1>7. ASSUME NEW q \in Routers \ {r} PROVE Stack(q)' = Stack(q)
  BY <1>3 DEF Stack, Held
<1> QED
  BY <1>4, <1>5, <1>6, <1>7

(* Use: only r's stack changes, by what it was given.                      *)
LEMMA UseStep ==
  ASSUME Inv, NEW r \in Made, NEW ms \in Lists, Use(r, ms)
  PROVE  /\ Inv'
         /\ Stack(r)' = Stack(r) \o ms
         /\ \A q \in Routers \ {r} : Stack(q)' = Stack(q)
<1>1. r \in Routers /\ ms \in Seq(Middlewares)
  BY RoutersAssumption, ListsAssumption DEF Inv, TypeOK, Made, Routers
<1>2. Owned(r, slice[r], arrays) /\ Stack(r) = Held(slice[r], arrays)
  BY <1>1, InvOwned
<1>3. /\ \A q \in Routers : Owned(q, slice'[q], arrays')
      /\ slice' \in [Routers -> [at : DOMAIN arrays', len : Nat]]
      /\ Stack(r)' = Held(slice[r], arrays) \o ms
      /\ \A q \in Routers \ {r} : Stack(q)' = Stack(q)
  BY <1>1, <1>2, OthersKept DEF Use
<1>4. Inv'
  <2>1. /\ count' \in Routers /\ prefix' \in [Routers -> Seq(Segments)]
        /\ notFound' \in [Routers -> Routers \cup {0}]
    BY DEF Use, Inv, TypeOK
  <2> QED
    BY <1>3, <2>1, OwnedInvNext DEF Parts
<1> QED
  BY <1>2, <1>3, <1>4

(* clone(): the new router starts with r's stack and what it was given.    *)
LEMMA CloneStep ==
  ASSUME Inv, NEW r \in Made, NEW segs \in Seq(Segments),
         NEW ms \in Lists, Clone(r, segs, ms), NEW n, n = count + 1
  PROVE  /\ Inv'
         /\ n \in Routers
         /\ Stack(n)' = Stack(r) \o ms
         /\ \A q \in Routers \ {n} : Stack(q)' = Stack(q)
<1> DEFINE a == Array(n, slice[r].len)
           m == Put(a, Stack(r), arrays)
           s == ClonedStack(r)
<1>1. /\ r \in Routers /\ n \in Routers
      /\ ms \in Seq(Middlewares)
  BY RoutersAssumption, ListsAssumption DEF Inv, TypeOK, Made, Routers, Clone
<1>2. /\ Owned(r, slice[r], arrays) /\ Stack(r) = Held(slice[r], arrays)
      /\ Stack(r) \in Seq(Middlewares) /\ Len(Stack(r)) = slice[r].len
      /\ slice[r].len \in Nat
  <2>1. Owned(r, slice[r], arrays) /\ Stack(r) = Held(slice[r], arrays)
    BY <1>1, InvOwned
  <2> QED
    BY <1>1, <2>1, HeldSeq DEF Owned
<1>3. /\ DOMAIN m = DOMAIN arrays \cup {a}
      /\ m[a] = Stack(r)
      /\ \A x \in DOMAIN arrays : x # a => m[x] = arrays[x]
  BY DEF Put
<1>4. /\ a \in [owner : Routers, cap : Nat] /\ a.owner = n
      /\ a.cap = slice[r].len
      /\ s = [at |-> a, len |-> slice[r].len]
  BY <1>1, <1>2 DEF Array, ClonedStack
<1>5. /\ Stack(r) \in [1 .. a.cap -> Middlewares \cup {NoMiddleware}]
      /\ \A i \in 1 .. slice[r].len : Stack(r)[i] \in Middlewares
  BY <1>2, <1>4 DEF Stack
<1> HIDE DEF a, m, s
<1>6. Owned(n, s, m)
  <2>1. \A x \in DOMAIN m :
          /\ x \in [owner : Routers, cap : Nat]
          /\ m[x] \in [1 .. x.cap -> Middlewares \cup {NoMiddleware}]
    BY <1>2, <1>3, <1>4, <1>5 DEF Owned
  <2> QED
    BY <1>2, <1>3, <1>4, <1>5, <2>1 DEF Owned, Cap
<1>7. Held(s, m) = Stack(r)
  BY <1>2, <1>3, <1>4 DEF Held, Stack
<1>8. SetStack(n, s, ms, m)
  BY DEF Clone, a, m, s
<1>9. \A x \in DOMAIN arrays : x.owner # n => m[x] = arrays[x]
  BY <1>3, <1>4
<1>10. /\ \A q \in Routers : Owned(q, slice'[q], arrays')
       /\ slice' \in [Routers -> [at : DOMAIN arrays', len : Nat]]
       /\ Stack(n)' = Held(s, m) \o ms
       /\ \A q \in Routers \ {n} : Stack(q)' = Stack(q)
  BY <1>1, <1>3, <1>6, <1>8, <1>9, OthersKept
<1>11. Inv'
  <2>1. /\ count' \in Routers /\ prefix' \in [Routers -> Seq(Segments)]
        /\ notFound' \in [Routers -> Routers \cup {0}]
    BY <1>1 DEF Clone, Inv, TypeOK
  <2> QED
    BY <1>10, <2>1, OwnedInvNext DEF Parts
<1> QED
  BY <1>1, <1>7, <1>10, <1>11

(* The steps that change no stack.                                         *)
LEMMA QuietStep ==
  ASSUME Inv, UNCHANGED <<count, prefix, slice, arrays>>,
         notFound' \in [Routers -> Routers \cup {0}]
  PROVE  Inv' /\ \A q \in Routers : Stack(q)' = Stack(q)
<1>1. Inv'
  BY DEF Inv, TypeOK, OwnArray, Stack
<1> QED
  BY <1>1 DEF Stack

(* Every step keeps the invariant and is one of Scopes.                    *)
LEMMA StepRefines ==
  ASSUME Inv, [Next]_vars
  PROVE  Inv' /\ [Scope!Next]_(Scope!scopeVars)
<1> DEFINE stacks == [q \in Routers |-> Stack(q)]
<1>0. Made \subseteq Routers /\ count \in Nat
  BY RoutersAssumption DEF Inv, TypeOK, Made, Routers
<1>1. ASSUME NEW r \in Made, NEW ms \in Lists, Use(r, ms)
      PROVE  Inv' /\ Scope!Use(r, ms)
  <2>1. /\ Inv' /\ Stack(r)' = Stack(r) \o ms
        /\ \A q \in Routers \ {r} : Stack(q)' = Stack(q)
    BY <1>1, UseStep
  <2>2. stacks' = [stacks EXCEPT ![r] = @ \o ms]
    BY <1>0, <2>1
  <2> QED
    BY <1>1, <2>1, <2>2 DEF Use, Scope!Use
<1>2. ASSUME NEW r \in Made, NEW segs \in Seq(Segments), NEW ms \in Lists,
             Clone(r, prefix[r] \o segs, ms)
      PROVE  Inv' /\ Scope!Derive(r, segs, ms)
  <2>1. prefix[r] \o segs \in Seq(Segments)
    BY <1>0, ConcatProperties DEF Inv, TypeOK
  <2>2. PICK n : n = count + 1
    OBVIOUS
  <2>3. /\ Inv' /\ n \in Routers
        /\ Stack(n)' = Stack(r) \o ms
        /\ \A q \in Routers \ {n} : Stack(q)' = Stack(q)
    BY <1>2, <2>1, <2>2, CloneStep
  <2>4. stacks' = [stacks EXCEPT ![count + 1] = stacks[r] \o ms]
    BY <1>0, <2>2, <2>3
  <2> QED
    BY <1>2, <2>2, <2>3, <2>4 DEF Clone, Scope!Derive
<1>3. /\ Inv
      /\ \A r \in Made : prefix[r] \in Seq(Segments)
      /\ \A p \in Paths : p.segs \in Seq(Segments)
      /\ <<>> \in Lists /\ <<>> \in Seq(Segments)
  BY <1>0, PathsAssumption, ListsAssumption DEF Inv, TypeOK
<1>4. ASSUME NEW r \in Made, NEW ms \in Lists, Clone(r, prefix[r], ms)
      PROVE  Inv' /\ Scope!Derive(r, <<>>, ms)
  <2>1. prefix[r] \o <<>> = prefix[r]
    BY <1>3, ConcatEmptySeq
  <2>2. Clone(r, prefix[r] \o <<>>, ms)
    BY <1>4, <2>1
  <2> QED
    BY <1>2, <1>3, <2>2
<1>5. ASSUME NEW r \in Made, NEW p \in Paths, Group(r, p)
      PROVE  Inv' /\ Scope!Derive(r, p.segs, <<>>)
  <2>1. Clone(r, prefix[r] \o p.segs, <<>>)
    BY <1>5 DEF Group, WrapPath
  <2> QED
    BY <1>2, <1>3, <2>1
<1>6. ASSUME UNCHANGED <<count, prefix, slice, arrays>>,
             notFound' \in [Routers -> Routers \cup {0}]
      PROVE  Inv' /\ stacks' = stacks
  BY <1>6, QuietStep
<1>7. ASSUME NEW r \in Made, NotFound(r)
      PROVE  Inv' /\ UNCHANGED Scope!scopeVars
  <2>1. notFound' \in [Routers -> Routers \cup {0}]
    BY <1>0, <1>7 DEF NotFound, Inv, TypeOK
  <2>2. Inv' /\ stacks' = stacks
    BY <1>6, <1>7, <2>1 DEF NotFound
  <2> QED
    BY <1>7, <2>2 DEF NotFound, Scope!scopeVars
<1>8. ASSUME NEW r \in Made, NEW p \in Paths, NEW e, NEW list,
             Register(e, list),
             e.segs = WrapPath(r, p).segs, e.chain = Stack(r),
             Scope!Extends(e, p)
      PROVE  Inv' /\ (Scope!Register(r, p) \/ UNCHANGED Scope!scopeVars)
  <2>1. notFound' \in [Routers -> Routers \cup {0}]
    BY <1>8 DEF Register, Inv, TypeOK
  <2>2. Inv' /\ stacks' = stacks
    BY <1>6, <1>8, <2>1 DEF Register
  <2>3. e.segs = prefix[r] \o p.segs /\ e.chain = stacks[r]
    BY <1>0, <1>8 DEF WrapPath
  <2>4. CASE mux' = mux \cup {e}
    <3>1. e \in mux'
      BY <2>4
    <3> QED
      BY <1>8, <2>2, <2>3, <2>4, <3>1 DEF Register, Scope!Register
  <2>5. CASE mux' = mux
    BY <1>8, <2>2, <2>5 DEF Register, Scope!scopeVars
  <2> QED
    BY <1>8, <2>4, <2>5 DEF Register, Installed
<1>9. ASSUME NEW r \in Made, NEW p \in Paths,
             Handle(r, p) \/ Mount(r, p) \/ \E m \in Methods : Method(r, m, p)
      PROVE  Inv' /\ (Scope!Register(r, p) \/ UNCHANGED Scope!scopeVars)
  <2> DEFINE w == WrapPath(r, p)
  <2>0. w.slash <=> p.slash \/ w.segs = <<>>
    BY DEF WrapPath
  <2> HIDE DEF w
  <2>1. ASSUME NEW m \in Methods, Method(r, m, p)
        PROVE  Inv' /\ (Scope!Register(r, p) \/ UNCHANGED Scope!scopeVars)
    <3> DEFINE e == Entry(r, m, w.segs, MethodKind(w), FALSE)
    <3>1. Scope!Extends(e, p)
      <4>1. e.method = m /\ e.segs = w.segs /\ e.kind = MethodKind(w) /\ ~e.strip
        BY DEF Entry
      <4>2. m # ""
        BY MethodsAssumption
      <4> HIDE DEF e
      <4> QED
        BY <2>0, <4>1, <4>2 DEF MethodKind, Scope!Extends
    <3>2. e.segs = w.segs /\ e.chain = Stack(r)
      BY DEF Entry
    <3>3. Register(e, Listed(e))
      BY <2>1 DEF Method, w
    <3> HIDE DEF e
    <3> QED
      BY <1>8, <3>1, <3>2, <3>3 DEF w
  <2>2. ASSUME NEW kind, NEW strip \in BOOLEAN,
               Register(Entry(r, AnyMethod, w.segs, kind, strip), routes),
               kind = IF w.slash \/ strip THEN "tree" ELSE "leaf"
        PROVE  Inv' /\ (Scope!Register(r, p) \/ UNCHANGED Scope!scopeVars)
    <3> DEFINE e == Entry(r, AnyMethod, w.segs, kind, strip)
    <3>1. Scope!Extends(e, p)
      <4>1. e.method = "" /\ e.segs = w.segs /\ e.kind = kind /\ e.strip = strip
        BY DEF Entry, AnyMethod
      <4> HIDE DEF e
      <4> QED
        BY <2>0, <2>2, <4>1 DEF Scope!Extends
    <3>2. e.segs = w.segs /\ e.chain = Stack(r)
      BY DEF Entry
    <3>3. Register(e, routes)
      BY <2>2
    <3> HIDE DEF e
    <3> QED
      BY <1>8, <3>1, <3>2, <3>3 DEF w
  <2>3. CASE Handle(r, p)
    <3> DEFINE kind == IF w.slash THEN "tree" ELSE "leaf"
    <3>1. Register(Entry(r, AnyMethod, w.segs, kind, FALSE), routes)
      BY <2>3 DEF Handle, w
    <3> QED
      BY <2>2, <3>1
  <2>4. CASE Mount(r, p)
    <3>1. Register(Entry(r, AnyMethod, w.segs, "tree", TRUE), routes)
      BY <2>4 DEF Mount, w
    <3> QED
      BY <2>2, <3>1
  <2> QED
    BY <1>9, <2>1, <2>3, <2>4
<1>10. CASE UNCHANGED vars
  <2>1. notFound' \in [Routers -> Routers \cup {0}]
    BY <1>10 DEF vars, Inv, TypeOK
  <2>2. Inv' /\ stacks' = stacks
    BY <1>6, <1>10, <2>1 DEF vars
  <2> QED
    BY <1>10, <2>2 DEF vars, Scope!scopeVars
<1>11. CASE Next
  <2> PICK r \in Made :
        \/ \E ms \in Lists : Use(r, ms) \/ With(r, ms)
        \/ Route(r) \/ NotFound(r)
        \/ \E p \in Paths :
             \/ Group(r, p) \/ Handle(r, p) \/ Mount(r, p)
             \/ \E m \in Methods : Method(r, m, p)
    BY <1>11 DEF Next
  <2>1. r \in 1 .. count
    BY DEF Made
  <2>2. CASE \E ms \in Lists : Use(r, ms) \/ With(r, ms)
    BY <1>1, <1>4, <2>1, <2>2 DEF With, Scope!Next
  <2>3. CASE Route(r)
    BY <1>3, <1>4, <2>1, <2>3 DEF Route, Scope!Next
  <2>4. CASE NotFound(r)
    BY <1>7, <2>4
  <2>5. CASE \E p \in Paths :
               \/ Group(r, p) \/ Handle(r, p) \/ Mount(r, p)
               \/ \E m \in Methods : Method(r, m, p)
    <3> PICK p \in Paths :
          \/ Group(r, p) \/ Handle(r, p) \/ Mount(r, p)
          \/ \E m \in Methods : Method(r, m, p)
      BY <2>5
    <3>1. CASE Group(r, p)
      BY <1>5, <2>1, <3>1 DEF Scope!Next
    <3>2. CASE Handle(r, p) \/ Mount(r, p) \/ \E m \in Methods : Method(r, m, p)
      BY <1>9, <2>1, <3>2 DEF Scope!Next
    <3> QED
      BY <3>1, <3>2
  <2> QED
    BY <2>2, <2>3, <2>4, <2>5
<1> QED
  BY <1>10, <1>11

(* Every stack has an array of its own: an append to one router's stack,   *)
(* whether in place or to a new array, never writes into another's, for    *)
(* any number of routers and any growth of the slices.                     *)
THEOREM Invariance == Spec => []Inv
<1>1. Inv /\ [Next]_vars => Inv'
  BY StepRefines
<1> QED
  BY InitInv, <1>1, PTL DEF Spec

(* The first router is the first scope.                                    *)
LEMMA InitRefines == Init => Scope!Init
<1> SUFFICES ASSUME Init PROVE Scope!Init
  OBVIOUS
<1>1. ASSUME NEW r \in Routers PROVE Stack(r) = <<>>
  BY <1>1 DEF Init, Stack
<1> QED
  BY <1>1 DEF Init, Scope!Init

(* Every behaviour of the routers, slices and arrays and all, is one of    *)
(* Scopes: a router keeps the stack it was made with and what was added to *)
(* it, and a handler runs the stack of its router at registration for the  *)
(* path given, below its router's prefix and with its trailing slash.      *)
THEOREM Implements == Spec => ImplementsScopes
<1>1. Inv /\ [Next]_vars => [Scope!Next]_(Scope!scopeVars)
  BY StepRefines
<1> QED
  BY Invariance, InitRefines, <1>1, PTL DEF Spec, ImplementsScopes, Scope!Spec
=============================================================================
