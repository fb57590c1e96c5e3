-------------------------- MODULE RateLimit_proofs --------------------------
(***************************************************************************)
(* What the runs of RateLimit show on small instances, proved for every    *)
(* number of requests, limit, window and lag.                              *)
(***************************************************************************)
EXTENDS RateLimit, FiniteSetTheorems, TLAPS

USE RequestsAssumption, LimitAssumption, WindowAssumption, BoundsAssumption
USE DEF RequestsAssumption, LimitAssumption, WindowAssumption, BoundsAssumption

-----------------------------------------------------------------------------
(* Index arithmetic of the ring.                                           *)

(* An index below the length is not changed by the modulo.                 *)
LEMMA ModSmall == ASSUME NEW L \in Nat \ {0}, NEW a \in 0 .. L - 1
                  PROVE  a % L = a
  OBVIOUS

(* One lap past the length wraps once.                                     *)
LEMMA ModWrap == ASSUME NEW L \in Nat \ {0}, NEW a \in Nat, L =< a, a < L + L
                 PROVE  a % L = a - L
  OBVIOUS

(* The bucket of an undecided request is a request's bucket, and the slot  *)
(* Fill writes is the first unused one.                                    *)
LEMMA FillSlot ==
  ASSUME TypeOK, RingShape, NEW r \in Requests, Fill(r)
  PROVE  LET b == BucketOf(r) IN
         /\ b \in Requests
         /\ head[b] = 0 /\ NextSlot(b) = size[b] /\ size[b] \in Slots
<1> DEFINE b == BucketOf(r)
<1>1. b \in Requests /\ size[b] \in 0 .. Limit /\ size[b] < Limit
  BY DEF TypeOK, Fill, BucketOf
<1>2. head[b] = 0
  BY <1>1 DEF RingShape
<1>3. size[b] \in 0 .. Limit - 1 /\ Limit \in Nat \ {0}
  BY <1>1
<1>4. NextSlot(b) = size[b]
  BY <1>1, <1>2, <1>3, ModSmall DEF NextSlot
<1> QED
  BY <1>1, <1>2, <1>3, <1>4 DEF Slots

(* Slide writes the head's slot and moves the head one slot on.            *)
LEMMA SlideSlot ==
  ASSUME TypeOK, NEW r \in Requests, Slide(r)
  PROVE  LET b == BucketOf(r) IN
         /\ b \in Requests /\ size[b] = Limit /\ Limit > 0
         /\ head[b] \in Slots
         /\ head'[b] = IF head[b] = Limit - 1 THEN 0 ELSE head[b] + 1
<1> DEFINE b == BucketOf(r)
<1>1. b \in Requests /\ size[b] = Limit /\ Limit \in Nat \ {0}
  BY DEF TypeOK, Slide, BucketOf
<1>2. head[b] \in 0 .. Limit - 1
  BY <1>1 DEF TypeOK, Slots
<1>3. head'[b] = (head[b] + 1) % Limit
  BY <1>1 DEF Slide, NextHead, TypeOK
<1>4. CASE head[b] = Limit - 1
  <2>1. head[b] + 1 \in Nat /\ Limit =< head[b] + 1 /\ head[b] + 1 < Limit + Limit
    BY <1>1, <1>2, <1>4
  <2>2. (head[b] + 1) % Limit = head[b] + 1 - Limit
    BY <1>1, <1>2, <2>1, ModWrap
  <2> QED
    BY <1>1, <1>2, <1>3, <1>4, <2>2 DEF Slots
<1>5. CASE head[b] # Limit - 1
  <2>1. head[b] + 1 \in 0 .. Limit - 1
    BY <1>1, <1>2, <1>5
  <2>2. (head[b] + 1) % Limit = head[b] + 1
    BY <1>1, <2>1, ModSmall
  <2> QED
    BY <1>1, <1>2, <1>3, <1>5, <2>2 DEF Slots
<1> QED
  BY <1>4, <1>5

-----------------------------------------------------------------------------
(* Type correctness.                                                       *)

(* Initially every variable has its type.                                  *)
LEMMA InitType == Init => TypeOK
<1> SUFFICES ASSUME Init PROVE TypeOK
  OBVIOUS
<1>1. timestamps \in [Requests -> [Slots -> Int]]
  BY DEF Init, ZeroTime
<1>2. size \in [Requests -> 0 .. Limit] /\ head \in [Requests -> Nat]
  BY DEF Init
<1>3. \A b \in Requests : head[b] = 0
  BY DEF Init
<1> QED
  BY <1>1, <1>2, <1>3 DEF Init, TypeOK

(* Fill keeps the types: the slot it writes is one of the ring.            *)
LEMMA FillType ==
  ASSUME TypeOK, RingShape, NEW r \in Requests, Fill(r)
  PROVE  TypeOK'
<1> DEFINE b == BucketOf(r)
<1>1. /\ b \in Requests
      /\ head[b] = 0 /\ NextSlot(b) = size[b] /\ size[b] \in 0 .. Limit - 1
  BY FillSlot DEF Slots
<1>2. size' \in [Requests -> 0 .. Limit]
  BY <1>1 DEF TypeOK, Fill
<1>3. timestamps' \in [Requests -> [Slots -> Int]] /\ index' \in [Requests -> Nat]
  <2>1. Store(r, b, size[b]) /\ size[b] \in Slots /\ now[r] \in Int
    BY <1>1 DEF TypeOK, Fill, Slots
  <2>2. size[b] \in Nat
    BY <1>1
  <2> HIDE DEF b
  <2> QED
    BY <1>1, <2>1, <2>2 DEF TypeOK, Store
<1>4. home' \in [Requests -> Requests \cup {NoBucket}]
  BY <1>1 DEF TypeOK, Fill, Store
<1>5. requests' \in [Clients -> Requests \cup {NoBucket}]
  BY <1>1 DEF TypeOK, Fill, Decide
<1>6. Decide(r, "allowed") /\ UNCHANGED head
  BY DEF Fill
<1> HIDE DEF b
<1> QED
  BY <1>2, <1>3, <1>4, <1>5, <1>6 DEF TypeOK, Decide, cleanerVars

(* Slide keeps the types: head stays a slot of the ring.                   *)
LEMMA SlideType ==
  ASSUME TypeOK, NEW r \in Requests, Slide(r)
  PROVE  TypeOK'
<1> DEFINE b == BucketOf(r)
<1>1. /\ b \in Requests /\ head[b] \in Slots /\ Limit > 0
      /\ head'[b] = IF head[b] = Limit - 1 THEN 0 ELSE head[b] + 1
  BY SlideSlot
<1>2. head'[b] \in Slots
  BY <1>1 DEF Slots
<1>3. /\ DOMAIN head' = Requests /\ head' = [x \in Requests |-> head'[x]]
      /\ \A x \in Requests \ {b} : head'[x] = head[x]
  BY <1>1 DEF TypeOK, Slide
<1>4. head' \in [Requests -> Nat] /\ \A x \in Requests : head'[x] \in Slots \/ head'[x] = 0
  <2>1. \A x \in Requests : head'[x] \in Slots \/ head'[x] = 0
    BY <1>1, <1>2, <1>3 DEF TypeOK
  <2>2. \A x \in Requests : head'[x] \in Nat
    BY <2>1 DEF Slots
  <2> QED
    BY <1>3, <2>1, <2>2
<1>5. timestamps' \in [Requests -> [Slots -> Int]] /\ index' \in [Requests -> Nat]
  <2>1. Store(r, b, head[b]) /\ head[b] \in Nat /\ now[r] \in Int
    BY <1>1 DEF TypeOK, Slide
  <2> QED
    BY <1>1, <2>1 DEF TypeOK, Store
<1> QED
  <2>1. Decide(r, "allowed") /\ Store(r, b, head[b]) /\ UNCHANGED size
    BY DEF Slide
  <2> QED
    BY <1>1, <1>4, <1>5, <2>1 DEF TypeOK, Decide, Store, cleanerVars

(* Every step keeps the types, given the shape of the rings.               *)
LEMMA TypeStep == TypeOK /\ RingShape /\ [Next]_vars => TypeOK'
<1> SUFFICES ASSUME TypeOK, RingShape, [Next]_vars PROVE TypeOK'
  OBVIOUS
<1>1. ASSUME NEW r \in Requests, Arrive(r) PROVE TypeOK'
  BY <1>1 DEF TypeOK, Arrive, bucketVars, cleanerVars
<1>2. ASSUME NEW r \in Requests, Fill(r) PROVE TypeOK'
  BY <1>2, FillType
<1>3. ASSUME NEW r \in Requests, Slide(r) PROVE TypeOK'
  BY <1>3, SlideType
<1>4. ASSUME NEW r \in Requests, Refuse(r) \/ Overrun(r) PROVE TypeOK'
  <2>1. \E v \in {"limited", "panicked"} : Decide(r, v)
    BY <1>4 DEF Refuse, Overrun
  <2>2. UNCHANGED <<timestamps, head, size, home, index>>
    BY <1>4 DEF Refuse, Overrun, bucketVars
  <2> QED
    BY <2>1, <2>2 DEF TypeOK, Decide, BucketOf, cleanerVars
<1>5. CASE CleanerWake
  BY <1>5 DEF TypeOK, CleanerWake, Cutoff, requestVars, bucketVars
<1>6. CASE Sweep
  BY <1>6 DEF TypeOK, Sweep, requestVars, bucketVars
<1>7. CASE Tick
  BY <1>7 DEF TypeOK, Tick, requestVars, bucketVars
<1>8. CASE UNCHANGED vars
  BY <1>8 DEF TypeOK, vars, requestVars, bucketVars, cleanerVars
<1> QED
  BY <1>1, <1>2, <1>3, <1>4, <1>5, <1>6, <1>7, <1>8 DEF Next, Allow
-----------------------------------------------------------------------------
(* The steps that leave the rings and the admissions alone.                *)

(* The empty limiter satisfies the invariant.                              *)
LEMMA InitInv == Init => Inv
<1> SUFFICES ASSUME Init PROVE Inv
  OBVIOUS
<1>1. TypeOK
  BY InitType
<1>2. Admitted = {}
  BY DEF Init, Admitted
<1>3. StampsInPast
  BY DEF Init, StampsInPast
<1>4. RingShape /\ SlotOwned /\ RingOrder
  BY DEF Init, RingShape, SlotOwned, RingOrder
<1>5. BucketOwner /\ CutoffPast
  BY DEF Init, BucketOwner, CutoffPast
<1> QED
  BY <1>1, <1>2, <1>3, <1>4, <1>5
  DEF Inv, AdmissionStored, SlotSpacing, ForgottenExpired, BucketSpacing

(* What a step keeps when no ring changes and no request is admitted.      *)
LEMMA RingsKept ==
  ASSUME Inv, UNCHANGED <<client, bucketVars, home, index>>,
         Admitted' = Admitted,
         \A r \in Admitted : now'[r] = now[r]
  PROVE  /\ RingShape' /\ SlotOwned' /\ AdmissionStored' /\ SlotSpacing'
         /\ RingOrder' /\ BucketSpacing'
<1>1. RingShape' /\ RingOrder'
  BY DEF Inv, RingShape, RingOrder, Rank, bucketVars
<1>2. SlotOwned'
  BY DEF Inv, SlotOwned, bucketVars
<1>3. AdmissionStored'
  BY DEF Inv, AdmissionStored, bucketVars
<1>4. SlotSpacing' /\ BucketSpacing'
  BY DEF Inv, SlotSpacing, BucketSpacing
<1> QED
  BY <1>1, <1>2, <1>3, <1>4

(* Reading the clock (allow, line 62) keeps the invariant.                 *)
LEMMA ArriveInv ==
  ASSUME Inv, NEW r \in Requests, Arrive(r)
  PROVE  Inv'
<1>1. TypeOK'
  BY TypeStep DEF Inv, Next
<1>2. /\ UNCHANGED <<clock, client, requests, bucketVars, home, index, cleaner, cutoff>>
      /\ Admitted' = Admitted
      /\ \A s \in Admitted : now'[s] = now[s]
  BY DEF Inv, TypeOK, Arrive, Admitted, cleanerVars
<1>3. /\ RingShape' /\ SlotOwned' /\ AdmissionStored' /\ SlotSpacing'
      /\ RingOrder' /\ BucketSpacing'
  BY <1>2, RingsKept
<1>4. StampsInPast'
  BY <1>2 DEF Inv, TypeOK, StampsInPast, Arrive
<1>5. BucketOwner'
  BY <1>2 DEF Inv, TypeOK, BucketOwner, Arrive, bucketVars
<1>6. ForgottenExpired' /\ CutoffPast'
  BY <1>2 DEF Inv, ForgottenExpired, CutoffPast
<1> QED
  BY <1>1, <1>3, <1>4, <1>5, <1>6 DEF Inv

(* A verdict that admits nobody keeps the invariant.                       *)
LEMMA NotAdmittedInv ==
  ASSUME Inv, NEW r \in Requests, Refuse(r) \/ Overrun(r)
  PROVE  Inv'
<1>1. TypeOK'
  BY TypeStep DEF Inv, Next, Allow
<1>2. PICK v \in {"limited", "panicked"} : Decide(r, v)
  BY DEF Refuse, Overrun
<1>3. /\ UNCHANGED <<clock, client, now, bucketVars, home, index, cleaner, cutoff>>
      /\ Admitted' = Admitted
  BY <1>2 DEF Inv, TypeOK, Refuse, Overrun, Decide, Admitted, cleanerVars
<1>4. /\ RingShape' /\ SlotOwned' /\ AdmissionStored' /\ SlotSpacing'
      /\ RingOrder' /\ BucketSpacing'
  BY <1>3, RingsKept
<1>5. StampsInPast' /\ CutoffPast'
  BY <1>2, <1>3 DEF Inv, TypeOK, StampsInPast, CutoffPast, Decide
<1>6. BucketOwner'
  BY <1>2, <1>3 DEF Inv, TypeOK, BucketOwner, Decide, BucketOf, bucketVars
<1>7. ForgottenExpired'
  <2>1. \A s \in Admitted : requests'[client[s]] # home[s] => requests[client[s]] # home[s]
    BY <1>2 DEF Inv, TypeOK, Decide, BucketOf, AdmissionStored, Admitted
  <2> QED
    BY <1>3, <2>1 DEF Inv, ForgottenExpired
<1> QED
  BY <1>1, <1>4, <1>5, <1>6, <1>7 DEF Inv

(* Waking the cleaner keeps the invariant.                                 *)
LEMMA CleanerWakeInv ==
  ASSUME Inv, CleanerWake
  PROVE  Inv'
<1>1. TypeOK'
  BY TypeStep DEF Inv, Next
<1>2. /\ UNCHANGED <<clock, pc, client, now, requests, bucketVars, home, index>>
      /\ Admitted' = Admitted
  BY DEF CleanerWake, Admitted, requestVars
<1>3. /\ RingShape' /\ SlotOwned' /\ AdmissionStored' /\ SlotSpacing'
      /\ RingOrder' /\ BucketSpacing'
  BY <1>2, RingsKept
<1>4. StampsInPast' /\ BucketOwner' /\ ForgottenExpired'
  BY <1>2 DEF Inv, StampsInPast, BucketOwner, ForgottenExpired, bucketVars
<1>5. CutoffPast'
  BY DEF Inv, TypeOK, CutoffPast, CleanerWake, Cutoff
<1> QED
  BY <1>1, <1>3, <1>4, <1>5 DEF Inv

(* The passing of time keeps the invariant.                                *)
LEMMA TickInv ==
  ASSUME Inv, Tick
  PROVE  Inv'
<1>1. TypeOK'
  BY TypeStep DEF Inv, Next
<1>2. /\ UNCHANGED <<pc, client, now, requests, bucketVars, home, index, cleaner, cutoff>>
      /\ Admitted' = Admitted /\ clock' = clock + 1
  BY DEF Tick, Admitted, requestVars
<1>3. /\ RingShape' /\ SlotOwned' /\ AdmissionStored' /\ SlotSpacing'
      /\ RingOrder' /\ BucketSpacing'
  BY <1>2, RingsKept
<1>4. StampsInPast'
  BY <1>2 DEF Inv, TypeOK, StampsInPast, Tick
<1>5. BucketOwner'
  BY <1>2 DEF Inv, BucketOwner, bucketVars
<1>6. ForgottenExpired' /\ CutoffPast'
  BY <1>2 DEF Inv, TypeOK, ForgottenExpired, CutoffPast, Admitted
<1> QED
  BY <1>1, <1>3, <1>4, <1>5, <1>6 DEF Inv

-----------------------------------------------------------------------------
(* The cleaner.                                                            *)

(* NewestSlot is the last slot of the ring, so up to the lag no used slot  *)
(* holds a later stamp.                                                    *)
LEMMA NewestStamp ==
  ASSUME Inv, NEW b \in Requests, size[b] # 0
  PROVE  /\ NewestSlot(b) \in 0 .. size[b] - 1
         /\ \A i \in 0 .. size[b] - 1 :
              timestamps[b][i] =< timestamps[b][NewestSlot(b)] + MaxLag
<1>1. size[b] \in 1 .. Limit /\ Limit \in Nat \ {0} /\ head[b] \in 0 .. Limit - 1
  BY DEF Inv, TypeOK, Slots
<1>2. NewestSlot(b) \in 0 .. size[b] - 1 /\ Rank(b, NewestSlot(b)) = size[b] - 1
  <2>1. CASE head[b] = 0
    <3>1. head[b] + size[b] - 1 \in 0 .. Limit - 1 /\ head[b] + size[b] - 1 = size[b] - 1
      BY <1>1, <2>1
    <3>2. NewestSlot(b) = size[b] - 1
      BY <1>1, <3>1, ModSmall DEF NewestSlot
    <3> QED
      BY <1>1, <2>1, <3>2 DEF Rank
  <2>2. CASE head[b] # 0
    <3>1. size[b] = Limit
      BY <1>1, <2>2 DEF Inv, RingShape
    <3>2. /\ head[b] + size[b] - 1 \in Nat /\ Limit =< head[b] + size[b] - 1
          /\ head[b] + size[b] - 1 < Limit + Limit
      BY <1>1, <2>2, <3>1
    <3>3. NewestSlot(b) = head[b] - 1
      BY <1>1, <3>1, <3>2, ModWrap DEF NewestSlot
    <3> QED
      BY <1>1, <2>2, <3>1, <3>3 DEF Rank
  <2> QED
    BY <2>1, <2>2
<1>3. \A i \in 0 .. size[b] - 1 : Rank(b, i) =< size[b] - 1
  <2>1. CASE head[b] = 0
    BY <1>1, <2>1 DEF Rank
  <2>2. CASE head[b] # 0
    BY <1>1, <2>2 DEF Rank, Inv, RingShape
  <2> QED
    BY <2>1, <2>2
<1> QED
  BY <1>2, <1>3 DEF Inv, RingOrder

(* The cleaner deletes a bucket only when all its stamps have expired.     *)
LEMMA SweptExpired ==
  ASSUME Inv, Sweep, NEW r \in Admitted,
         requests[client[r]] = home[r], requests'[client[r]] # home[r]
  PROVE  now[r] < clock - Window + MaxLag
<1> DEFINE b == home[r]
<1>1. /\ b \in Requests /\ index[r] \in 0 .. size[b] - 1
      /\ now[r] =< timestamps[b][index[r]] /\ now[r] \in Nat
      /\ client[r] \in Clients
  BY DEF Inv, TypeOK, AdmissionStored, Admitted
<1>2. Stale(b) /\ cutoff =< clock - Window
  BY <1>1 DEF Sweep, Inv, CutoffPast
<1>3. size[b] # 0
  BY <1>1 DEF Inv, TypeOK
<1>4. timestamps[b][NewestSlot(b)] < cutoff
  BY <1>2, <1>3 DEF Stale
<1>5. /\ NewestSlot(b) \in 0 .. size[b] - 1
      /\ timestamps[b][index[r]] =< timestamps[b][NewestSlot(b)] + MaxLag
  BY <1>1, <1>3, NewestStamp
<1>6. 0 .. size[b] - 1 \subseteq Slots
  BY <1>1 DEF Inv, TypeOK, Slots
<1>7. /\ clock \in Nat /\ cutoff \in Int
      /\ timestamps[b][NewestSlot(b)] \in Int /\ timestamps[b][index[r]] \in Int
  BY <1>1, <1>5, <1>6 DEF Inv, TypeOK
<1> QED
  BY <1>1, <1>2, <1>4, <1>5, <1>7

(* cleanup() keeps the invariant.                                          *)
LEMMA SweepInv ==
  ASSUME Inv, Sweep
  PROVE  Inv'
<1>1. TypeOK'
  BY TypeStep DEF Inv, Next
<1>2. /\ UNCHANGED <<clock, pc, client, now, bucketVars, home, index>>
      /\ Admitted' = Admitted /\ cleaner' = "waiting"
  BY DEF Sweep, Admitted, requestVars
<1>3. /\ RingShape' /\ SlotOwned' /\ AdmissionStored' /\ SlotSpacing'
      /\ RingOrder' /\ BucketSpacing'
  BY <1>2, RingsKept
<1>4. StampsInPast' /\ CutoffPast'
  BY <1>2 DEF Inv, StampsInPast, CutoffPast
<1>5. BucketOwner'
  BY <1>2 DEF Inv, TypeOK, BucketOwner, Sweep, bucketVars
<1>6. ForgottenExpired'
  BY <1>2, SweptExpired DEF Inv, ForgottenExpired
<1> QED
  BY <1>1, <1>3, <1>4, <1>5, <1>6 DEF Inv

-----------------------------------------------------------------------------
(* Admissions.                                                             *)

(* When r is admitted to its bucket, every earlier admission of its client *)
(* recorded elsewhere is one the cleaner has taken away.                   *)
LEMMA ElsewhereForgotten ==
  ASSUME Inv, NEW r \in Requests, NEW s \in Admitted,
         client[s] = client[r], home[s] # BucketOf(r)
  PROVE  requests[client[s]] # home[s] /\ now[s] < clock - Window + MaxLag
<1>1. home[s] \in Requests
  BY DEF Inv, AdmissionStored
<1>2. requests[client[s]] # home[s]
  BY <1>1 DEF BucketOf
<1> QED
  BY <1>2 DEF Inv, ForgottenExpired

(* What an admission keeps, whether it fills or slides the ring.           *)
LEMMA AdmitCommon ==
  ASSUME Inv, NEW r \in Requests, NEW i, Decide(r, "allowed"),
         Store(r, BucketOf(r), i),
         \A b \in Requests : b # BucketOf(r) => size'[b] = size[b]
  PROVE  /\ Admitted' = Admitted \cup {r} /\ r \notin Admitted
         /\ BucketOf(r) \in Requests /\ client[BucketOf(r)] = client[r]
         /\ \A s \in Admitted : home'[s] = home[s] /\ index'[s] = index[s]
         /\ home'[r] = BucketOf(r) /\ index'[r] = i
         /\ StampsInPast' /\ BucketOwner' /\ ForgottenExpired' /\ BucketSpacing'
         /\ CutoffPast'
<1> DEFINE b == BucketOf(r)
<1>1. Admitted' = Admitted \cup {r} /\ r \notin Admitted
  BY DEF Decide, Admitted, Inv, TypeOK
<1>2. b \in Requests /\ client[b] = client[r]
  BY DEF BucketOf, Inv, TypeOK, BucketOwner
<1>3. /\ \A s \in Admitted : home'[s] = home[s] /\ index'[s] = index[s]
      /\ home'[r] = b /\ index'[r] = i
  BY <1>1 DEF Store, Inv, TypeOK, Admitted
<1>4. /\ UNCHANGED <<clock, client, now, cleaner, cutoff>>
      /\ pc[r] = "stamped" /\ pc' = [pc EXCEPT ![r] = "allowed"]
      /\ requests' = [requests EXCEPT ![client[r]] = b]
  BY DEF Decide, cleanerVars
<1>5. StampsInPast' /\ CutoffPast'
  BY <1>4 DEF Inv, TypeOK, StampsInPast, CutoffPast
<1>6. BucketOwner'
  <2>1. \A c \in Clients : requests'[c] # NoBucket =>
           /\ pc'[requests'[c]] \notin {"new", "stamped"}
           /\ client'[requests'[c]] = c
    BY <1>2, <1>4 DEF Inv, TypeOK, BucketOwner, BucketOf
  <2>2. b = r \/ pc[b] \notin {"new", "stamped"}
    BY DEF BucketOf, Inv, TypeOK, BucketOwner
  <2>3. \A q \in Requests : pc'[q] \in {"new", "stamped"} => size'[q] = 0
    BY <1>4, <2>2 DEF Inv, TypeOK, BucketOwner
  <2> QED
    BY <2>1, <2>3 DEF BucketOwner
<1>7. \A s \in Admitted : requests'[client[s]] # home[s] => now[s] < clock - Window + MaxLag
  <2> SUFFICES ASSUME NEW s \in Admitted, requests'[client[s]] # home[s]
               PROVE  now[s] < clock - Window + MaxLag
    OBVIOUS
  <2>1. CASE client[s] = client[r]
    <3>1. home[s] # b
      BY <1>4, <2>1 DEF Inv, TypeOK, Admitted
    <3> QED
      BY <2>1, <3>1, ElsewhereForgotten
  <2>2. CASE client[s] # client[r]
    BY <1>4, <2>2 DEF Inv, TypeOK, ForgottenExpired, Admitted
  <2> QED
    BY <2>1, <2>2
<1>8. requests'[client[r]] = b
  BY <1>4 DEF Inv, TypeOK
<1>9. ForgottenExpired'
  BY <1>1, <1>3, <1>4, <1>7, <1>8 DEF ForgottenExpired
<1>10. \A s \in Admitted : (client[s] = client[r] /\ home[s] # b) =>
          now[r] > now[s] + Window - 2 * MaxLag
  <2> SUFFICES ASSUME NEW s \in Admitted, client[s] = client[r], home[s] # b
               PROVE  now[r] > now[s] + Window - 2 * MaxLag
    OBVIOUS
  <2>1. now[s] < clock - Window + MaxLag
    BY ElsewhereForgotten
  <2>2. clock =< now[r] + MaxLag
    BY <1>4 DEF Inv, StampsInPast
  <2>3. clock \in Nat /\ now[r] \in Nat /\ now[s] \in Nat
    BY DEF Inv, TypeOK, Admitted
  <2> QED
    BY <2>1, <2>2, <2>3
<1>11. BucketSpacing'
  BY <1>1, <1>3, <1>4, <1>10 DEF Inv, BucketSpacing
<1> QED
  BY <1>1, <1>2, <1>3, <1>5, <1>6, <1>9, <1>11

(* No used slot holds a stamp from the future of an undecided request,     *)
(* beyond the lag.                                                         *)
LEMMA StampsBeforeVerdict ==
  ASSUME Inv, NEW r \in Requests, pc[r] = "stamped",
         NEW b \in Requests, NEW i \in 0 .. size[b] - 1
  PROVE  timestamps[b][i] =< now[r] + MaxLag
<1>1. PICK s \in Admitted : now[s] = timestamps[b][i]
  BY DEF Inv, SlotOwned
<1>2. now[s] =< clock /\ clock =< now[r] + MaxLag
  BY DEF Inv, StampsInPast, Admitted
<1>3. now[s] \in Nat /\ clock \in Nat /\ now[r] \in Nat
  BY DEF Inv, TypeOK, Admitted
<1> QED
  BY <1>1, <1>2, <1>3

(* An admission into a ring with room keeps the invariant.                 *)
LEMMA FillInv ==
  ASSUME Inv, NEW r \in Requests, Fill(r)
  PROVE  Inv'
<1> DEFINE b == BucketOf(r)
           i == NextSlot(b)
<1>1. TypeOK'
  BY TypeStep DEF Inv, Next, Allow
<1>2. b \in Requests /\ head[b] = 0 /\ i = size[b] /\ size[b] \in Slots /\ size[b] \in Nat
  BY FillSlot DEF Inv, TypeOK, Slots
<1>3. /\ head' = head
      /\ size' = [size EXCEPT ![b] = size[b] + 1]
      /\ \A x \in Requests : x # b => size'[x] = size[x]
      /\ size'[b] = size[b] + 1
      /\ Decide(r, "allowed") /\ Store(r, b, i)
  BY <1>2 DEF Fill, Inv, TypeOK
<1>4. /\ Admitted' = Admitted \cup {r} /\ r \notin Admitted
      /\ client[b] = client[r]
      /\ \A s \in Admitted : home'[s] = home[s] /\ index'[s] = index[s]
      /\ home'[r] = b /\ index'[r] = i
      /\ StampsInPast' /\ BucketOwner' /\ ForgottenExpired' /\ BucketSpacing'
      /\ CutoffPast'
  BY <1>3, AdmitCommon
<1>5. /\ now' = now /\ client' = client
      /\ timestamps'[b][i] = now[r]
      /\ \A x \in Requests, j \in Slots :
           (x # b \/ j # i) => timestamps'[x][j] = timestamps[x][j]
  BY <1>2, <1>3 DEF Decide, Store, Inv, TypeOK
<1>6. \A x \in Requests : 0 .. size[x] - 1 \subseteq Slots
  BY DEF Inv, TypeOK, Slots
<1>7. \A x \in Requests : \A j \in 0 .. size[x] - 1 :
        timestamps'[x][j] = timestamps[x][j]
  BY <1>2, <1>5, <1>6
<1>8. RingShape'
  BY <1>2, <1>3 DEF Inv, TypeOK, RingShape
<1>9. SlotOwned'
  <2> SUFFICES ASSUME NEW x \in Requests, NEW j \in 0 .. size'[x] - 1
               PROVE  \E s \in Admitted' :
                        home'[s] = x /\ index'[s] = j /\ now'[s] = timestamps'[x][j]
    BY DEF SlotOwned
  <2>1. CASE x = b /\ j = i
    BY <1>4, <1>5, <2>1
  <2>2. CASE x # b \/ j # i
    <3>1. j \in 0 .. size[x] - 1
      BY <1>2, <1>3, <2>2
    <3>2. PICK s \in Admitted : home[s] = x /\ index[s] = j /\ now[s] = timestamps[x][j]
      BY <3>1 DEF Inv, SlotOwned
    <3> QED
      BY <1>4, <1>5, <1>7, <3>1, <3>2
  <2> QED
    BY <2>1, <2>2
<1>10. \A s \in Admitted : /\ home[s] \in Requests /\ index[s] \in 0 .. size[home[s]] - 1
                           /\ now[s] =< timestamps[home[s]][index[s]]
                           /\ client[home[s]] = client[s]
  BY DEF Inv, AdmissionStored
<1>11. AdmissionStored'
  <2> SUFFICES ASSUME NEW s \in Admitted'
               PROVE  /\ home'[s] \in Requests
                      /\ index'[s] \in 0 .. size'[home'[s]] - 1
                      /\ now'[s] =< timestamps'[home'[s]][index'[s]]
                      /\ client'[home'[s]] = client'[s]
    BY DEF AdmissionStored
  <2>1. CASE s = r
    <3>1. now[r] =< timestamps'[b][i] /\ i \in 0 .. size'[b] - 1
      BY <1>2, <1>3, <1>5 DEF Inv, TypeOK
    <3> QED
      BY <1>2, <1>4, <1>5, <2>1, <3>1
  <2>2. CASE s \in Admitted
    <3>1. index[s] \in 0 .. size'[home[s]] - 1
      BY <1>2, <1>3, <1>10, <2>2
    <3> QED
      BY <1>4, <1>5, <1>7, <1>10, <2>2, <3>1
  <2> QED
    BY <1>4, <2>1, <2>2
<1>12. SlotSpacing'
  <2>1. \A s \in Admitted : home[s] = b => index[s] # i
    BY <1>2, <1>10
  <2> QED
    BY <1>4, <1>5, <2>1 DEF Inv, SlotSpacing
<1>13. RingOrder'
  <2> SUFFICES ASSUME NEW x \in Requests, NEW j \in 0 .. size'[x] - 1,
                      NEW k \in 0 .. size'[x] - 1, Rank(x, j)' =< Rank(x, k)'
               PROVE  timestamps'[x][j] =< timestamps'[x][k] + MaxLag
    BY DEF RingOrder
  <2>1. CASE x # b
    BY <1>3, <1>7, <2>1 DEF Inv, RingOrder, Rank
  <2>2. CASE x = b /\ k # i
    <3>1. j \in 0 .. size[b] - 1 /\ k \in 0 .. size[b] - 1 /\ Rank(b, j) =< Rank(b, k)
      BY <1>2, <1>3, <2>2 DEF Rank
    <3> QED
      BY <1>2, <1>7, <2>2, <3>1 DEF Inv, RingOrder
  <2>3. CASE x = b /\ k = i /\ j # i
    <3>1. j \in 0 .. size[b] - 1
      BY <1>2, <1>3, <2>3
    <3>2. timestamps[b][j] =< now[r] + MaxLag
      BY <1>2, <1>3, <3>1, StampsBeforeVerdict DEF Decide
    <3> QED
      BY <1>2, <1>5, <1>7, <2>3, <3>1, <3>2
  <2>4. CASE x = b /\ k = i /\ j = i
    BY <1>2, <1>5, <2>4 DEF Inv, TypeOK
  <2> QED
    BY <2>1, <2>2, <2>3, <2>4
<1> QED
  BY <1>1, <1>4, <1>8, <1>9, <1>11, <1>12, <1>13 DEF Inv

(* An admission over an expired stamp keeps the invariant.                 *)
LEMMA SlideInv ==
  ASSUME Inv, NEW r \in Requests, Slide(r)
  PROVE  Inv'
<1> DEFINE b == BucketOf(r)
           h == head[b]
<1>1. TypeOK'
  BY TypeStep DEF Inv, Next, Allow
<1>2. /\ b \in Requests /\ size[b] = Limit /\ Limit \in Nat \ {0} /\ h \in 0 .. Limit - 1
      /\ head'[b] = IF h = Limit - 1 THEN 0 ELSE h + 1
  BY SlideSlot DEF Inv, Slots
<1>3. /\ size' = size
      /\ \A x \in Requests : x # b => head'[x] = head[x]
      /\ Decide(r, "allowed") /\ Store(r, b, h)
      /\ timestamps[b][h] < now[r] - Window
  BY <1>2 DEF Slide, OldestExpired, Inv, TypeOK
<1>4. /\ Admitted' = Admitted \cup {r} /\ r \notin Admitted
      /\ client[b] = client[r]
      /\ \A s \in Admitted : home'[s] = home[s] /\ index'[s] = index[s]
      /\ home'[r] = b /\ index'[r] = h
      /\ StampsInPast' /\ BucketOwner' /\ ForgottenExpired' /\ BucketSpacing'
      /\ CutoffPast'
  BY <1>3, AdmitCommon
<1>5. /\ now' = now /\ client' = client
      /\ timestamps'[b][h] = now[r] /\ now[r] \in Nat
      /\ \A x \in Requests, j \in Slots :
           (x # b \/ j # h) => timestamps'[x][j] = timestamps[x][j]
  BY <1>2, <1>3 DEF Decide, Store, Inv, TypeOK, Slots
<1>6. \A x \in Requests : 0 .. size[x] - 1 \subseteq Slots
  BY DEF Inv, TypeOK, Slots
<1>7. \A x \in Requests : \A j \in 0 .. size[x] - 1 :
        (x # b \/ j # h) => timestamps'[x][j] = timestamps[x][j]
  BY <1>5, <1>6
<1>8. RingShape'
  BY <1>2, <1>3 DEF Inv, TypeOK, RingShape
<1>9. SlotOwned'
  <2> SUFFICES ASSUME NEW x \in Requests, NEW j \in 0 .. size[x] - 1
               PROVE  \E s \in Admitted' :
                        home'[s] = x /\ index'[s] = j /\ now'[s] = timestamps'[x][j]
    BY <1>3 DEF SlotOwned
  <2>1. CASE x = b /\ j = h
    BY <1>4, <1>5, <2>1
  <2>2. CASE x # b \/ j # h
    <3>1. PICK s \in Admitted : home[s] = x /\ index[s] = j /\ now[s] = timestamps[x][j]
      BY DEF Inv, SlotOwned
    <3> QED
      BY <1>4, <1>5, <1>7, <2>2, <3>1
  <2> QED
    BY <2>1, <2>2
<1>10. \A s \in Admitted : /\ home[s] \in Requests /\ index[s] \in 0 .. size[home[s]] - 1
                           /\ now[s] =< timestamps[home[s]][index[s]]
                           /\ client[home[s]] = client[s]
                           /\ now[s] \in Nat
  BY DEF Inv, TypeOK, AdmissionStored, Admitted
<1>11. \A s \in Admitted : (home[s] = b /\ index[s] = h) => now[s] < now[r] - Window
  <2>1. timestamps[b][h] \in Int
    BY <1>2 DEF Inv, TypeOK, Slots
  <2> QED
    BY <1>3, <1>5, <1>10, <2>1
<1>12. AdmissionStored'
  <2> SUFFICES ASSUME NEW s \in Admitted'
               PROVE  /\ home'[s] \in Requests
                      /\ index'[s] \in 0 .. size[home'[s]] - 1
                      /\ now[s] =< timestamps'[home'[s]][index'[s]]
                      /\ client[home'[s]] = client[s]
    BY <1>3, <1>5 DEF AdmissionStored
  <2>1. CASE s = r
    BY <1>2, <1>4, <1>5, <2>1
  <2>2. CASE s \in Admitted /\ home[s] = b /\ index[s] = h
    BY <1>4, <1>5, <1>10, <1>11, <2>2
  <2>3. CASE s \in Admitted /\ (home[s] # b \/ index[s] # h)
    BY <1>4, <1>7, <1>10, <2>3
  <2> QED
    BY <1>4, <2>1, <2>2, <2>3
<1>13. SlotSpacing'
  <2> SUFFICES ASSUME NEW s \in Admitted', NEW q \in Admitted', s # q,
                      home'[s] = home'[q], index'[s] = index'[q]
               PROVE  now[s] > now[q] + Window \/ now[q] > now[s] + Window
    BY <1>5 DEF SlotSpacing
  <2>1. CASE s \in Admitted /\ q \in Admitted
    BY <1>4, <2>1 DEF Inv, SlotSpacing
  <2>2. CASE s = r /\ q \in Admitted
    BY <1>4, <1>5, <1>10, <1>11, <2>2
  <2>3. CASE s \in Admitted /\ q = r
    BY <1>4, <1>5, <1>10, <1>11, <2>3
  <2> QED
    BY <1>4, <2>1, <2>2, <2>3
<1>14. RingOrder'
  <2> SUFFICES ASSUME NEW x \in Requests, NEW j \in 0 .. size[x] - 1,
                      NEW k \in 0 .. size[x] - 1, Rank(x, j)' =< Rank(x, k)'
               PROVE  timestamps'[x][j] =< timestamps'[x][k] + MaxLag
    BY <1>3 DEF RingOrder
  <2>1. CASE x # b
    BY <1>3, <1>7, <2>1 DEF Inv, RingOrder, Rank
  <2>2. CASE x = b /\ j # h /\ k # h
    <3>1. Rank(b, j) =< Rank(b, k)
      BY <1>2, <2>2 DEF Rank
    <3> QED
      BY <1>7, <2>2, <3>1 DEF Inv, RingOrder
  <2>3. CASE x = b /\ j # h /\ k = h
    <3>1. timestamps[b][j] =< now[r] + MaxLag
      BY <1>2, <1>3, <2>3, StampsBeforeVerdict DEF Decide
    <3> QED
      BY <1>5, <1>7, <2>3, <3>1
  <2>4. CASE x = b /\ j = h /\ k # h
    <3>1. ~(Rank(x, j)' =< Rank(x, k)')
      BY <1>2, <2>4 DEF Rank
    <3> QED
      BY <2>4, <3>1
  <2>5. CASE x = b /\ j = h /\ k = h
    BY <1>5, <2>5
  <2> QED
    BY <2>1, <2>2, <2>3, <2>4, <2>5
<1> QED
  BY <1>1, <1>4, <1>8, <1>9, <1>12, <1>13, <1>14 DEF Inv

(* Inv is inductive.                                                       *)
LEMMA InvStep == Inv /\ [Next]_vars => Inv'
<1> SUFFICES ASSUME Inv, [Next]_vars PROVE Inv'
  OBVIOUS
<1>1. CASE UNCHANGED vars
  BY <1>1 DEF vars, requestVars, bucketVars, cleanerVars, Inv, TypeOK, Admitted,
     StampsInPast, RingShape, SlotOwned, AdmissionStored, SlotSpacing, RingOrder,
     Rank, BucketOwner, ForgottenExpired, BucketSpacing, CutoffPast
<1> QED
  BY <1>1, ArriveInv, FillInv, SlideInv, NotAdmittedInv, CleanerWakeInv, SweepInv,
     TickInv DEF Next, Allow

(* Inv holds in every reachable state.                                     *)
THEOREM Invariance == Spec => []Inv
  BY InitInv, InvStep, PTL DEF Spec

(* Every variable keeps its type: every index allow() and cleanup() use is *)
(* a slot of the ring.                                                     *)
THEOREM TypeCorrect == Spec => []TypeOK
<1>1. Inv => TypeOK
  BY DEF Inv
<1> QED
  BY <1>1, Invariance, PTL

-----------------------------------------------------------------------------
(* The limits.                                                             *)

(* A ring has Limit slots.                                                 *)
LEMMA SlotsFinite == IsFiniteSet(Slots) /\ Cardinality(Slots) = Limit
  BY FS_Interval DEF Slots

(* A set of admissions whose slots are all different has at most Limit     *)
(* members.                                                                *)
LEMMA FewSlots ==
  ASSUME Inv, NEW S \in SUBSET Admitted,
         \A s, q \in S : s # q => index[s] # index[q]
  PROVE  Cardinality(S) =< Limit
<1>1. IsFiniteSet(S)
  BY FS_Subset DEF Admitted
<1>2. SUFFICES ASSUME Cardinality(S) > Limit PROVE FALSE
  BY <1>1, FS_CardinalityType
<1> DEFINE f == [s \in S |-> index[s]]
<1>3. f \in [S -> Slots]
  BY DEF Inv, TypeOK, AdmissionStored, Slots
<1>4. \E s, q \in S : s # q /\ f[s] = f[q]
  <2> HIDE DEF f
  <2> QED
    BY <1>1, <1>2, <1>3, SlotsFinite, FS_PigeonHole
<1> QED
  BY <1>4

(* One ring never admits more than Limit requests in a window, whatever    *)
(* the lag.                                                                *)
THEOREM RingKeepsLimit == Spec => []BucketLimit
<1>1. ASSUME Inv PROVE BucketLimit
  <2> SUFFICES ASSUME NEW r \in Requests, pc[r] = "allowed"
               PROVE  Cardinality(SameBucket(r)) =< Limit
    BY DEF BucketLimit
  <2>1. SameBucket(r) \in SUBSET Admitted
    BY DEF SameBucket, Admitted
  <2>2. \A s, q \in SameBucket(r) : s # q => index[s] # index[q]
    <3> SUFFICES ASSUME NEW s \in SameBucket(r), NEW q \in SameBucket(r),
                        s # q, index[s] = index[q]
                 PROVE  FALSE
      OBVIOUS
    <3>1. now[s] > now[q] + Window \/ now[q] > now[s] + Window
      BY <1>1, <2>1 DEF Inv, SlotSpacing, SameBucket
    <3>2. /\ now[s] \in (now[r] - Window) .. now[r]
          /\ now[q] \in (now[r] - Window) .. now[r]
          /\ now[r] \in Nat
      BY <1>1 DEF SameBucket, Inv, TypeOK
    <3> QED
      BY <3>1, <3>2
  <2> QED
    BY <1>1, <2>1, <2>2, FewSlots
<1> QED
  BY <1>1, Invariance, PTL

(* One client, over all its buckets, keeps the limit in the window         *)
(* shortened by twice the lag.                                             *)
LEMMA WindowBound == Inv => SlidingWindowUpToLag
<1> SUFFICES ASSUME Inv, NEW r \in Requests, pc[r] = "allowed"
             PROVE  Cardinality(Log!WindowEnding(r, Window - 2 * MaxLag)) =< Limit
  BY DEF SlidingWindowUpToLag
<1> DEFINE S == Log!WindowEnding(r, Window - 2 * MaxLag)
<1>1. S \in SUBSET Admitted
  BY DEF Log!WindowEnding, Log!Admitted, Admitted
<1>2. \A s, q \in S : s # q => index[s] # index[q]
  <2> SUFFICES ASSUME NEW s \in S, NEW q \in S, s # q, index[s] = index[q]
               PROVE  FALSE
    OBVIOUS
  <2>1. /\ client[s] = client[q]
        /\ now[s] \in (now[r] - (Window - 2 * MaxLag)) .. now[r]
        /\ now[q] \in (now[r] - (Window - 2 * MaxLag)) .. now[r]
        /\ now[r] \in Nat
    BY DEF Log!WindowEnding, Log!Admitted, Inv, TypeOK
  <2>2. CASE home[s] = home[q]
    <3>1. now[s] > now[q] + Window \/ now[q] > now[s] + Window
      BY <1>1, <2>2 DEF Inv, SlotSpacing
    <3> QED
      BY <2>1, <3>1
  <2>3. CASE home[s] # home[q]
    <3>1. \/ now[s] > now[q] + Window - 2 * MaxLag
          \/ now[q] > now[s] + Window - 2 * MaxLag
      BY <1>1, <2>1, <2>3 DEF Inv, BucketSpacing
    <3> QED
      BY <2>1, <3>1
  <2> QED
    BY <2>2, <2>3
<1> QED
  BY <1>1, <1>2, FewSlots

(* The sliding window, up to the lag.                                      *)
THEOREM WindowKept == Spec => []SlidingWindowUpToLag
  BY WindowBound, Invariance, PTL

(* The cleaner forgets only what has expired, up to the lag.               *)
THEOREM CleanerForgetsExpired == Spec => ForgetsOnlyExpired
<1>1. ASSUME Inv, [Next]_vars,
             NEW r \in Requests, pc[r] = "allowed",
             requests[client[r]] = home[r], requests'[client[r]] # home[r]
      PROVE  now[r] < clock - Window + MaxLag
  <2>1. home[r] \in Requests /\ r \in Admitted /\ client[r] \in Clients
    BY <1>1 DEF Inv, TypeOK, AdmissionStored, Admitted
  <2>2. ASSUME NEW q \in Requests, NEW v, Decide(q, v)
        PROVE  requests'[client[r]] = home[r]
    BY <1>1, <2>1, <2>2 DEF Decide, BucketOf, Inv, TypeOK
  <2>3. CASE Sweep
    BY <1>1, <2>1, <2>3, SweptExpired
  <2> QED
    BY <1>1, <2>2, <2>3
    DEF Next, Allow, Arrive, Fill, Slide, Refuse, Overrun, CleanerWake, Tick, vars
<1>2. Inv /\ [Next]_vars =>
        [\A r \in Requests :
           /\ pc[r] = "allowed"
           /\ requests[client[r]] = home[r]
           /\ requests'[client[r]] # home[r]
           => now[r] < clock - Window + MaxLag]_vars
  BY <1>1
<1> QED
  BY <1>2, Invariance, PTL DEF Spec, ForgetsOnlyExpired

-----------------------------------------------------------------------------
(* Refusals.                                                               *)

(* The admissions counted against a request are finitely many.             *)
LEMMA AgainstFinite ==
  ASSUME NEW r \in Requests
  PROVE  /\ IsFiniteSet(Log!Against(r, MaxLag))
         /\ IsFiniteSet(Log!Against(r, MaxLag)')
<1>1. /\ Log!Against(r, MaxLag) \in SUBSET Requests
      /\ Log!Against(r, MaxLag)' \in SUBSET Requests
  BY DEF Log!Against, Log!Admitted
<1> QED
  BY <1>1, FS_Subset

(* A full ring whose oldest entry still counts is Limit admissions of the  *)
(* client that count against r: one owner per slot.                        *)
LEMMA RefusalJustified ==
  ASSUME Inv, NEW r \in Requests, Refuse(r)
  PROVE  Cardinality(Log!Against(r, MaxLag)) >= Limit
<1> DEFINE b == BucketOf(r)
           A == Log!Against(r, MaxLag)
           o == [i \in Slots |-> CHOOSE s \in A : index[s] = i]
<1>1. /\ b \in Requests /\ size[b] = Limit /\ Limit \in Nat \ {0}
      /\ head[b] \in 0 .. Limit - 1 /\ pc[r] = "stamped"
      /\ ~(timestamps[b][head[b]] < now[r] - Window)
      /\ client[b] = client[r]
  BY DEF Inv, TypeOK, BucketOwner, Refuse, Decide, BucketOf, OldestExpired, Slots
<1> HIDE DEF b
<1>2. ASSUME NEW i \in Slots PROVE \E s \in A : index[s] = i
  <2>1. i \in 0 .. size[b] - 1 /\ head[b] \in 0 .. size[b] - 1
    BY <1>1 DEF Slots
  <2>2. PICK s \in Admitted : home[s] = b /\ index[s] = i /\ now[s] = timestamps[b][i]
    BY <1>1, <2>1 DEF Inv, SlotOwned
  <2>3. Rank(b, head[b]) =< Rank(b, i)
    BY <1>1, <2>1 DEF Rank
  <2>4. timestamps[b][head[b]] =< timestamps[b][i] + MaxLag
    BY <1>1, <2>1, <2>3 DEF Inv, RingOrder
  <2>5. timestamps[b][i] =< now[r] + MaxLag
    BY <1>1, <2>1, StampsBeforeVerdict
  <2>6. /\ timestamps[b][head[b]] \in Int /\ timestamps[b][i] \in Int
        /\ now[r] \in Nat
    <3>1. timestamps[b] \in [Slots -> Int] /\ now[r] \in Nat
      BY <1>1 DEF Inv, TypeOK
    <3>2. head[b] \in Slots
      BY <1>1 DEF Slots
    <3> QED
      BY <3>1, <3>2
  <2>7. now[s] \in (now[r] - Window - MaxLag) .. (now[r] + MaxLag)
    BY <1>1, <2>2, <2>4, <2>5, <2>6
  <2>8. client[s] = client[r] /\ s \in Requests /\ pc[s] = "allowed"
    BY <1>1, <2>2 DEF Inv, AdmissionStored, Admitted
  <2> QED
    BY <2>2, <2>7, <2>8 DEF Log!Against, Log!Admitted
<1>3. \A i \in Slots : o[i] \in A /\ index[o[i]] = i
  BY <1>2
<1>4. o \in Injection(Slots, A)
  <2>1. o \in [Slots -> A]
    BY <1>3
  <2>2. \A i, j \in Slots : o[i] = o[j] => i = j
    BY <1>3
  <2> HIDE DEF o
  <2> QED
    BY <2>1, <2>2 DEF Injection, IsInjective
<1>5. Cardinality(Slots) =< Cardinality(A)
  <2> HIDE DEF o, A
  <2> QED
    BY <1>4, AgainstFinite, FS_Injection DEF A
<1>6. Cardinality(A) \in Nat
  BY AgainstFinite, FS_CardinalityType
<1> QED
  BY <1>5, <1>6, SlotsFinite

(* Every step keeps RefusedUpToLag: stamps do not change, verdicts stay.   *)
LEMMA RefusedStep ==
  ASSUME Inv, RefusedUpToLag, [Next]_vars
  PROVE  RefusedUpToLag'
<1> SUFFICES ASSUME NEW r \in Requests, pc'[r] = "limited"
             PROVE  Cardinality(Log!Against(r, MaxLag)') >= Limit
  BY DEF RefusedUpToLag
<1>1. /\ client' = client
      /\ \A s \in Requests : pc[s] # "new" => now'[s] = now[s]
      /\ \A s \in Requests : pc[s] = "allowed" => pc'[s] = "allowed"
      /\ pc[r] # "new"
  BY DEF Inv, TypeOK, Next, Arrive, Allow, Fill, Slide, Refuse, Overrun, Decide,
     CleanerWake, Sweep, Tick, vars, requestVars
<1>2. Log!Against(r, MaxLag) \subseteq Log!Against(r, MaxLag)'
  BY <1>1 DEF Log!Against, Log!Admitted
<1>3. /\ Cardinality(Log!Against(r, MaxLag)) =< Cardinality(Log!Against(r, MaxLag)')
      /\ Cardinality(Log!Against(r, MaxLag)) \in Nat
      /\ Cardinality(Log!Against(r, MaxLag)') \in Nat
  BY <1>2, AgainstFinite, FS_Subset, FS_CardinalityType
<1>4. Cardinality(Log!Against(r, MaxLag)) >= Limit
  <2>1. CASE pc[r] = "limited"
    BY <2>1 DEF RefusedUpToLag
  <2>2. CASE pc[r] # "limited"
    <3>1. Refuse(r)
      BY <2>2 DEF Inv, TypeOK, Next, Arrive, Allow, Fill, Slide, Refuse, Overrun,
         Decide, CleanerWake, Sweep, Tick, vars, requestVars
    <3> QED
      BY <3>1, RefusalJustified
  <2> QED
    BY <2>1, <2>2
<1> QED
  BY <1>3, <1>4

(* A 429 goes only to a client that had Limit admissions, up to the lag.   *)
THEOREM RefusalsJustified == Spec => []RefusedUpToLag
<1>1. Init => RefusedUpToLag
  BY DEF Init, RefusedUpToLag
<1>2. Inv /\ RefusedUpToLag /\ [Next]_vars => RefusedUpToLag'
  BY RefusedStep
<1> QED
  BY <1>1, <1>2, Invariance, PTL DEF Spec

-----------------------------------------------------------------------------
(* Refinement.                                                             *)

(* The instance's copy of Cardinality is Cardinality.                      *)
LEMMA SameCardinality == ASSUME NEW S PROVE Log!Cardinality(S) = Cardinality(S)
  BY DEF Log!Cardinality, Cardinality

(* WindowBound, for the state after a step.                                *)
LEMMA WindowBoundNext == Inv' => SlidingWindowUpToLag'
  BY WindowBound, PTL

(* Every step of the limiter is one of the sliding log or leaves it alone. *)
LEMMA StepRefines ==
  ASSUME Inv, Inv', [Next]_vars
  PROVE  [Log!Next]_(Log!absVars)
<1>1. ASSUME NEW r \in Requests, Arrive(r) PROVE Log!Arrive(r)
  <2>1. now'[r] = clock /\ clock \in Nat
    BY <1>1 DEF Arrive, Inv, TypeOK
  <2> QED
    BY <1>1, <2>1 DEF Arrive, Log!Arrive
<1>2. ASSUME NEW r \in Requests, Fill(r) \/ Slide(r) PROVE Log!Admit(r)
  <2>1. Decide(r, "allowed")
    BY <1>2 DEF Fill, Slide
  <2>2. SlidingWindowUpToLag'
    BY WindowBoundNext
  <2> QED
    BY <2>1, <2>2, SameCardinality DEF Decide, SlidingWindowUpToLag, Log!Admit
<1>3. ASSUME NEW r \in Requests, Refuse(r) PROVE Log!Refuse(r)
  BY <1>3, RefusalJustified, SameCardinality DEF Refuse, Decide, Log!Refuse
<1>4. ASSUME NEW r \in Requests, Overrun(r) PROVE Log!Fail(r)
  BY <1>4 DEF Overrun, Decide, Log!Fail
<1>5. CASE CleanerWake \/ Sweep \/ Tick \/ UNCHANGED vars
  BY <1>5 DEF CleanerWake, Sweep, Tick, vars, requestVars, Log!absVars
<1> QED
  BY <1>1, <1>2, <1>3, <1>4, <1>5 DEF Next, Allow, Log!Next

(* ratelimit.go implements the sliding log with the lag as its slack.      *)
THEOREM Implements == Spec => ImplementsSlidingLog
<1>1. Init => Log!Init
  BY DEF Init, Log!Init
<1>2. Inv /\ Inv' /\ [Next]_vars => [Log!Next]_(Log!absVars)
  BY StepRefines
<1> QED
  BY <1>1, <1>2, Invariance, PTL DEF Spec, ImplementsSlidingLog, Log!Spec

-----------------------------------------------------------------------------
(* The limits the documentation states, when nobody waits for the mutex.   *)

(* With no lag the limit holds in the window of ratelimit.go:16-18: any    *)
(* two admissions of the window have different slots.                      *)
THEOREM WindowKeptWithoutLag ==
  ASSUME MaxLag = 0
  PROVE  Spec => []SlidingWindow
<1>1. ASSUME Inv PROVE SlidingWindow
  <2> SUFFICES ASSUME NEW r \in Requests, pc[r] = "allowed"
               PROVE  Cardinality(Log!WindowEnding(r, Window - 1)) =< Limit
    BY DEF SlidingWindow
  <2> DEFINE S == Log!WindowEnding(r, Window - 1)
             T == Log!WindowEnding(r, Window - 2 * MaxLag)
  <2>1. Cardinality(T) =< Limit
    BY <1>1, WindowBound DEF SlidingWindowUpToLag
  <2>2. S \subseteq T
    <3>1. now \in [Requests -> Nat]
      BY <1>1 DEF Inv, TypeOK
    <3> QED
      BY <3>1 DEF Log!WindowEnding, Log!Admitted
  <2>3. IsFiniteSet(T)
    <3>1. T \in SUBSET Requests
      BY DEF Log!WindowEnding, Log!Admitted
    <3> QED
      BY <3>1, FS_Subset
  <2>4. /\ Cardinality(S) =< Cardinality(T)
        /\ Cardinality(S) \in Nat /\ Cardinality(T) \in Nat
    <3> HIDE DEF S, T
    <3> QED
      BY <2>2, <2>3, FS_Subset, FS_CardinalityType
  <2> QED
    BY <2>1, <2>4
<1> QED
  BY <1>1, Invariance, PTL

(* With no lag a 429 goes only to a client that had Limit admissions since *)
(* one window before the request.                                          *)
THEOREM RefusalsExactWithoutLag ==
  ASSUME MaxLag = 0
  PROVE  Spec => []RefusedOnlyOverLimit
<1>1. ASSUME Inv, RefusedUpToLag PROVE RefusedOnlyOverLimit
  <2> SUFFICES
        ASSUME NEW r \in Requests, pc[r] = "limited"
        PROVE  Cardinality({s \in Log!Admitted(client[r]) : now[s] >= now[r] - Window})
                 >= Limit
    BY DEF RefusedOnlyOverLimit
  <2> DEFINE S == Log!Against(r, MaxLag)
             T == {s \in Log!Admitted(client[r]) : now[s] >= now[r] - Window}
  <2>1. Cardinality(S) >= Limit
    BY <1>1 DEF RefusedUpToLag
  <2>2. S \subseteq T
    <3>1. now \in [Requests -> Nat]
      BY <1>1 DEF Inv, TypeOK
    <3> QED
      BY <3>1 DEF Log!Against, Log!Admitted
  <2>3. IsFiniteSet(T)
    <3>1. T \in SUBSET Requests
      BY DEF Log!Admitted
    <3> QED
      BY <3>1, FS_Subset
  <2>4. /\ Cardinality(S) =< Cardinality(T)
        /\ Cardinality(S) \in Nat /\ Cardinality(T) \in Nat
    <3> HIDE DEF S, T
    <3> QED
      BY <2>2, <2>3, FS_Subset, FS_CardinalityType
  <2> QED
    BY <2>1, <2>4
<1> QED
  BY <1>1, Invariance, RefusalsJustified, PTL

-----------------------------------------------------------------------------
(* The cleaner keeps up with the ticker.                                   *)

(* A multiple of W less than W away from zero is zero.                     *)
LEMMA NoMultiple ==
  ASSUME NEW W \in Nat \ {0}, NEW d \in Int, W * d < W, -W < W * d
  PROVE  d = 0
<1>1. CASE d >= 1
  <2>1. W * d = W * (d - 1) + W
    OBVIOUS
  <2>2. W * (d - 1) >= 0
    BY <1>1
  <2> QED
    BY <2>1, <2>2
<1>2. CASE d =< -1
  <2>1. W * d = -(W * (-d - 1)) - W
    OBVIOUS
  <2>2. W * (-d - 1) >= 0
    BY <1>2
  <2>3. W * (-d - 1) \in Int /\ W * d \in Int
    OBVIOUS
  <2> QED
    BY <2>1, <2>2, <2>3
<1> QED
  BY <1>1, <1>2

(* A unit of time that is no tick leaves the last tick where it was.       *)
LEMMA SameTick ==
  ASSUME NEW W \in Nat \ {0}, NEW t \in Nat, ((t + 1) % W) # 0
  PROVE  (t + 1) - ((t + 1) % W) = t - (t % W)
<1> DEFINE q == t \div W
           p == (t + 1) \div W
<1>1. t = (W * q) + (t % W) /\ (t % W) \in 0 .. W - 1 /\ q \in Int
  OBVIOUS
<1>2. t + 1 = (W * p) + ((t + 1) % W) /\ ((t + 1) % W) \in 1 .. W - 1 /\ p \in Int
  OBVIOUS
<1> DEFINE x == t % W
           y == (t + 1) % W
           A == W * q
           B == W * p
<1>3. /\ t = A + x /\ x \in 0 .. W - 1 /\ A \in Int
      /\ t + 1 = B + y /\ y \in 1 .. W - 1 /\ B \in Int
      /\ W * (p - q) = B - A /\ p - q \in Int
  <2> HIDE DEF p, q
  <2> QED
    BY <1>1, <1>2
<1> HIDE DEF x, y, A, B, p, q
<1>4. p - q = 0
  <2>1. W * (p - q) < W /\ -W < W * (p - q)
    <3>1. B - A = (x - y) + 1
      BY <1>3
    <3> QED
      BY <1>3, <3>1
  <2> QED
    BY <1>3, <2>1, NoMultiple
<1>5. B - A = 0
  BY <1>3, <1>4
<1> QED
  BY <1>3, <1>5 DEF x, y

(* The last tick is not in the future.                                     *)
LEMMA LastTickBounds ==
  ASSUME TypeOK
  PROVE  LastTick \in Int /\ LastTick =< clock
<1>1. clock \in Nat /\ (clock % Window) \in 0 .. Window - 1
  BY DEF TypeOK
<1> QED
  BY <1>1 DEF LastTick

(* A unit of time without a tick does not move the last tick.              *)
LEMMA LastTickKept ==
  ASSUME TypeOK, Tick, ticks' = 0
  PROVE  LastTick' = LastTick
<1>1. clock' = clock + 1 /\ clock \in Nat /\ (clock' % Window) # 0
  BY DEF Tick, TypeOK
<1>2. ((clock + 1) % Window) # 0
  BY <1>1
<1>3. (clock + 1) - ((clock + 1) % Window) = clock - (clock % Window)
  BY <1>1, <1>2, SameTick
<1> QED
  BY <1>1, <1>3 DEF LastTick

(* The stamp a request writes is the newest of its ring, and it is not     *)
(* older than the lag.                                                     *)
LEMMA NewestIsWritten ==
  ASSUME Inv, NEW r \in Requests, Fill(r) \/ Slide(r),
         NEW b \in Requests, b = BucketOf(r)
  PROVE  /\ timestamps'[b][NewestSlot(b)'] = now[r]
         /\ now[r] \in Nat /\ clock =< now[r] + MaxLag
<1>1. /\ now[r] \in Nat /\ clock =< now[r] + MaxLag
      /\ timestamps \in [Requests -> [Slots -> Int]]
      /\ size \in [Requests -> 0 .. Limit] /\ head \in [Requests -> Nat]
  BY DEF Inv, TypeOK, StampsInPast, Fill, Slide, Decide, BucketOf
<1>2. CASE Fill(r)
  <2>1. head[b] = 0 /\ NextSlot(b) = size[b] /\ size[b] \in 0 .. Limit - 1
    BY <1>2, FillSlot DEF Inv, Slots
  <2>2. /\ timestamps' = [timestamps EXCEPT ![b][size[b]] = now[r]]
        /\ size'[b] = size[b] + 1 /\ head'[b] = 0
    BY <1>1, <1>2, <2>1 DEF Fill, Store
  <2>3. NewestSlot(b)' = size[b]
    <3>1. 0 + (size[b] + 1) - 1 = size[b]
      BY <2>1
    <3>2. size[b] % Limit = size[b]
      BY <2>1, ModSmall
    <3> QED
      BY <2>2, <3>1, <3>2 DEF NewestSlot
  <2> QED
    BY <1>1, <2>1, <2>2, <2>3 DEF Slots
<1>3. CASE Slide(r)
  <2>1. /\ size[b] = Limit /\ Limit \in Nat \ {0} /\ head[b] \in 0 .. Limit - 1
        /\ head'[b] = IF head[b] = Limit - 1 THEN 0 ELSE head[b] + 1
    BY <1>3, SlideSlot DEF Inv, Slots
  <2>2. /\ timestamps' = [timestamps EXCEPT ![b][head[b]] = now[r]]
        /\ size' = size
    BY <1>3 DEF Slide, Store
  <2>3. NewestSlot(b)' = head[b]
    <3>1. CASE head[b] = Limit - 1
      <4>1. 0 + Limit - 1 = head[b] /\ head[b] % Limit = head[b]
        BY <2>1, <3>1, ModSmall
      <4> QED
        BY <2>1, <2>2, <3>1, <4>1 DEF NewestSlot
    <3>2. CASE head[b] # Limit - 1
      <4>1. /\ head[b] + 1 + Limit - 1 = head[b] + Limit
            /\ head[b] + Limit \in Nat /\ Limit =< head[b] + Limit
            /\ head[b] + Limit < Limit + Limit
        BY <2>1, <3>2
      <4>2. (head[b] + Limit) % Limit = head[b]
        BY <2>1, <4>1, ModWrap
      <4> QED
        BY <2>1, <2>2, <3>2, <4>1, <4>2 DEF NewestSlot
    <3> QED
      BY <3>1, <3>2
  <2> QED
    BY <1>1, <2>1, <2>2, <2>3 DEF Slots
<1> QED
  BY <1>1, <1>2, <1>3

(* Every step keeps the map fresh: a tick that comes during a sweep is     *)
(* kept for the next one, and a new stamp is not older than the lag.       *)
LEMMA FreshStep ==
  ASSUME Inv, MapStaysFresh, SweepCurrent, [Next]_vars
  PROVE  MapStaysFresh' /\ SweepCurrent'
<1>1. LastTick \in Int /\ LastTick =< clock /\ TypeOK
  BY LastTickBounds DEF Inv
<1>2. ASSUME UNCHANGED <<clock, requests, bucketVars, cleanerVars>>
      PROVE  MapStaysFresh' /\ SweepCurrent'
  BY <1>2 DEF MapStaysFresh, SweepCurrent, LastTick, NewestSlot, bucketVars, cleanerVars
<1>3. ASSUME NEW r \in Requests, Fill(r) \/ Slide(r)
      PROVE  MapStaysFresh' /\ SweepCurrent'
  <2>0. PICK b \in Requests : b = BucketOf(r)
    BY <1>1, <1>3 DEF TypeOK, Fill, Slide, Decide, BucketOf
  <2>1. /\ timestamps'[b][NewestSlot(b)'] = now[r]
        /\ now[r] \in Nat /\ clock =< now[r] + MaxLag
    BY <1>3, <2>0, NewestIsWritten
  <2>2. /\ UNCHANGED <<clock, cleanerVars>>
        /\ requests' = [requests EXCEPT ![client[r]] = b]
        /\ \A x \in Requests \ {b} :
             timestamps'[x] = timestamps[x] /\ head'[x] = head[x] /\ size'[x] = size[x]
    BY <1>1, <1>3, <2>0 DEF Fill, Slide, Decide, Store, TypeOK
  <2>3. SweepCurrent'
    BY <2>2 DEF SweepCurrent, LastTick, cleanerVars
  <2>4. MapStaysFresh'
    <3> SUFFICES ASSUME (cleaner = "waiting" /\ ticks = 0)', NEW c \in Clients,
                        requests'[c] # NoBucket, (size[requests[c]] > 0)'
                 PROVE  \/ timestamps'[requests'[c]][NewestSlot(requests[c])']
                             >= LastTick - Window
                        \/ timestamps'[requests'[c]][NewestSlot(requests[c])']
                             >= LastTick - MaxLag
      BY <2>2 DEF MapStaysFresh, LastTick
    <3>1. CASE requests'[c] = b
      <4>1. now[r] >= LastTick - MaxLag
        BY <1>1, <2>1 DEF TypeOK
      <4>2. NewestSlot(requests[c])' = NewestSlot(b)'
        BY <3>1 DEF NewestSlot
      <4> QED
        BY <2>1, <3>1, <4>1, <4>2
    <3>2. CASE requests'[c] # b
      <4>1. requests'[c] = requests[c] /\ requests[c] \in Requests \ {b}
        BY <1>1, <2>2, <3>2 DEF TypeOK
      <4>2. NewestSlot(requests[c])' = NewestSlot(requests[c])
        BY <2>2, <4>1 DEF NewestSlot
      <4> QED
        BY <2>2, <4>1, <4>2 DEF MapStaysFresh, cleanerVars
    <3> QED
      BY <3>1, <3>2
  <2> QED
    BY <2>3, <2>4
<1>4. ASSUME NEW r \in Requests, Refuse(r) \/ Overrun(r)
      PROVE  MapStaysFresh' /\ SweepCurrent'
  <2>1. /\ UNCHANGED <<clock, bucketVars, cleanerVars>>
        /\ requests' = [requests EXCEPT ![client[r]] = BucketOf(r)]
        /\ pc[r] = "stamped"
    BY <1>4 DEF Refuse, Overrun, Decide
  <2>2. \A c \in Clients : requests'[c] # requests[c] => size[requests'[c]] = 0
    BY <1>1, <2>1 DEF TypeOK, BucketOf, Inv, BucketOwner
  <2>3. SweepCurrent'
    BY <2>1 DEF SweepCurrent, LastTick, cleanerVars
  <2>4. MapStaysFresh'
    <3> SUFFICES ASSUME (cleaner = "waiting" /\ ticks = 0)', NEW c \in Clients,
                        requests'[c] # NoBucket, (size[requests[c]] > 0)'
                 PROVE  \/ timestamps'[requests'[c]][NewestSlot(requests[c])']
                             >= LastTick - Window
                        \/ timestamps'[requests'[c]][NewestSlot(requests[c])']
                             >= LastTick - MaxLag
      BY <2>1 DEF MapStaysFresh, LastTick
    <3>1. requests'[c] = requests[c]
      BY <2>1, <2>2 DEF bucketVars
    <3> QED
      BY <2>1, <3>1 DEF MapStaysFresh, NewestSlot, bucketVars, cleanerVars
  <2> QED
    BY <2>3, <2>4
<1>5. CASE CleanerWake
  <2>1. cleaner' = "sweeping" /\ cutoff' = clock - Window /\ clock' = clock
    BY <1>5 DEF CleanerWake, Cutoff
  <2> QED
    BY <1>1, <2>1 DEF MapStaysFresh, SweepCurrent, LastTick, TypeOK
<1>6. CASE Sweep
  <2>1. /\ UNCHANGED <<clock, bucketVars, cutoff, ticks>>
        /\ cleaner = "sweeping" /\ cleaner' = "waiting"
        /\ \A c \in Clients : requests'[c] # NoBucket =>
             requests'[c] = requests[c] /\ ~Stale(requests[c])
    BY <1>6 DEF Sweep
  <2>2. ASSUME ticks = 0, NEW c \in Clients,
               requests'[c] # NoBucket, size[requests[c]] > 0
        PROVE  timestamps[requests[c]][NewestSlot(requests[c])] >= LastTick - Window
    <3>1. requests[c] \in Requests /\ size[requests[c]] # 0
      BY <1>1, <2>1, <2>2 DEF TypeOK
    <3>2. timestamps[requests[c]][NewestSlot(requests[c])] \in Int
      <4>1. NewestSlot(requests[c]) \in Slots
        BY <1>1, <3>1, NewestStamp DEF TypeOK, Slots
      <4> QED
        BY <1>1, <3>1, <4>1 DEF TypeOK
    <3>3. ~(timestamps[requests[c]][NewestSlot(requests[c])] < cutoff)
      BY <2>1, <2>2 DEF Stale
    <3>4. cutoff >= LastTick - Window /\ cutoff \in Int
      BY <1>1, <2>1, <2>2 DEF SweepCurrent, TypeOK
    <3> QED
      BY <1>1, <3>2, <3>3, <3>4
  <2>3. MapStaysFresh'
    BY <2>1, <2>2 DEF MapStaysFresh, LastTick, NewestSlot, bucketVars
  <2> QED
    BY <2>1, <2>3 DEF SweepCurrent
<1>7. CASE Tick
  <2>1. UNCHANGED <<requests, bucketVars, cleaner, cutoff>> /\ ticks' \in {ticks, 1}
    BY <1>7 DEF Tick
  <2>2. CASE ticks' = 1
    BY <2>1, <2>2 DEF MapStaysFresh, SweepCurrent
  <2>3. CASE ticks' # 1
    <3>1. ticks' = 0 /\ ticks = 0
      BY <1>1, <2>1, <2>3 DEF TypeOK
    <3>2. LastTick' = LastTick
      BY <1>1, <1>7, <3>1, LastTickKept
    <3> QED
      BY <2>1, <3>1, <3>2 DEF MapStaysFresh, SweepCurrent, NewestSlot, bucketVars
  <2> QED
    BY <2>2, <2>3
<1>8. CASE UNCHANGED vars \/ \E r \in Requests : Arrive(r)
  BY <1>2, <1>8 DEF vars, Arrive
<1> QED
  BY <1>3, <1>4, <1>5, <1>6, <1>7, <1>8 DEF Next, Allow

(* Once the cleaner is done with the last tick, every bucket left in the   *)
(* map was used during the window before that tick, for every lag.         *)
THEOREM CleanerKeepsUp == Spec => []MapStaysFresh
<1>1. Init => MapStaysFresh /\ SweepCurrent
  BY DEF Init, MapStaysFresh, SweepCurrent
<1>2. Inv /\ (MapStaysFresh /\ SweepCurrent) /\ [Next]_vars
        => (MapStaysFresh /\ SweepCurrent)'
  BY FreshStep
<1> QED
  BY <1>1, <1>2, Invariance, PTL DEF Spec
=============================================================================
