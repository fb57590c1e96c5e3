---------------------------- MODULE Context_proofs ---------------------------
(***************************************************************************)
(* What the run of Context shows of chains of three layers, proved for     *)
(* chains of any length and every order of the layers.                     *)
(***************************************************************************)
EXTENDS Context, Extremes, FiniteSetTheorems, SequenceTheorems

USE DepthAssumption DEF DepthAssumption

-----------------------------------------------------------------------------
(* The layers above a position.                                            *)

(* Ctx(i) is made by the last copying layer down to i.                     *)
LEMMA CtxIsLast ==
  ASSUME stack \in Seq(Layers), NEW i \in 0 .. Depth
  PROVE  /\ Ctx(i) \in 0 .. i
         /\ Ctx(i) = 0 \/ stack[Ctx(i)] = "copy"
         /\ \A j \in 1 .. i : stack[j] = "copy" => j =< Ctx(i)
<1> DEFINE S == {0} \cup {j \in 1 .. i : stack[j] = "copy"}
<1>1. S \in SUBSET (0 .. i) /\ S # {} /\ i \in Nat
  BY DEF Depth
<1>2. Max(S) \in S /\ \A y \in S : y =< Max(S)
  <2> HIDE DEF S
  <2> QED
    BY <1>1, MaxIsGreatest
<1> QED
  BY <1>2 DEF Ctx

(* Only a copying layer hands down another Ctx than it was given.          *)
LEMMA CtxNext ==
  ASSUME stack \in Seq(Layers), NEW i \in 1 .. Depth
  PROVE  Ctx(i) = IF stack[i] = "copy" THEN i ELSE Ctx(i - 1)
<1>1. CASE stack[i] = "copy"
  <2>1. Ctx(i) \in 0 .. i /\ i =< Ctx(i)
    BY <1>1, CtxIsLast DEF Depth
  <2> QED
    BY <1>1, <2>1
<1>2. CASE stack[i] # "copy"
  <2>1. {j \in 1 .. i : stack[j] = "copy"} = {j \in 1 .. i - 1 : stack[j] = "copy"}
    BY <1>2
  <2> QED
    BY <1>2, <2>1 DEF Ctx
<1> QED
  BY <1>1, <1>2

(* One layer further down there is one layer more above.                   *)
LEMMA AboveNext ==
  ASSUME stack \in Seq(Layers), NEW i \in 1 .. Depth, NEW K
  PROVE  Above(i + 1, K) = IF stack[i] \in K THEN Above(i, K) \cup {i}
                                             ELSE Above(i, K)
<1>1. DOMAIN stack = 1 .. Depth /\ Depth \in Nat
  BY DEF Depth
<1>2. \A j : j \in 1 .. (i + 1) - 1 <=> j \in 1 .. i - 1 \/ j = i
  BY <1>1
<1> QED
  BY <1>1, <1>2 DEF Above

-----------------------------------------------------------------------------
(* The ways a step may go.                                                 *)

(* The steps that enter a layer.                                           *)
Enter ==
  \/ EnterPlain \/ EnterCopy \/ EnterForm \/ EnterRealIP \/ EnterRequestID
  \/ AuthSucceeds \/ AuthFails \/ RateLimitPasses \/ RateLimitRefuses
  \/ EnterCORS \/ EnterNoCache \/ EnterSecure

Typed == TypeOK /\ WayOK

(* Where the request may be.                                               *)
LEMMA Places ==
  ASSUME Typed
  PROVE  /\ stack \in Seq(Layers) /\ Depth \in 0 .. MaxDepth
         /\ DOMAIN stack = 1 .. Depth /\ Depth \in Nat
         /\ phase \in {"down", "up", "done"}
         /\ pos \in 0 .. Depth + 1
         /\ phase = "down" => pos >= 1 /\ status = 0 /\ err = 0
         /\ phase = "up" => pos =< Depth /\ (status = 0 \/ err = 0)
<1>1. /\ stack \in Seq(Layers) /\ Depth \in Ids
      /\ phase \in {"down", "up", "done"} /\ pos \in 0 .. Depth + 1
      /\ phase = "down" => pos >= 1 /\ status = 0 /\ err = 0
      /\ phase = "up" => pos =< Depth /\ (status = 0 \/ err = 0)
  BY Zenon DEF Typed, TypeOK, WayOK
<1> QED
  BY <1>1 DEF Ids, Depth

(* Whoever enters a layer calls the next one or turns back.                *)
LEMMA EnterWay ==
  ASSUME Typed, Enter
  PROVE  /\ phase = "down" /\ pos \in 1 .. Depth /\ Depth \in Ids
         /\ status = 0 /\ err = 0
         /\ stack \in Seq(Layers) /\ stack[pos] \in Layers
         /\ UNCHANGED <<stack, incoming>>
         /\ \/ phase' = "down" /\ pos' = pos + 1 /\ last' = last
            \/ phase' = "up" /\ pos' = pos - 1 /\ last' = pos
<1>1. phase = "down" /\ pos =< Depth
  BY DEF Enter, EnterPlain, EnterCopy, EnterForm, EnterRealIP, EnterRequestID,
     AuthSucceeds, AuthFails, RateLimitPasses, RateLimitRefuses, EnterCORS,
     EnterNoCache, EnterSecure, Entering
<1>2. Descend \/ TurnBack
  BY DEF Enter, EnterPlain, EnterCopy, EnterForm, EnterRealIP, EnterRequestID,
     AuthSucceeds, AuthFails, RateLimitPasses, RateLimitRefuses, EnterCORS,
     EnterNoCache, EnterSecure
<1>3. pos \in 1 .. Depth /\ Depth \in Ids /\ status = 0 /\ err = 0
  BY <1>1, Places DEF Ids
<1> QED
  BY <1>1, <1>2, <1>3, Places DEF Descend, TurnBack

(* A layer that is entered counts as entered afterwards, not before.       *)
LEMMA EnteredNext ==
  ASSUME Typed, Enter, NEW K
  PROVE  /\ pos \notin Entered(K)
         /\ Entered(K)' = IF stack[pos] \in K THEN Entered(K) \cup {pos}
                                              ELSE Entered(K)
         /\ \A j \in Entered(K) : j \in 1 .. pos - 1
<1>1. /\ phase = "down" /\ pos \in 1 .. Depth /\ Depth \in Nat
      /\ stack' = stack /\ DOMAIN stack = 1 .. Depth
  BY EnterWay DEF Depth, Ids
<1>2. Entered(K) = {j \in DOMAIN stack : j =< pos - 1 /\ stack[j] \in K}
  BY <1>1 DEF Entered
<1>3. Entered(K)' = {j \in DOMAIN stack : j =< pos /\ stack[j] \in K}
  <2>1. CASE phase' = "down" /\ pos' = pos + 1
    <3>1. pos' - 1 = pos
      BY <1>1, <2>1
    <3> QED
      BY <1>1, <2>1, <3>1 DEF Entered
  <2>2. CASE phase' = "up" /\ last' = pos
    BY <1>1, <2>2 DEF Entered
  <2> QED
    BY <2>1, <2>2, EnterWay
<1> QED
  BY <1>1, <1>2, <1>3

(* On the way down, the layers entered are those above.                    *)
LEMMA EnteredIsAbove ==
  ASSUME Typed, phase = "down", NEW K
  PROVE  Entered(K) = Above(pos, K)
<1>1. pos \in 1 .. Depth + 1 /\ Depth \in Nat /\ DOMAIN stack = 1 .. Depth
  BY Places
<1> QED
  BY <1>1 DEF Entered, Above

(* From the endpoint on no layer is entered.                               *)
Return == Endpoint \/ LeavePlain \/ LeaveLogger \/ Finish \/ UNCHANGED vars

(* Nor does a layer leave the chain again.                                 *)
LEMMA EnteredKept ==
  ASSUME Typed, Return, NEW K
  PROVE  Entered(K)' = Entered(K) /\ UNCHANGED <<stack, incoming>>
<1>1. DOMAIN stack = 1 .. Depth /\ Depth \in Nat
  BY Places
<1>2. CASE Endpoint
  <2>1. phase = "down" /\ pos = Depth + 1 /\ pos - 1 = Depth
    BY <1>1, <1>2 DEF Endpoint, AtEndpoint
  <2>2. phase' = "up" /\ last' = Depth + 1 /\ UNCHANGED <<stack, incoming>>
    BY <1>2, <2>1 DEF Endpoint, TurnBack
  <2> QED
    BY <1>1, <2>1, <2>2 DEF Entered
<1>3. CASE LeavePlain \/ LeaveLogger
  BY <1>3 DEF LeavePlain, LeaveLogger, Leaving, Ascend, Entered
<1>4. CASE Finish
  BY <1>4 DEF Finish, Entered
<1>5. CASE UNCHANGED vars
  BY <1>5 DEF vars, way, Entered
<1> QED
  BY <1>2, <1>3, <1>4, <1>5 DEF Return

(* These are all the steps.                                                *)
LEMMA Steps == [Next]_vars => Enter \/ Return
  BY DEF Next, Enter, Return, Rest

-----------------------------------------------------------------------------
(* The requests.                                                           *)

(* The layer at pos holds a request.                                       *)
LEMMA Holds ==
  ASSUME Typed
  PROVE  /\ requests \in Seq(RequestType) /\ Len(requests) \in Nat
         /\ DOMAIN requests = 1 .. Len(requests)
         /\ request \in [Ids -> 1 .. Len(requests)]
         /\ phase = "down" \/ pos >= 1 =>
              /\ Here \in Ids /\ Here \in 0 .. pos - 1
              /\ request[Here] \in 1 .. Len(requests)
              /\ Current \in RequestType
<1>1. requests \in Seq(RequestType) /\ request \in [Ids -> DOMAIN requests]
  BY Zenon DEF Typed, TypeOK
<1>2. Len(requests) \in Nat /\ DOMAIN requests = 1 .. Len(requests)
  BY <1>1
<1>3. ASSUME phase = "down" \/ pos >= 1
      PROVE  /\ Here \in Ids /\ Here \in 0 .. pos - 1
             /\ request[Here] \in 1 .. Len(requests)
             /\ Current \in RequestType
  <2>1. pos - 1 \in 0 .. Depth /\ Depth \in 0 .. MaxDepth
    BY <1>3, Places
  <2>2. Ctx(pos - 1) \in 0 .. pos - 1
    BY <2>1, Places, CtxIsLast
  <2>3. Here \in Ids /\ Here \in 0 .. pos - 1
    BY <2>1, <2>2 DEF Here, Ids
  <2>4. request[Here] \in 1 .. Len(requests)
    BY <1>1, <1>2, <2>3
  <2> QED
    BY <1>1, <2>3, <2>4, ElementOfSeq DEF Current
<1> QED
  BY <1>1, <1>2, <1>3

(* The layer below a copying one holds another Ctx.                        *)
LEMMA HereNext ==
  ASSUME Typed, Enter, phase' = "down"
  PROVE  Here' = IF stack[pos] = "copy" THEN pos ELSE Here
<1>1. pos' = pos + 1 /\ pos \in 1 .. Depth /\ stack' = stack /\ stack \in Seq(Layers)
  BY EnterWay
<1>2. pos' - 1 = pos
  BY <1>1
<1>3. Here' = Ctx(pos)
  BY <1>1, <1>2 DEF Here, Ctx
<1> QED
  BY <1>1, <1>3, CtxNext DEF Here

(* What a step may do with the requests: write into the one at hand, or    *)
(* give some Ctx a new one.                                                *)
Writes(r) ==
  /\ requests' = [requests EXCEPT ![request[Here]] = r]
  /\ request' = request

Gives(k, r) ==
  /\ requests' = Append(requests, r)
  /\ request' = [request EXCEPT ![k] = Len(requests) + 1]

(* A write changes the request at hand, for every Ctx that holds it.       *)
LEMMA WritesHeld ==
  ASSUME Typed, phase = "down", NEW r \in RequestType, Writes(r)
  PROVE  /\ requests' \in Seq(RequestType)
         /\ Len(requests') = Len(requests)
         /\ \A n \in 1 .. Len(requests) :
              requests'[n] = IF n = request[Here] THEN r ELSE requests[n]
         /\ request' = request
  BY Holds, ExceptSeq DEF Writes

(* A new request is held by the Ctx it is given to, and no other.          *)
LEMMA GivesHeld ==
  ASSUME Typed, NEW k \in Ids, NEW r \in RequestType, Gives(k, r)
  PROVE  /\ requests' \in Seq(RequestType)
         /\ Len(requests') = Len(requests) + 1
         /\ requests'[Len(requests) + 1] = r
         /\ \A n \in 1 .. Len(requests) : requests'[n] = requests[n]
         /\ request' \in [Ids -> 1 .. Len(requests')]
         /\ request'[k] = Len(requests) + 1
         /\ \A j \in Ids \ {k} : request'[j] = request[j]
<1>1. /\ requests \in Seq(RequestType) /\ Len(requests) \in Nat
      /\ request \in [Ids -> 1 .. Len(requests)]
      /\ requests' = Append(requests, r)
      /\ request' = [request EXCEPT ![k] = Len(requests) + 1]
  BY Holds DEF Gives
<1>2. /\ requests' \in Seq(RequestType)
      /\ Len(requests') = Len(requests) + 1
      /\ requests'[Len(requests) + 1] = r
      /\ \A n \in 1 .. Len(requests) : requests'[n] = requests[n]
  BY <1>1, AppendProperties
<1>3. request' \in [Ids -> 1 .. Len(requests) + 1]
  BY <1>1
<1> QED
  BY <1>1, <1>2, <1>3

(* The form a layer finds, and the request with its form parsed.           *)
LEMMA ParseFormHeld ==
  ASSUME Typed, phase = "down", ParseForm
  PROVE  \/ /\ Current.form # "unparsed"
            /\ UNCHANGED <<requests, request, body, files>>
         \/ /\ Current.form = "unparsed" /\ body' = TRUE
            /\ files' = (IF body THEN files ELSE "kept")
            /\ \E r \in RequestType :
                 /\ r.addr = Current.addr /\ r.id = Current.id
                 /\ r.credential = Current.credential
                 /\ r.form = IF body THEN "empty" ELSE "fields"
                 /\ Writes(r)
<1>1. CASE Current.form # "unparsed"
  BY <1>1 DEF ParseForm, held
<1>2. CASE Current.form = "unparsed"
  <2>1. PICK r : r = Parsed
    OBVIOUS
  <2>2. Current \in RequestType
    BY Holds
  <2>3. /\ r \in RequestType
        /\ r.addr = Current.addr /\ r.id = Current.id
        /\ r.credential = Current.credential
        /\ r.form = IF body THEN "empty" ELSE "fields"
    BY <2>1, <2>2 DEF Parsed, RequestType
  <2>4. Writes(r) /\ body' = TRUE /\ files' = (IF body THEN files ELSE "kept")
    BY <1>2, <2>1 DEF ParseForm, KeepParsed, Writes
  <2> QED
    BY <1>2, <2>3, <2>4
<1> QED
  BY <1>1, <1>2

(* What a layer that calls the next one has done with the request it was   *)
(* given: the layer below finds r.                                         *)
HandsDown(r) ==
  /\ r \in RequestType
  /\ r.addr = IF /\ stack[pos] \in {"realip", "realipfrom"}
                 /\ Believes(stack[pos], Current.addr) /\ Claim \in Addresses
              THEN Claim ELSE Current.addr
  /\ r.id = IF stack[pos] = "requestid" THEN RequestID ELSE Current.id
  /\ r.credential = IF stack[pos] = "auth" THEN incoming.credential
                                           ELSE Current.credential
  /\ r.form = IF stack[pos] = "form" /\ Current.form = "unparsed"
              THEN IF body THEN "empty" ELSE "fields"
              ELSE Current.form
  /\ body' = (body \/ (stack[pos] = "form" /\ Current.form = "unparsed"))
  /\ files' = IF stack[pos] = "form" /\ Current.form = "unparsed" /\ ~body
              THEN "kept" ELSE files
  /\ IF stack[pos] \in Replacing
     THEN Gives(IF stack[pos] = "copy" THEN pos ELSE Here, r)
     ELSE Writes(r) \/ (r = Current /\ UNCHANGED <<requests, request>>)

(* Every layer that passes the request on does no more than that.          *)
LEMMA EnterHandsDown ==
  ASSUME Typed, Enter, phase' = "down"
  PROVE  \E r : HandsDown(r)
<1> USE DEF HandsDown, Replacing
<1>1. /\ phase = "down" /\ pos \in 1 .. Depth /\ Depth \in 0 .. MaxDepth
      /\ Here \in Ids /\ Current \in RequestType
      /\ body \in BOOLEAN
  <2>1. body \in BOOLEAN
    BY Zenon DEF Typed, TypeOK
  <2> QED
    BY <2>1, Holds, EnterWay, Places
<1>2. ASSUME stack[pos] \notin {"realip", "realipfrom", "requestid", "auth", "form", "copy"},
             UNCHANGED held
      PROVE  HandsDown(Current)
  BY <1>1, <1>2 DEF held
<1>3. CASE EnterPlain \/ RateLimitPasses \/ RateLimitRefuses \/ EnterCORS
           \/ EnterNoCache \/ EnterSecure
  BY <1>2, <1>3 DEF EnterPlain, RateLimitPasses, RateLimitRefuses, EnterCORS,
     EnterNoCache, EnterSecure, Entering
<1>4. CASE EnterCopy
  <2>1. stack[pos] = "copy" /\ Gives(pos, Current) /\ UNCHANGED <<body, files>>
    BY <1>4 DEF EnterCopy, Entering, Gives
  <2> QED
    BY <1>1, <2>1
<1>5. CASE EnterForm
  <2>1. stack[pos] = "form" /\ ParseForm
    BY <1>5 DEF EnterForm, Entering
  <2>2. CASE Current.form # "unparsed"
    <3>1. UNCHANGED <<requests, request, body, files>>
      BY <1>1, <2>1, <2>2, ParseFormHeld
    <3>2. HandsDown(Current)
      BY <1>1, <2>1, <2>2, <3>1
    <3> QED
      BY <3>2
  <2>3. CASE Current.form = "unparsed"
    <3>1. /\ body' = TRUE
          /\ files' = (IF body THEN files ELSE "kept")
      BY <1>1, <2>1, <2>3, ParseFormHeld
    <3>2. PICK r \in RequestType :
             /\ r.addr = Current.addr /\ r.id = Current.id
             /\ r.credential = Current.credential
             /\ r.form = IF body THEN "empty" ELSE "fields"
             /\ Writes(r)
      BY <1>1, <2>1, <2>3, ParseFormHeld
    <3>3. HandsDown(r)
      BY <1>1, <2>1, <2>3, <3>1, <3>2
    <3> QED
      BY <3>3
  <2> QED
    BY <2>2, <2>3
<1>6. CASE EnterRealIP
  <2>1. /\ stack[pos] \in {"realip", "realipfrom"}
        /\ UNCHANGED <<request, body, files>>
        /\ requests' = IF Believes(stack[pos], Current.addr) /\ Claim \in Addresses
                       THEN AddrReplaced(Claim) ELSE requests
    BY <1>6 DEF EnterRealIP, Entering
  <2>2. CASE Believes(stack[pos], Current.addr) /\ Claim \in Addresses
    <3>1. PICK r : r = [Current EXCEPT !.addr = Claim]
      OBVIOUS
    <3>2. /\ r \in RequestType /\ r.addr = Claim /\ r.id = Current.id
          /\ r.credential = Current.credential /\ r.form = Current.form
      BY <1>1, <3>1 DEF RequestType
    <3>3. requests' = [requests EXCEPT ![request[Here]] = r]
      BY <2>1, <2>2, <3>1 DEF AddrReplaced, Current
    <3>4. HandsDown(r)
      BY <1>1, <2>1, <2>2, <3>2, <3>3 DEF Writes
    <3> QED
      BY <3>4
  <2>3. CASE ~(Believes(stack[pos], Current.addr) /\ Claim \in Addresses)
    <3>1. HandsDown(Current)
      BY <1>1, <2>1, <2>3
    <3> QED
      BY <3>1
  <2> QED
    BY <2>2, <2>3
<1>7. CASE EnterRequestID
  <2>1. /\ stack[pos] = "requestid" /\ UNCHANGED <<body, files>>
        /\ Gives(Here, [Current EXCEPT !.id = RequestID])
    BY <1>7 DEF EnterRequestID, Entering, Set, Replace, Gives
  <2>2. PICK r : r = [Current EXCEPT !.id = RequestID]
    OBVIOUS
  <2>3. RequestID \in Int
    <3>1. incoming.id \in {0, -1}
      <4>1. incoming \in Incoming
        BY Zenon DEF Typed, TypeOK
      <4> QED
        BY <4>1, IncomingAssumption DEF IncomingAssumption
    <3> QED
      BY <1>1, <3>1 DEF RequestID
  <2>4. /\ r \in RequestType /\ r.addr = Current.addr /\ r.id = RequestID
        /\ r.credential = Current.credential /\ r.form = Current.form
    BY <1>1, <2>2, <2>3 DEF RequestType
  <2>5. HandsDown(r)
    BY <1>1, <2>1, <2>2, <2>4
  <2> QED
    BY <2>5
<1>8. CASE AuthSucceeds
  <2>1. /\ stack[pos] = "auth" /\ UNCHANGED <<body, files>>
        /\ Gives(Here, [Current EXCEPT !.credential = incoming.credential])
    BY <1>8 DEF AuthSucceeds, Entering, Set, Replace, Gives
  <2>2. PICK r : r = [Current EXCEPT !.credential = incoming.credential]
    OBVIOUS
  <2>3. /\ r \in RequestType /\ r.addr = Current.addr /\ r.id = Current.id
        /\ r.credential = incoming.credential /\ r.form = Current.form
    BY <1>1, <2>2 DEF RequestType
  <2>4. HandsDown(r)
    BY <1>1, <2>1, <2>2, <2>3
  <2> QED
    BY <2>4
<1>9. CASE AuthFails
  BY <1>9 DEF AuthFails, TurnBack
<1> QED
  BY <1>3, <1>4, <1>5, <1>6, <1>7, <1>8, <1>9 DEF Enter

(* A layer that turns back has left the request alone.                     *)
LEMMA TurnBackKeeps ==
  ASSUME Typed, Enter, phase' = "up"
  PROVE  UNCHANGED held
  BY EnterWay DEF Enter, EnterPlain, EnterCopy, EnterForm, EnterRealIP, EnterRequestID,
     AuthSucceeds, AuthFails, RateLimitPasses, RateLimitRefuses, EnterCORS,
     EnterNoCache, EnterSecure, Descend

(* The endpoint at most has read the form; the way up leaves the requests. *)
LEMMA ReturnHeld ==
  ASSUME Typed, Return
  PROVE  \/ UNCHANGED held
         \/ Endpoint /\ phase = "down" /\ ParseForm
         \/ Finish /\ UNCHANGED <<requests, request, body>>
  BY DEF Return, Endpoint, AtEndpoint, LeavePlain, LeaveLogger, Finish, vars

(* The layer below really finds it.                                        *)
LEMMA CurrentNext ==
  ASSUME Typed, Enter, phase' = "down", NEW r, HandsDown(r)
  PROVE  Current' = r
<1> DEFINE k == IF stack[pos] = "copy" THEN pos ELSE Here
<1>1. /\ phase = "down" /\ Here \in Ids /\ pos \in Ids /\ k \in Ids
      /\ request[Here] \in 1 .. Len(requests)
      /\ r \in RequestType
  BY EnterWay, Holds, Places DEF HandsDown, Ids
<1>2. Here' = k
  BY HereNext
<1>3. CASE stack[pos] \in Replacing
  <2>1. Gives(k, r)
    BY <1>3 DEF HandsDown
  <2>2. PICK n \in Ids : n = k
    BY <1>1
  <2>3. request'[n] = Len(requests) + 1 /\ requests'[Len(requests) + 1] = r
    BY <1>1, <2>1, <2>2, GivesHeld
  <2> QED
    BY <1>2, <2>2, <2>3 DEF Current
<1>4. CASE stack[pos] \notin Replacing
  <2>1. k = Here
    BY <1>4 DEF Replacing
  <2>2. CASE Writes(r)
    <3>1. requests'[request[Here]] = r /\ request' = request
      BY <1>1, <2>2, WritesHeld
    <3> QED
      BY <1>2, <2>1, <3>1 DEF Current
  <2>3. CASE r = Current /\ UNCHANGED <<requests, request>>
    BY <1>2, <2>1, <2>3 DEF Current
  <2> QED
    BY <1>4, <2>2, <2>3 DEF HandsDown
<1> QED
  BY <1>3, <1>4

-----------------------------------------------------------------------------
(* Type correctness.                                                       *)

(* Every step leaves well-typed requests, and a request for every Ctx.     *)
LEMMA HeldTyped ==
  ASSUME Typed, [Next]_vars
  PROVE  /\ requests' \in Seq(RequestType) /\ request' \in [Ids -> DOMAIN requests']
         /\ body' \in BOOLEAN /\ files' \in {"none", "kept", "removed"}
<1> DEFINE Goal == /\ requests' \in Seq(RequestType)
                   /\ request' \in [Ids -> DOMAIN requests']
                   /\ body' \in BOOLEAN /\ files' \in {"none", "kept", "removed"}
<1>1. /\ requests \in Seq(RequestType) /\ request \in [Ids -> 1 .. Len(requests)]
      /\ DOMAIN requests = 1 .. Len(requests)
  BY Holds
<1>2. body \in BOOLEAN /\ files \in {"none", "kept", "removed"}
  BY Zenon DEF Typed, TypeOK
<1>3. ASSUME UNCHANGED <<requests, request>>
      PROVE  requests' \in Seq(RequestType) /\ request' \in [Ids -> DOMAIN requests']
  BY <1>1, <1>3
<1>4. ASSUME phase = "down", NEW r \in RequestType, Writes(r)
      PROVE  requests' \in Seq(RequestType) /\ request' \in [Ids -> DOMAIN requests']
  <2>1. /\ requests' \in Seq(RequestType) /\ Len(requests') = Len(requests)
        /\ request' = request
    BY <1>4, WritesHeld
  <2>2. DOMAIN requests' = 1 .. Len(requests')
    BY <2>1
  <2> QED
    BY <1>1, <2>1, <2>2
<1>5. ASSUME NEW k \in Ids, NEW r \in RequestType, Gives(k, r)
      PROVE  requests' \in Seq(RequestType) /\ request' \in [Ids -> DOMAIN requests']
  <2>1. /\ requests' \in Seq(RequestType)
        /\ request' \in [Ids -> 1 .. Len(requests')]
    BY <1>5, GivesHeld
  <2>2. DOMAIN requests' = 1 .. Len(requests')
    BY <2>1
  <2> QED
    BY <2>1, <2>2
<1>6. ASSUME Enter, phase' = "down" PROVE Goal
  <2>1. PICK r : HandsDown(r)
    BY <1>6, EnterHandsDown
  <2>2. r \in RequestType /\ body' \in BOOLEAN /\ files' \in {"none", "kept", "removed"}
    BY <1>2, <2>1 DEF HandsDown
  <2>3. phase = "down" /\ Here \in Ids /\ pos \in Ids
    BY <1>6, EnterWay, Holds, Places DEF Ids
  <2>4. \/ \E k \in Ids : Gives(k, r)
        \/ Writes(r)
        \/ UNCHANGED <<requests, request>>
    BY <2>1, <2>3 DEF HandsDown
  <2> QED
    BY <1>3, <1>4, <1>5, <2>2, <2>3, <2>4
<1>7. ASSUME UNCHANGED held PROVE Goal
  BY <1>2, <1>3, <1>7 DEF held
<1>8. ASSUME phase = "down", ParseForm PROVE Goal
  BY <1>2, <1>3, <1>4, <1>8, ParseFormHeld
<1>9. ASSUME Finish, UNCHANGED <<requests, request, body>> PROVE Goal
  BY <1>2, <1>3, <1>9 DEF Finish
<1> HIDE DEF Goal
<1>10. Goal
  BY <1>6, <1>7, <1>8, <1>9, Steps, EnterWay, TurnBackKeeps, ReturnHeld
<1> QED
  BY <1>10 DEF Goal

(* Every step leaves well-typed headers.                                   *)
LEMMA HeadersTyped ==
  ASSUME Typed, [Next]_vars
  PROVE  header' \in HeaderType
<1>1. header \in HeaderType /\ incoming \in Incoming
  BY Zenon DEF Typed, TypeOK
<1>2. ASSUME UNCHANGED header PROVE header' \in HeaderType
  BY <1>1, <1>2
<1>3. CASE EnterRequestID
  <2>1. RequestID \in Int
    <3>1. incoming.id \in {0, -1}
      BY <1>1, IncomingAssumption DEF IncomingAssumption
    <3>2. pos \in Int
      BY Places
    <3> QED
      BY <3>1, <3>2 DEF RequestID
  <2>2. header' = [header EXCEPT !.id = RequestID]
    BY <1>3 DEF EnterRequestID
  <2> QED
    BY <1>1, <2>1, <2>2 DEF HeaderType
<1>4. CASE AuthFails
  BY <1>1, <1>4 DEF AuthFails, HeaderType
<1>5. CASE EnterCORS
  <2>1. header' = CORSHeaders
    BY <1>5 DEF EnterCORS
  <2>2. PICK o, v, c : /\ o = CORSHeaders.origin /\ v = CORSHeaders.vary
                       /\ c = CORSHeaders.credentials
    OBVIOUS
  <2>3. o \in {"none", "*", incoming.origin} /\ v \in BOOLEAN /\ c \in BOOLEAN
    BY <1>1, <2>2 DEF CORSHeaders, HeaderType
  <2>4. CORSHeaders = [header EXCEPT !.cors = TRUE, !.origin = o, !.vary = v,
                                     !.credentials = c]
    BY <1>1, <2>2 DEF CORSHeaders, HeaderType
  <2> QED
    BY <1>1, <2>1, <2>3, <2>4 DEF HeaderType
<1>6. CASE EnterNoCache
  BY <1>1, <1>6 DEF EnterNoCache, HeaderType
<1>7. CASE EnterSecure
  BY <1>1, <1>7 DEF EnterSecure, HeaderType
<1>8. CASE header' = [header EXCEPT !.cache = FALSE]
  BY <1>1, <1>8 DEF HeaderType
<1> QED
  BY <1>2, <1>3, <1>4, <1>5, <1>6, <1>7, <1>8
  DEF Next, EnterPlain, EnterCopy, EnterForm, EnterRealIP, AuthSucceeds,
      RateLimitPasses, RateLimitRefuses, Endpoint, LeavePlain, LeaveLogger, Finish,
      Rest, vars, wire

(* Every step leaves well-typed notes.                                     *)
LEMMA NotesTyped ==
  ASSUME Typed, [Next]_vars
  PROVE  /\ seen' \in [1 .. MaxDepth + 1 -> {"none", incoming.peer, Claim}]
         /\ logged' \in [1 .. MaxDepth -> Int]
<1> DEFINE A == {"none", incoming.peer, Claim}
<1>1. seen \in [1 .. MaxDepth + 1 -> A] /\ logged \in [1 .. MaxDepth -> Int]
  BY Zenon DEF Typed, TypeOK
<1>2. CASE seen' = [seen EXCEPT ![pos] = Current.addr] /\ UNCHANGED logged
           /\ phase = "down"
  <2>1. pos \in 1 .. MaxDepth + 1 /\ Current \in RequestType
    BY <1>2, Holds, Places
  <2>2. Current.addr \in A
    BY <2>1 DEF RequestType
  <2> HIDE DEF A
  <2>3. seen' \in [1 .. MaxDepth + 1 -> A]
    BY <1>1, <1>2, <2>1, <2>2
  <2> QED
    BY <1>1, <1>2, <2>3 DEF A
<1>3. CASE LeaveLogger
  <2>1. pos >= 1 /\ pos \in 1 .. MaxDepth
    BY <1>3, Places DEF LeaveLogger, Leaving
  <2>2. Current \in RequestType
    BY <2>1, Holds
  <2>3. Current.id \in Int
    BY <2>2 DEF RequestType
  <2>4. logged' = [logged EXCEPT ![pos] = Current.id] /\ UNCHANGED seen
    BY <1>3 DEF LeaveLogger
  <2>5. logged' \in [1 .. MaxDepth -> Int]
    BY <1>1, <2>1, <2>3, <2>4
  <2> QED
    BY <1>1, <2>4, <2>5
<1>4. CASE UNCHANGED <<seen, logged>>
  BY <1>1, <1>4
<1>5. CASE Take /\ phase = "down"
  BY <1>2, <1>5 DEF Take
<1>6. \/ Take /\ phase = "down"
      \/ LeaveLogger
      \/ UNCHANGED <<seen, logged>>
  BY DEF Next, EnterPlain, EnterCopy, EnterForm, EnterRealIP, EnterRequestID,
     AuthSucceeds, AuthFails, RateLimitPasses, RateLimitRefuses, EnterCORS,
     EnterNoCache, EnterSecure, Endpoint, AtEndpoint, Entering, LeavePlain, Finish,
     Rest, vars, noted
<1> QED
  BY <1>3, <1>4, <1>5, <1>6

(* Every step stays on the way.                                            *)
LEMMA WayTyped ==
  ASSUME Typed, [Next]_vars
  PROVE  /\ UNCHANGED <<stack, incoming>>
         /\ phase' \in {"down", "up", "done"}
         /\ pos' \in 0 .. Depth + 1 /\ last' \in 0 .. Depth + 1
         /\ status' \in Nat /\ err' \in {0, 429, 500} /\ fresh' \in BOOLEAN
         /\ WayOK'
<1>1. /\ last \in 0 .. Depth + 1 /\ status \in Nat /\ err \in {0, 429, 500}
      /\ fresh \in BOOLEAN
  BY Zenon DEF Typed, TypeOK
<1>2. CASE Enter
  <2>1. fresh' \in BOOLEAN
    BY <1>1, <1>2 DEF Enter, EnterPlain, EnterCopy, EnterForm, EnterRealIP,
       EnterRequestID, AuthSucceeds, AuthFails, RateLimitPasses, RateLimitRefuses,
       EnterCORS, EnterNoCache, EnterSecure
  <2>2. \/ phase' = "down" /\ status' = status /\ err' = err
        \/ phase' = "up" /\ status' \in {204, 401} /\ err' = err
        \/ phase' = "up" /\ status' = status /\ err' = 429
    <3>1. CASE EnterPlain \/ EnterCopy \/ EnterForm \/ EnterRealIP \/ EnterRequestID
      BY <3>1, EnterWay DEF EnterPlain, EnterCopy, EnterForm, EnterRealIP,
         EnterRequestID, Descend, wire, Enter
    <3>2. CASE AuthSucceeds \/ RateLimitPasses \/ EnterNoCache \/ EnterSecure
      BY <3>2, EnterWay DEF AuthSucceeds, RateLimitPasses, EnterNoCache,
         EnterSecure, Descend, wire, Enter
    <3>3. CASE AuthFails \/ RateLimitRefuses
      BY <3>3, EnterWay DEF AuthFails, RateLimitRefuses, TurnBack, wire
    <3>4. CASE EnterCORS
      BY <3>4, EnterWay DEF EnterCORS, Descend, TurnBack, Enter
    <3> QED
      BY <1>2, <3>1, <3>2, <3>3, <3>4 DEF Enter
  <2>3. /\ pos \in 1 .. Depth /\ status = 0 /\ err = 0 /\ Depth \in Nat
        /\ UNCHANGED <<stack, incoming>>
        /\ \/ phase' = "down" /\ pos' = pos + 1 /\ last' = last
           \/ phase' = "up" /\ pos' = pos - 1 /\ last' = pos
    BY <1>2, EnterWay, Places
  <2>4. Depth' = Depth
    BY <2>3 DEF Depth
  <2> QED
    BY <1>1, <2>1, <2>2, <2>3, <2>4 DEF WayOK
<1>3. CASE Endpoint
  <2>1. /\ pos = Depth + 1 /\ Depth \in Nat /\ UNCHANGED <<stack, incoming, fresh>>
        /\ phase' = "up" /\ pos' = pos - 1 /\ last' = pos
        /\ \/ status' \in {200, 416} /\ err' = err
           \/ err' = 500 /\ status' = status
        /\ status = 0 /\ err = 0
    BY <1>3, Places DEF Endpoint, AtEndpoint, TurnBack, FileError, wire
  <2>2. Depth' = Depth
    BY <2>1 DEF Depth
  <2> QED
    BY <1>1, <2>1, <2>2 DEF WayOK
<1>4. CASE LeavePlain \/ LeaveLogger
  <2>1. /\ pos' = pos - 1 /\ pos > 0 /\ pos \in 0 .. Depth + 1 /\ Depth \in Nat
        /\ phase = "up" /\ UNCHANGED <<stack, incoming, phase, last, fresh, status, err>>
        /\ pos =< Depth /\ (status = 0 \/ err = 0)
    BY <1>4, Places DEF LeavePlain, LeaveLogger, Leaving, Ascend, Caller, wire
  <2>2. Depth' = Depth
    BY <2>1 DEF Depth
  <2> QED
    BY <1>1, <2>1, <2>2 DEF WayOK
<1>5. CASE Finish
  <2>1. /\ phase' = "done" /\ status' = (IF err # 0 THEN err ELSE status)
        /\ UNCHANGED <<stack, incoming, pos, last, fresh, err>>
        /\ pos \in 0 .. Depth + 1
    BY <1>5, Places DEF Finish
  <2> QED
    BY <1>1, <2>1 DEF WayOK
<1>6. CASE UNCHANGED vars
  <2>1. /\ UNCHANGED <<stack, incoming, phase, pos, last, fresh, status, err>>
        /\ phase \in {"down", "up", "done"} /\ pos \in 0 .. Depth + 1
        /\ phase = "down" => pos >= 1 /\ status = 0 /\ err = 0
        /\ phase = "up" => pos =< Depth /\ (status = 0 \/ err = 0)
    BY <1>6, Places DEF vars, way, wire
  <2>2. Depth' = Depth
    BY <2>1 DEF Depth
  <2> QED
    BY <1>1, <2>1, <2>2 DEF WayOK
<1> QED
  BY <1>2, <1>3, <1>4, <1>5, <1>6, Steps DEF Return

(* The types are kept.                                                     *)
LEMMA TypedStep == Typed /\ [Next]_vars => Typed'
<1> SUFFICES ASSUME Typed, [Next]_vars PROVE Typed'
  OBVIOUS
<1>1. /\ stack \in Seq(Layers) /\ Depth \in Ids /\ incoming \in Incoming
  BY Zenon DEF Typed, TypeOK
<1>2. UNCHANGED <<stack, incoming>>
  BY WayTyped
<1>3. /\ Depth' = Depth /\ RequestType' = RequestType /\ HeaderType' = HeaderType
      /\ Claim' = Claim
  BY <1>2 DEF Depth, RequestType, HeaderType, Claim
<1>4. /\ stack' \in Seq(Layers) /\ Depth' \in Ids /\ incoming' \in Incoming
  BY <1>1, <1>2, <1>3
<1>5. /\ phase' \in {"down", "up", "done"}
      /\ pos' \in 0 .. Depth' + 1 /\ last' \in 0 .. Depth' + 1
      /\ status' \in Nat /\ err' \in {0, 429, 500} /\ fresh' \in BOOLEAN
      /\ WayOK'
  BY <1>3, WayTyped
<1>6. requests' \in Seq(RequestType') /\ request' \in [Ids -> DOMAIN requests']
      /\ body' \in BOOLEAN /\ files' \in {"none", "kept", "removed"}
  BY <1>3, HeldTyped
<1>7. header' \in HeaderType'
  BY <1>3, HeadersTyped
<1>8. seen' \in [1 .. MaxDepth + 1 -> {"none", incoming'.peer, Claim'}]
      /\ logged' \in [1 .. MaxDepth -> Int]
  BY <1>2, <1>3, NotesTyped
<1>9. Ids' = Ids
  BY DEF Ids
<1>10. TypeOK'
  BY <1>4, <1>5, <1>6, <1>7, <1>8, <1>9, Zenon DEF TypeOK
<1> QED
  BY <1>5, <1>10, Zenon DEF Typed

(* They hold at the beginning.                                             *)
LEMMA InitTyped == Init => Typed
<1> SUFFICES ASSUME Init PROVE Typed
  OBVIOUS
<1>1. stack \in Seq(Layers) /\ Depth \in Ids
  <2>1. PICK n \in Ids : stack \in [1 .. n -> Layers]
    BY DEF Init
  <2>2. n \in Nat
    BY DEF Ids
  <2>3. stack \in Seq(Layers) /\ Len(stack) = n
    BY <2>1, <2>2
  <2> QED
    BY <2>3 DEF Depth
<1>2. /\ incoming \in Incoming
      /\ phase = "down" /\ pos = 1 /\ last = 0 /\ status = 0 /\ err = 0
      /\ fresh = FALSE /\ body = FALSE /\ files = "none"
  BY DEF Init
<1>3. pos \in 0 .. Depth + 1 /\ last \in 0 .. Depth + 1 /\ WayOK
  BY <1>1, <1>2 DEF Ids, WayOK
<1>4. /\ requests \in Seq(RequestType) /\ DOMAIN requests = {1}
      /\ request \in [Ids -> DOMAIN requests]
  <2>1. NewRequest(incoming.peer) \in RequestType
    BY DEF NewRequest, RequestType
  <2>2. requests = <<NewRequest(incoming.peer)>> /\ request = [k \in Ids |-> 1]
    BY DEF Init
  <2> QED
    BY <2>1, <2>2
<1>5. header \in HeaderType
  <2>1. header = [id |-> 0, cors |-> FALSE, origin |-> "none", vary |-> FALSE,
                  credentials |-> FALSE, cache |-> FALSE, secure |-> FALSE,
                  challenge |-> FALSE]
    BY DEF Init
  <2> QED
    BY <2>1 DEF HeaderType
<1>6. seen \in [1 .. MaxDepth + 1 -> {"none", incoming.peer, Claim}]
      /\ logged \in [1 .. MaxDepth -> Int]
  <2>1. /\ seen = [i \in 1 .. MaxDepth + 1 |-> "none"]
        /\ logged = [i \in 1 .. MaxDepth |-> 0]
    BY DEF Init
  <2> QED
    BY <2>1
<1> QED
  BY <1>1, <1>2, <1>3, <1>4, <1>5, <1>6 DEF Typed, TypeOK

(* Every variable keeps its type, and nobody answers on the way down.      *)
THEOREM TypeCorrect == Spec => []Typed
  BY InitTyped, TypedStep, PTL DEF Spec

-----------------------------------------------------------------------------
(* The headers.                                                            *)

(* The headers each layer leaves.                                          *)
LEMMA HeaderNext ==
  ASSUME Typed, Enter
  PROVE  /\ header \in HeaderType /\ header' \in HeaderType
         /\ header'.id = IF stack[pos] = "requestid" THEN RequestID ELSE header.id
         /\ RequestID # 0
         /\ header'.cors = IF stack[pos] \in CORSKinds THEN TRUE ELSE header.cors
         /\ header'.cache = IF stack[pos] = "nocache" THEN TRUE ELSE header.cache
         /\ header'.secure = IF stack[pos] = "secure" THEN TRUE ELSE header.secure
         /\ header'.challenge = IF status' = 401 THEN TRUE ELSE header.challenge
         /\ IF stack[pos] \in CORSKinds
            THEN /\ header'.origin = CORSHeaders.origin
                 /\ header'.vary = CORSHeaders.vary
                 /\ header'.credentials = CORSHeaders.credentials
            ELSE /\ header'.origin = header.origin
                 /\ header'.vary = header.vary
                 /\ header'.credentials = header.credentials
<1>1. header \in HeaderType /\ incoming \in Incoming
  BY Zenon DEF Typed, TypeOK
<1>2. header' \in HeaderType
  BY HeadersTyped DEF Next, Enter
<1>3. pos \in 1 .. Depth /\ Depth \in Nat /\ status = 0
  BY EnterWay, Places
<1>4. RequestID # 0
  <2>1. incoming.id \in {0, -1}
    BY <1>1, IncomingAssumption DEF IncomingAssumption
  <2> QED
    BY <1>3, <2>1 DEF RequestID
<1> DEFINE Goal ==
     /\ header'.id = IF stack[pos] = "requestid" THEN RequestID ELSE header.id
     /\ header'.cors = IF stack[pos] \in CORSKinds THEN TRUE ELSE header.cors
     /\ header'.cache = IF stack[pos] = "nocache" THEN TRUE ELSE header.cache
     /\ header'.secure = IF stack[pos] = "secure" THEN TRUE ELSE header.secure
     /\ header'.challenge = IF status' = 401 THEN TRUE ELSE header.challenge
     /\ IF stack[pos] \in CORSKinds
        THEN /\ header'.origin = CORSHeaders.origin
             /\ header'.vary = CORSHeaders.vary
             /\ header'.credentials = CORSHeaders.credentials
        ELSE /\ header'.origin = header.origin
             /\ header'.vary = header.vary
             /\ header'.credentials = header.credentials
<1> SUFFICES Goal
  BY <1>1, <1>2, <1>4
<1>5. CASE EnterPlain \/ EnterCopy \/ EnterForm \/ EnterRealIP \/ AuthSucceeds
           \/ RateLimitPasses \/ RateLimitRefuses
  <2>1. UNCHANGED <<header, status>>
    BY <1>5 DEF EnterPlain, EnterCopy, EnterForm, EnterRealIP, AuthSucceeds,
       RateLimitPasses, RateLimitRefuses, wire
  <2>2. /\ stack[pos] \notin CORSKinds /\ stack[pos] # "requestid"
        /\ stack[pos] # "nocache" /\ stack[pos] # "secure"
    BY <1>5 DEF EnterPlain, EnterCopy, EnterForm, EnterRealIP, AuthSucceeds,
       RateLimitPasses, RateLimitRefuses, Entering, CORSKinds
  <2>3. status' # 401
    BY <1>3, <2>1
  <2> QED
    BY <2>1, <2>2, <2>3
<1>6. CASE EnterRequestID
  <2>1. /\ stack[pos] = "requestid" /\ status' = status
        /\ header' = [header EXCEPT !.id = RequestID]
    BY <1>6 DEF EnterRequestID, Entering
  <2>2. /\ header'.id = RequestID
        /\ header'.cors = header.cors
        /\ header'.origin = header.origin
        /\ header'.vary = header.vary
        /\ header'.credentials = header.credentials
        /\ header'.cache = header.cache
        /\ header'.secure = header.secure
        /\ header'.challenge = header.challenge
    BY <1>1, <2>1 DEF HeaderType
  <2>3. /\ stack[pos] \notin CORSKinds
        /\ stack[pos] # "nocache"
        /\ stack[pos] # "secure"
        /\ status' # 401
    BY <1>3, <2>1 DEF CORSKinds
  <2> QED
    BY <2>1, <2>2, <2>3
<1>7. CASE AuthFails
  <2>1. /\ stack[pos] = "auth" /\ status' = 401
        /\ header' = [header EXCEPT !.challenge = TRUE]
    BY <1>7 DEF AuthFails, Entering
  <2>2. /\ header'.challenge = TRUE
        /\ header'.id = header.id
        /\ header'.cors = header.cors
        /\ header'.origin = header.origin
        /\ header'.vary = header.vary
        /\ header'.credentials = header.credentials
        /\ header'.cache = header.cache
        /\ header'.secure = header.secure
    BY <1>1, <2>1 DEF HeaderType
  <2>3. /\ stack[pos] \notin CORSKinds
        /\ stack[pos] # "requestid"
        /\ stack[pos] # "nocache"
        /\ stack[pos] # "secure"
    BY <1>3, <2>1 DEF CORSKinds
  <2> QED
    BY <2>1, <2>2, <2>3
<1>8. CASE EnterNoCache
  <2>1. /\ stack[pos] = "nocache" /\ status' = status
        /\ header' = [header EXCEPT !.cache = TRUE]
    BY <1>8 DEF EnterNoCache, Entering
  <2>2. /\ header'.cache = TRUE
        /\ header'.id = header.id
        /\ header'.cors = header.cors
        /\ header'.origin = header.origin
        /\ header'.vary = header.vary
        /\ header'.credentials = header.credentials
        /\ header'.secure = header.secure
        /\ header'.challenge = header.challenge
    BY <1>1, <2>1 DEF HeaderType
  <2>3. /\ stack[pos] \notin CORSKinds
        /\ stack[pos] # "requestid"
        /\ stack[pos] # "secure"
        /\ status' # 401
    BY <1>3, <2>1 DEF CORSKinds
  <2> QED
    BY <2>1, <2>2, <2>3
<1>9. CASE EnterSecure
  <2>1. /\ stack[pos] = "secure" /\ status' = status
        /\ header' = [header EXCEPT !.secure = TRUE]
    BY <1>9 DEF EnterSecure, Entering
  <2>2. /\ header'.secure = TRUE
        /\ header'.id = header.id
        /\ header'.cors = header.cors
        /\ header'.origin = header.origin
        /\ header'.vary = header.vary
        /\ header'.credentials = header.credentials
        /\ header'.cache = header.cache
        /\ header'.challenge = header.challenge
    BY <1>1, <2>1 DEF HeaderType
  <2>3. /\ stack[pos] \notin CORSKinds
        /\ stack[pos] # "requestid"
        /\ stack[pos] # "nocache"
        /\ status' # 401
    BY <1>3, <2>1 DEF CORSKinds
  <2> QED
    BY <2>1, <2>2, <2>3
<1>10. CASE EnterCORS
  <2>1. /\ stack[pos] \in CORSKinds /\ status' \in {status, 204}
        /\ header' = CORSHeaders
    BY <1>10 DEF EnterCORS, Entering, CORSKinds
  <2>2. /\ CORSHeaders.id = header.id /\ CORSHeaders.cors = TRUE
        /\ CORSHeaders.cache = header.cache /\ CORSHeaders.secure = header.secure
        /\ CORSHeaders.challenge = header.challenge
    BY <1>1 DEF CORSHeaders, HeaderType
  <2>3. /\ stack[pos] # "requestid" /\ stack[pos] # "nocache"
        /\ stack[pos] # "secure" /\ status' # 401
    BY <1>3, <2>1 DEF CORSKinds
  <2> QED
    BY <2>1, <2>2, <2>3
<1> HIDE DEF Goal
<1> QED
  BY <1>5, <1>6, <1>7, <1>8, <1>9, <1>10 DEF Enter

(* What one CORS writes: all origins without credentials, or an origin of  *)
(* the list, which varies.                                                 *)
LEMMA OneCORS ==
  ASSUME stack[pos] \in CORSKinds,
         header \in HeaderType, header.origin = "none", ~header.credentials
  PROVE  /\ ~(CORSHeaders.origin = "*" /\ CORSHeaders.credentials)
         /\ CORSHeaders.origin \notin {"none", "*"} => CORSHeaders.vary
<1>1. /\ CORSHeaders.origin = IF stack[pos] = "cors" THEN "*"
                              ELSE IF incoming.origin \in Origins
                                   THEN incoming.origin ELSE header.origin
      /\ CORSHeaders.vary = (header.vary \/ (stack[pos] = "corsfrom"
                                             /\ incoming.origin \in Origins))
      /\ CORSHeaders.credentials = (header.credentials \/ stack[pos] = "corsfrom")
  BY DEF CORSHeaders, HeaderType
<1>2. "*" \notin Origins /\ "none" \notin Origins
  BY OriginsAssumption DEF OriginsAssumption
<1>3. CASE stack[pos] = "corsfrom"
  <2>1. stack[pos] # "cors"
    BY <1>3
  <2>2. CASE incoming.origin \in Origins
    BY <1>1, <1>2, <1>3, <2>1, <2>2, Zenon
  <2>3. CASE incoming.origin \notin Origins
    <3>1. CORSHeaders.origin = "none"
      BY <1>1, <2>1, <2>3
    <3> QED
      BY <3>1
  <2> QED
    BY <2>2, <2>3
<1>4. CASE stack[pos] = "cors"
  <2>1. CORSHeaders.origin = "*" /\ stack[pos] # "corsfrom"
    BY <1>1, <1>4
  <2> QED
    BY <1>1, <2>1, Zenon
<1> QED
  BY <1>3, <1>4 DEF CORSKinds

(* On the way up only net/http's answer for a file changes a header, and   *)
(* that answer alone has the status FileError.                             *)
LEMMA HeaderReturn ==
  ASSUME Typed, Return
  PROVE  /\ header'.id = header.id /\ header'.cors = header.cors
         /\ header'.origin = header.origin /\ header'.vary = header.vary
         /\ header'.credentials = header.credentials
         /\ header'.secure = header.secure /\ header'.challenge = header.challenge
         /\ \/ /\ header'.cache = header.cache
               /\ status' = FileError <=> status = FileError
            \/ header'.cache = FALSE /\ status' = FileError
<1>1. header \in HeaderType
  BY Zenon DEF Typed, TypeOK
<1>2. CASE Endpoint /\ status' = FileError
  <2>1. header' = [header EXCEPT !.cache = FALSE]
    <3>1. status = 0
      BY <1>2, Places DEF Endpoint, AtEndpoint
    <3> QED
      BY <1>2, <3>1 DEF Endpoint, FileError, wire
  <2> QED
    BY <1>1, <1>2, <2>1 DEF HeaderType
<1>3. CASE Endpoint /\ status' # FileError
  <2>1. status = 0
    BY <1>3, Places DEF Endpoint, AtEndpoint
  <2>2. header' = header
    BY <1>3 DEF Endpoint, wire
  <2> QED
    BY <1>3, <2>1, <2>2 DEF FileError
<1>4. CASE LeavePlain \/ LeaveLogger \/ UNCHANGED vars
  BY <1>4 DEF LeavePlain, LeaveLogger, vars, wire
<1>5. CASE Finish
  <2>1. err \in {0, 429, 500} /\ (status = 0 \/ err = 0)
    <3>1. err \in {0, 429, 500}
      BY Zenon DEF Typed, TypeOK
    <3> QED
      BY <1>5, <3>1, Places DEF Finish
  <2>2. header' = header /\ status' = IF err # 0 THEN err ELSE status
    BY <1>5 DEF Finish
  <2> QED
    BY <2>1, <2>2 DEF FileError
<1> QED
  BY <1>2, <1>3, <1>4, <1>5 DEF Return

(* HeadersOK is inductive.                                                 *)
LEMMA HeadersStep ==
  ASSUME Typed, HeadersOK, [Next]_vars
  PROVE  HeadersOK'
<1>1. ASSUME Enter PROVE HeadersOK'
  <2> DEFINE C == Entered(CORSKinds)
  <2>1. /\ header \in HeaderType /\ header' \in HeaderType
        /\ header'.id = IF stack[pos] = "requestid" THEN RequestID ELSE header.id
        /\ RequestID # 0
        /\ header'.cors = IF stack[pos] \in CORSKinds THEN TRUE ELSE header.cors
        /\ header'.cache = IF stack[pos] = "nocache" THEN TRUE ELSE header.cache
        /\ header'.secure = IF stack[pos] = "secure" THEN TRUE ELSE header.secure
        /\ header'.challenge = IF status' = 401 THEN TRUE ELSE header.challenge
    BY <1>1, HeaderNext
  <2>0. \A K : Entered(K)' = IF stack[pos] \in K THEN Entered(K) \cup {pos}
                                                 ELSE Entered(K)
    BY <1>1, EnteredNext
  <2>2. header'.cors = (Entered(CORSKinds)' # {})
    <3>1. CASE stack[pos] \in CORSKinds
      BY <2>0, <2>1, <3>1
    <3>2. CASE stack[pos] \notin CORSKinds
      BY <2>0, <2>1, <3>2 DEF HeadersOK
    <3> QED
      BY <3>1, <3>2
  <2>3. header'.cache = (Entered({"nocache"})' # {} /\ status' # FileError)
    <3>1. status = 0 /\ status' # FileError
      <4>1. status = 0 /\ status' \in {status, 204, 401}
        BY <1>1, EnterWay DEF Enter, EnterPlain, EnterCopy, EnterForm, EnterRealIP,
           EnterRequestID, AuthSucceeds, AuthFails, RateLimitPasses, RateLimitRefuses,
           EnterCORS, EnterNoCache, EnterSecure, wire
      <4> QED
        BY <4>1 DEF FileError
    <3>2. CASE stack[pos] = "nocache"
      BY <2>0, <2>1, <3>1, <3>2
    <3>3. CASE stack[pos] # "nocache"
      <4>1. header.cache = (Entered({"nocache"}) # {})
        BY <3>1 DEF HeadersOK, FileError
      <4> QED
        BY <2>0, <2>1, <3>1, <3>3, <4>1
    <3> QED
      BY <3>2, <3>3
  <2>4. header'.secure = (Entered({"secure"})' # {})
    <3>1. CASE stack[pos] = "secure"
      BY <2>0, <2>1, <3>1
    <3>2. CASE stack[pos] # "secure"
      BY <2>0, <2>1, <3>2 DEF HeadersOK
    <3> QED
      BY <3>1, <3>2
  <2>5. (header'.id # 0) = (Entered({"requestid"})' # {})
    <3>1. CASE stack[pos] = "requestid"
      BY <2>0, <2>1, <3>1
    <3>2. CASE stack[pos] # "requestid"
      BY <2>0, <2>1, <3>2 DEF HeadersOK
    <3> QED
      BY <3>1, <3>2
  <2>6. header'.challenge <=> status' = 401
    <3>1. status = 0
      BY <1>1, EnterWay
    <3>2. ~header.challenge
      BY <3>1 DEF HeadersOK
    <3> QED
      BY <2>1, <3>2
  <2>7. /\ C' = {} => header'.origin = "none" /\ ~header'.credentials
        /\ (\A i, j \in C' : i = j) =>
             /\ ~(header'.origin = "*" /\ header'.credentials)
             /\ header'.origin \notin {"none", "*"} => header'.vary
    <3>1. CASE stack[pos] \in CORSKinds
      <4>1. pos \in C' /\ pos \notin C /\ C \subseteq C'
        BY <1>1, <3>1, EnteredNext
      <4>2. ASSUME \A i, j \in C' : i = j
            PROVE  /\ ~(header'.origin = "*" /\ header'.credentials)
                   /\ header'.origin \notin {"none", "*"} => header'.vary
        <5>1. C = {}
          BY <4>1, <4>2
        <5>2. header.origin = "none" /\ ~header.credentials
          BY <5>1 DEF HeadersOK
        <5>3. /\ header'.origin = CORSHeaders.origin
              /\ header'.vary = CORSHeaders.vary
              /\ header'.credentials = CORSHeaders.credentials
          BY <1>1, <3>1, HeaderNext
        <5>4. /\ ~(CORSHeaders.origin = "*" /\ CORSHeaders.credentials)
              /\ CORSHeaders.origin \notin {"none", "*"} => CORSHeaders.vary
          BY <2>1, <3>1, <5>2, OneCORS
        <5> QED
          BY <5>3, <5>4
      <4> QED
        BY <4>1, <4>2
    <3>2. CASE stack[pos] \notin CORSKinds
      <4>1. C' = C
        BY <1>1, <3>2, EnteredNext
      <4>2. /\ header'.origin = header.origin
            /\ header'.vary = header.vary
            /\ header'.credentials = header.credentials
        BY <1>1, <3>2, HeaderNext
      <4>3. /\ C = {} => header.origin = "none" /\ ~header.credentials
            /\ (\A i, j \in C : i = j) =>
                 /\ ~(header.origin = "*" /\ header.credentials)
                 /\ header.origin \notin {"none", "*"} => header.vary
        BY DEF HeadersOK
      <4> HIDE DEF C
      <4> QED
        BY <4>1, <4>2, <4>3
    <3> QED
      BY <3>1, <3>2
  <2> QED
    BY <2>2, <2>3, <2>4, <2>5, <2>6, <2>7 DEF HeadersOK
<1>2. ASSUME Return PROVE HeadersOK'
  <2>1. /\ header'.id = header.id /\ header'.cors = header.cors
        /\ header'.origin = header.origin /\ header'.vary = header.vary
        /\ header'.credentials = header.credentials
        /\ header'.secure = header.secure /\ header'.challenge = header.challenge
        /\ \/ /\ header'.cache = header.cache
              /\ status' = FileError <=> status = FileError
           \/ header'.cache = FALSE /\ status' = FileError
    BY <1>2, HeaderReturn
  <2>2. /\ Entered(CORSKinds)' = Entered(CORSKinds)
        /\ Entered({"nocache"})' = Entered({"nocache"})
        /\ Entered({"secure"})' = Entered({"secure"})
        /\ Entered({"requestid"})' = Entered({"requestid"})
    BY <1>2, EnteredKept
  <2>3. status' = 401 <=> status = 401
    <3>1. CASE Endpoint
      <4>1. status = 0 /\ status' \in {status, 200, 416}
        BY <3>1, Places DEF Endpoint, AtEndpoint, FileError, wire
      <4> QED
        BY <4>1
    <3>2. CASE LeavePlain \/ LeaveLogger \/ UNCHANGED vars
      BY <3>2 DEF LeavePlain, LeaveLogger, vars, wire
    <3>3. CASE Finish
      <4>1. err \in {0, 429, 500}
        BY Zenon DEF Typed, TypeOK
      <4>2. status = 0 \/ err = 0
        BY <3>3, Places DEF Finish
      <4>3. status' = IF err # 0 THEN err ELSE status
        BY <3>3 DEF Finish
      <4> QED
        BY <4>1, <4>2, <4>3
    <3> QED
      BY <1>2, <3>1, <3>2, <3>3 DEF Return
  <2>4. header'.cache = (Entered({"nocache"})' # {} /\ status' # FileError)
    <3>1. header.cache = (Entered({"nocache"}) # {} /\ status # FileError)
      BY DEF HeadersOK
    <3> QED
      BY <2>1, <2>2, <3>1
  <2>5. /\ header'.cors = (Entered(CORSKinds)' # {})
        /\ header'.secure = (Entered({"secure"})' # {})
        /\ (header'.id # 0) = (Entered({"requestid"})' # {})
        /\ header'.challenge <=> status' = 401
    BY <2>1, <2>2, <2>3 DEF HeadersOK
  <2>6. /\ Entered(CORSKinds)' = {} => header'.origin = "none" /\ ~header'.credentials
        /\ (\A i, j \in Entered(CORSKinds)' : i = j) =>
             /\ ~(header'.origin = "*" /\ header'.credentials)
             /\ header'.origin \notin {"none", "*"} => header'.vary
    BY <2>1, <2>2 DEF HeadersOK
  <2> QED
    BY <2>4, <2>5, <2>6, Zenon DEF HeadersOK
<1> QED
  BY <1>1, <1>2, Steps

(* HeadersOK holds in every reachable state.                               *)
LEMMA HeadersInvariance == Spec => []HeadersOK
<1>1. Init => HeadersOK
  <2> SUFFICES ASSUME Init PROVE HeadersOK
    OBVIOUS
  <2>1. header = [id |-> 0, cors |-> FALSE, origin |-> "none", vary |-> FALSE,
                  credentials |-> FALSE, cache |-> FALSE, secure |-> FALSE,
                  challenge |-> FALSE] /\ status = 0
    BY DEF Init
  <2>2. \A K : Entered(K) = {}
    <3>1. phase = "down" /\ pos = 1 /\ DOMAIN stack = 1 .. Depth /\ Depth \in Nat
      BY InitTyped, Places DEF Init
    <3> QED
      BY <3>1 DEF Entered
  <2>3. /\ Entered(CORSKinds) = {} /\ Entered({"nocache"}) = {}
        /\ Entered({"secure"}) = {} /\ Entered({"requestid"}) = {}
    BY <2>2, Zenon
  <2>4. /\ header.cors = FALSE /\ header.cache = FALSE /\ header.secure = FALSE
        /\ header.id = 0 /\ header.challenge = FALSE /\ header.origin = "none"
        /\ header.credentials = FALSE
    BY <2>1
  <2>5. "none" # "*" /\ status # 401 /\ status # FileError
    BY <2>1 DEF FileError
  <2> QED
    BY <2>3, <2>4, <2>5, Zenon DEF HeadersOK
<1>2. Typed /\ HeadersOK /\ [Next]_vars => HeadersOK'
  BY HeadersStep
<1> QED
  BY <1>1, <1>2, TypeCorrect, PTL DEF Spec

(* Every answer has the headers of all layers entered on the way, but for  *)
(* NoCache's Cache-Control on net/http's answer about a file; with one     *)
(* CORS the credentials are never allowed to all origins, and an echoed    *)
(* origin varies.                                                          *)
THEOREM AnswersHaveHeaders == Spec => []HeadersOnAnswer
<1>1. ASSUME Typed, HeadersOK PROVE HeadersOnAnswer
  <2> DEFINE C == Entered(CORSKinds)
  <2>1. IsFiniteSet(C)
    <3>1. C \in SUBSET (1 .. Depth) /\ Depth \in Nat
      BY <1>1, Places DEF Entered
    <3> HIDE DEF C
    <3>2. 1 \in Int /\ Depth \in Int
      BY <3>1
    <3>3. IsFiniteSet(1 .. Depth)
      BY <3>2, FS_Interval, Zenon
    <3> QED
      BY <3>1, <3>3, FS_Subset, Zenon
  <2>2. Cardinality(C) =< 1 => \A i, j \in C : i = j
    <3> HIDE DEF C
    <3> SUFFICES ASSUME Cardinality(C) =< 1, NEW i \in C, NEW j \in C, i # j
                 PROVE  FALSE
      OBVIOUS
    <3>1. IsFiniteSet({i}) /\ Cardinality({i}) = 1 /\ j \notin {i}
      BY FS_Singleton
    <3>2. Cardinality({i} \cup {j}) = Cardinality({i}) + 1
      BY <3>1, FS_AddElement
    <3>3. {i} \cup {j} \in SUBSET C
      OBVIOUS
    <3>4. Cardinality({i} \cup {j}) =< Cardinality(C)
      BY <2>1, <3>3, FS_Subset, Zenon
    <3>5. Cardinality(C) \in Nat
      BY <2>1, FS_CardinalityType
    <3> QED
      BY <3>1, <3>2, <3>4, <3>5
  <2>3. C = Entered({"cors", "corsfrom"})
    BY DEF CORSKinds
  <2> HIDE DEF C
  <2>4. /\ header.cors = (C # {})
        /\ header.cache = (Entered({"nocache"}) # {} /\ status # FileError)
        /\ header.secure = (Entered({"secure"}) # {})
        /\ (header.id # 0) = (Entered({"requestid"}) # {})
        /\ header.challenge <=> status = 401
        /\ (\A i, j \in C : i = j) =>
             /\ ~(header.origin = "*" /\ header.credentials)
             /\ header.origin \notin {"none", "*"} => header.vary
    BY <1>1, Zenon DEF HeadersOK, C
  <2> QED
    BY <2>2, <2>3, <2>4, Zenon DEF HeadersOnAnswer
<1> QED
  BY <1>1, TypeCorrect, HeadersInvariance, PTL

-----------------------------------------------------------------------------
(* What a layer finds in its request.                                      *)

(* What is resolved depends on the chain and the request that came only.   *)
LEMMA ResolvedKept ==
  ASSUME UNCHANGED <<stack, incoming>>, NEW i
  PROVE  Resolved(i)' = Resolved(i) /\ \A K : Above(i, K)' = Above(i, K)
  BY DEF Resolved, Above, Claim

(* One RealIP further down: it believes a peer whose address it finds, and *)
(* once the claim is in the request every RealIP leaves it there.          *)
LEMMA ResolvedNext ==
  ASSUME stack \in Seq(Layers), NEW i \in 1 .. Depth
  PROVE  Resolved(i + 1) =
           IF /\ stack[i] \in {"realip", "realipfrom"}
              /\ Believes(stack[i], Resolved(i)) /\ Claim \in Addresses
           THEN Claim ELSE Resolved(i)
<1> DEFINE All(n) == Above(n, {"realip"}) # {}
           Some(n) == Above(n, {"realipfrom"}) # {}
<1>1. All(i + 1) <=> All(i) \/ stack[i] = "realip"
  BY AboveNext
<1>2. Some(i + 1) <=> Some(i) \/ stack[i] = "realipfrom"
  BY AboveNext
<1>3. \A n : Resolved(n) = IF /\ Claim \in Addresses
                              /\ All(n) \/ (Some(n) /\ incoming.peer \in Trusted)
                           THEN Claim ELSE incoming.peer
  BY DEF Resolved
<1>4. Believes(stack[i], Resolved(i)) <=> stack[i] = "realip" \/ Resolved(i) \in Trusted
  BY DEF Believes
<1> HIDE DEF All, Some
<1> QED
  BY <1>1, <1>2, <1>3, <1>4

(* CurrentOK is inductive.                                                 *)
LEMMA CurrentStep ==
  ASSUME Typed, CurrentOK, [Next]_vars
  PROVE  CurrentOK'
<1>1. UNCHANGED <<stack, incoming>>
  BY WayTyped
<1>2. ASSUME Enter, phase' = "down" PROVE CurrentOK'
  <2>1. /\ phase = "down" /\ pos' = pos + 1 /\ pos \in 1 .. Depth
        /\ stack \in Seq(Layers)
    BY <1>2, EnterWay
  <2>2. PICK r : HandsDown(r)
    BY <1>2, EnterHandsDown
  <2>3. Current' = r
    BY <1>2, <2>2, CurrentNext
  <2>4. /\ Current.addr = Resolved(pos) /\ Current.id = header.id
        /\ Current.credential = IF Above(pos, {"auth"}) # {} THEN incoming.credential
                                ELSE "none"
        /\ Current.form = IF body THEN "fields" ELSE "unparsed"
    BY <2>1 DEF CurrentOK
  <2>5. Resolved(pos)' = Resolved(pos + 1)
    BY <1>1, <2>1 DEF Resolved, Above, Claim
  <2>6. r.addr = Resolved(pos + 1)
    <3>1. r.addr = IF /\ stack[pos] \in {"realip", "realipfrom"}
                      /\ Believes(stack[pos], Resolved(pos)) /\ Claim \in Addresses
                   THEN Claim ELSE Resolved(pos)
      BY <2>2, <2>4 DEF HandsDown
    <3> QED
      BY <2>1, <3>1, ResolvedNext
  <2>7. r.id = header'.id
    BY <1>2, <2>2, <2>4, HeaderNext DEF HandsDown
  <2>8. r.credential = IF Above(pos, {"auth"})' # {} THEN incoming'.credential
                       ELSE "none"
    <3>1. Above(pos, {"auth"})' = Above(pos + 1, {"auth"})
      BY <1>1, <2>1 DEF Above
    <3>2. Above(pos + 1, {"auth"}) # {} <=> Above(pos, {"auth"}) # {} \/ stack[pos] = "auth"
      BY <2>1, AboveNext
    <3>3. r.credential = IF stack[pos] = "auth" THEN incoming.credential
                         ELSE Current.credential
      BY <2>2 DEF HandsDown
    <3> QED
      BY <1>1, <2>4, <3>1, <3>2, <3>3
  <2>9. r.form = IF body' THEN "fields" ELSE "unparsed"
    <3>1. /\ r.form = IF stack[pos] = "form" /\ Current.form = "unparsed"
                      THEN IF body THEN "empty" ELSE "fields" ELSE Current.form
          /\ body' = (body \/ (stack[pos] = "form" /\ Current.form = "unparsed"))
      BY <2>2 DEF HandsDown
    <3>2. CASE body
      BY <2>4, <3>1, <3>2
    <3>3. CASE ~body
      BY <2>4, <3>1, <3>3
    <3> QED
      BY <3>2, <3>3
  <2> QED
    BY <2>3, <2>5, <2>6, <2>7, <2>8, <2>9 DEF CurrentOK
<1>3. ASSUME Return, phase' = "down" PROVE CurrentOK'
  <2>1. UNCHANGED vars
    BY <1>3 DEF Return, Endpoint, AtEndpoint, TurnBack, LeavePlain, LeaveLogger,
       Leaving, Ascend, Finish
  <2>2. /\ Current' = Current /\ Resolved(pos)' = Resolved(pos)
        /\ Above(pos, {"auth"})' = Above(pos, {"auth"})
        /\ UNCHANGED <<header, body, incoming, phase>>
    BY <2>1 DEF vars, way, held, wire, Current, Here, Ctx, Resolved, Above, Claim
  <2> QED
    BY <2>2 DEF CurrentOK
<1>4. phase' # "down" => CurrentOK'
  BY DEF CurrentOK
<1> QED
  BY <1>2, <1>3, <1>4, Steps

(* CurrentOK holds in every reachable state.                               *)
LEMMA CurrentInvariance == Spec => []CurrentOK
<1>1. Init => CurrentOK
  <2> SUFFICES ASSUME Init PROVE CurrentOK
    OBVIOUS
  <2>1. /\ pos = 1 /\ body = FALSE /\ header.id = 0
        /\ requests = <<NewRequest(incoming.peer)>>
        /\ request = [k \in Ids |-> 1]
    BY DEF Init
  <2>2. /\ stack \in Seq(Layers) /\ Depth \in Nat /\ Here \in Ids
    BY InitTyped, Holds, Places DEF Init
  <2>3. Current = NewRequest(incoming.peer)
    BY <2>1, <2>2 DEF Current
  <2>4. /\ Current.addr = incoming.peer /\ Current.id = 0
        /\ Current.credential = "none" /\ Current.form = "unparsed"
    BY <2>3 DEF NewRequest
  <2>5. /\ Above(1, {"auth"}) = {} /\ Above(1, {"realip"}) = {}
        /\ Above(1, {"realipfrom"}) = {}
    BY DEF Above
  <2>6. Resolved(1) = incoming.peer
    BY <2>5 DEF Resolved
  <2> QED
    BY <2>1, <2>4, <2>5, <2>6 DEF CurrentOK
<1>2. Typed /\ CurrentOK /\ [Next]_vars => CurrentOK'
  BY CurrentStep
<1> QED
  BY <1>1, <1>2, TypeCorrect, PTL DEF Spec

(* Nothing put into the context by a layer above is lost on the way down,  *)
(* and no layer reads a form that somebody above has emptied.              *)
THEOREM ContextReachesAll == Spec => []ContextReaches
<1>1. Typed /\ HeadersOK /\ CurrentOK => ContextReaches
  <2> SUFFICES ASSUME Typed, HeadersOK, CurrentOK, phase = "down"
               PROVE  ContextReaches
    BY DEF ContextReaches
  <2>1. /\ Current.id = header.id
        /\ Current.credential = IF Above(pos, {"auth"}) # {} THEN incoming.credential
                                ELSE "none"
        /\ Current.form # "empty"
    BY DEF CurrentOK
  <2>2. (header.id # 0) = (Above(pos, {"requestid"}) # {})
    BY EnteredIsAbove DEF HeadersOK
  <2> QED
    BY <2>1, <2>2 DEF ContextReaches
<1> QED
  BY <1>1, TypeCorrect, HeadersInvariance, CurrentInvariance, PTL

(* Everyone who takes the address of the client takes the resolved one.    *)
THEOREM AddressIsResolved == Spec => []AddressSeen
<1>1. Init => AddressSeen
  <2> SUFFICES ASSUME Init PROVE AddressSeen
    OBVIOUS
  <2>1. seen = [i \in 1 .. MaxDepth + 1 |-> "none"]
    BY DEF Init
  <2> QED
    BY <2>1 DEF AddressSeen
<1>2. Typed /\ CurrentOK /\ AddressSeen /\ [Next]_vars => AddressSeen'
  <2> SUFFICES ASSUME Typed, CurrentOK, AddressSeen, [Next]_vars
               PROVE  AddressSeen'
    OBVIOUS
  <2>1. \A i : Resolved(i)' = Resolved(i)
    BY WayTyped, ResolvedKept
  <2>2. \/ seen' = [seen EXCEPT ![pos] = Current.addr] /\ phase = "down"
        \/ seen' = seen
    BY DEF Next, EnterPlain, EnterCopy, EnterForm, EnterRealIP, EnterRequestID,
       AuthSucceeds, AuthFails, RateLimitPasses, RateLimitRefuses, EnterCORS,
       EnterNoCache, EnterSecure, Endpoint, AtEndpoint, Entering, LeavePlain,
       LeaveLogger, Finish, Rest, vars, noted, Take
  <2>3. phase = "down" => Current.addr = Resolved(pos)
    BY DEF CurrentOK
  <2> QED
    BY <2>1, <2>2, <2>3 DEF AddressSeen
<1> QED
  BY <1>1, <1>2, TypeCorrect, CurrentInvariance, PTL DEF Spec

-----------------------------------------------------------------------------
(* The ids.                                                                *)

(* A step that leaves the ids of all requests alone, and who holds which.  *)
KeepIds ==
  /\ request' = request /\ Len(requests') = Len(requests)
  /\ \A n \in 1 .. Len(requests) : requests'[n].id = requests[n].id

(* Writing into the request at hand without changing its id is one.        *)
LEMMA WritesKeepIds ==
  ASSUME Typed, phase = "down", NEW r \in RequestType, Writes(r), r.id = Current.id
  PROVE  KeepIds
<1>1. /\ Len(requests') = Len(requests) /\ request' = request
      /\ \A n \in 1 .. Len(requests) :
           requests'[n] = IF n = request[Here] THEN r ELSE requests[n]
  BY WritesHeld
<1>2. r.id = requests[request[Here]].id
  BY DEF Current
<1> QED
  BY <1>1, <1>2 DEF KeepIds

(* So is all that happens from the endpoint on.                            *)
LEMMA ReturnKeepsIds ==
  ASSUME Typed, Return
  PROVE  KeepIds
<1>1. Len(requests) \in Nat
  BY Holds
<1>2. CASE UNCHANGED <<requests, request>>
  BY <1>2 DEF KeepIds
<1>3. CASE phase = "down" /\ ParseForm
  BY <1>2, <1>3, ParseFormHeld, WritesKeepIds
<1> QED
  BY <1>2, <1>3, ReturnHeld DEF held

(* The Ctx of a layer depends on the chain only.                           *)
LEMMA CtxKept ==
  ASSUME UNCHANGED stack
  PROVE  \A i : Ctx(i)' = Ctx(i)
  BY DEF Ctx

(* IdsOK survives a step that leaves ids and layers alone.                 *)
LEMMA IdsKept ==
  ASSUME Typed, IdsOK, KeepIds, UNCHANGED <<stack, incoming>>,
         header'.id = header.id,
         Entered({"requestid"})' = Entered({"requestid"}),
         Entered({"copy"})' = Entered({"copy"})
  PROVE  IdsOK'
<1> DEFINE R == Entered({"requestid"})
           C == Entered({"copy"})
<1>0. \A i : Ctx(i)' = Ctx(i)
  BY CtxKept
<1>1. R' = R /\ C' = C /\ (OneId' <=> OneId) /\ incoming' = incoming
  BY DEF OneId
<1>2. /\ DOMAIN requests = 1 .. Len(requests) /\ DOMAIN requests' = 1 .. Len(requests)
      /\ request' = request
      /\ \A n \in 1 .. Len(requests) : requests'[n].id = requests[n].id
  BY Holds DEF KeepIds
<1>3. C \subseteq Ids /\ 0 \in Ids /\ request \in [Ids -> 1 .. Len(requests)]
  <2>1. DOMAIN stack = 1 .. Depth /\ Depth \in 0 .. MaxDepth
    BY Places
  <2>2. C \subseteq Ids /\ 0 \in Ids
    BY <2>1 DEF Ids, Entered
  <2> QED
    BY <2>2, Holds
<1>4. /\ incoming.id # 0 => header.id \in {0, incoming.id}
      /\ R = {} => \A k \in DOMAIN requests : requests[k].id = 0
      /\ OneId => \A k \in DOMAIN requests : requests[k].id \in {0, header.id}
      /\ \A j \in R, c \in {0} \cup C :
           (c = Ctx(j - 1) \/ j < c) => requests[request[c]].id # 0
  BY DEF IdsOK
<1> HIDE DEF R, C
<1>5. \A c \in {0} \cup C : requests'[request'[c]].id = requests[request[c]].id
  BY <1>2, <1>3
<1>6. incoming'.id # 0 => header'.id \in {0, incoming'.id}
  BY <1>1, <1>4
<1>7. R' = {} => \A k \in DOMAIN requests' : requests'[k].id = 0
  BY <1>1, <1>2, <1>4
<1>8. OneId' => \A k \in DOMAIN requests' : requests'[k].id \in {0, header'.id}
  <2> SUFFICES ASSUME OneId', NEW k \in 1 .. Len(requests)
               PROVE  requests'[k].id \in {0, header'.id}
    BY <1>2
  <2>1. requests[k].id \in {0, header.id}
    BY <1>1, <1>2, <1>4
  <2> QED
    BY <1>2, <2>1
<1>9. \A j \in R', c \in {0} \cup C' :
        (c = Ctx(j - 1)' \/ j < c) => requests'[request'[c]].id # 0
  <2> SUFFICES ASSUME NEW j \in R, NEW c \in {0} \cup C, c = Ctx(j - 1) \/ j < c
               PROVE  requests'[request'[c]].id # 0
    BY <1>0, <1>1, Zenon
  <2> QED
    BY <1>4, <1>5
<1> QED
  BY <1>6, <1>7, <1>8, <1>9 DEF IdsOK, R, C

(* IdsOK is inductive.                                                     *)
LEMMA IdsStep ==
  ASSUME Typed, HeadersOK, CurrentOK, IdsOK, [Next]_vars
  PROVE  IdsOK'
<1> DEFINE R == Entered({"requestid"})
           C == Entered({"copy"})
<1>1. UNCHANGED <<stack, incoming>>
  BY WayTyped
<1>2. CASE Return
  <2>1. header'.id = header.id
    BY <1>2, HeaderReturn
  <2> QED
    BY <1>1, <1>2, <2>1, ReturnKeepsIds, EnteredKept, IdsKept
<1>3. CASE Enter /\ phase' = "up"
  <2>1. KeepIds
    BY <1>3, TurnBackKeeps, Holds DEF held, KeepIds
  <2>2. stack[pos] \notin {"requestid", "copy"}
    BY <1>3, EnterWay DEF Enter, EnterPlain, EnterCopy, EnterForm, EnterRealIP,
       EnterRequestID, AuthSucceeds, AuthFails, RateLimitPasses, RateLimitRefuses,
       EnterCORS, EnterNoCache, EnterSecure, Entering, Descend
  <2> QED
    BY <1>1, <1>3, <2>1, <2>2, HeaderNext, EnteredNext, IdsKept
<1>4. CASE Enter /\ phase' = "down"
  <2>1. PICK r : HandsDown(r)
    BY <1>4, EnterHandsDown
  <2>2. /\ phase = "down" /\ pos \in 1 .. Depth /\ Here \in Ids /\ pos \in Ids
        /\ Here \in 0 .. pos - 1
        /\ r \in RequestType
        /\ Here = Ctx(pos - 1)
    BY <1>4, <2>1, EnterWay, Holds, Places DEF HandsDown, Ids, Here
  <2>3. /\ Current.id = requests[request[Here]].id
        /\ Current.id = header.id
        /\ (header.id # 0) = (R # {})
    BY <2>2 DEF Current, CurrentOK, HeadersOK
  <2>4. CASE stack[pos] \notin Replacing
    <3>1. KeepIds
      <4>1. r.id = Current.id
        BY <2>1, <2>4 DEF HandsDown, Replacing
      <4>2. Writes(r) \/ UNCHANGED <<requests, request>>
        BY <2>1, <2>4 DEF HandsDown
      <4> QED
        BY <2>2, <4>1, <4>2, WritesKeepIds, Holds DEF KeepIds
    <3> QED
      BY <1>1, <1>4, <2>4, <3>1, HeaderNext, EnteredNext, IdsKept DEF Replacing
  <2>5. CASE stack[pos] \in Replacing
    <3> DEFINE n == Len(requests) + 1
    <3>1. PICK k \in Ids : k = IF stack[pos] = "copy" THEN pos ELSE Here
      BY <2>2
    <3>2. Gives(k, r)
      BY <2>1, <2>5, <3>1 DEF HandsDown
    <3>3. /\ requests' \in Seq(RequestType) /\ Len(requests') = n
          /\ requests'[n] = r
          /\ \A m \in 1 .. Len(requests) : requests'[m] = requests[m]
          /\ request'[k] = n
          /\ \A j \in Ids \ {k} : request'[j] = request[j]
      BY <2>2, <3>2, GivesHeld
    <3>4. /\ Len(requests) \in Nat /\ DOMAIN requests = 1 .. Len(requests)
          /\ request \in [Ids -> 1 .. Len(requests)]
          /\ DOMAIN requests' = 1 .. n
      BY <3>3, Holds
    <3>5. /\ incoming.id # 0 => header.id \in {0, incoming.id}
          /\ R = {} => \A m \in 1 .. Len(requests) : requests[m].id = 0
          /\ OneId => \A m \in 1 .. Len(requests) : requests[m].id \in {0, header.id}
          /\ \A j \in R, c \in {0} \cup C :
               (c = Ctx(j - 1) \/ j < c) => requests[request[c]].id # 0
      BY <3>4 DEF IdsOK
    <3>6. /\ R' = IF stack[pos] = "requestid" THEN R \cup {pos} ELSE R
          /\ C' = IF stack[pos] = "copy" THEN C \cup {pos} ELSE C
          /\ \A j \in R \cup C : j \in 1 .. pos - 1
          /\ \A i : Ctx(i)' = Ctx(i)
      BY <1>1, <1>4, EnteredNext, CtxKept
    <3>7. /\ header'.id = IF stack[pos] = "requestid" THEN RequestID ELSE header.id
          /\ r.id = header'.id /\ RequestID # 0
      BY <1>4, <2>1, <2>3, HeaderNext DEF HandsDown
    <3>8. C \subseteq Ids /\ 0 \in Ids
      BY <2>2, Places DEF Ids, Entered
    <3> HIDE DEF R, C
    <3>9. incoming'.id # 0 => header'.id \in {0, incoming'.id}
      BY <1>1, <3>5, <3>7 DEF RequestID
    <3>10. R' = {} => \A m \in DOMAIN requests' : requests'[m].id = 0
      <4> SUFFICES ASSUME R' = {}, NEW m \in 1 .. n PROVE requests'[m].id = 0
        BY <3>4
      <4>1. R = {} /\ stack[pos] # "requestid"
        BY <3>6
      <4>2. r.id = 0
        BY <2>3, <3>7, <4>1
      <4> QED
        BY <3>3, <3>4, <3>5, <4>1, <4>2
    <3>11. OneId' => \A m \in DOMAIN requests' : requests'[m].id \in {0, header'.id}
      <4> SUFFICES ASSUME OneId', NEW m \in 1 .. n
                   PROVE  requests'[m].id \in {0, header'.id}
        BY <3>4
      <4>1. OneId /\ (stack[pos] = "requestid" => incoming.id # 0 \/ R = {})
        <5>1. incoming.id # 0 \/ \A i, j \in R' : i = j
          BY <1>1, Zenon DEF OneId, R
        <5>2. (\A i, j \in R' : i = j) => \A i, j \in R : i = j
          BY <3>6
        <5>3. stack[pos] = "requestid" /\ (\A i, j \in R' : i = j) => R = {}
          <6> SUFFICES ASSUME stack[pos] = "requestid", \A i, j \in R' : i = j,
                              NEW i \in R
                       PROVE  FALSE
            OBVIOUS
          <6>1. i \in R' /\ pos \in R' /\ i \in 1 .. pos - 1
            BY <3>6
          <6> QED
            BY <2>2, <6>1
        <5>4. OneId <=> incoming.id # 0 \/ \A i, j \in R : i = j
          BY Zenon DEF OneId, R
        <5> QED
          BY <5>1, <5>2, <5>3, <5>4
      <4>2. CASE m = n
        BY <3>3, <3>7, <4>2
      <4>3. CASE m \in 1 .. Len(requests)
        <5>1. requests'[m] = requests[m] /\ requests[m].id \in {0, header.id}
          BY <3>3, <3>5, <4>1, <4>3
        <5>2. CASE R = {}
          BY <3>5, <4>3, <5>1, <5>2
        <5>3. CASE R # {}
          BY <3>5, <3>7, <4>1, <5>1, <5>3 DEF RequestID
        <5> QED
          BY <5>2, <5>3
      <4> QED
        BY <3>4, <4>2, <4>3
    <3>12. \A j \in R', c \in {0} \cup C' :
             (c = Ctx(j - 1)' \/ j < c) => requests'[request'[c]].id # 0
      <4> SUFFICES ASSUME NEW j \in R', NEW c \in {0} \cup C',
                          c = Ctx(j - 1) \/ j < c
                   PROVE  requests'[request'[c]].id # 0
        BY <3>6
      <4>1. c \in Ids
        BY <2>2, <3>6, <3>8
      <4>2. R' # {} => header'.id # 0
        BY <2>3, <3>6, <3>7
      <4>3. CASE c = k
        BY <3>3, <3>7, <4>2, <4>3
      <4>4. CASE c # k
        <5>1. request'[c] = request[c] /\ requests'[request'[c]] = requests[request[c]]
          BY <3>3, <3>4, <4>1, <4>4
        <5>2. c \in {0} \cup C
          BY <3>1, <3>6, <4>4
        <5>3. j \in R
          <6>1. CASE stack[pos] = "requestid"
            <7>1. k = Ctx(pos - 1) /\ (c = 0 \/ c < pos)
              BY <2>2, <3>1, <3>6, <5>2, <6>1
            <7>2. j # pos
              BY <2>2, <4>4, <7>1
            <7> QED
              BY <3>6, <7>2
          <6> QED
            BY <3>6, <6>1
        <5> QED
          BY <3>5, <5>1, <5>2, <5>3
      <4> QED
        BY <4>3, <4>4
    <3> QED
      BY <3>9, <3>10, <3>11, <3>12 DEF IdsOK, R, C
  <2> QED
    BY <2>4, <2>5
<1> QED
  BY <1>2, <1>3, <1>4, EnterWay, Steps

(* IdsOK holds in every reachable state.                                   *)
LEMMA IdsInvariance == Spec => []IdsOK
<1>1. Init => IdsOK
  <2> SUFFICES ASSUME Init PROVE IdsOK
    OBVIOUS
  <2>1. /\ pos = 1 /\ phase = "down" /\ header.id = 0
        /\ requests = <<NewRequest(incoming.peer)>>
    BY DEF Init
  <2>2. \A k \in DOMAIN requests : requests[k].id = 0
    BY <2>1 DEF NewRequest
  <2>3. Entered({"requestid"}) = {}
    <3>1. DOMAIN stack = 1 .. Depth /\ Depth \in Nat
      BY InitTyped, Places
    <3> QED
      BY <2>1, <3>1 DEF Entered
  <2> QED
    BY <2>1, <2>2, <2>3 DEF IdsOK
<1>2. Typed /\ HeadersOK /\ CurrentOK /\ IdsOK /\ [Next]_vars => IdsOK'
  BY IdsStep
<1> QED
  BY <1>1, <1>2, TypeCorrect, HeadersInvariance, CurrentInvariance, PTL DEF Spec

(* LoggedOK is inductive: nothing the way up does changes an id.           *)
LEMMA LoggedStep ==
  ASSUME Typed, LoggedOK, [Next]_vars
  PROVE  LoggedOK'
<1> DEFINE G == Entered({"logger"})
<1>1. \A i : Ctx(i)' = Ctx(i)
  BY WayTyped, CtxKept
<1>2. CASE Enter
  <2>1. G' \subseteq G \cup {pos} /\ (\A j \in G : j < pos) /\ pos \in Nat
    BY <1>2, EnteredNext, EnterWay
  <2>2. phase' = "up" => pos' = pos - 1 /\ stack[pos] # "logger"
    BY <1>2, EnterWay DEF Enter, EnterPlain, EnterCopy, EnterForm, EnterRealIP,
       EnterRequestID, AuthSucceeds, AuthFails, RateLimitPasses, RateLimitRefuses,
       EnterCORS, EnterNoCache, EnterSecure, Entering, Descend
  <2>3. phase' = "up" => G' = G
    BY <1>2, <2>2, EnteredNext
  <2>4. \A i \in G' : ~(phase' = "up" /\ i > pos') /\ phase' # "done"
    <3>1. phase' # "done" /\ \A j \in G : j \in 1 .. pos - 1
      BY <1>2, EnterWay, EnteredNext
    <3> QED
      BY <2>1, <2>2, <2>3, <3>1
  <2> QED
    BY <2>4 DEF LoggedOK
<1>3. CASE Return
  <2>1. G' = G
    BY <1>3, EnteredKept
  <2>2. KeepIds /\ request \in [Ids -> 1 .. Len(requests)]
    BY <1>3, ReturnKeepsIds, Holds
  <2>3. \A i \in G : i \in 1 .. Depth /\ stack[i] = "logger"
    BY Places DEF Entered
  <2>4. \A i \in G : Ctx(i - 1) \in Ids
    <3> SUFFICES ASSUME NEW i \in G PROVE Ctx(i - 1) \in Ids
      OBVIOUS
    <3>1. i - 1 \in 0 .. Depth /\ Depth \in 0 .. MaxDepth
      BY <2>3, Places
    <3> QED
      BY <3>1, CtxIsLast, Places DEF Ids
  <2>5. ASSUME NEW i \in G, phase' = "done" \/ (phase' = "up" /\ i > pos')
        PROVE  logged'[i] = requests[request[Ctx(i - 1)]].id
    <3>1. i \in 1 .. Depth /\ stack[i] = "logger" /\ Depth \in 0 .. MaxDepth
      BY <2>3, Places
    <3>2. CASE Endpoint
      <4>1. phase' = "up" /\ pos' = Depth
        BY <3>1, <3>2 DEF Endpoint, AtEndpoint, TurnBack
      <4> QED
        BY <2>5, <3>1, <4>1
    <3>3. CASE LeavePlain
      <4>1. /\ pos' = pos - 1 /\ phase' = "up" /\ phase = "up" /\ i # pos
            /\ logged' = logged
        BY <3>1, <3>3 DEF LeavePlain, Leaving, Ascend, Caller, noted
      <4>2. pos \in Int
        BY Places
      <4>3. i > pos
        BY <2>5, <3>1, <4>1, <4>2
      <4> QED
        BY <4>1, <4>3 DEF LoggedOK
    <3>4. CASE LeaveLogger
      <4>1. /\ pos' = pos - 1 /\ phase' = "up" /\ phase = "up" /\ pos > 0
            /\ logged' = [logged EXCEPT ![pos] = Current.id]
        BY <3>4 DEF LeaveLogger, Leaving, Ascend, Caller
      <4>2. pos \in Int /\ logged \in [1 .. MaxDepth -> Int] /\ i \in 1 .. MaxDepth
        <5>1. logged \in [1 .. MaxDepth -> Int]
          BY Zenon DEF Typed, TypeOK
        <5> QED
          BY <3>1, <5>1, Places
      <4>3. CASE i = pos
        BY <4>1, <4>2, <4>3 DEF Current, Here
      <4>4. CASE i # pos
        <5>1. i > pos /\ logged'[i] = logged[i]
          BY <2>5, <4>1, <4>2, <4>4
        <5> QED
          BY <4>1, <5>1 DEF LoggedOK
      <4> QED
        BY <4>3, <4>4
    <3>5. CASE Finish
      <4>1. phase = "up" /\ pos = 0 /\ logged' = logged
        BY <3>5 DEF Finish, noted
      <4> QED
        BY <3>1, <4>1 DEF LoggedOK
    <3>6. CASE UNCHANGED vars
      <4>1. phase' = phase /\ pos' = pos /\ logged' = logged
        BY <3>6 DEF vars, way, noted
      <4> QED
        BY <2>5, <4>1 DEF LoggedOK
    <3> QED
      BY <1>3, <3>2, <3>3, <3>4, <3>5, <3>6 DEF Return
  <2>6. \A i \in G : requests'[request'[Ctx(i - 1)]].id = requests[request[Ctx(i - 1)]].id
    BY <2>2, <2>4 DEF KeepIds
  <2> HIDE DEF G
  <2>7. \A i \in G' : phase' = "done" \/ (phase' = "up" /\ i > pos') =>
          logged'[i] = requests'[request'[Ctx(i - 1)]].id
    BY <2>1, <2>5, <2>6
  <2>8. \A i \in G' : phase' = "done" \/ (phase' = "up" /\ i > pos') =>
          logged'[i] = requests'[request'[Ctx(i - 1)']].id
    <3> SUFFICES ASSUME NEW i \in G', phase' = "done" \/ (phase' = "up" /\ i > pos')
                 PROVE  logged'[i] = requests'[request'[Ctx(i - 1)']].id
      BY Zenon
    <3>1. Ctx(i - 1)' = Ctx(i - 1)
      BY <1>1
    <3> QED
      BY <2>7, <3>1
  <2> QED
    BY <2>8, Zenon DEF LoggedOK, G
<1> QED
  BY <1>2, <1>3, Steps

(* The id in the response is the one a Logger records, unless a copy comes *)
(* between it and a RequestID below it or the layers make several ids.     *)
THEOREM IdsAgree == Spec => []IdAgrees
<1>1. Init => LoggedOK
  BY InitTyped DEF Init, LoggedOK
<1>2. Typed /\ LoggedOK /\ [Next]_vars => LoggedOK'
  BY LoggedStep
<1>3. Typed /\ HeadersOK /\ IdsOK /\ LoggedOK => IdAgrees
  <2> DEFINE R == Entered({"requestid"})
  <2> SUFFICES ASSUME Typed, HeadersOK, IdsOK, LoggedOK, phase = "done",
                      NEW i \in Entered({"logger"}), NEW j \in R,
                      ~\E k \in Entered({"copy"}) : i < k /\ k < j,
                      incoming.id # 0 \/ Cardinality(R) = 1
               PROVE  logged[i] = header.id /\ header.id # 0
    BY Zenon DEF IdAgrees
  <2>1. /\ i \in 1 .. Depth /\ stack[i] = "logger" /\ i =< last
        /\ j \in 1 .. Depth /\ stack[j] = "requestid" /\ j =< last
        /\ stack \in Seq(Layers) /\ Depth \in 0 .. MaxDepth
        /\ last \in Nat
    <3>1. last \in 0 .. Depth + 1
      BY Zenon DEF Typed, TypeOK
    <3> QED
      BY <3>1, Places DEF Entered
  <2>2. PICK c \in Nat : c = Ctx(i - 1)
    <3>1. i - 1 \in 0 .. Depth
      BY <2>1
    <3> QED
      BY <2>1, <3>1, CtxIsLast
  <2>3. /\ c \in 0 .. i - 1 /\ (c = 0 \/ stack[c] = "copy")
        /\ \A k \in 1 .. i - 1 : stack[k] = "copy" => k =< c
    <3>1. i - 1 \in 0 .. Depth
      BY <2>1
    <3> QED
      BY <2>1, <2>2, <3>1, CtxIsLast
  <2>4. c \in Ids /\ c \in {0} \cup Entered({"copy"})
    BY <2>1, <2>3, Places DEF Ids, Entered
  <2>5. c = Ctx(j - 1) \/ j < c
    <3>1. CASE c < j
      <4>1. PICK d \in Nat : d = Ctx(j - 1)
        <5>1. j - 1 \in 0 .. Depth
          BY <2>1
        <5> QED
          BY <2>1, <5>1, CtxIsLast
      <4>2. /\ d \in 0 .. j - 1 /\ (d = 0 \/ stack[d] = "copy")
            /\ \A k \in 1 .. j - 1 : stack[k] = "copy" => k =< d
        <5>1. j - 1 \in 0 .. Depth
          BY <2>1
        <5> QED
          BY <2>1, <4>1, <5>1, CtxIsLast
      <4>3. c =< d
        BY <2>1, <2>3, <3>1, <4>2
      <4>4. d =< c
        <5> SUFFICES ASSUME d > c PROVE FALSE
          BY <2>3, <4>2
        <5>1. d \in Entered({"copy"}) /\ d < j
          BY <2>1, <2>3, <4>2, Places DEF Entered
        <5>2. ~(i < d)
          BY <5>1
        <5>3. d # i
          BY <2>1, <4>2
        <5>4. d \in 1 .. i - 1 /\ stack[d] = "copy"
          BY <2>1, <2>3, <4>2, <5>2, <5>3
        <5> QED
          BY <2>3, <5>4
      <4> QED
        BY <2>3, <4>1, <4>2, <4>3, <4>4
    <3>2. c # j
      BY <2>1, <2>3
    <3> QED
      BY <2>1, <2>3, <3>1, <3>2
  <2>6. requests[request[c]].id # 0
    BY <2>4, <2>5 DEF IdsOK
  <2>7. OneId
    <3>1. CASE Cardinality(R) = 1
      <4>1. R \in SUBSET (1 .. Depth) /\ 1 \in Int /\ Depth \in Int
        BY <2>1, Places DEF Entered
      <4> HIDE DEF R
      <4>2. IsFiniteSet(1 .. Depth)
        BY <4>1, FS_Interval, Zenon
      <4>3. IsFiniteSet(R)
        BY <4>1, <4>2, FS_Subset, Zenon
      <4>4. \E x : R = {x}
        BY <3>1, <4>3, FS_Singleton
      <4> QED
        BY <4>4 DEF OneId, R
    <3> QED
      BY <3>1 DEF OneId
  <2>8. requests[request[c]].id \in {0, header.id}
    BY <2>4, <2>7, Holds DEF IdsOK
  <2>9. logged[i] = requests[request[c]].id
    BY <2>2 DEF LoggedOK
  <2> QED
    BY <2>6, <2>8, <2>9
<1> QED
  BY <1>1, <1>2, <1>3, TypeCorrect, HeadersInvariance, IdsInvariance, PTL DEF Spec

-----------------------------------------------------------------------------
(* The temporary files.                                                    *)

-----------------------------------------------------------------------------
(* The temporary files.                                                    *)

(* The first request is there, and writing into the request at hand leaves *)
(* its form parsed, and parses it if it is the one at hand.                *)
LEMMA FirstForm ==
  ASSUME Typed, phase = "down", NEW r \in RequestType, Writes(r)
  PROVE  /\ request[Here] = 1 => requests'[1].form = r.form
         /\ request[Here] # 1 => requests'[1].form = requests[1].form
<1>1. 1 \in 1 .. Len(requests)
  <2>1. request \in [Ids -> 1 .. Len(requests)] /\ Len(requests) \in Nat
    BY Holds
  <2>2. request[0] \in 1 .. Len(requests)
    BY <2>1 DEF Ids
  <2> QED
    BY <2>1, <2>2
<1> QED
  BY <1>1, WritesHeld

(* The same of giving a Ctx a new request, which is never the first.       *)
LEMMA FirstKept ==
  ASSUME Typed, NEW k \in Ids, NEW r \in RequestType, Gives(k, r)
  PROVE  requests'[1] = requests[1]
<1>1. request \in [Ids -> 1 .. Len(requests)] /\ Len(requests) \in Nat
  BY Holds
<1>2. request[0] \in 1 .. Len(requests)
  BY <1>1 DEF Ids
<1>3. 1 \in 1 .. Len(requests)
  BY <1>1, <1>2
<1> QED
  BY <1>3, GivesHeld

(* FilesOK is inductive.                                                   *)
LEMMA FilesStep ==
  ASSUME Typed, CurrentOK, FilesOK, [Next]_vars
  PROVE  FilesOK'
<1> DEFINE P == Entered(Replacing)
           F == Entered({"form"})
<1>1. /\ phase = "down" /\ P = {} => request[Here] = 1
      /\ ~body => F = {} /\ files = "none"
      /\ files = "kept" =>
           \/ requests[1].form = "fields" /\ phase # "done"
           \/ \E i \in P : \A j \in F : i < j
  BY DEF FilesOK
<1>2. CASE Enter /\ phase' = "down"
  <2>1. PICK r : HandsDown(r)
    BY <1>2, EnterHandsDown
  <2>2. /\ phase = "down" /\ pos \in 1 .. Depth /\ pos \in Ids /\ Here \in Ids
        /\ r \in RequestType
    BY <1>2, <2>1, EnterWay, Holds, Places DEF HandsDown, Ids
  <2>3. Current.form = (IF body THEN "fields" ELSE "unparsed") /\ body \in BOOLEAN
    <3>1. body \in BOOLEAN
      BY Zenon DEF Typed, TypeOK
    <3> QED
      BY <2>2, <3>1 DEF CurrentOK
  <2>4. /\ P' = IF stack[pos] \in Replacing THEN P \cup {pos} ELSE P
        /\ F' = IF stack[pos] = "form" THEN F \cup {pos} ELSE F
        /\ \A j \in P \cup F : j \in 1 .. pos - 1
    BY <1>2, EnteredNext
  <2>5. /\ body' = (body \/ stack[pos] = "form")
        /\ files' = IF stack[pos] = "form" /\ ~body THEN "kept" ELSE files
        /\ r.form = IF stack[pos] = "form" /\ ~body THEN "fields" ELSE Current.form
    BY <2>1, <2>3 DEF HandsDown
  <2>6. stack[pos] = "form" => stack[pos] \notin Replacing
    BY DEF Replacing
  <2>7. CASE stack[pos] \in Replacing
    <3>1. PICK k \in Ids : k = IF stack[pos] = "copy" THEN pos ELSE Here
      BY <2>2
    <3>2. requests'[1] = requests[1]
      BY <2>1, <2>2, <2>7, <3>1, FirstKept DEF HandsDown
    <3> HIDE DEF P, F
    <3>3. P' # {} /\ F' = F /\ body' = body /\ files' = files
      BY <2>3, <2>4, <2>5, <2>6, <2>7
    <3>4. files' = "kept" =>
            \/ requests'[1].form = "fields" /\ phase' # "done"
            \/ \E i \in P' : \A j \in F' : i < j
      BY <1>1, <1>2, <2>4, <3>2, <3>3
    <3> QED
      BY <1>1, <3>3, <3>4 DEF FilesOK, P, F
  <2>8. CASE stack[pos] \notin Replacing
    <3>1. Here' = Here
      BY <1>2, <2>8, HereNext DEF Replacing
    <3>2. Writes(r) \/ (r = Current /\ UNCHANGED <<requests, request>>)
      BY <2>1, <2>8 DEF HandsDown
    <3>3. /\ request' = request
          /\ request[Here] = 1 => requests'[1].form = r.form
          /\ request[Here] # 1 => requests'[1].form = requests[1].form
      BY <2>2, <3>2, FirstForm DEF Writes, Current
    <3> HIDE DEF P, F
    <3>4. phase' = "down" /\ P' = {} => request'[Here'] = 1
      BY <1>1, <2>2, <2>4, <2>8, <3>1, <3>3
    <3>5. ~body' => F' = {} /\ files' = "none"
      BY <1>1, <2>3, <2>4, <2>5
    <3>6. files' = "kept" =>
            \/ requests'[1].form = "fields" /\ phase' # "done"
            \/ \E i \in P' : \A j \in F' : i < j
      <4>1. P' = P
        BY <2>4, <2>8
      <4>2. CASE stack[pos] = "form" /\ ~body
        <5>1. F' = {pos}
          BY <1>1, <2>4, <4>2
        <5>2. CASE P = {}
          BY <1>1, <1>2, <2>2, <2>5, <3>3, <4>2, <5>2
        <5>3. CASE P # {}
          <6>1. PICK i \in P : i \in 1 .. pos - 1
            BY <2>4, <5>3
          <6> QED
            BY <2>2, <4>1, <5>1, <6>1
        <5> QED
          BY <5>2, <5>3
      <4>3. CASE ~(stack[pos] = "form" /\ ~body)
        <5>1. files' = files
          BY <2>5, <4>3
        <5>2. ASSUME requests[1].form = "fields" PROVE requests'[1].form = "fields"
          <6>1. request[Here] = 1 => requests'[1].form = Current.form
            BY <2>5, <3>3, <4>3
          <6>2. request[Here] = 1 => Current.form = requests[1].form
            BY DEF Current
          <6> QED
            BY <3>3, <5>2, <6>1, <6>2
        <5>3. ASSUME NEW i \in P, \A j \in F : i < j
              PROVE  \A j \in F' : i < j
          BY <2>2, <2>4, <5>3
        <5> QED
          BY <1>1, <1>2, <4>1, <5>1, <5>2, <5>3
      <4> QED
        BY <4>2, <4>3
    <3> QED
      BY <3>4, <3>5, <3>6 DEF FilesOK, P, F
  <2> QED
    BY <2>7, <2>8
<1>3. ASSUME UNCHANGED held, P' = P, F' = F, phase' # "down", phase # "done" \/ phase' = phase,
             phase' # "done" \/ phase' = phase
      PROVE  FilesOK'
  <2>1. UNCHANGED <<requests, body, files>>
    BY <1>3 DEF held
  <2> HIDE DEF P, F
  <2>2. phase' = "done" => phase = "done"
    BY <1>3
  <2> QED
    BY <1>1, <1>3, <2>1, <2>2 DEF FilesOK, P, F
<1>4. CASE Enter /\ phase' = "up"
  <2>1. UNCHANGED held /\ phase = "down"
    BY <1>4, TurnBackKeeps, EnterWay
  <2>2. stack[pos] # "form" /\ stack[pos] \notin {"requestid", "copy"}
    BY <1>4, EnterWay DEF Enter, EnterPlain, EnterCopy, EnterForm, EnterRealIP,
       EnterRequestID, AuthSucceeds, AuthFails, RateLimitPasses, RateLimitRefuses,
       EnterCORS, EnterNoCache, EnterSecure, Entering, Descend
  <2>3. F' = F /\ (P' = P \/ P' = P \cup {pos})
    BY <1>4, <2>2, EnteredNext
  <2>4. UNCHANGED <<requests, body, files>>
    BY <2>1 DEF held
  <2> HIDE DEF P, F
  <2> QED
    BY <1>1, <1>4, <2>3, <2>4 DEF FilesOK, P, F
<1>5. CASE Return
  <2>1. F' = F /\ P' = P
    BY <1>5, EnteredKept
  <2>2. CASE Endpoint /\ phase = "down" /\ ParseForm
    <3>1. phase' = "up"
      BY <2>2 DEF Endpoint, TurnBack
    <3>2. CASE UNCHANGED <<requests, request, body, files>>
      BY <1>3, <2>1, <2>2, <3>1, <3>2 DEF held
    <3>3. CASE /\ Current.form = "unparsed" /\ body' = TRUE
               /\ files' = (IF body THEN files ELSE "kept")
               /\ \E r \in RequestType :
                    /\ r.form = IF body THEN "empty" ELSE "fields"
                    /\ Writes(r)
      <4>1. ~body
        <5>1. Current.form = IF body THEN "fields" ELSE "unparsed"
          BY <2>2 DEF CurrentOK
        <5> QED
          BY <3>3, <5>1
      <4>2. PICK r \in RequestType : r.form = "fields" /\ Writes(r)
        BY <3>3, <4>1
      <4>3. request[Here] = 1 => requests'[1].form = "fields"
        BY <2>2, <4>2, FirstForm
      <4> HIDE DEF P, F
      <4>4. P # {} => \E i \in P' : \A j \in F' : i < j
        BY <1>1, <2>1, <4>1
      <4> QED
        BY <1>1, <2>1, <2>2, <3>1, <3>3, <4>3, <4>4 DEF FilesOK, P, F
    <3> QED
      BY <2>2, <3>2, <3>3, ParseFormHeld
  <2>3. CASE Finish
    <3>1. /\ phase' = "done" /\ UNCHANGED <<requests, body>>
          /\ files' = IF files = "kept" /\ requests[1].form = "fields" THEN "removed"
                      ELSE files
      BY <2>3 DEF Finish
    <3> HIDE DEF P, F
    <3> QED
      BY <1>1, <2>1, <3>1 DEF FilesOK, P, F
  <2>4. CASE UNCHANGED vars
    <3>1. UNCHANGED <<requests, request, body, files, phase, pos, stack>>
      BY <2>4 DEF vars, way, held
    <3>2. Here' = Here
      BY <3>1 DEF Here, Ctx
    <3> HIDE DEF P, F
    <3> QED
      BY <1>1, <2>1, <3>1, <3>2 DEF FilesOK, P, F
  <2>5. CASE (LeavePlain \/ LeaveLogger) \/ (Endpoint /\ UNCHANGED held)
    <3>1. UNCHANGED held /\ phase' = "up"
      BY <2>5 DEF LeavePlain, LeaveLogger, Leaving, Ascend, Endpoint, TurnBack
    <3>2. phase # "done"
      BY <2>5 DEF LeavePlain, LeaveLogger, Leaving, Endpoint, AtEndpoint
    <3> QED
      BY <1>3, <2>1, <3>1, <3>2
  <2> QED
    BY <1>5, <2>2, <2>3, <2>4, <2>5, ReturnHeld DEF Return
<1> QED
  BY <1>2, <1>4, <1>5, EnterWay, Steps

(* The files of a large upload are removed when the request is done, if    *)
(* the form was first read above every layer that replaces the request.    *)
THEOREM FilesAreRemoved == Spec => []TempFilesRemoved
<1>1. Init => FilesOK
  <2> SUFFICES ASSUME Init PROVE FilesOK
    OBVIOUS
  <2>1. /\ pos = 1 /\ phase = "down" /\ files = "none"
        /\ request = [k \in Ids |-> 1]
    BY DEF Init
  <2>2. DOMAIN stack = 1 .. Depth /\ Depth \in Nat /\ Here \in Ids
    BY <2>1, InitTyped, Places, Holds
  <2>3. Entered({"form"}) = {}
    BY <2>1, <2>2 DEF Entered
  <2> QED
    BY <2>1, <2>2, <2>3 DEF FilesOK
<1>2. Typed /\ CurrentOK /\ FilesOK /\ [Next]_vars => FilesOK'
  BY FilesStep
<1>3. FilesOK => TempFilesRemoved
  BY DEF FilesOK, TempFilesRemoved
<1> QED
  BY <1>1, <1>2, <1>3, TypeCorrect, CurrentInvariance, PTL DEF Spec
=============================================================================
