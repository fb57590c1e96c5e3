--------------------------- MODULE Pipeline_proofs ---------------------------
(***************************************************************************)
(* What the run of Pipeline shows of chains of three layers, proved for    *)
(* chains of any length and endpoints that write any number of times.      *)
(***************************************************************************)
EXTENDS Pipeline, Extremes, SequenceTheorems, FiniteSetTheorems

USE BoundsAssumption DEF BoundsAssumption

-----------------------------------------------------------------------------
(* The ways a step may go.                                                 *)

Typed == TypeOK /\ WayOK

(* Where the request may be.                                               *)
LEMMA Places ==
  ASSUME Typed
  PROVE  /\ stack \in Seq(Layers) /\ Depth \in 0 .. MaxDepth
         /\ DOMAIN stack = 1 .. Depth /\ Depth \in Nat
         /\ phase \in {"down", "up", "done", "aborted"}
         /\ pos \in 0 .. Depth + 1
         /\ phase = "down" => /\ pos \in 1 .. Depth + 1 /\ ~panicking /\ err = NoErr
                              /\ ~expired /\ answer.result = "none"
         /\ phase = "up" => pos \in 0 .. Depth /\ pos < answer.origin
         /\ phase = "done" => ~panicking
         /\ err = NoErr \/ err.code >= 400
<1>1. /\ stack \in UNION {[1 .. n -> Layers] : n \in Ids}
      /\ phase \in {"down", "up", "done", "aborted"} /\ pos \in 0 .. Depth + 1
  BY Zenon DEF Typed, TypeOK
<1>2. PICK n \in Ids : stack \in [1 .. n -> Layers]
  BY <1>1
<1>3. n \in Nat /\ n \in 0 .. MaxDepth
  BY DEF Ids
<1>4. stack \in Seq(Layers) /\ Len(stack) = n
  BY <1>2, <1>3
<1>5. Depth \in 0 .. MaxDepth /\ DOMAIN stack = 1 .. Depth /\ Depth \in Nat
  BY <1>2, <1>3, <1>4 DEF Depth
<1>6. /\ phase = "down" => /\ pos >= 1 /\ ~panicking /\ err = NoErr /\ ~expired
                           /\ answer.result = "none"
      /\ phase = "up" => pos =< Depth /\ pos < answer.origin
      /\ phase = "done" => ~panicking
      /\ err = NoErr \/ err.code >= 400
  BY Zenon DEF Typed, WayOK
<1> QED
  BY <1>1, <1>4, <1>5, <1>6

(* The types of the variables, one by one.                                 *)
LEMMA Types ==
  ASSUME Typed
  PROVE  /\ accepts \in BOOLEAN /\ panicking \in BOOLEAN /\ expired \in BOOLEAN
         /\ err \in [code : Nat, big : BOOLEAN]
         /\ response \in [Ids -> ResponseType] /\ wire \in WireType
         /\ ctxErr \in [Ids -> {"none", "deadline", "canceled"}]
         /\ closed \in SUBSET (1 .. Depth) /\ logs \in [1 .. MaxDepth -> Nat]
         /\ answer \in AnswerType
  BY Zenon DEF Typed, TypeOK

(* Every layer works on a Ctx of its own or of one above it.               *)
LEMMA CtxIsThere ==
  ASSUME Typed, NEW i \in 0 .. Depth
  PROVE  /\ Ctx(i) \in Ids /\ Ctx(i) \in 0 .. i
         /\ Ctx(i) = 0 \/ Copies(Ctx(i))
<1> DEFINE S == {0} \cup {j \in 1 .. i : Copies(j)}
<1>1. i \in Nat /\ Depth \in 0 .. MaxDepth
  BY Places
<1>2. S \in SUBSET (0 .. i) /\ S # {}
  BY <1>1
<1>3. Max(S) \in S
  <2> HIDE DEF S
  <2> QED
    BY <1>1, <1>2, MaxIsGreatest
<1> QED
  BY <1>1, <1>2, <1>3 DEF Ctx, Ids

(* Only a copying layer hands down another Ctx than it was given.          *)
LEMMA CtxNext ==
  ASSUME Typed, NEW i \in 1 .. Depth
  PROVE  Ctx(i) = IF Copies(i) THEN i ELSE Ctx(i - 1)
<1>1. i \in Nat
  BY Places
<1>2. CASE Copies(i)
  <2> DEFINE S == {0} \cup {j \in 1 .. i : Copies(j)}
  <2>1. S \in SUBSET Int /\ i \in S /\ \A y \in S : y =< i
    BY <1>1, <1>2
  <2>2. Max(S) = i
    <3> HIDE DEF S
    <3> QED
      BY <2>1, MaxIs
  <2> QED
    BY <1>2, <2>2 DEF Ctx
<1>3. CASE ~Copies(i)
  <2>1. {j \in 1 .. i : Copies(j)} = {j \in 1 .. i - 1 : Copies(j)}
    BY <1>1, <1>3
  <2> QED
    BY <1>3, <2>1 DEF Ctx
<1> QED
  BY <1>2, <1>3

(* So it is the same Ctx below as above when no layer between copies it.   *)
LEMMA CtxSame ==
  ASSUME Typed, NEW i \in 0 .. Depth, NEW n \in i .. Depth,
         \A j \in i + 1 .. n : ~Copies(j)
  PROVE  Ctx(n) = Ctx(i)
<1>1. i \in Nat /\ n \in Nat /\ i =< n
  BY Places
<1>2. {j \in 1 .. n : Copies(j)} = {j \in 1 .. i : Copies(j)}
  BY <1>1
<1> QED
  BY <1>2 DEF Ctx

(* The steps, by the way they take.                                        *)
Enter == EnterPlain \/ EnterCopy \/ EnterCompress

Turn == GateRejects \/ GatePanics \/ GateAnswers \/ AdaptAnswers
        \/ EndpointReturns \/ EndpointPanics

Work == EndpointRenders \/ EndpointRedirects \/ EndpointServesFile
        \/ EndpointNoContent \/ EndpointInforms \/ EndpointUpgrades

Return == LeavePlain \/ LeaveLogger \/ LeaveTimeout \/ LeaveBodyLimit
          \/ LeaveRecoverer \/ LeaveCompress

End == HandleError \/ Finish \/ Abort

(* Timers, clients and stuttering change no more than ctxErr.              *)
Idle == /\ UNCHANGED <<stack, accepts, phase, pos, err, panicking, response, closed,
                       wire, logs, answer, expired>>
        /\ ctxErr' \in [Ids -> {"none", "deadline", "canceled"}]

(* These are all the steps.                                                *)
LEMMA Steps ==
  ASSUME Typed, [Next]_vars
  PROVE  Enter \/ Turn \/ Work \/ Return \/ End \/ Idle
<1>1. ctxErr \in [Ids -> {"none", "deadline", "canceled"}]
  BY Types
<1>2. ASSUME NEW k, NEW reason \in {"deadline", "canceled"}, EndContexts(k, reason)
      PROVE  Idle
  BY <1>1, <1>2 DEF EndContexts, Idle
<1>3. CASE DeadlinePasses \/ ClientLeaves
  BY <1>2, <1>3 DEF DeadlinePasses, ClientLeaves
<1>4. CASE UNCHANGED vars
  BY <1>1, <1>4 DEF vars, Idle
<1> QED
  BY <1>3, <1>4 DEF Next, Rest, Enter, Turn, Work, Return, End

(* Down.                                                                   *)
LEMMA EnterWay ==
  ASSUME Typed, Enter
  PROVE  /\ phase = "down" /\ pos \in 1 .. Depth /\ stack[pos] \in Layers
         /\ pos' = pos + 1
         /\ UNCHANGED <<stack, accepts, phase, err, panicking, closed, logs, answer,
                        expired>>
  BY Places DEF Enter, EnterPlain, EnterCopy, EnterCompress, Entering

(* Back, from the layer or endpoint that answers or fails.                 *)
LEMMA TurnWay ==
  ASSUME Typed, Turn
  PROVE  /\ phase = "down" /\ pos \in 1 .. Depth + 1
         /\ phase' = "up" /\ pos' = pos - 1 /\ answer'.origin = pos
         /\ UNCHANGED <<stack, accepts, ctxErr, closed, logs, expired>>
<1>1. answer \in AnswerType
  BY Types
<1>2. ASSUME NEW e, NEW p, NEW result, TurnBack(e, p, result)
      PROVE  /\ phase' = "up" /\ pos' = pos - 1 /\ answer'.origin = pos
             /\ UNCHANGED <<stack, accepts, ctxErr, closed, logs, expired>>
  BY <1>1, <1>2 DEF TurnBack, Caller, AnswerType
<1>4. CASE GateRejects \/ GatePanics
  <2>1. PICK e, p, result : TurnBack(e, p, result)
    BY <1>4 DEF GateRejects, GatePanics
  <2>2. phase = "down" /\ pos =< Depth
    BY <1>4 DEF GateRejects, GatePanics, Entering
  <2> QED
    BY <1>2, <2>1, <2>2, Places
<1>5. CASE GateAnswers \/ AdaptAnswers
  BY <1>5, Places DEF GateAnswers, AdaptAnswers, Entering, Caller
<1>6. CASE EndpointReturns \/ EndpointPanics
  BY <1>2, <1>6, Places DEF EndpointReturns, EndpointPanics, AtEndpoint
<1> QED
  BY <1>4, <1>5, <1>6 DEF Turn

(* Nowhere, at the endpoint.                                               *)
LEMMA WorkWay ==
  ASSUME Typed, Work
  PROVE  /\ phase = "down" /\ pos = Depth + 1
         /\ answer'.origin = answer.origin /\ answer'.result = answer.result
         /\ UNCHANGED <<stack, accepts, phase, pos, err, panicking, ctxErr, closed, logs,
                        expired>>
<1>1. answer \in AnswerType
  BY Types
<1> QED
  BY <1>1 DEF Work, EndpointRenders, EndpointRedirects, EndpointServesFile,
     EndpointNoContent, EndpointInforms, EndpointUpgrades, Sends, ServesNone,
     SendsHeader, Works, AtEndpoint, Answered, AnswerType

(* Up, with the Responses as they are.                                     *)
LEMMA ReturnWay ==
  ASSUME Typed, Return
  PROVE  /\ phase = "up" /\ pos \in 1 .. Depth /\ pos' = pos - 1
         /\ UNCHANGED <<stack, accepts, phase, answer, ctxErr, response>>
  BY Places DEF Return, LeavePlain, LeaveLogger, LeaveTimeout, LeaveBodyLimit,
     LeaveRecoverer, LeaveCompress, Leaving, Leave, Caller

(* Out of the chain.                                                       *)
LEMMA EndWay ==
  ASSUME Typed, End
  PROVE  /\ phase = "up" /\ pos = 0 /\ phase' \in {"done", "aborted"}
         /\ phase' = "done" => ~panicking
         /\ UNCHANGED <<stack, accepts, pos, err, panicking, ctxErr, closed, logs,
                        answer, expired>>
  BY DEF End, HandleError, Finish, Abort, AtTop

(* The layers passed are those above, whether the request goes on or back. *)
LEMMA PassedNext ==
  ASSUME Typed, Enter, NEW K
  PROVE  Passed(K)' = IF stack[pos] \in K THEN Passed(K) \cup {pos} ELSE Passed(K)
<1>1. /\ phase = "down" /\ phase' = "down" /\ pos' = pos + 1 /\ stack' = stack
      /\ pos \in 1 .. Depth /\ Depth \in Nat
  BY EnterWay, Places
<1>2. Passed(K) = {i \in 1 .. Depth : i < pos /\ stack[i] \in K}
  BY <1>1 DEF Passed
<1>3. Passed(K)' = {i \in 1 .. Depth : i < pos + 1 /\ stack[i] \in K}
  BY <1>1 DEF Passed, Depth
<1> QED
  BY <1>1, <1>2, <1>3

(* From then on they stay.                                                 *)
LEMMA PassedKept ==
  ASSUME Typed, Turn \/ Work \/ Return \/ End \/ Idle, NEW K
  PROVE  Passed(K)' = Passed(K)
<1>1. CASE Turn
  BY <1>1, TurnWay DEF Passed, Depth
<1>2. CASE Work
  BY <1>2, WorkWay DEF Passed, Depth
<1>3. CASE Return
  BY <1>3, ReturnWay DEF Passed, Depth
<1>4. CASE End
  BY <1>4, EndWay DEF Passed, Depth
<1>5. CASE Idle
  BY <1>5 DEF Idle, Passed, Depth
<1> QED
  BY <1>1, <1>2, <1>3, <1>4, <1>5

-----------------------------------------------------------------------------
(* The Responses and the wire.                                             *)

(* One part more, or the same.                                             *)
AddsAtMost(old, new, part) == new = old \/ new = Append(old, part)

(* Every part is the new one or an old one.                                *)
LEMMA Parts ==
  ASSUME NEW old, NEW new, NEW part, AddsAtMost(old, new, part),
         old \in Seq([what : {"page", "error"}, codings : Nat]),
         part \in [what : {"page", "error"}, codings : Nat]
  PROVE  \A n \in DOMAIN new : new[n] = part \/ (n \in DOMAIN old /\ new[n] = old[n])
<1>1. CASE new = Append(old, part)
  <2>1. /\ Len(old) \in Nat /\ DOMAIN old = 1 .. Len(old)
        /\ DOMAIN new = 1 .. Len(old) + 1
    BY <1>1
  <2>2. /\ \A n \in 1 .. Len(old) : new[n] = old[n]
        /\ new[Len(old) + 1] = part
    BY <1>1, AppendProperties
  <2> QED
    BY <2>1, <2>2
<1> QED
  BY <1>1 DEF AddsAtMost

(* The coding declared stays, or is deleted before the headers are sent.   *)
Keeps == wire'.coded = wire.coded /\ wire'.dropped = wire.dropped
Drops == wire.status = 0 /\ wire.coded /\ ~wire'.coded /\ wire'.dropped

(* What an answer through Ctx k leaves behind.                             *)
Answers(k, code, what) ==
  /\ k \in Ids /\ code \in Nat \ {0}
  /\ response' \in [Ids -> ResponseType] /\ wire' \in WireType
  /\ \A j \in Ids : response'[j].writer = response[j].writer
  /\ \A j \in Ids \ {k} : response'[j] = response[j]
  /\ response'[k].written
  /\ response'[k].status = IF response[k].written THEN response[k].status ELSE code
  /\ wire.status # 0 => wire'.status = wire.status
  /\ wire.status = 0 /\ ~response[k].written /\ Final(code) => wire'.status = code
  /\ what = "error" => wire'.status # 0
  /\ wire'.session = wire.session
  /\ Keeps \/ (Drops /\ what = "page")
  /\ wire'.status \in {0, 101, 204, 304} => wire'.body = wire.body
  /\ AddsAtMost(wire.body, wire'.body,
                [what |-> what, codings |-> Len(response[k].writer)])

(* The first final status counts.                                          *)
LEMMA CommitEffect ==
  ASSUME Typed, NEW code \in Nat
  PROVE  /\ Commit(code) \in WireType
         /\ Commit(code).status =
              IF wire.status # 0 \/ ~Final(code) THEN wire.status ELSE code
         /\ Commit(code).coded = wire.coded /\ Commit(code).dropped = wire.dropped
         /\ Commit(code).body = wire.body /\ Commit(code).session = wire.session
<1>1. wire \in WireType
  BY Types
<1> QED
  BY <1>1 DEF Commit, WireType

(* And 200 is one.                                                         *)
LEMMA CommitsOK ==
  ASSUME Typed
  PROVE  /\ Commit(200) \in WireType
         /\ Commit(200).status = IF wire.status # 0 THEN wire.status ELSE 200
         /\ Commit(200).coded = wire.coded /\ Commit(200).dropped = wire.dropped
         /\ Commit(200).body = wire.body /\ Commit(200).session = wire.session
<1>1. Final(200)
  BY DEF Final
<1> QED
  BY <1>1, CommitEffect

(* The first header of a Response is noted, and sent if it is the first.   *)
LEMMA HeaderEffect ==
  ASSUME Typed, NEW k \in Ids, NEW code \in Nat \ {0}
  PROVE  /\ WriteHeader(k, code) \in [Ids -> ResponseType]
         /\ \A j \in Ids : WriteHeader(k, code)[j].writer = response[j].writer
         /\ \A j \in Ids \ {k} : WriteHeader(k, code)[j] = response[j]
         /\ WriteHeader(k, code)[k].written
         /\ WriteHeader(k, code)[k].status =
              IF response[k].written THEN response[k].status ELSE code
         /\ WireHeader(k, code) \in WireType
         /\ WireHeader(k, code).status =
              IF wire.status # 0 \/ response[k].written \/ ~Final(code)
              THEN wire.status ELSE code
         /\ WireHeader(k, code).coded = wire.coded
         /\ WireHeader(k, code).dropped = wire.dropped
         /\ WireHeader(k, code).body = wire.body
         /\ WireHeader(k, code).session = wire.session
<1>1. response \in [Ids -> ResponseType] /\ wire \in WireType
  BY Types
<1>2. CASE response[k].written
  <2>1. WriteHeader(k, code) = response /\ WireHeader(k, code) = wire
    BY <1>2 DEF WriteHeader, WireHeader
  <2> QED
    BY <1>1, <1>2, <2>1
<1>3. CASE ~response[k].written
  <2>1. PICK r : r = [response[k] EXCEPT !.status = code, !.written = TRUE]
    OBVIOUS
  <2>2. /\ r \in ResponseType /\ r.writer = response[k].writer
        /\ r.written /\ r.status = code
    BY <1>1, <2>1 DEF ResponseType
  <2>3. WriteHeader(k, code) = [response EXCEPT ![k] = r]
    BY <1>3, <2>1 DEF WriteHeader
  <2>4. /\ WriteHeader(k, code) \in [Ids -> ResponseType]
        /\ \A j \in Ids : WriteHeader(k, code)[j].writer = response[j].writer
        /\ \A j \in Ids \ {k} : WriteHeader(k, code)[j] = response[j]
        /\ WriteHeader(k, code)[k].written
        /\ WriteHeader(k, code)[k].status = code
    BY <1>1, <2>2, <2>3
  <2>5. WireHeader(k, code) = Commit(code)
    BY <1>3 DEF WireHeader
  <2> QED
    BY <1>3, <2>4, <2>5, CommitEffect
<1> QED
  BY <1>2, <1>3

(* Wire v is w with part, and net/http's 200 if no header was sent; or, at *)
(* the end of a hijacked connection or a closed writer, w as it was.       *)
Extended(w, v, part) ==
  /\ v \in WireType
  /\ v.coded = w.coded /\ v.dropped = w.dropped /\ v.session = w.session
  /\ \/ v.status = w.status /\ v.body = w.body
     \/ /\ w.status \notin {101, 204, 304}
        /\ v.status = IF w.status = 0 THEN 200 ELSE w.status
        /\ v.body = Append(w.body, part)
  /\ w.status = 0 /\ closed = {} => v.status = 200

(* So a part of the body is written.                                       *)
LEMMA BodyEffect ==
  ASSUME Typed, NEW w \in WireType, NEW k \in Ids, NEW what \in {"page", "error"},
         NEW part, part = [what |-> what, codings |-> Len(response[k].writer)]
  PROVE  Extended(w, WithBody(w, k, what), part)
<1>1. CASE /\ WithBody(w, k, what) = w
           /\ \/ w.status \in {101, 204, 304}
              \/ closed # {}
  BY <1>1 DEF Extended
<1>2. CASE /\ w.status \notin {101, 204, 304}
           /\ WithBody(w, k, what) =
                [w EXCEPT !.status = IF @ = 0 THEN 200 ELSE @,
                          !.body = Append(@, [what |-> what,
                                              codings |-> Len(response[k].writer)])]
  <2>2. part \in [what : {"page", "error"}, codings : Nat]
    <3>1. response[k].writer \in Seq(1 .. MaxDepth)
      BY Types DEF ResponseType
    <3> QED
      BY <3>1
  <2>3. PICK b : b = Append(w.body, part)
    OBVIOUS
  <2>4. b \in Seq([what : {"page", "error"}, codings : Nat])
    BY <2>2, <2>3, AppendProperties DEF WireType
  <2>5. PICK status : status = IF w.status = 0 THEN 200 ELSE w.status
    OBVIOUS
  <2>6. WithBody(w, k, what) = [w EXCEPT !.status = status, !.body = b]
    BY <1>2, <2>3, <2>5, Zenon
  <2>7. PICK v : v = WithBody(w, k, what)
    OBVIOUS
  <2>8. v = [w EXCEPT !.status = status, !.body = b]
    BY <2>6, <2>7
  <2>9. status \in Nat
    BY <2>5 DEF WireType
  <2>10. /\ v \in WireType /\ v.body = b /\ v.status = status
         /\ v.coded = w.coded /\ v.dropped = w.dropped /\ v.session = w.session
    BY <2>4, <2>8, <2>9 DEF WireType
  <2> QED
    BY <1>2, <2>3, <2>5, <2>7, <2>10 DEF Extended
<1> QED
  BY <1>1, <1>2 DEF WithBody

(* A header, with a part of the body or without, is an answer; net/http    *)
(* may delete the coding, but does not for an error's text.                *)
LEMMA AnswerEffect ==
  ASSUME Typed, SentOK, NEW k \in Ids, NEW code \in Nat \ {0},
         NEW what \in {"page", "error"}, NEW v,
         \/ v = WithBody(WireHeader(k, code), k, what)
         \/ v = WireHeader(k, code) /\ what = "page",
         response' = WriteHeader(k, code),
         wire' = v \/ (wire' = DeleteCoding(v) /\ what = "page")
  PROVE  Answers(k, code, what)
<1>1. PICK w : w = WireHeader(k, code)
  OBVIOUS
<1>2. PICK part : part = [what |-> what, codings |-> Len(response[k].writer)]
  OBVIOUS
<1>3. /\ w \in WireType
      /\ w.status = IF wire.status # 0 \/ response[k].written \/ ~Final(code)
                    THEN wire.status ELSE code
      /\ w.coded = wire.coded /\ w.dropped = wire.dropped
      /\ w.session = wire.session /\ w.body = wire.body
  BY <1>1, HeaderEffect
<1>4. /\ v \in WireType /\ v.coded = w.coded /\ v.dropped = w.dropped
      /\ v.session = w.session
      /\ \/ v.status = w.status /\ v.body = w.body
         \/ /\ w.status \notin {101, 204, 304}
            /\ v.status = IF w.status = 0 THEN 200 ELSE w.status
            /\ v.body = Append(w.body, part)
      /\ what = "error" /\ w.status = 0 /\ closed = {} => v.status = 200
  <2>1. CASE v = WithBody(w, k, what)
    <3>1. Extended(w, v, part)
      BY <1>2, <1>3, <2>1, BodyEffect
    <3> QED
      BY <3>1 DEF Extended
  <2>2. CASE v = w /\ what = "page"
    BY <1>3, <2>2
  <2> QED
    BY <1>1, <2>1, <2>2
<1>5. wire.status = 0 => closed = {}
  BY DEF SentOK
<1>6. /\ wire' \in WireType /\ wire'.status = v.status /\ wire'.body = v.body
      /\ wire'.session = v.session
      /\ Keeps \/ (Drops /\ what = "page")
  <2>1. CASE wire' = v
    BY <1>3, <1>4, <2>1 DEF Keeps
  <2>2. CASE wire' = DeleteCoding(v) /\ what = "page"
    <3>1. PICK c : c = (v.coded /\ wire.status # 0)
      OBVIOUS
    <3>2. PICK d : d = (v.dropped \/ (v.coded /\ wire.status = 0))
      OBVIOUS
    <3>3. wire' = [v EXCEPT !.coded = c, !.dropped = d]
      BY <2>2, <3>1, <3>2, Zenon DEF DeleteCoding
    <3>4. c \in BOOLEAN /\ d \in BOOLEAN
      BY <3>1, <3>2
    <3>5. /\ wire' \in WireType /\ wire'.status = v.status /\ wire'.body = v.body
          /\ wire'.session = v.session /\ wire'.coded = c /\ wire'.dropped = d
      <4>1. v \in WireType
        BY <1>4
      <4>2. PICK u : u = [v EXCEPT !.coded = c, !.dropped = d]
        OBVIOUS
      <4>3. /\ u \in WireType /\ u.status = v.status /\ u.body = v.body
            /\ u.session = v.session /\ u.coded = c /\ u.dropped = d
        BY <3>4, <4>1, <4>2 DEF WireType
      <4> QED
        BY <3>3, <4>2, <4>3, Zenon
    <3>6. v.coded \in BOOLEAN /\ v.dropped \in BOOLEAN
      BY <1>4 DEF WireType
    <3>7. CASE wire.status # 0
      <4>1. c = v.coded /\ d = v.dropped
        BY <3>1, <3>2, <3>6, <3>7
      <4>2. v.coded = wire.coded /\ v.dropped = wire.dropped
        BY <1>3, <1>4
      <4> QED
        BY <3>5, <4>1, <4>2, Zenon DEF Keeps
    <3>8. CASE wire.status = 0
      <4>1. v.coded = wire.coded /\ v.dropped = wire.dropped
        BY <1>3, <1>4
      <4>2. CASE v.coded
        <5>1. c = FALSE /\ d = TRUE
          BY <3>1, <3>2, <3>8, <4>2
        <5> QED
          BY <2>2, <3>5, <3>8, <4>1, <4>2, <5>1, Zenon DEF Drops
      <4>3. CASE ~v.coded
        <5>1. c = v.coded /\ d = v.dropped
          BY <3>1, <3>2, <3>6, <3>8, <4>3
        <5> QED
          BY <3>5, <4>1, <5>1, Zenon DEF Keeps
      <4> QED
        BY <4>2, <4>3
    <3> QED
      BY <3>7, <3>8
  <2> QED
    BY <2>1, <2>2
<1>7. /\ response' \in [Ids -> ResponseType]
      /\ \A j \in Ids : response'[j].writer = response[j].writer
      /\ \A j \in Ids \ {k} : response'[j] = response[j]
      /\ response'[k].written
      /\ response'[k].status = IF response[k].written THEN response[k].status ELSE code
  BY HeaderEffect
<1>8. wire.status \in Nat /\ w.status \in Nat
  BY <1>3, Types DEF WireType
<1>9. /\ wire.status # 0 => wire'.status = wire.status
      /\ wire.status = 0 /\ ~response[k].written /\ Final(code) => wire'.status = code
  BY <1>3, <1>4, <1>6, <1>8
<1>10. what = "error" => wire'.status # 0
  BY <1>3, <1>4, <1>5, <1>6, <1>8
<1>11. /\ wire'.status \in {0, 101, 204, 304} => wire'.body = wire.body
       /\ wire'.body = wire.body \/ wire'.body = Append(wire.body, part)
  BY <1>3, <1>4, <1>6, <1>8
<1>12. AddsAtMost(wire.body, wire'.body, part)
  BY <1>11, Zenon DEF AddsAtMost
<1>13. wire'.session = wire.session
  BY <1>3, <1>4, <1>6
<1>14. AddsAtMost(wire.body, wire'.body,
                  [what |-> what, codings |-> Len(response[k].writer)])
  BY <1>2, <1>12, Zenon
<1> QED
  BY <1>6, <1>7, <1>9, <1>10, <1>11, <1>13, <1>14, Zenon DEF Answers

(* So are Ctx.Render                                                       *)
LEMMA RenderEffect ==
  ASSUME Typed, SentOK, NEW k \in Ids, NEW code \in Nat \ {0},
         NEW what \in {"page", "error"}, Render(k, code, what)
  PROVE  Answers(k, code, what)
<1>1. PICK v : v = WithBody(WireHeader(k, code), k, what)
  OBVIOUS
<1>2. response' = WriteHeader(k, code) /\ wire' = v
  BY <1>1 DEF Render
<1> QED
  BY <1>1, <1>2, AnswerEffect

(* and Ctx.NoContent.                                                      *)
LEMMA NoContentEffect ==
  ASSUME Typed, SentOK, NEW k \in Ids, NEW code \in Nat \ {0},
         response' = WriteHeader(k, code), wire' = WireHeader(k, code)
  PROVE  Answers(k, code, "page")
<1>1. PICK v : v = WireHeader(k, code)
  OBVIOUS
<1> QED
  BY <1>1, AnswerEffect

(* The endpoint upgrades the connection, and closes its session.           *)
Upgrades ==
  /\ wire.status = 0 /\ response[Ctx(Depth)].writer = <<>>
  /\ wire' = [wire EXCEPT !.status = 101, !.session = "open"]
  /\ answer' = Answered(101) /\ response' = response

Closes ==
  /\ pos = Depth + 1 /\ response' = response
  /\ wire' = [wire EXCEPT !.session = IF @ = "open" THEN "closed" ELSE @]
  /\ answer'.status = answer.status

(* At work the endpoint answers or upgrades.                               *)
LEMMA WorkEffect ==
  ASSUME Typed, SentOK, Work
  PROVE  \/ \E k \in Ids, code \in Nat \ {0} :
              /\ Answers(k, code, "page") /\ k = Ctx(Depth)
              /\ answer' = Answered(code) /\ answer'.status # 0
         \/ Upgrades
<1>1. Ctx(Depth) \in Ids /\ answer \in AnswerType
  <2>1. Depth \in 0 .. Depth
    BY Places
  <2> QED
    BY <2>1, CtxIsThere, Types
<1>2. \A code \in Nat \ {0} : Answered(code).status # 0
  BY <1>1 DEF Answered, AnswerType
<1>3. ASSUME NEW code \in Nat \ {0}, Sends(code)
      PROVE  /\ Answers(Ctx(Depth), code, "page")
             /\ answer' = Answered(code) /\ answer'.status # 0
  <2>1. Render(Ctx(Depth), code, "page") /\ answer' = Answered(code)
    BY <1>3 DEF Sends
  <2>2. PICK k \in Ids : k = Ctx(Depth)
    BY <1>1
  <2>3. Answers(k, code, "page")
    BY <2>1, <2>2, RenderEffect
  <2> QED
    BY <1>2, <2>1, <2>2, <2>3
<1>4. ASSUME NEW code \in Nat \ {0}, ServesNone(code) \/ SendsHeader(code)
      PROVE  /\ Answers(Ctx(Depth), code, "page")
             /\ answer' = Answered(code) /\ answer'.status # 0
  <2>1. PICK k \in Ids : k = Ctx(Depth)
    BY <1>1
  <2>2. answer' = Answered(code) /\ response' = WriteHeader(k, code)
    BY <1>4, <2>1 DEF ServesNone, SendsHeader
  <2>3. CASE SendsHeader(code)
    <3>1. wire' = WireHeader(k, code)
      BY <2>1, <2>3 DEF SendsHeader
    <3> QED
      BY <1>2, <2>1, <2>2, <3>1, NoContentEffect
  <2>4. CASE ServesNone(code)
    <3>1. PICK v : v = IF code = 304 THEN WireHeader(k, code)
                       ELSE WithBody(WireHeader(k, code), k, "page")
      OBVIOUS
    <3>2. wire' = DeleteCoding(v)
      BY <2>1, <2>4, <3>1 DEF ServesNone
    <3>3. Answers(k, code, "page")
      BY <2>2, <3>1, <3>2, AnswerEffect
    <3> QED
      BY <1>2, <2>1, <2>2, <3>3
  <2> QED
    BY <1>4, <2>3, <2>4
<1>5. CASE \/ EndpointRenders \/ EndpointRedirects \/ EndpointServesFile
           \/ EndpointNoContent \/ EndpointInforms
  <2>1. \E code \in Nat \ {0} : Sends(code) \/ ServesNone(code) \/ SendsHeader(code)
    BY <1>5 DEF EndpointRenders, EndpointRedirects, EndpointServesFile,
       EndpointNoContent, EndpointInforms
  <2> QED
    BY <1>1, <1>3, <1>4, <2>1
<1>6. CASE EndpointUpgrades
  BY <1>6 DEF EndpointUpgrades, Upgrades
<1> QED
  BY <1>5, <1>6 DEF Work

(* Who turns back has answered or failed, or is the endpoint at its end.   *)
LEMMA TurnEffect ==
  ASSUME Typed, SentOK, Turn
  PROVE  \/ \E k \in Ids, code \in Nat \ {0} :
              /\ Answers(k, code, "page") /\ pos =< Depth /\ k = Ctx(pos - 1)
              /\ answer'.status = code /\ Final(code) /\ answer'.result = "nil"
              /\ UNCHANGED <<err, panicking>>
         \/ /\ UNCHANGED <<response, wire>> /\ pos =< Depth
            /\ answer'.status = answer.status
            /\ \/ err' = HTTPError(429) /\ ~panicking'
               \/ err' = NoErr /\ panicking'
         \/ /\ Closes
            /\ \/ err' = NoErr /\ answer'.result = "nil" /\ ~panicking'
               \/ err' \in Errors /\ ~panicking' /\ answer'.result = "error"
               \/ err' = NoErr /\ panicking' /\ answer'.result = "panic"
<1>1. answer \in AnswerType
  BY Types
<1>2. CASE GateRejects \/ GatePanics
  <2>1. UNCHANGED <<response, wire>> /\ pos =< Depth
    BY <1>2 DEF GateRejects, GatePanics, Entering
  <2>2. answer'.status = answer.status
    BY <1>1, <1>2 DEF GateRejects, GatePanics, TurnBack, AnswerType
  <2>3. \/ err' = HTTPError(429) /\ ~panicking'
        \/ err' = NoErr /\ panicking'
    BY <1>2 DEF GateRejects, GatePanics, TurnBack
  <2> QED
    BY <2>1, <2>2, <2>3
<1>3. CASE GateAnswers \/ AdaptAnswers
  <2>1. pos - 1 \in 0 .. Depth /\ pos =< Depth
    BY <1>3, Places DEF GateAnswers, AdaptAnswers, Entering
  <2>2. PICK k \in Ids : k = Ctx(pos - 1)
    BY <2>1, CtxIsThere
  <2>3. CASE GateAnswers
    <3>1. PICK code \in {204, 401} :
            /\ response' = WriteHeader(k, code) /\ wire' = WireHeader(k, code)
            /\ answer' = [origin |-> pos, status |-> code, result |-> "nil"]
            /\ UNCHANGED <<err, panicking>>
      BY <2>2, <2>3 DEF GateAnswers
    <3>2. Answers(k, code, "page") /\ Final(code)
      BY <3>1, NoContentEffect DEF Final
    <3> QED
      BY <2>1, <2>2, <3>1, <3>2
  <2>4. CASE AdaptAnswers
    <3>1. PICK code \in {200, 403} :
            /\ Render(k, code, "page")
            /\ answer' = [origin |-> pos, status |-> code, result |-> "nil"]
            /\ UNCHANGED <<err, panicking>>
      BY <2>2, <2>4 DEF AdaptAnswers
    <3>2. Answers(k, code, "page") /\ Final(code)
      BY <3>1, RenderEffect DEF Final
    <3> QED
      BY <2>1, <2>2, <3>1, <3>2
  <2> QED
    BY <1>3, <2>3, <2>4
<1>4. CASE EndpointReturns \/ EndpointPanics
  <2>1. /\ pos = Depth + 1 /\ response' = response
        /\ wire' = [wire EXCEPT !.session = IF @ = "open" THEN "closed" ELSE @]
    BY <1>4 DEF EndpointReturns, EndpointPanics, AtEndpoint, DeferredClose
  <2>2. /\ answer'.status = answer.status
        /\ \/ err' = NoErr /\ answer'.result = "nil" /\ ~panicking'
           \/ err' \in Errors /\ ~panicking' /\ answer'.result = "error"
           \/ err' = NoErr /\ panicking' /\ answer'.result = "panic"
    BY <1>1, <1>4 DEF EndpointReturns, EndpointPanics, TurnBack, AnswerType
  <2> QED
    BY <2>1, <2>2 DEF Closes
<1> QED
  BY <1>2, <1>3, <1>4 DEF Turn

(* Down the chain the Response is copied, or its writer wrapped.           *)
CopiesDown ==
  /\ Copies(pos) /\ wire' = wire
  /\ response' = [response EXCEPT ![pos] = response[Ctx(pos - 1)]]

Wraps ==
  /\ stack[pos] = "compress"
  /\ wire' = [wire EXCEPT !.coded = TRUE]
  /\ response' = [response EXCEPT ![Ctx(pos - 1)].writer = <<pos>> \o @]

(* These are all the effects of entering a layer.                          *)
LEMMA EnterEffect ==
  ASSUME Typed, Enter
  PROVE  \/ CopiesDown
         \/ Wraps
         \/ ~Copies(pos) /\ UNCHANGED <<response, wire>>
<1>1. CASE EnterPlain
  BY <1>1 DEF EnterPlain, Entering, Copies
<1>2. CASE EnterCopy
  BY <1>2 DEF EnterCopy, Entering, Copies, CopiesDown
<1>3. CASE EnterCompress
  BY <1>3 DEF EnterCompress, Entering, Copies, Wraps, Wrapped
<1> QED
  BY <1>1, <1>2, <1>3 DEF Enter

(* A wrapped Response is one, and differs in nothing else.                 *)
LEMMA WrapsEffect ==
  ASSUME Typed, Enter, Wraps
  PROVE  /\ response' \in [Ids -> ResponseType] /\ wire' \in WireType
         /\ response'[Ctx(pos - 1)].writer # <<>>
         /\ Len(response'[Ctx(pos - 1)].writer) = Len(response[Ctx(pos - 1)].writer) + 1
         /\ \A j \in Ids \ {Ctx(pos - 1)} : response'[j] = response[j]
         /\ \A j \in Ids : /\ response'[j].written = response[j].written
                           /\ response'[j].status = response[j].status
         /\ wire'.status = wire.status /\ wire'.body = wire.body
         /\ wire'.session = wire.session /\ wire'.coded /\ wire'.dropped = wire.dropped
<1>1. /\ response \in [Ids -> ResponseType] /\ wire \in WireType
      /\ pos \in 1 .. MaxDepth
  BY Types, EnterWay, Places
<1>2. PICK k \in Ids : k = Ctx(pos - 1)
  <2>1. pos - 1 \in 0 .. Depth
    BY EnterWay, Places
  <2> QED
    BY <2>1, CtxIsThere
<1>3. PICK w : w = <<pos>> \o response[k].writer
  OBVIOUS
<1>4. /\ w \in Seq(1 .. MaxDepth) /\ w # <<>>
      /\ Len(w) = Len(response[k].writer) + 1
  <2>1. response[k].writer \in Seq(1 .. MaxDepth) /\ <<pos>> \in Seq(1 .. MaxDepth)
    BY <1>1 DEF ResponseType
  <2> QED
    BY <1>3, <2>1
<1>5. PICK r : r = [response[k] EXCEPT !.writer = w]
  OBVIOUS
<1>6. /\ r \in ResponseType /\ r.writer = w /\ r.written = response[k].written
      /\ r.status = response[k].status
  BY <1>1, <1>4, <1>5 DEF ResponseType
<1>7. response' = [response EXCEPT ![k] = r]
  BY <1>2, <1>3, <1>5 DEF Wraps
<1>8. /\ response' \in [Ids -> ResponseType] /\ response'[k].writer # <<>>
      /\ Len(response'[k].writer) = Len(response[k].writer) + 1
      /\ \A j \in Ids \ {k} : response'[j] = response[j]
      /\ \A j \in Ids : /\ response'[j].written = response[j].written
                        /\ response'[j].status = response[j].status
  BY <1>1, <1>4, <1>6, <1>7
<1>9. /\ wire' \in WireType /\ wire'.status = wire.status /\ wire'.body = wire.body
      /\ wire'.session = wire.session /\ wire'.coded /\ wire'.dropped = wire.dropped
  BY <1>1 DEF Wraps, WireType
<1> QED
  BY <1>2, <1>8, <1>9

(* A copied Response is written and wrapped as the one above.              *)
LEMMA CopyEffect ==
  ASSUME Typed, Enter, CopiesDown
  PROVE  /\ response' \in [Ids -> ResponseType] /\ wire' = wire
         /\ pos \in Ids /\ response'[pos] = response[Ctx(pos - 1)]
         /\ \A j \in Ids \ {pos} : response'[j] = response[j]
<1>1. response \in [Ids -> ResponseType] /\ pos \in Ids
  BY Types, EnterWay, Places DEF Ids
<1>2. PICK k \in Ids : k = Ctx(pos - 1)
  <2>1. pos - 1 \in 0 .. Depth
    BY EnterWay, Places
  <2> QED
    BY <2>1, CtxIsThere
<1>3. response' = [response EXCEPT ![pos] = response[k]]
  BY <1>2 DEF CopiesDown
<1> QED
  BY <1>1, <1>2, <1>3 DEF CopiesDown

(* On the way up only the end of a coded stream reaches the wire.          *)
LEMMA ReturnEffect ==
  ASSUME Typed, Return
  PROVE  \/ wire' = wire /\ closed' = closed
         \/ wire' = Commit(200) /\ stack[pos] = "compress"
  BY DEF Return, LeavePlain, LeaveLogger, LeaveTimeout, LeaveBodyLimit,
     LeaveRecoverer, LeaveCompress, Leaving

(* At the end the error is rendered, or net/http ends the response.        *)
LEMMA EndEffect ==
  ASSUME Typed, SentOK, End
  PROVE  \/ /\ phase' = "done" /\ err # NoErr
            /\ Answers(0, err.code, "error") /\ Final(err.code)
         \/ phase' = "done" /\ err = NoErr /\ wire' = Commit(200) /\ response' = response
         \/ phase' = "aborted" /\ panicking /\ UNCHANGED <<wire, response>>
<1>1. CASE HandleError
  <2>1. phase' = "done" /\ err # NoErr /\ Render(0, err.code, "error")
    BY <1>1 DEF HandleError
  <2>2. 0 \in Ids /\ err.code \in Nat
    BY Types DEF Ids
  <2>3. PICK code : code = err.code
    OBVIOUS
  <2>4. code \in Nat \ {0} /\ Final(code)
    BY <2>1, <2>2, <2>3, Places DEF Final
  <2>5. Answers(0, code, "error")
    BY <2>1, <2>2, <2>3, <2>4, RenderEffect
  <2> QED
    BY <2>1, <2>3, <2>4, <2>5
<1>2. CASE Finish
  BY <1>2 DEF Finish
<1>3. CASE Abort
  BY <1>3 DEF Abort
<1> QED
  BY <1>1, <1>2, <1>3 DEF End

-----------------------------------------------------------------------------
(* Type correctness.                                                       *)

(* Every step leaves well-typed Responses and a well-typed wire.           *)
LEMMA WireTyped ==
  ASSUME Typed, SentOK, [Next]_vars
  PROVE  response' \in [Ids -> ResponseType] /\ wire' \in WireType
<1>1. response \in [Ids -> ResponseType] /\ wire \in WireType
  BY Types
<1>2. ASSUME wire' = [wire EXCEPT !.session = IF @ = "open" THEN "closed" ELSE @]
      PROVE  wire' \in WireType
  BY <1>1, <1>2 DEF WireType
<1>3. ASSUME wire' = Commit(200) PROVE wire' \in WireType
  BY <1>3, CommitsOK
<1>4. CASE Enter
  BY <1>1, <1>4, EnterEffect, WrapsEffect, CopyEffect
<1>5. CASE Turn
  <2>1. CASE \E k \in Ids, code \in Nat \ {0} : Answers(k, code, "page")
    BY <2>1 DEF Answers
  <2>2. CASE Closes
    BY <1>1, <1>2, <2>2 DEF Closes
  <2> QED
    BY <1>1, <1>5, <2>1, <2>2, TurnEffect
<1>6. CASE Work
  <2>1. CASE Upgrades
    BY <1>1, <2>1 DEF Upgrades, WireType
  <2>2. CASE \E k \in Ids, code \in Nat \ {0} : Answers(k, code, "page")
    BY <2>2 DEF Answers
  <2> QED
    BY <1>6, <2>1, <2>2, WorkEffect
<1>7. CASE Return
  BY <1>1, <1>3, <1>7, ReturnEffect, ReturnWay
<1>8. CASE End
  BY <1>1, <1>3, <1>8, EndEffect DEF Answers
<1>9. CASE Idle
  BY <1>1, <1>9 DEF Idle
<1> QED
  BY <1>4, <1>5, <1>6, <1>7, <1>8, <1>9, Steps

(* Every step stays on the way, with an error that is one.                 *)
LEMMA WayTyped ==
  ASSUME Typed, SentOK, [Next]_vars
  PROVE  /\ UNCHANGED <<stack, accepts>>
         /\ phase' \in {"down", "up", "done", "aborted"} /\ pos' \in 0 .. Depth + 1
         /\ ctxErr' \in [Ids -> {"none", "deadline", "canceled"}]
         /\ WayOK'
<1>1. /\ ctxErr \in [Ids -> {"none", "deadline", "canceled"}]
      /\ Depth \in Nat
  BY Types, Places
<1>2. ASSUME UNCHANGED stack PROVE Depth' = Depth
  BY <1>2 DEF Depth
<1>3. CASE Enter
  <2>1. /\ phase = "down" /\ phase' = "down" /\ pos \in 1 .. Depth /\ pos' = pos + 1
        /\ UNCHANGED <<stack, accepts, err, panicking, answer, expired>>
    BY <1>3, EnterWay
  <2>2. ctxErr' \in [Ids -> {"none", "deadline", "canceled"}]
    <3>1. pos - 1 \in 0 .. Depth /\ pos \in Ids
      BY <2>1, Places DEF Ids
    <3>2. Ctx(pos - 1) \in Ids
      BY <3>1, CtxIsThere
    <3>3. CASE EnterCopy
      BY <1>1, <3>2, <3>3 DEF EnterCopy
    <3>4. CASE EnterPlain \/ EnterCompress
      BY <1>1, <3>4 DEF EnterPlain, EnterCompress
    <3> QED
      BY <1>3, <3>3, <3>4 DEF Enter
  <2> QED
    BY <1>1, <1>2, <2>1, <2>2, Places DEF WayOK
<1>4. CASE Turn
  <2>1. /\ pos \in 1 .. Depth + 1 /\ phase' = "up" /\ pos' = pos - 1
        /\ answer'.origin = pos
        /\ UNCHANGED <<stack, accepts, ctxErr>>
    BY <1>4, TurnWay
  <2>2. err' = NoErr \/ err'.code >= 400
    <3>1. \A e \in Errors : e.code >= 400
      BY DEF Errors, HTTPError, TooLarge
    <3> QED
      BY <1>4, <3>1, TurnEffect, Places DEF HTTPError
  <2> QED
    BY <1>1, <1>2, <2>1, <2>2 DEF WayOK
<1>5. CASE Work
  BY <1>1, <1>2, <1>5, WorkWay, Places DEF WayOK
<1>6. CASE Return
  <2>1. /\ phase = "up" /\ pos \in 1 .. Depth /\ pos' = pos - 1
        /\ UNCHANGED <<stack, accepts, phase, ctxErr>>
    BY <1>6, ReturnWay
  <2>2. err' = NoErr \/ err'.code >= 400
    <3>1. err' \in {err, HTTPError(503), HTTPError(413), HTTPError(500)}
      BY <1>6 DEF Return, LeavePlain, LeaveLogger, LeaveTimeout, LeaveBodyLimit,
         LeaveRecoverer, LeaveCompress, Recovered
    <3> QED
      BY <3>1, Places DEF HTTPError
  <2>3. answer' = answer /\ pos < answer.origin /\ answer.origin \in Int
    BY <1>6, <2>1, ReturnWay, Places, Types DEF AnswerType, Ids
  <2> QED
    BY <1>1, <1>2, <2>1, <2>2, <2>3 DEF WayOK
<1>7. CASE End
  BY <1>1, <1>2, <1>7, EndWay, Places DEF WayOK
<1>8. CASE Idle
  BY <1>1, <1>2, <1>8, Places DEF Idle, WayOK
<1> QED
  BY <1>3, <1>4, <1>5, <1>6, <1>7, <1>8, Steps

(* Every step leaves well-typed errors and notes.                          *)
LEMMA NotesTyped ==
  ASSUME Typed, SentOK, [Next]_vars
  PROVE  /\ panicking' \in BOOLEAN /\ expired' \in BOOLEAN
         /\ err' \in [code : Nat, big : BOOLEAN]
         /\ closed' \in SUBSET (1 .. Depth) /\ logs' \in [1 .. MaxDepth -> Nat]
         /\ answer' \in AnswerType
<1>1. /\ panicking \in BOOLEAN /\ expired \in BOOLEAN
      /\ err \in [code : Nat, big : BOOLEAN]
      /\ closed \in SUBSET (1 .. Depth) /\ logs \in [1 .. MaxDepth -> Nat]
      /\ answer \in AnswerType
      /\ Depth \in 0 .. MaxDepth
  BY Types, Places
<1>2. \A c \in Nat : HTTPError(c) \in [code : Nat, big : BOOLEAN]
  BY DEF HTTPError
<1>3. NoErr \in [code : Nat, big : BOOLEAN] /\ Errors \subseteq [code : Nat, big : BOOLEAN]
  BY DEF NoErr, Errors, HTTPError, TooLarge
<1>4. CASE Enter
  BY <1>1, <1>4, EnterWay
<1>5. CASE Turn
  <2>1. UNCHANGED <<closed, logs, expired>>
    BY <1>5, TurnWay
  <2>2. err' \in [code : Nat, big : BOOLEAN] /\ panicking' \in BOOLEAN
    <3>1. panicking' \in BOOLEAN
      <4>1. CASE GateRejects \/ GatePanics
        BY <4>1 DEF GateRejects, GatePanics, TurnBack
      <4>2. CASE GateAnswers \/ AdaptAnswers
        BY <1>1, <4>2 DEF GateAnswers, AdaptAnswers
      <4>3. CASE EndpointReturns \/ EndpointPanics
        BY <4>3 DEF EndpointReturns, EndpointPanics, TurnBack
      <4> QED
        BY <1>5, <4>1, <4>2, <4>3 DEF Turn
    <3>2. err' \in {err, NoErr, HTTPError(429)} \cup Errors
      <4>1. CASE GateRejects \/ GatePanics
        BY <4>1 DEF GateRejects, GatePanics, TurnBack
      <4>2. CASE GateAnswers \/ AdaptAnswers
        BY <4>2 DEF GateAnswers, AdaptAnswers
      <4>3. CASE EndpointReturns \/ EndpointPanics
        BY <4>3 DEF EndpointReturns, EndpointPanics, TurnBack
      <4> QED
        BY <1>5, <4>1, <4>2, <4>3 DEF Turn
    <3>3. HTTPError(429) \in [code : Nat, big : BOOLEAN]
      BY <1>2
    <3> QED
      BY <1>1, <1>3, <3>1, <3>2, <3>3
  <2>3. answer' \in AnswerType
    <3>1. pos \in Ids \cup {MaxDepth + 1}
      BY <1>1, <1>5, TurnWay DEF Ids
    <3>2. ASSUME NEW e, NEW p, NEW result \in {"nil", "error", "panic"},
                 TurnBack(e, p, result)
          PROVE  answer' \in AnswerType
      BY <1>1, <3>1, <3>2 DEF TurnBack, AnswerType
    <3>3. ASSUME NEW code \in Nat,
                 answer' = [origin |-> pos, status |-> code, result |-> "nil"]
          PROVE  answer' \in AnswerType
      BY <3>1, <3>3 DEF AnswerType
    <3>4. CASE GateRejects
      <4>1. TurnBack(HTTPError(429), FALSE, "error")
        BY <3>4 DEF GateRejects
      <4> QED
        BY <3>2, <4>1
    <3>5. CASE GatePanics \/ EndpointPanics
      <4>1. TurnBack(NoErr, TRUE, "panic")
        BY <3>5 DEF GatePanics, EndpointPanics
      <4> QED
        BY <3>2, <4>1
    <3>6. CASE EndpointReturns
      <4>1. \/ TurnBack(NoErr, FALSE, "nil")
            \/ \E e \in Errors : TurnBack(e, FALSE, "error")
        BY <3>6 DEF EndpointReturns
      <4> QED
        BY <3>2, <4>1
    <3>7. CASE GateAnswers \/ AdaptAnswers
      <4>1. \E code \in {200, 204, 401, 403} :
              answer' = [origin |-> pos, status |-> code, result |-> "nil"]
        BY <3>7 DEF GateAnswers, AdaptAnswers
      <4> QED
        BY <3>3, <4>1
    <3> QED
      BY <1>5, <3>4, <3>5, <3>6, <3>7 DEF Turn
  <2> QED
    BY <1>1, <2>1, <2>2, <2>3
<1>6. CASE Work
  <2>1. UNCHANGED <<err, panicking, closed, logs, expired>>
    BY <1>6, WorkWay
  <2>2. \E code \in Nat : answer' = Answered(code)
    BY <1>6 DEF Work, EndpointRenders, EndpointRedirects, EndpointServesFile,
       EndpointNoContent, EndpointInforms, EndpointUpgrades, Sends, ServesNone,
       SendsHeader
  <2>3. answer' \in AnswerType
    BY <1>1, <2>2 DEF Answered, AnswerType
  <2> QED
    BY <1>1, <2>1, <2>3
<1>7. CASE Return
  <2>1. answer' = answer /\ pos \in 1 .. Depth /\ pos \in 1 .. MaxDepth
    BY <1>1, <1>7, ReturnWay
  <2>2. /\ panicking' \in BOOLEAN /\ expired' \in BOOLEAN
        /\ closed' \in SUBSET (1 .. Depth)
    BY <1>1, <1>7, <2>1 DEF Return, LeavePlain, LeaveLogger, LeaveTimeout,
       LeaveBodyLimit, LeaveRecoverer, LeaveCompress, StillPanicking
  <2>3. err' \in [code : Nat, big : BOOLEAN]
    <3>1. err' \in {err, HTTPError(503), HTTPError(413), HTTPError(500)}
      BY <1>7 DEF Return, LeavePlain, LeaveLogger, LeaveTimeout, LeaveBodyLimit,
         LeaveRecoverer, LeaveCompress, Recovered
    <3>2. \A c \in {503, 413, 500} : HTTPError(c) \in [code : Nat, big : BOOLEAN]
      BY <1>2
    <3> QED
      BY <1>1, <3>1, <3>2
  <2>4. logs' \in [1 .. MaxDepth -> Nat]
    <3>1. CASE LeaveLogger
      <4>1. pos - 1 \in 0 .. Depth
        BY <1>1, <2>1
      <4>2. Ctx(pos - 1) \in Ids
        BY <4>1, CtxIsThere
      <4>3. Status(pos) \in Nat
        BY <4>2, Types DEF Status, ResponseType
      <4>4. logs' = [logs EXCEPT ![pos] = Status(pos)]
        BY <3>1 DEF LeaveLogger
      <4> QED
        BY <1>1, <2>1, <4>3, <4>4
    <3>2. CASE ~LeaveLogger
      BY <1>1, <1>7, <3>2 DEF Return, LeavePlain, LeaveTimeout, LeaveBodyLimit,
         LeaveRecoverer, LeaveCompress
    <3> QED
      BY <3>1, <3>2
  <2> QED
    BY <1>1, <2>1, <2>2, <2>3, <2>4
<1>8. CASE End
  BY <1>1, <1>8, EndWay
<1>9. CASE Idle
  BY <1>1, <1>9 DEF Idle
<1> QED
  BY <1>4, <1>5, <1>6, <1>7, <1>8, <1>9, Steps

(* No step puts a Response, the body or a closed writer ahead of the wire. *)
LEMMA SentStep ==
  ASSUME Typed, SentOK, [Next]_vars
  PROVE  SentOK'
<1>1. /\ \A k \in Ids :
           response[k].written /\ Final(response[k].status) => wire.status # 0
      /\ wire.status = 0 => wire.body = <<>> /\ closed = {}
      /\ phase = "down" /\ answer.status = 0 => wire.status = 0
      /\ phase \in {"down", "up"} /\ answer.status = 0 =>
           \A k \in Ids : ~response[k].written
      /\ wire \in WireType
  BY Types DEF SentOK
<1>2. ASSUME NEW k \in Ids, NEW code \in Nat \ {0}, NEW what, Answers(k, code, what),
             closed' = closed, phase' \in {"down", "up"} => answer'.status # 0
      PROVE  SentOK'
  <2>1. /\ \A j \in Ids \ {k} : response'[j] = response[j]
        /\ response'[k].status = IF response[k].written THEN response[k].status ELSE code
        /\ wire.status # 0 => wire'.status = wire.status
        /\ wire.status = 0 /\ ~response[k].written /\ Final(code) => wire'.status = code
        /\ wire'.status = 0 => wire'.body = wire.body
    BY <1>2 DEF Answers
  <2>2. \A j \in Ids :
          response'[j].written /\ Final(response'[j].status) => wire'.status # 0
    <3> SUFFICES ASSUME NEW j \in Ids, response'[j].written,
                        Final(response'[j].status), wire.status = 0
                 PROVE  wire'.status # 0
      BY <2>1
    <3>1. j = k /\ ~response[k].written
      BY <1>1, <2>1
    <3> QED
      BY <1>2, <2>1, <3>1
  <2>3. wire'.status = 0 => wire'.body = <<>> /\ closed' = {}
    BY <1>1, <1>2, <2>1
  <2> QED
    BY <1>2, <2>2, <2>3 DEF SentOK, Final
<1>3. ASSUME \A k \in Ids : response'[k].written /\ Final(response'[k].status)
                            => wire.status # 0,
             wire'.status = wire.status, wire'.body = wire.body, closed' = closed,
             phase' \in {"down", "up"} =>
               /\ phase \in {"down", "up"} /\ answer'.status = answer.status
               /\ phase' = "down" => phase = "down"
               /\ (\A k \in Ids : ~response[k].written)
                     => \A k \in Ids : ~response'[k].written
      PROVE  SentOK'
  BY <1>1, <1>3 DEF SentOK, Final
<1>4. ASSUME wire' = Commit(200), phase' # "down",
             phase' = "up" => /\ phase = "up" /\ answer'.status = answer.status
                              /\ response' = response
      PROVE  SentOK'
  <2>1. wire'.status # 0
    BY <1>1, <1>4, CommitsOK
  <2> QED
    BY <1>1, <1>4, <2>1 DEF SentOK, Final
<1>5. CASE Enter
  <2>1. /\ phase = "down" /\ phase' = phase /\ answer' = answer /\ closed' = closed
        /\ pos - 1 \in 0 .. Depth
    BY <1>5, EnterWay, Places
  <2>2. CASE CopiesDown
    <3>1. Ctx(pos - 1) \in Ids
      BY <2>1, CtxIsThere
    <3>2. /\ wire' = wire /\ pos \in Ids /\ response'[pos] = response[Ctx(pos - 1)]
          /\ \A j \in Ids \ {pos} : response'[j] = response[j]
      BY <1>5, <2>2, CopyEffect
    <3>3. \A k \in Ids : response'[k].written /\ Final(response'[k].status)
                          => wire.status # 0
      BY <1>1, <3>1, <3>2 DEF Final
    <3>4. (\A k \in Ids : ~response[k].written) => \A k \in Ids : ~response'[k].written
      BY <3>1, <3>2
    <3> QED
      BY <1>3, <2>1, <3>2, <3>3, <3>4
  <2>3. CASE Wraps
    <3>1. /\ \A k \in Ids : /\ response'[k].written = response[k].written
                            /\ response'[k].status = response[k].status
          /\ wire'.status = wire.status /\ wire'.body = wire.body
      BY <1>5, <2>3, WrapsEffect
    <3>2. \A k \in Ids : response'[k].written /\ Final(response'[k].status)
                          => wire.status # 0
      BY <1>1, <3>1
    <3> QED
      BY <1>3, <2>1, <3>1, <3>2
  <2>4. CASE UNCHANGED <<response, wire>>
    BY <1>1, <1>3, <2>1, <2>4
  <2> QED
    BY <1>5, <2>2, <2>3, <2>4, EnterEffect
<1>6. CASE Turn
  <2>1. phase = "down" /\ phase' = "up" /\ closed' = closed
    BY <1>6, TurnWay
  <2>2. CASE Closes
    <3>1. /\ wire'.status = wire.status /\ wire'.body = wire.body
          /\ response' = response /\ answer'.status = answer.status
      BY <1>1, <2>2 DEF Closes, WireType
    <3> QED
      BY <1>1, <1>3, <2>1, <3>1
  <2>3. CASE UNCHANGED <<response, wire>> /\ answer'.status = answer.status
    BY <1>1, <1>3, <2>1, <2>3
  <2> QED
    BY <1>2, <1>6, <2>1, <2>2, <2>3, TurnEffect
<1>7. CASE Work
  <2>1. closed' = closed
    BY <1>7, WorkWay
  <2>2. CASE Upgrades
    <3>1. wire'.status = 101 /\ response' = response /\ answer'.status # 0
      <4>1. answer \in AnswerType
        BY Types
      <4> QED
        BY <1>1, <2>2, <4>1 DEF Upgrades, WireType, AnswerType, Answered
    <3> QED
      BY <3>1 DEF SentOK
  <2> QED
    BY <1>2, <1>7, <2>1, <2>2, WorkEffect
<1>8. CASE Return
  <2>1. phase = "up" /\ phase' = phase /\ answer' = answer /\ response' = response
    BY <1>8, ReturnWay
  <2> QED
    BY <1>1, <1>3, <1>4, <1>8, <2>1, ReturnEffect
<1>9. CASE End
  <2>1. phase' \notin {"down", "up"} /\ closed' = closed
    BY <1>9, EndWay
  <2>2. CASE Answers(0, err.code, "error")
    BY <1>2, <2>1, <2>2 DEF Answers
  <2> QED
    BY <1>1, <1>3, <1>4, <1>9, <2>1, <2>2, EndEffect
<1>10. CASE Idle
  BY <1>1, <1>3, <1>10 DEF Idle
<1> QED
  BY <1>5, <1>6, <1>7, <1>8, <1>9, <1>10, Steps

(* Types and SentOK hold together.                                         *)
LEMMA BaseStep == Typed /\ SentOK /\ [Next]_vars => Typed' /\ SentOK'
<1> SUFFICES ASSUME Typed, SentOK, [Next]_vars PROVE Typed' /\ SentOK'
  OBVIOUS
<1>1. stack \in UNION {[1 .. n -> Layers] : n \in Ids} /\ accepts \in BOOLEAN
  BY Zenon DEF Typed, TypeOK
<1>2. /\ UNCHANGED <<stack, accepts>>
      /\ phase' \in {"down", "up", "done", "aborted"} /\ pos' \in 0 .. Depth + 1
      /\ ctxErr' \in [Ids -> {"none", "deadline", "canceled"}]
      /\ WayOK'
  BY WayTyped
<1>3. Depth' = Depth
  BY <1>2 DEF Depth
<1>4. /\ stack' \in UNION {[1 .. n -> Layers] : n \in Ids} /\ accepts' \in BOOLEAN
      /\ pos' \in 0 .. Depth' + 1
  BY <1>1, <1>2, <1>3, Zenon
<1>5. /\ panicking' \in BOOLEAN /\ expired' \in BOOLEAN
      /\ err' \in [code : Nat, big : BOOLEAN]
      /\ closed' \in SUBSET (1 .. Depth') /\ logs' \in [1 .. MaxDepth -> Nat]
      /\ answer' \in AnswerType
  BY <1>3, NotesTyped
<1>6. response' \in [Ids -> ResponseType] /\ wire' \in WireType
  BY WireTyped
<1> QED
  BY <1>2, <1>4, <1>5, <1>6, SentStep, Zenon
     DEF Typed, TypeOK, Ids, ResponseType, WireType, AnswerType

(* They hold at the beginning.                                             *)
LEMMA InitBase == Init => Typed /\ SentOK
<1> SUFFICES ASSUME Init PROVE Typed /\ SentOK
  OBVIOUS
<1>1. /\ stack \in UNION {[1 .. n -> Layers] : n \in Ids} /\ accepts \in BOOLEAN
      /\ phase = "down" /\ pos = 1 /\ panicking = FALSE /\ expired = FALSE
      /\ err = NoErr /\ closed = {}
      /\ response = [k \in Ids |-> NewResponse]
      /\ ctxErr = [k \in Ids |-> "none"] /\ logs = [j \in 1 .. MaxDepth |-> 0]
      /\ wire = [status |-> 0, coded |-> FALSE, dropped |-> FALSE, body |-> <<>>,
                 session |-> "none"]
      /\ answer = [origin |-> 0, status |-> 0, result |-> "none"]
  BY DEF Init
<1>2. pos \in 0 .. Depth + 1
  <2>1. PICK n \in Ids : stack \in [1 .. n -> Layers]
    BY <1>1
  <2>2. n \in Nat
    BY DEF Ids
  <2>3. Depth = n
    BY <2>1, <2>2 DEF Depth
  <2> QED
    BY <1>1, <2>2, <2>3
<1>3. NewResponse \in ResponseType /\ NewResponse.written = FALSE
  BY DEF NewResponse, ResponseType
<1>4. response \in [Ids -> ResponseType] /\ \A k \in Ids : ~response[k].written
  BY <1>1, <1>3
<1>5. wire \in WireType /\ answer \in AnswerType /\ err \in [code : Nat, big : BOOLEAN]
  BY <1>1 DEF WireType, AnswerType, Ids, NoErr
<1>6. /\ ctxErr \in [Ids -> {"none", "deadline", "canceled"}]
      /\ logs \in [1 .. MaxDepth -> Nat] /\ closed \in SUBSET (1 .. Depth)
      /\ panicking \in BOOLEAN /\ expired \in BOOLEAN
      /\ phase \in {"down", "up", "done", "aborted"}
  BY <1>1
<1>7. WayOK
  BY <1>1 DEF WayOK
<1>8. SentOK
  BY <1>1, <1>4 DEF SentOK
<1> QED
  BY <1>1, <1>2, <1>4, <1>5, <1>6, <1>7, <1>8, Zenon DEF Typed, TypeOK

(* So they hold in every reachable state.                                  *)
LEMMA Base == Spec => [](Typed /\ SentOK)
  BY InitBase, BaseStep, PTL DEF Spec

(* Every variable keeps its type.                                          *)
THEOREM TypeCorrect == Spec => []TypeOK
<1>1. Typed => TypeOK
  BY DEF Typed
<1> QED
  BY <1>1, Base, PTL

(* No write is withheld in the belief that one happened, unless that one   *)
(* was an informational status.                                            *)
THEOREM SentIfWritten == Spec => []WrittenIsSent
<1>1. Typed /\ SentOK => WrittenIsSent
  <2> SUFFICES ASSUME Typed, SentOK PROVE WrittenIsSent
    OBVIOUS
  <2>1. Live \subseteq Ids
    BY Places DEF Live, Ids
  <2> QED
    BY <2>1 DEF SentOK, WrittenIsSent, Final
<1> QED
  BY <1>1, Base, PTL

-----------------------------------------------------------------------------
(* Panics.                                                                 *)

(* PanicOK is inductive.                                                   *)
LEMMA PanicStep ==
  ASSUME Typed, PanicOK, RecovererShields, [Next]_vars
  PROVE  PanicOK' /\ RecovererShields'
<1> DEFINE R == Passed({"recoverer"})
<1>1. CASE Enter
  <2>1. phase' = "down" /\ ~panicking'
    BY <1>1, EnterWay, Places
  <2> QED
    BY <2>1 DEF PanicOK, RecovererShields
<1>2. CASE Turn
  <2>1. /\ phase = "down" /\ phase' = "up" /\ pos' = pos - 1 /\ pos \in Int
    BY <1>2, TurnWay
  <2>2. R' = R
    BY <1>2, PassedKept
  <2>4. \A i \in R : i \in Int /\ i < pos
    BY <2>1, Places DEF Passed
  <2>3. \A i \in R' : i =< pos'
    BY <2>1, <2>2, <2>4
  <2> QED
    BY <2>1, <2>3 DEF PanicOK, RecovererShields
<1>3. CASE Work
  <2>1. phase' = "down" /\ ~panicking'
    BY <1>3, WorkWay, Places
  <2> QED
    BY <2>1 DEF PanicOK, RecovererShields
<1>4. CASE Return
  <2>1. /\ phase = "up" /\ phase' = "up" /\ pos \in 1 .. Depth /\ pos' = pos - 1
        /\ R' = R
    BY <1>4, ReturnWay, PassedKept
  <2>2. CASE LeaveRecoverer
    BY <2>1, <2>2 DEF LeaveRecoverer, StillPanicking, PanicOK, RecovererShields
  <2>3. CASE ~LeaveRecoverer
    <3>1. panicking' = panicking /\ stack[pos] # "recoverer"
      BY <1>4, <2>3 DEF Return, LeavePlain, LeaveLogger, LeaveTimeout, LeaveBodyLimit,
         LeaveCompress, Leaving
    <3>2. \A i \in R : i # pos /\ i \in Int
      BY <3>1, Places DEF Passed
    <3>3. panicking => \A i \in R : i =< pos
      BY DEF PanicOK
    <3> HIDE DEF R
    <3>4. panicking' => \A i \in R' : i =< pos'
      BY <2>1, <3>1, <3>2, <3>3
    <3> QED
      BY <2>1, <3>4 DEF PanicOK, RecovererShields, R
  <2> QED
    BY <2>2, <2>3
<1>5. CASE End
  <2>1. /\ pos = 0 /\ R' = R /\ panicking' = panicking
        /\ phase' \in {"done", "aborted"}
    BY <1>5, EndWay, PassedKept
  <2>2. \A i \in R : i \in 1 .. Depth
    BY DEF Passed
  <2>3. panicking => R = {}
    BY <2>1, <2>2, Places DEF PanicOK
  <2>4. phase' = "aborted" => panicking
    BY <1>5, EndWay DEF End, HandleError, Finish, Abort
  <2> HIDE DEF R
  <2> QED
    BY <2>1, <2>3, <2>4 DEF PanicOK, RecovererShields, R
<1>6. CASE Idle
  <2>1. R' = R /\ UNCHANGED <<panicking, phase, pos>>
    BY <1>6, PassedKept DEF Idle
  <2> HIDE DEF R
  <2> QED
    BY <2>1 DEF PanicOK, RecovererShields, R
<1> QED
  BY <1>1, <1>2, <1>3, <1>4, <1>5, <1>6, Steps

(* A panic reaches net/http only when no Recoverer lies above it.          *)
THEOREM PanicsAreRecovered == Spec => []RecovererShields
<1>1. Init => PanicOK /\ RecovererShields
  BY DEF Init, PanicOK, RecovererShields
<1>2. Typed /\ PanicOK /\ RecovererShields /\ [Next]_vars => PanicOK' /\ RecovererShields'
  BY PanicStep
<1> QED
  BY <1>1, <1>2, Base, PTL DEF Spec

-----------------------------------------------------------------------------
(* Failures and deadlines.                                                 *)

(* FailureOK is inductive.                                                 *)
LEMMA FailureStep ==
  ASSUME Typed, SentOK, FailureOK, [Next]_vars
  PROVE  FailureOK'
<1> DEFINE C == Passed({"compress"})
<1>1. wire \in WireType /\ answer \in AnswerType
  BY Types
<1>2. CASE Enter \/ Work
  <2>1. answer'.result = "none"
    BY <1>2, EnterWay, WorkWay, Places
  <2> QED
    BY <2>1 DEF FailureOK
<1>3. CASE Turn
  <2> SUFFICES ASSUME answer'.result \in {"error", "panic"}, answer'.status = 0
               PROVE  phase' = "up" /\ wire'.status = 0 /\ (panicking' \/ err'.code >= 400)
    BY DEF FailureOK
  <2>1. phase = "down" /\ phase' = "up" /\ pos \in 1 .. Depth + 1
    BY <1>3, TurnWay
  <2>2. answer.status = 0 => wire.status = 0
    BY <2>1 DEF SentOK
  <2>3. \A e \in Errors \cup {HTTPError(429)} : e.code >= 400
    BY DEF Errors, HTTPError, TooLarge
  <2>4. CASE UNCHANGED <<response, wire>> /\ answer'.status = answer.status
    BY <1>3, <2>1, <2>2, <2>3, <2>4, TurnEffect
  <2>5. CASE Closes
    <3>1. wire'.status = wire.status /\ answer'.status = answer.status
      BY <1>1, <2>5 DEF Closes, WireType
    <3> QED
      BY <1>3, <2>1, <2>2, <2>3, <3>1, TurnEffect
  <2> QED
    BY <1>3, <2>4, <2>5, TurnEffect
<1>4. CASE Return
  <2>1. /\ phase = "up" /\ phase' = "up" /\ pos \in 1 .. Depth /\ answer' = answer
        /\ C' = C
    BY <1>4, ReturnWay, PassedKept
  <2> SUFFICES ASSUME C = {}, wire.status = 0, panicking \/ err.code >= 400
               PROVE  wire'.status = 0 /\ (panicking' \/ err'.code >= 400)
    BY <2>1 DEF FailureOK
  <2>2. stack[pos] # "compress"
    <3>1. pos < answer.origin
      BY <2>1, Places
    <3> QED
      BY <2>1, <3>1 DEF Passed
  <2>3. wire' = wire
    BY <1>4, <2>2, ReturnEffect
  <2>4. HTTPError(503).code = 503 /\ HTTPError(413).code = 413 /\ HTTPError(500).code = 500
    BY DEF HTTPError
  <2>5. panicking' \/ err'.code >= 400
    <3>1. CASE LeavePlain \/ LeaveLogger \/ LeaveCompress
      BY <3>1 DEF LeavePlain, LeaveLogger, LeaveCompress
    <3>2. CASE LeaveTimeout
      <4>1. err' \in {err, HTTPError(503)} /\ ~panicking
        BY <3>2 DEF LeaveTimeout
      <4> QED
        BY <2>4, <4>1
    <3>3. CASE LeaveBodyLimit
      <4>1. err' \in {err, HTTPError(413)} /\ ~panicking
        BY <3>3 DEF LeaveBodyLimit
      <4> QED
        BY <2>4, <4>1
    <3>4. CASE LeaveRecoverer
      <4>1. err' = IF panicking THEN HTTPError(500) ELSE err
        BY <3>4 DEF LeaveRecoverer, Recovered
      <4> QED
        BY <2>4, <4>1
    <3> QED
      BY <1>4, <3>1, <3>2, <3>3, <3>4 DEF Return
  <2> QED
    BY <2>3, <2>5
<1>5. CASE End
  <2>1. phase = "up" /\ C' = C /\ answer' = answer
    BY <1>5, EndWay, PassedKept
  <2> SUFFICES ASSUME C = {}, answer.status = 0, wire.status = 0,
                      panicking \/ err.code >= 400
               PROVE  \/ phase' = "done" /\ wire'.status >= 400
                      \/ phase' = "aborted"
    BY <2>1 DEF FailureOK
  <2>2. NoErr.code = 0
    BY DEF NoErr
  <2>3. CASE phase' = "done" /\ Answers(0, err.code, "error") /\ Final(err.code)
    <3>1. wire'.status = err.code /\ ~panicking
      <4>1. 0 \in Ids
        BY DEF Ids
      <4>2. ~response[0].written
        BY <2>1, <4>1 DEF SentOK
      <4> QED
        BY <1>5, <2>3, <4>2, EndWay DEF Answers
    <3> QED
      BY <2>3, <3>1
  <2>4. CASE phase' = "done" /\ err = NoErr
    BY <1>5, <2>2, <2>4, EndWay
  <2> QED
    BY <1>5, <2>3, <2>4, EndEffect
<1>6. CASE Idle
  <2>1. C' = C /\ UNCHANGED <<phase, wire, panicking, err, answer>>
    BY <1>6, PassedKept DEF Idle
  <2> HIDE DEF C
  <2> QED
    BY <2>1 DEF FailureOK, C
<1> QED
  BY <1>2, <1>3, <1>4, <1>5, <1>6, Steps

(* A failure before anything was written is never answered as a success,   *)
(* through any number of layers that log, copy, time out and recover.      *)
THEOREM FailuresAreReported == Spec => []FailureReported
<1>1. Init => FailureOK
  BY DEF Init, FailureOK
<1>2. Typed /\ SentOK /\ FailureOK /\ [Next]_vars => FailureOK'
  BY FailureStep
<1>3. FailureOK => FailureReported
  BY DEF FailureOK, FailureReported
<1> QED
  BY <1>1, <1>2, <1>3, Base, PTL DEF Spec

(* DeadlineOK is inductive.                                                *)
LEMMA DeadlineStep ==
  ASSUME Typed, SentOK, DeadlineOK, [Next]_vars
  PROVE  DeadlineOK'
<1> DEFINE C == Passed({"compress"})
<1>1. CASE Enter \/ Turn \/ Work
  <2>1. ~expired'
    BY <1>1, EnterWay, TurnWay, WorkWay, Places
  <2> QED
    BY <2>1 DEF DeadlineOK
<1>2. CASE Return
  <2>1. /\ phase = "up" /\ phase' = "up" /\ pos \in 1 .. Depth /\ answer' = answer
        /\ C' = C
    BY <1>2, ReturnWay, PassedKept
  <2> SUFFICES ASSUME expired', answer.status = 0, C = {}
               PROVE  wire'.status = 0 /\ ~panicking' /\ err' = HTTPError(503)
    BY <2>1 DEF DeadlineOK
  <2>2. stack[pos] # "compress"
    <3>1. pos < answer.origin
      BY <2>1, Places
    <3> QED
      BY <2>1, <3>1 DEF Passed
  <2>3. wire' = wire
    BY <1>2, <2>2, ReturnEffect
  <2>4. CASE expired
    <3>1. wire.status = 0 /\ ~panicking /\ err = HTTPError(503)
      BY <2>1, <2>4 DEF DeadlineOK
    <3>2. ~err.big
      BY <3>1 DEF HTTPError
    <3>3. ~panicking' /\ err' = HTTPError(503)
      <4>1. CASE LeavePlain \/ LeaveLogger \/ LeaveCompress
        <5>1. UNCHANGED <<err, panicking>>
          BY <4>1 DEF LeavePlain, LeaveLogger, LeaveCompress
        <5> QED
          BY <3>1, <5>1
      <4>2. CASE LeaveTimeout
        BY <3>1, <4>2 DEF LeaveTimeout
      <4>3. CASE LeaveBodyLimit
        BY <3>1, <3>2, <4>3 DEF LeaveBodyLimit
      <4>4. CASE LeaveRecoverer
        BY <3>1, <4>4 DEF LeaveRecoverer, Recovered, StillPanicking
      <4> QED
        BY <1>2, <4>1, <4>2, <4>3, <4>4 DEF Return
    <3> QED
      BY <2>3, <3>1, <3>3
  <2>5. CASE ~expired
    <3>1. LeaveTimeout
      BY <1>2, <2>5 DEF Return, LeavePlain, LeaveLogger, LeaveBodyLimit,
         LeaveRecoverer, LeaveCompress
    <3>2. ctxErr[pos] = "deadline" /\ wire.status = 0 /\ ~panicking
      BY <2>5, <3>1 DEF LeaveTimeout
    <3>3. ~response[pos].written
      <4>1. pos \in Ids
        BY <2>1, Places DEF Ids
      <4> QED
        BY <2>1, <4>1 DEF SentOK
    <3>4. err' = HTTPError(503) /\ panicking' = panicking
      BY <3>1, <3>2, <3>3 DEF LeaveTimeout, Late
    <3> QED
      BY <2>3, <3>2, <3>4
  <2> QED
    BY <2>4, <2>5
<1>3. CASE End
  <2>1. phase = "up" /\ C' = C /\ expired' = expired /\ answer' = answer
    BY <1>3, EndWay, PassedKept
  <2> SUFFICES ASSUME answer.status = 0, wire.status = 0, ~panicking,
                      err = HTTPError(503)
               PROVE  phase' = "done" /\ wire'.status = 503
    BY <2>1 DEF DeadlineOK
  <2>2. err # NoErr /\ err.code = 503
    BY DEF HTTPError, NoErr
  <2>3. ~response[0].written
    <3>1. 0 \in Ids
      BY DEF Ids
    <3> QED
      BY <2>1, <3>1 DEF SentOK
  <2> QED
    BY <1>3, <2>2, <2>3, EndEffect DEF Answers
<1>4. CASE Idle
  <2>1. C' = C /\ UNCHANGED <<phase, wire, panicking, err, expired, answer>>
    BY <1>4, PassedKept DEF Idle
  <2>2. expired /\ answer.status = 0 /\ C = {} =>
          \/ phase = "up" /\ wire.status = 0 /\ ~panicking /\ err = HTTPError(503)
          \/ phase = "done" /\ wire.status = 503
    BY DEF DeadlineOK
  <2> HIDE DEF C
  <2>3. expired' /\ answer'.status = 0 /\ C' = {} =>
          \/ phase' = "up" /\ wire'.status = 0 /\ ~panicking' /\ err' = HTTPError(503)
          \/ phase' = "done" /\ wire'.status = 503
    BY <2>1, <2>2
  <2> QED
    BY <2>3 DEF DeadlineOK, C
<1> QED
  BY <1>1, <1>2, <1>3, <1>4, Steps

(* A deadline that passed while nothing was sent, not even an              *)
(* informational status, is answered 503, from however deep it comes.      *)
THEOREM DeadlinesAreAnswered == Spec => []DeadlineAnswered
<1>1. Init => DeadlineOK
  BY DEF Init, DeadlineOK
<1>2. Typed /\ SentOK /\ DeadlineOK /\ [Next]_vars => DeadlineOK'
  BY DeadlineStep
<1>3. DeadlineOK => DeadlineAnswered
  BY DEF DeadlineOK, DeadlineAnswered
<1> QED
  BY <1>1, <1>2, <1>3, Base, PTL DEF Spec

-----------------------------------------------------------------------------
(* WebSocket sessions.                                                     *)

(* SessionOK is inductive.                                                 *)
LEMMA SessionStep ==
  ASSUME Typed, SentOK, SessionOK, [Next]_vars
  PROVE  SessionOK'
<1>1. /\ phase = "down" /\ wire.coded => response[Ctx(pos - 1)].writer # <<>>
      /\ phase = "down" /\ pos =< Depth => wire.session = "none"
      /\ wire.session # "none" =>
           /\ wire.session = "open" <=> phase = "down"
           /\ wire.status = 101 /\ wire.body = <<>> /\ ~wire.coded
  BY DEF SessionOK, SessionSealed
<1>2. wire \in WireType /\ wire.session \in {"none", "open", "closed"}
  BY Types DEF WireType
<1>3. CASE Enter
  <2>1. /\ phase = "down" /\ phase' = "down" /\ pos \in 1 .. Depth /\ pos' = pos + 1
        /\ stack' = stack /\ pos =< Depth
    BY <1>3, EnterWay, Places
  <2>2. PICK k \in Ids : k = Ctx(pos - 1)
    <3>1. pos - 1 \in 0 .. Depth
      BY <2>1, Places
    <3> QED
      BY <3>1, CtxIsThere
  <2>3. Ctx(pos - 1)' = IF Copies(pos) THEN pos ELSE k
    <3>1. pos' - 1 = pos
      BY <2>1
    <3>2. Ctx(pos - 1)' = Ctx(pos)
      BY <2>1, <3>1 DEF Ctx, Copies
    <3> QED
      BY <2>1, <2>2, <3>2, CtxNext
  <2>4. wire.session = "none"
    BY <1>1, <2>1
  <2>5. CASE CopiesDown
    <3>1. Ctx(pos - 1)' = pos
      BY <2>3, <2>5 DEF CopiesDown
    <3>2. response'[pos] = response[k] /\ wire' = wire
      BY <1>3, <2>2, <2>5, CopyEffect
    <3> QED
      BY <1>1, <2>1, <2>2, <2>4, <3>1, <3>2 DEF SessionOK, SessionSealed
  <2>6. CASE Wraps
    <3>1. Ctx(pos - 1)' = k
      BY <2>3, <2>6 DEF Wraps, Copies
    <3>2. response'[k].writer # <<>> /\ wire'.session = wire.session
      BY <1>3, <2>2, <2>6, WrapsEffect
    <3> QED
      BY <2>4, <3>1, <3>2 DEF SessionOK, SessionSealed
  <2>7. CASE ~Copies(pos) /\ UNCHANGED <<response, wire>>
    <3>1. Ctx(pos - 1)' = k
      BY <2>3, <2>7
    <3> QED
      BY <1>1, <2>1, <2>2, <2>4, <2>7, <3>1 DEF SessionOK, SessionSealed
  <2> QED
    BY <1>3, <2>5, <2>6, <2>7, EnterEffect
<1>4. ASSUME phase # "down", phase' # "down",
             \/ wire' = wire \/ wire' = Commit(200)
             \/ \E k, code, what : Answers(k, code, what)
      PROVE  SessionOK'
  <2>1. wire'.session = wire.session
    <3>1. CASE \E k, code, what : Answers(k, code, what)
      BY <3>1 DEF Answers
    <3> QED
      BY <1>4, <3>1, CommitsOK
  <2>2. wire.session # "none" =>
          /\ wire'.status = 101 /\ wire'.body = <<>> /\ ~wire'.coded
          /\ wire'.session # "open"
    <3> SUFFICES ASSUME wire.session # "none"
                 PROVE  /\ wire'.status = 101 /\ wire'.body = <<>> /\ ~wire'.coded
                        /\ wire'.session # "open"
      OBVIOUS
    <3>1. wire.status = 101 /\ wire.body = <<>> /\ ~wire.coded /\ wire.session # "open"
      BY <1>1, <1>4
    <3>2. CASE wire' = wire \/ wire' = Commit(200)
      BY <3>1, <3>2, CommitsOK
    <3>3. CASE \E k, code, what : Answers(k, code, what)
      BY <3>1, <3>3 DEF Answers, Keeps, Drops
    <3> QED
      BY <1>4, <3>2, <3>3
  <2> QED
    BY <1>4, <2>1, <2>2 DEF SessionOK, SessionSealed
<1>5. CASE Turn
  <2>1. phase = "down" /\ phase' = "up"
    BY <1>5, TurnWay
  <2>2. CASE pos =< Depth /\ wire'.session = wire.session
    <3>1. wire'.session = "none"
      BY <1>1, <2>1, <2>2
    <3> QED
      BY <2>1, <3>1 DEF SessionOK, SessionSealed
  <2>3. CASE Closes
    <3>1. /\ wire'.session = IF wire.session = "open" THEN "closed" ELSE wire.session
          /\ wire'.status = wire.status /\ wire'.body = wire.body
          /\ wire'.coded = wire.coded
      BY <1>2, <2>3 DEF Closes, WireType
    <3> QED
      BY <1>1, <2>1, <3>1 DEF SessionOK, SessionSealed
  <2> QED
    BY <1>5, <2>2, <2>3, TurnEffect DEF Answers
<1>6. CASE Work
  <2>1. /\ phase = "down" /\ phase' = "down" /\ pos = Depth + 1 /\ pos' = pos
        /\ stack' = stack /\ Depth \in Nat
    BY <1>6, WorkWay, Places
  <2>2. PICK k \in Ids : k = Ctx(pos - 1)
    <3>1. pos - 1 \in 0 .. Depth
      BY <2>1
    <3> QED
      BY <3>1, CtxIsThere
  <2>3. Ctx(pos - 1)' = k /\ Depth' = Depth
    BY <2>1, <2>2 DEF Ctx, Copies, Depth
  <2>4. ASSUME NEW j \in Ids, NEW code \in Nat \ {0}, Answers(j, code, "page")
        PROVE  SessionOK'
    <3>1. /\ response'[k].writer = response[k].writer
          /\ wire'.coded => wire.coded
          /\ wire'.session = wire.session
          /\ wire.status = 101 => wire'.status = 101 /\ wire'.body = wire.body
      BY <2>4 DEF Answers, Keeps, Drops
    <3> QED
      BY <1>1, <2>1, <2>2, <2>3, <3>1 DEF SessionOK, SessionSealed
  <2>5. CASE Upgrades
    <3>1. ~wire.coded
      <4>1. pos - 1 = Depth
        BY <2>1
      <4> QED
        BY <1>1, <2>1, <2>5, <4>1 DEF Upgrades
    <3>2. wire.body = <<>>
      BY <2>5 DEF Upgrades, SentOK
    <3>3. /\ wire'.session = "open" /\ wire'.status = 101 /\ wire'.body = <<>>
          /\ ~wire'.coded
      BY <1>2, <2>5, <3>1, <3>2 DEF Upgrades, WireType
    <3> QED
      BY <2>1, <2>3, <3>3 DEF SessionOK, SessionSealed
  <2> QED
    BY <1>6, <2>4, <2>5, WorkEffect
<1>7. CASE Return
  BY <1>4, <1>7, ReturnEffect, ReturnWay
<1>8. CASE End
  BY <1>4, <1>8, EndEffect, EndWay
<1>9. CASE Idle
  <2>1. UNCHANGED <<phase, pos, stack, wire, response>>
    BY <1>9 DEF Idle
  <2>2. Ctx(pos - 1)' = Ctx(pos - 1) /\ Depth' = Depth
    BY <2>1 DEF Ctx, Copies, Depth
  <2> QED
    BY <1>1, <2>1, <2>2 DEF SessionOK, SessionSealed
<1> QED
  BY <1>3, <1>5, <1>6, <1>7, <1>8, <1>9, Steps

(* A WebSocket session is over when its handler has returned or panicked,  *)
(* and nothing written afterwards gets onto its connection.                *)
THEOREM SessionsAreSealed == Spec => []SessionSealed
<1>1. Init => SessionOK
  BY DEF Init, SessionOK, SessionSealed
<1>2. Typed /\ SentOK /\ SessionOK /\ [Next]_vars => SessionOK'
  BY SessionStep
<1>3. SessionOK => SessionSealed
  BY DEF SessionOK
<1> QED
  BY <1>1, <1>2, <1>3, Base, PTL DEF Spec

-----------------------------------------------------------------------------
(* Answers.                                                                *)

(* The layers between hand the same Ctx to the rest of the way.            *)
LEMMA LastCtx ==
  ASSUME Typed, AnswerOK, phase = "up" \/ phase = "down"
  PROVE  /\ Last - 1 \in 0 .. Depth /\ Ctx(Last - 1) \in Ids
         /\ Ctx(Last - 1) = 0 \/ Ctx(Last - 1) \in Passed(Copying)
         /\ \A K : Passed(K) = {i \in 1 .. Last - 1 : stack[i] \in K}
<1>1. Last - 1 \in 0 .. Depth /\ Last \in Int
  <2>1. CASE phase = "down"
    BY <2>1, Places DEF Last
  <2>2. CASE phase = "up"
    <3>1. answer.origin \in Int
      BY Types DEF AnswerType, Ids
    <3> QED
      BY <2>2, <3>1, Places DEF Last, AnswerOK
  <2> QED
    BY <2>1, <2>2
<1>2. ASSUME NEW K PROVE Passed(K) = {i \in 1 .. Last - 1 : stack[i] \in K}
  <2>1. Passed(K) = {i \in 1 .. Depth : i < Last /\ stack[i] \in K}
    BY DEF Passed, Last
  <2> QED
    BY <1>1, <2>1, Places
<1>3. /\ Ctx(Last - 1) \in Ids /\ Ctx(Last - 1) \in 0 .. Last - 1
      /\ Ctx(Last - 1) = 0 \/ Copies(Ctx(Last - 1))
  BY <1>1, CtxIsThere
<1>4. Ctx(Last - 1) = 0 \/ Ctx(Last - 1) \in Passed(Copying)
  BY <1>1, <1>2, <1>3 DEF Copies, Copying
<1> QED
  BY <1>1, <1>2, <1>3, <1>4

(* AnswerOK is inductive.                                                  *)
LEMMA AnswerStep ==
  ASSUME Typed, SentOK, AnswerOK, [Next]_vars
  PROVE  AnswerOK'
<1>1. /\ answer.origin =< Depth + 1
      /\ phase = "down" /\ pos =< Depth => answer.status = 0
      /\ Final(answer.status) => wire.status = answer.status
      /\ phase # "done" => \A n \in DOMAIN wire.body : wire.body[n].what = "page"
  BY DEF AnswerOK
<1>2. /\ answer \in AnswerType /\ answer.origin \in Int /\ answer.status \in Nat
      /\ wire \in WireType /\ Depth \in Nat
  BY Types, Places DEF AnswerType, Ids
<1>3. ASSUME NEW k \in Ids, NEW code, NEW what, Answers(k, code, what)
      PROVE  /\ wire.status # 0 => wire'.status = wire.status
             /\ ~response[k].written =>
                  /\ response'[k].written /\ response'[k].status = code
                  /\ wire.status = 0 /\ Final(code) => wire'.status = code
             /\ response[k].written => /\ response'[k].written
                                       /\ response'[k].status = response[k].status
             /\ what = "page" /\ phase # "done" =>
                  \A n \in DOMAIN wire'.body : wire'.body[n].what = "page"
  <2>1. /\ wire.status # 0 => wire'.status = wire.status
        /\ wire.status = 0 /\ ~response[k].written /\ Final(code) => wire'.status = code
        /\ response'[k].written
        /\ response'[k].status = IF response[k].written THEN response[k].status ELSE code
    BY <1>3 DEF Answers
  <2>3. ASSUME what = "page", phase # "done"
        PROVE  \A n \in DOMAIN wire'.body : wire'.body[n].what = "page"
    <3>1. PICK part : /\ part = [what |-> what, codings |-> Len(response[k].writer)]
                      /\ AddsAtMost(wire.body, wire'.body, part)
      BY <1>3 DEF Answers
    <3>2. part.what = "page"
      BY <2>3, <3>1
    <3>3. wire.body \in Seq([what : {"page", "error"}, codings : Nat])
      BY <1>2 DEF WireType
    <3>4. part \in [what : {"page", "error"}, codings : Nat]
      <4>1. response[k].writer \in Seq(1 .. MaxDepth)
        BY Types DEF ResponseType
      <4> QED
        BY <2>3, <3>1, <4>1
    <3>5. \A n \in DOMAIN wire'.body :
            \/ wire'.body[n] = part
            \/ n \in DOMAIN wire.body /\ wire'.body[n] = wire.body[n]
      BY <3>1, <3>3, <3>4, Parts
    <3> QED
      BY <1>1, <2>3, <3>2, <3>5
  <2> QED
    BY <2>1, <2>3
<1>4. ASSUME NEW k, phase' \in {"down", "up"} => Ctx(Last - 1)' = k,
             UNCHANGED stack, answer'.origin =< Depth + 1,
             phase' = "down" /\ pos' =< Depth => answer'.status = 0,
             Final(answer'.status) => wire'.status = answer'.status,
             answer'.status >= 200 /\ phase' \in {"down", "up"} =>
               response'[k].written /\ response'[k].status = answer'.status,
             phase' # "done" => \A n \in DOMAIN wire'.body : wire'.body[n].what = "page"
      PROVE  AnswerOK'
  <2>1. Depth' = Depth
    BY <1>4 DEF Depth
  <2> QED
    BY <1>4, <2>1 DEF AnswerOK, Final
<1>5. CASE Enter
  <2>1. /\ phase = "down" /\ phase' = "down" /\ pos =< Depth
        /\ stack' = stack /\ answer' = answer
    BY <1>5, EnterWay, Places
  <2>2. answer.status = 0
    BY <1>1, <2>1
  <2>3. wire'.body = wire.body
    BY <1>5, EnterEffect, WrapsEffect, CopyEffect
  <2> QED
    BY <1>1, <1>4, <2>1, <2>2, <2>3 DEF Final
<1>6. CASE Turn
  <2>1. /\ phase = "down" /\ phase' = "up" /\ answer'.origin = pos /\ stack' = stack
        /\ pos \in 1 .. Depth + 1
    BY <1>6, TurnWay
  <2>2. Last = pos /\ pos - 1 \in 0 .. Depth
    BY <1>2, <2>1 DEF Last
  <2>3. PICK k \in Ids : k = Ctx(pos - 1)
    BY <2>2, CtxIsThere
  <2>4. Ctx(Last - 1)' = k
    <3>1. Last' = pos
      BY <2>1 DEF Last
    <3> QED
      BY <2>1, <2>3, <3>1 DEF Ctx, Copies
  <2>5. answer.status >= 200 =>
          response[k].written /\ response[k].status = answer.status
    BY <2>1, <2>2, <2>3 DEF AnswerOK
  <2>6. CASE UNCHANGED <<response, wire>> /\ answer'.status = answer.status
    BY <1>1, <1>4, <2>1, <2>4, <2>5, <2>6
  <2>7. CASE Closes
    <3>1. /\ wire'.status = wire.status /\ wire'.body = wire.body /\ response' = response
          /\ answer'.status = answer.status
      BY <1>2, <2>7 DEF Closes, WireType
    <3> QED
      BY <1>1, <1>4, <2>1, <2>4, <2>5, <3>1
  <2>8. ASSUME NEW code \in Nat \ {0}, Answers(k, code, "page"), pos =< Depth,
               answer'.status = code, Final(code)
        PROVE  AnswerOK'
    <3>1. wire.status = 0 /\ ~response[k].written
      BY <1>1, <2>1, <2>8 DEF SentOK
    <3>2. /\ wire'.status = code /\ response'[k].written /\ response'[k].status = code
          /\ \A n \in DOMAIN wire'.body : wire'.body[n].what = "page"
      BY <1>3, <2>1, <2>8, <3>1
    <3> QED
      BY <1>4, <2>1, <2>4, <2>8, <3>2
  <2> QED
    BY <1>6, <2>3, <2>6, <2>7, <2>8, TurnEffect
<1>7. CASE Work
  <2>1. /\ phase = "down" /\ phase' = "down" /\ pos = Depth + 1 /\ pos' = pos
        /\ stack' = stack /\ answer'.origin = answer.origin
    BY <1>7, WorkWay
  <2>2. Last = pos /\ pos - 1 = Depth /\ Depth \in 0 .. Depth
    BY <1>2, <2>1 DEF Last
  <2>3. PICK k \in Ids : k = Ctx(Depth)
    BY <2>2, CtxIsThere
  <2>4. Ctx(Last - 1)' = k
    <3>1. Last' - 1 = Depth
      BY <2>1, <2>2 DEF Last
    <3>2. Ctx(Last - 1)' = Ctx(Depth)
      BY <2>1, <3>1 DEF Ctx, Copies
    <3> QED
      BY <2>3, <3>2
  <2>5. answer.status >= 200 =>
          response[k].written /\ response[k].status = answer.status
    BY <2>1, <2>2, <2>3 DEF AnswerOK
  <2>6. answer.status = 0 => wire.status = 0 /\ ~response[k].written
    BY <2>1 DEF SentOK
  <2>7. ASSUME NEW code \in Nat, answer' = Answered(code)
        PROVE  answer'.status = IF answer.status = 0 THEN code ELSE answer.status
    BY <1>2, <2>7 DEF Answered, AnswerType
  <2>8. ASSUME NEW code \in Nat \ {0}, Answers(k, code, "page"), answer' = Answered(code)
        PROVE  AnswerOK'
    <3>1. answer'.status = IF answer.status = 0 THEN code ELSE answer.status
      BY <2>7, <2>8
    <3>2. \A n \in DOMAIN wire'.body : wire'.body[n].what = "page"
      BY <1>3, <2>1, <2>8
    <3>3. CASE answer.status = 0
      BY <1>1, <1>2, <1>3, <1>4, <2>1, <2>4, <2>6, <2>8, <3>1, <3>2, <3>3
    <3>4. CASE answer.status # 0
      <4>1. Final(answer.status) => wire'.status = answer.status
        BY <1>1, <1>3, <2>8, <3>4
      <4>2. answer.status >= 200 =>
              response'[k].written /\ response'[k].status = answer.status
        BY <1>3, <2>5, <2>8, <3>4
      <4>3. answer'.status = answer.status /\ answer'.origin =< Depth + 1
        BY <1>1, <2>1, <3>1, <3>4
      <4>4. ~(pos' =< Depth)
        BY <1>2, <2>1
      <4> QED
        BY <1>4, <2>1, <2>4, <3>2, <4>1, <4>2, <4>3, <4>4
    <3> QED
      BY <3>3, <3>4
  <2>9. CASE Upgrades
    <3>1. answer.status = 0 \/ ~Final(answer.status)
      BY <1>1, <2>9 DEF Upgrades
    <3>2. answer'.status = IF answer.status = 0 THEN 101 ELSE answer.status
      BY <2>7, <2>9 DEF Upgrades
    <3>3. wire'.status = 101 /\ wire'.body = wire.body
      BY <1>2, <2>9 DEF Upgrades, WireType
    <3>4. Final(answer'.status) => answer'.status = 101
      BY <3>1, <3>2
    <3>5. ~(answer'.status >= 200)
      BY <3>4 DEF Final
    <3>6. ~(pos' =< Depth)
      BY <1>2, <2>1
    <3> QED
      BY <1>1, <1>4, <2>1, <2>4, <3>3, <3>4, <3>5, <3>6
  <2> QED
    BY <1>7, <2>3, <2>8, <2>9, WorkEffect
<1>8. CASE Return
  <2>1. /\ phase = "up" /\ phase' = "up"
        /\ UNCHANGED <<stack, answer, response>>
    BY <1>8, ReturnWay
  <2>2. PICK k : k = Ctx(Last - 1)
    OBVIOUS
  <2>3. Ctx(Last - 1)' = k
    BY <2>1, <2>2 DEF Ctx, Copies, Last
  <2>4. /\ wire.status # 0 => wire'.status = wire.status
        /\ wire'.body = wire.body
    BY <1>8, ReturnEffect, CommitsOK
  <2>5. answer.status >= 200 =>
          response[k].written /\ response[k].status = answer.status
    BY <2>1, <2>2 DEF AnswerOK
  <2> QED
    BY <1>1, <1>4, <2>1, <2>3, <2>4, <2>5 DEF Final
<1>9. CASE End
  <2>1. /\ phase = "up" /\ phase' \in {"done", "aborted"}
        /\ UNCHANGED <<stack, answer>>
    BY <1>9, EndWay
  <2>2. wire.status # 0 => wire'.status = wire.status
    BY <1>9, EndEffect, CommitsOK DEF Answers
  <2>3. phase' # "done" => wire' = wire
    BY <1>9, <2>1, EndEffect
  <2> QED
    BY <1>1, <1>4, <2>1, <2>2, <2>3 DEF Final
<1>10. CASE Idle
  <2>1. UNCHANGED <<stack, phase, pos, answer, wire, response>>
    BY <1>10 DEF Idle
  <2>2. PICK k : k = Ctx(Last - 1)
    OBVIOUS
  <2>3. Ctx(Last - 1)' = k
    BY <2>1, <2>2 DEF Ctx, Copies, Last
  <2>4. answer.status >= 200 /\ phase \in {"down", "up"} =>
          response[k].written /\ response[k].status = answer.status
    BY <2>2 DEF AnswerOK
  <2> QED
    BY <1>1, <1>4, <2>1, <2>3, <2>4
<1> QED
  BY <1>5, <1>6, <1>7, <1>8, <1>9, <1>10, Steps

(* AnswerOK holds in every reachable state.                                *)
LEMMA AnswerBase == Spec => [](Typed /\ SentOK /\ AnswerOK)
<1>1. Init => AnswerOK
  <2> SUFFICES ASSUME Init PROVE AnswerOK
    OBVIOUS
  <2>1. /\ answer.origin = 0 /\ answer.status = 0 /\ wire.body = <<>>
    BY DEF Init
  <2>2. 0 =< Depth + 1
    BY InitBase, Places
  <2> QED
    BY <2>1, <2>2 DEF AnswerOK, Final
<1>2. Typed /\ SentOK /\ AnswerOK /\ [Next]_vars => AnswerOK'
  BY AnswerStep
<1> QED
  BY <1>1, <1>2, Base, PTL DEF Spec

(* A Timeout with no copy below it sees that the answer was written.       *)
LEMMA NotLate ==
  ASSUME Typed, AnswerOK, LeaveTimeout, answer.status >= 200,
         ~Below({"timeout"}, Copying)
  PROVE  ~Late(pos)
<1>1. phase = "up" /\ pos \in 1 .. Depth /\ stack[pos] = "timeout" /\ pos < answer.origin
  BY Places DEF LeaveTimeout, Leaving
<1>2. Last = answer.origin /\ Last \in Int
  BY <1>1, Types DEF Last, AnswerType, Ids
<1>3. /\ Last - 1 \in 0 .. Depth
      /\ \A K : Passed(K) = {i \in 1 .. Last - 1 : stack[i] \in K}
  BY <1>1, LastCtx
<1>4. pos \in Passed({"timeout"})
  BY <1>1, <1>2, <1>3, Places
<1>5. \A j \in Passed(Copying) : ~(pos < j)
  BY <1>4 DEF Below
<1>6. Last - 1 \in pos .. Depth /\ \A j \in pos + 1 .. Last - 1 : ~Copies(j)
  <2>1. pos =< Last - 1 /\ Depth \in Nat
    BY <1>1, <1>2, Places
  <2>2. ASSUME NEW j \in pos + 1 .. Last - 1 PROVE ~Copies(j)
    <3>1. j \in 1 .. Last - 1 /\ pos < j
      BY <1>1, <1>2, <1>3
    <3>2. stack[j] \notin Copying
      BY <1>3, <1>5, <3>1
    <3> QED
      BY <3>2 DEF Copies, Copying
  <2> QED
    BY <1>1, <1>3, <2>1, <2>2
<1>7. pos \in 0 .. Depth
  BY <1>1
<1>8. Ctx(Last - 1) = Ctx(pos)
  BY <1>6, <1>7, CtxSame
<1>9. Ctx(pos) = pos
  BY <1>1, CtxNext DEF Copies
<1>10. response[Ctx(Last - 1)].written
  BY <1>1 DEF AnswerOK
<1> QED
  BY <1>8, <1>9, <1>10 DEF Late

(* UntouchedOK is inductive, and delivers the answer.                      *)
LEMMA UntouchedStep ==
  ASSUME Typed, SentOK, AnswerOK, UntouchedOK, AnswerUntouched, [Next]_vars
  PROVE  UntouchedOK' /\ AnswerUntouched'
<1> DEFINE B == Below({"timeout"}, Copying)
<1>1. ASSUME Turn \/ Work \/ Return \/ End \/ Idle
      PROVE  B' = B
  <2>1. Passed({"timeout"})' = Passed({"timeout"}) /\ Passed(Copying)' = Passed(Copying)
    BY <1>1, PassedKept
  <2> QED
    BY <2>1 DEF Below
<1>2. answer \in AnswerType /\ wire \in WireType
  BY Types
<1>3. CASE Enter \/ Work
  <2>1. phase' = "down"
    BY <1>3, EnterWay, WorkWay
  <2> QED
    BY <2>1 DEF UntouchedOK, AnswerUntouched
<1>4. CASE Turn
  <2>1. phase = "down" /\ phase' = "up" /\ ~panicking /\ err = NoErr
    BY <1>4, TurnWay, Places
  <2>2. pos =< Depth => answer.status = 0
    BY <2>1 DEF AnswerOK
  <2>3. answer'.result = "nil" /\ answer'.status # 0 => err' = NoErr /\ ~panicking'
    BY <1>4, <2>1, <2>2, TurnEffect
  <2> QED
    BY <2>1, <2>3 DEF UntouchedOK, AnswerUntouched
<1>5. CASE Return
  <2>1. phase = "up" /\ phase' = "up" /\ answer' = answer /\ B' = B
    BY <1>1, <1>5, ReturnWay
  <2>2. ASSUME answer.result = "nil", answer.status >= 200, ~B
        PROVE  err' = NoErr /\ ~panicking'
    <3>1. err = NoErr /\ ~panicking /\ ~err.big
      BY <2>1, <2>2 DEF UntouchedOK, NoErr
    <3>2. CASE LeavePlain \/ LeaveLogger \/ LeaveCompress
      <4>1. UNCHANGED <<err, panicking>>
        BY <3>2 DEF LeavePlain, LeaveLogger, LeaveCompress
      <4> QED
        BY <3>1, <4>1
    <3>3. CASE LeaveTimeout
      BY <2>2, <3>1, <3>3, NotLate DEF LeaveTimeout
    <3>4. CASE LeaveBodyLimit
      BY <3>1, <3>4 DEF LeaveBodyLimit
    <3>5. CASE LeaveRecoverer
      BY <3>1, <3>5 DEF LeaveRecoverer, Recovered, StillPanicking
    <3> QED
      BY <1>5, <3>2, <3>3, <3>4, <3>5 DEF Return
  <2> HIDE DEF B
  <2>3. UntouchedOK'
    BY <2>1, <2>2 DEF UntouchedOK, B
  <2> QED
    BY <2>1, <2>3 DEF AnswerUntouched
<1>6. CASE End
  <2>1. /\ phase = "up" /\ phase' \in {"done", "aborted"} /\ B' = B
        /\ UNCHANGED <<answer, err, panicking>>
    BY <1>1, <1>6, EndWay
  <2>2. ASSUME phase' = "done", answer.result = "nil", Final(answer.status), ~B
        PROVE  /\ wire'.status = answer.status
               /\ \A n \in DOMAIN wire'.body : wire'.body[n].what = "page"
    <3>1. /\ wire.status = answer.status /\ wire.status # 0
          /\ \A n \in DOMAIN wire.body : wire.body[n].what = "page"
      BY <2>1, <2>2 DEF AnswerOK, Final
    <3>2. wire'.status = wire.status /\ wire'.body = wire.body
      <4>1. CASE err # NoErr /\ Answers(0, err.code, "error")
        <5>1. answer.status = 101
          BY <2>1, <2>2, <4>1 DEF UntouchedOK, Final
        <5> QED
          BY <3>1, <4>1, <5>1 DEF Answers
      <4>2. CASE wire' = Commit(200)
        BY <3>1, <4>2, CommitsOK
      <4> QED
        BY <1>6, <2>2, <4>1, <4>2, EndEffect
    <3> QED
      BY <3>1, <3>2
  <2> HIDE DEF B
  <2>3. UntouchedOK'
    BY <2>1 DEF UntouchedOK
  <2>4. AnswerUntouched'
    BY <2>1, <2>2 DEF AnswerUntouched, Untouched, B
  <2> QED
    BY <2>3, <2>4
<1>7. CASE Idle
  <2>1. B' = B /\ UNCHANGED <<phase, wire, panicking, err, answer>>
    BY <1>1, <1>7 DEF Idle
  <2> HIDE DEF B
  <2>2. UntouchedOK'
    BY <2>1 DEF UntouchedOK, B
  <2>3. AnswerUntouched'
    BY <2>1 DEF AnswerUntouched, Untouched, B
  <2> QED
    BY <2>2, <2>3
<1> QED
  BY <1>3, <1>4, <1>5, <1>6, <1>7, Steps

(* An answer completed without an error, with a final status from the      *)
(* first, reaches the client with that status and nothing after it,        *)
(* however late, provided no Timeout has another Ctx copy below it.        *)
THEOREM AnswersAreUntouched == Spec => []AnswerUntouched
<1>1. Init => UntouchedOK /\ AnswerUntouched
  BY DEF Init, UntouchedOK, AnswerUntouched
<1>2. Typed /\ SentOK /\ AnswerOK /\ UntouchedOK /\ AnswerUntouched /\ [Next]_vars
      => UntouchedOK' /\ AnswerUntouched'
  BY UntouchedStep
<1> QED
  BY <1>1, <1>2, AnswerBase, PTL DEF Spec

-----------------------------------------------------------------------------
(* Logs.                                                                   *)

(* A Logger with no copy below it reads the status that was answered.      *)
LEMMA LoggerSees ==
  ASSUME Typed, AnswerOK, LeaveLogger, answer.status >= 200,
         \A j \in Passed(Copying) : ~(pos < j)
  PROVE  logs' = [logs EXCEPT ![pos] = answer.status]
<1>1. /\ phase = "up" /\ pos \in 1 .. Depth /\ stack[pos] = "logger" /\ pos < answer.origin
      /\ Depth \in Nat
  BY Places DEF LeaveLogger, Leaving
<1>2. Last = answer.origin /\ Last \in Int
  BY <1>1, Types DEF Last, AnswerType, Ids
<1>3. /\ Last - 1 \in 0 .. Depth
      /\ \A K : Passed(K) = {i \in 1 .. Last - 1 : stack[i] \in K}
  BY <1>1, LastCtx
<1>4. ASSUME NEW j \in pos - 1 + 1 .. Last - 1 PROVE ~Copies(j)
  <2>1. j = pos \/ (pos < j /\ j \in 1 .. Last - 1)
    BY <1>1, <1>2
  <2>2. CASE j = pos
    BY <1>1, <2>2 DEF Copies
  <2>3. CASE pos < j /\ j \in 1 .. Last - 1
    <3>1. stack[j] \notin Copying
      BY <1>3, <2>3
    <3> QED
      BY <3>1 DEF Copies, Copying
  <2> QED
    BY <2>1, <2>2, <2>3
<1>5. pos - 1 \in 0 .. Depth /\ Last - 1 \in pos - 1 .. Depth
  BY <1>1, <1>2, <1>3
<1>6. Ctx(Last - 1) = Ctx(pos - 1)
  BY <1>4, <1>5, CtxSame
<1>7. response[Ctx(Last - 1)].status = answer.status
  BY <1>1 DEF AnswerOK
<1> QED
  BY <1>6, <1>7 DEF LeaveLogger, Status

(* LogOK is inductive.                                                     *)
LEMMA LogStep ==
  ASSUME Typed, SentOK, AnswerOK, LogOK, [Next]_vars
  PROVE  LogOK'
<1> DEFINE L == Passed({"logger"})
           C == Passed(Copying)
<1>1. /\ logs \in [1 .. MaxDepth -> Nat] /\ Depth \in 0 .. MaxDepth
      /\ L \subseteq 1 .. Depth
  BY Types, Places DEF Passed
<1>2. phase = "down" => \A i \in 1 .. Depth : logs[i] = 0
  BY DEF LogOK
<1>3. ASSUME stack' = stack, logs' = logs, \A i \in 1 .. Depth : logs[i] = 0
      PROVE  LogOK'
  <2>1. Depth' = Depth
    BY <1>3 DEF Depth
  <2>2. L' \subseteq 1 .. Depth
    BY <2>1 DEF Passed
  <2> HIDE DEF L
  <2> QED
    BY <1>3, <2>1, <2>2 DEF LogOK, L
<1>4. CASE Enter
  BY <1>2, <1>3, <1>4, EnterWay
<1>5. CASE Turn
  BY <1>2, <1>3, <1>5, TurnWay
<1>6. CASE Work
  BY <1>2, <1>3, <1>6, WorkWay
<1>7. CASE Return
  <2>1. /\ phase' = "up" /\ answer' = answer /\ L' = L /\ C' = C
        /\ pos \in 1 .. Depth
    BY <1>7, ReturnWay, PassedKept
  <2> SUFFICES ASSUME answer.status >= 200, NEW i \in L,
                      logs'[i] # 0, ~\E j \in C : i < j
               PROVE  logs'[i] = answer.status
    <3> HIDE DEF L, C
    <3> QED
      BY <2>1 DEF LogOK, L, C
  <2>2. logs[i] # 0 => logs[i] = answer.status
    BY DEF LogOK
  <2>3. CASE LeaveLogger /\ i = pos
    <3>1. logs' = [logs EXCEPT ![pos] = answer.status]
      BY <2>3, LoggerSees
    <3> QED
      BY <1>1, <2>1, <2>3, <3>1
  <2>4. CASE ~(LeaveLogger /\ i = pos)
    <3>1. logs'[i] = logs[i]
      BY <1>1, <1>7, <2>1, <2>4 DEF Return, LeavePlain, LeaveLogger, LeaveTimeout,
         LeaveBodyLimit, LeaveRecoverer, LeaveCompress
    <3> QED
      BY <2>2, <3>1
  <2> QED
    BY <2>3, <2>4
<1>8. CASE End \/ Idle
  <2>1. /\ UNCHANGED <<stack, answer, logs>> /\ L' = L /\ C' = C
        /\ phase' = "down" => phase = "down"
    BY <1>8, EndWay, PassedKept DEF Idle
  <2>2. Depth' = Depth
    BY <2>1 DEF Depth
  <2> HIDE DEF L, C
  <2> QED
    BY <2>1, <2>2 DEF LogOK, L, C
<1> QED
  BY <1>4, <1>5, <1>6, <1>7, <1>8, Steps

(* What a Logger records is the status the client got, when the endpoint   *)
(* answered through its Response, with a final status from the first, and  *)
(* no Ctx copy lies between.                                               *)
THEOREM LogsAreTrue == Spec => []LogTrueIfAnswered
<1>1. Init => LogOK
  <2> SUFFICES ASSUME Init PROVE LogOK
    OBVIOUS
  <2>1. Depth \in 0 .. MaxDepth
    BY InitBase, Places
  <2> QED
    BY <2>1 DEF Init, LogOK
<1>2. Typed /\ SentOK /\ AnswerOK /\ LogOK /\ [Next]_vars => LogOK'
  BY LogStep
<1>3. AnswerOK /\ LogOK => LogTrueIfAnswered
  BY DEF AnswerOK, LogOK, LogTrueIfAnswered, Final
<1> QED
  BY <1>1, <1>2, <1>3, AnswerBase, PTL DEF Spec

-----------------------------------------------------------------------------
(* Codings.                                                                *)

(* CodingOK, apart from what it says of one Compress.                      *)
One == /\ \A i, j \in Passed({"compress"}) : i = j
       /\ ~Below(Copying, {"compress"})

Coded == /\ \A k \in {0} \cup Passed(Copying) :
              Len(response[k].writer) = IF wire.coded \/ wire.dropped THEN 1 ELSE 0
         /\ ~wire.dropped => CodedAsDeclared

(* A part that goes through such a Response is coded as declared.          *)
LEMMA CodedPart ==
  ASSUME Typed, Coded, NEW k \in Ids, NEW code, NEW what \in {"page", "error"},
         k = 0 \/ k \in Passed(Copying), Answers(k, code, what)
  PROVE  ~wire'.dropped => CodedAsDeclared'
<1> SUFFICES ASSUME ~wire'.dropped PROVE CodedAsDeclared'
  OBVIOUS
<1>1. wire'.coded = wire.coded /\ ~wire.dropped
  BY DEF Answers, Keeps, Drops
<1>2. wire \in WireType /\ response[k].writer \in Seq(1 .. MaxDepth)
  BY Types DEF ResponseType
<1>3. PICK part : /\ part = [what |-> what, codings |-> Len(response[k].writer)]
                  /\ AddsAtMost(wire.body, wire'.body, part)
  BY DEF Answers
<1>4. PICK c : c = IF wire.coded THEN 1 ELSE 0
  OBVIOUS
<1>5. part.codings = c
  BY <1>3, <1>4, <1>1 DEF Coded
<1>6. \A n \in DOMAIN wire.body : wire.body[n].codings = c
  BY <1>4, <1>1 DEF Coded, CodedAsDeclared
<1>7. \A n \in DOMAIN wire'.body : wire'.body[n].codings = c
  <2>1. wire.body \in Seq([what : {"page", "error"}, codings : Nat])
    BY <1>2 DEF WireType
  <2>2. part \in [what : {"page", "error"}, codings : Nat]
    BY <1>2, <1>3
  <2>3. \A n \in DOMAIN wire'.body :
          \/ wire'.body[n] = part
          \/ n \in DOMAIN wire.body /\ wire'.body[n] = wire.body[n]
    BY <1>3, <2>1, <2>2, Parts
  <2> QED
    BY <1>5, <1>6, <2>3
<1> QED
  BY <1>4, <1>7, <1>1 DEF CodedAsDeclared

(* CodingOK is inductive.                                                  *)
LEMMA CodingStep ==
  ASSUME Typed, SentOK, AnswerOK, CodingOK, [Next]_vars
  PROVE  CodingOK'
<1> DEFINE P == Passed({"compress"})
           C == Passed(Copying)
<1>1. (P = {} => ~wire.coded /\ ~wire.dropped) /\ (One => Coded)
  BY DEF CodingOK, One, Coded
<1>2. ASSUME P' = {} => ~wire'.coded /\ ~wire'.dropped, One' => Coded'
      PROVE  CodingOK'
  BY <1>2 DEF CodingOK, One, Coded
<1>3. /\ wire \in WireType /\ response \in [Ids -> ResponseType]
      /\ {0} \cup C \subseteq Ids
  BY Types, Places DEF Ids, Passed
<1>4. CASE Enter
  <2>1. /\ phase = "down" /\ pos \in 1 .. Depth /\ pos =< Depth
        /\ \A i \in P \cup C : i \in Int /\ i < pos
    BY <1>4, EnterWay, Places DEF Passed
  <2>2. /\ Last = pos /\ wire.body = <<>>
        /\ \A n \in DOMAIN wire.body : FALSE
    BY <2>1 DEF Last, AnswerOK, SentOK
  <2>3. PICK k \in Ids : k = Ctx(pos - 1) /\ (k = 0 \/ k \in C)
    BY <2>1, <2>2, LastCtx
  <2>4. CASE CopiesDown
    <3>1. C' = C \cup {pos} /\ P' = P
      BY <1>4, <2>4, PassedNext DEF CopiesDown, Copies, Copying
    <3>2. One' => One
      <4> HIDE DEF P, C
      <4> QED
        BY <3>1 DEF One, Below, P, C
    <3>3. /\ wire' = wire /\ pos \in Ids /\ response'[pos] = response[k]
          /\ \A j \in Ids \ {pos} : response'[j] = response[j]
      BY <1>4, <2>3, <2>4, CopyEffect
    <3>4. ASSUME One PROVE Coded'
      <4>1. \A j \in {0} \cup C :
              Len(response[j].writer) = IF wire.coded \/ wire.dropped THEN 1 ELSE 0
        BY <1>1, <3>4 DEF Coded
      <4>2. \A j \in {0} \cup C \cup {pos} :
              Len(response'[j].writer) = IF wire.coded \/ wire.dropped THEN 1 ELSE 0
        <5> HIDE DEF C
        <5> QED
          BY <1>3, <2>3, <3>3, <4>1
      <4>3. CodedAsDeclared'
        BY <2>2, <3>3 DEF CodedAsDeclared
      <4> HIDE DEF C
      <4> QED
        BY <3>1, <3>3, <4>2, <4>3 DEF Coded, C
    <3> QED
      BY <1>1, <1>2, <3>1, <3>2, <3>3, <3>4
  <2>5. CASE Wraps
    <3>1. P' = P \cup {pos} /\ C' = C
      BY <1>4, <2>5, PassedNext DEF Wraps, Copying
    <3>2. ASSUME One' PROVE P = {} /\ C = {}
      <4>1. \A i \in P : i = pos
        <5> HIDE DEF P, C
        <5> QED
          BY <3>1, <3>2 DEF One, P
      <4>2. \A i \in C : ~(i < pos)
        <5>1. ~\E i \in C', j \in P' : i < j
          BY <3>2 DEF One, Below
        <5> HIDE DEF P, C
        <5> QED
          BY <3>1, <5>1
      <4> HIDE DEF P, C
      <4> QED
        BY <2>1, <4>1, <4>2
    <3>3. ASSUME One' PROVE Coded'
      <4>1. P = {} /\ C = {} /\ k = 0
        BY <2>3, <3>2, <3>3
      <4>2. ~wire.coded /\ ~wire.dropped /\ One
        BY <1>1, <4>1 DEF One, Below
      <4>3. Len(response[0].writer) = 0
        BY <1>1, <4>2 DEF Coded
      <4>4. Len(response'[0].writer) = 1 /\ wire'.coded /\ wire'.body = wire.body
        <5>1. /\ Len(response'[k].writer) = Len(response[k].writer) + 1
              /\ wire'.coded /\ wire'.body = wire.body
          BY <1>4, <2>3, <2>5, WrapsEffect
        <5> QED
          BY <4>1, <4>3, <5>1
      <4>5. CodedAsDeclared'
        BY <2>2, <4>4 DEF CodedAsDeclared
      <4> HIDE DEF C
      <4> QED
        BY <3>1, <4>1, <4>4, <4>5 DEF Coded, C
    <3>4. P' # {}
      <4> HIDE DEF P
      <4> QED
        BY <3>1
    <3> QED
      BY <1>2, <3>3, <3>4
  <2>6. CASE ~Copies(pos) /\ UNCHANGED <<response, wire>>
    <3>1. C' = C /\ P' \in {P, P \cup {pos}}
      BY <1>4, <2>6, PassedNext DEF Copies, Copying
    <3>2. /\ One' => One
          /\ P' = {} => P = {}
      <4> HIDE DEF P, C
      <4> QED
        BY <3>1 DEF One, Below, P, C
    <3>3. Coded => Coded'
      <4> HIDE DEF C
      <4> QED
        BY <2>6, <3>1 DEF Coded, CodedAsDeclared, C
    <3> QED
      BY <1>1, <1>2, <2>6, <3>2, <3>3
  <2> QED
    BY <1>4, <2>4, <2>5, <2>6, EnterEffect
<1>5. ASSUME Turn \/ Work \/ Return \/ End \/ Idle
      PROVE  C' = C /\ P' = P /\ (One' => One)
  <2>1. P' = P /\ C' = C
    BY <1>5, PassedKept
  <2> HIDE DEF P, C
  <2> QED
    BY <2>1 DEF One, Below, P, C
<1>6. ASSUME C' = C, P' = P, One' => One,
             \A j \in Ids : response'[j].writer = response[j].writer,
             wire'.coded \/ wire'.dropped <=> wire.coded \/ wire.dropped,
             Coded => (~wire'.dropped => CodedAsDeclared')
      PROVE  CodingOK'
  <2>1. Coded => Coded'
    <3> HIDE DEF C
    <3> QED
      BY <1>3, <1>6 DEF Coded, C
  <2> QED
    BY <1>1, <1>2, <1>6, <2>1
<1>7. ASSUME C' = C, P' = P, One' => One, response' = response,
             wire'.coded = wire.coded, wire'.dropped = wire.dropped,
             wire'.body = wire.body
      PROVE  CodingOK'
  <2>1. CodedAsDeclared => CodedAsDeclared'
    BY <1>7 DEF CodedAsDeclared
  <2> QED
    BY <1>6, <1>7, <2>1 DEF Coded
<1>8. ASSUME C' = C, P' = P, One' => One, NEW k \in Ids, k = 0 \/ k \in C,
             NEW code, NEW what \in {"page", "error"}, Answers(k, code, what)
      PROVE  CodingOK'
  <2>1. /\ \A j \in Ids : response'[j].writer = response[j].writer
        /\ wire'.coded \/ wire'.dropped <=> wire.coded \/ wire.dropped
    BY <1>8 DEF Answers, Keeps, Drops
  <2>2. Coded => (~wire'.dropped => CodedAsDeclared')
    BY <1>8, CodedPart
  <2> QED
    BY <1>6, <1>8, <2>1, <2>2
<1>9. CASE Turn
  <2>1. phase = "down" /\ Last = pos
    BY <1>9, TurnWay DEF Last
  <2>2. CASE Closes
    <3>1. /\ wire'.coded = wire.coded /\ wire'.dropped = wire.dropped
          /\ wire'.body = wire.body /\ response' = response
      BY <1>3, <2>2 DEF Closes, WireType
    <3> QED
      BY <1>5, <1>7, <1>9, <3>1
  <2>3. CASE UNCHANGED <<response, wire>>
    BY <1>5, <1>7, <1>9, <2>3
  <2>4. Ctx(pos - 1) = 0 \/ Ctx(pos - 1) \in C
    BY <2>1, LastCtx
  <2> HIDE DEF P, C
  <2> QED
    BY <1>5, <1>8, <1>9, <2>2, <2>3, <2>4, TurnEffect
<1>10. CASE Work
  <2>1. phase = "down" /\ Last - 1 = Depth
    BY <1>10, WorkWay, Places DEF Last
  <2>2. CASE Upgrades
    <3>1. /\ wire'.coded = wire.coded /\ wire'.dropped = wire.dropped
          /\ wire'.body = wire.body /\ response' = response
      BY <1>3, <2>2 DEF Upgrades, WireType
    <3> QED
      BY <1>5, <1>7, <1>10, <3>1
  <2>3. Ctx(Depth) = 0 \/ Ctx(Depth) \in C
    BY <2>1, LastCtx
  <2> HIDE DEF P, C
  <2> QED
    BY <1>5, <1>8, <1>10, <2>2, <2>3, WorkEffect
<1>11. CASE Return
  <2>1. /\ wire'.coded = wire.coded /\ wire'.dropped = wire.dropped
        /\ wire'.body = wire.body /\ response' = response
    BY <1>11, ReturnWay, ReturnEffect, CommitsOK
  <2> QED
    BY <1>5, <1>7, <1>11, <2>1
<1>12. CASE End
  <2>1. CASE Answers(0, err.code, "error")
    <3>1. 0 \in Ids
      BY <1>3
    <3> HIDE DEF P, C
    <3> QED
      BY <1>5, <1>8, <1>12, <2>1, <3>1
  <2>2. CASE wire' \in {wire, Commit(200)} /\ response' = response
    <3>1. /\ wire'.coded = wire.coded /\ wire'.dropped = wire.dropped
          /\ wire'.body = wire.body
      BY <2>2, CommitsOK
    <3> QED
      BY <1>5, <1>7, <1>12, <2>2, <3>1
  <2> QED
    BY <1>12, <2>1, <2>2, EndEffect
<1>13. CASE Idle
  BY <1>5, <1>7, <1>13 DEF Idle
<1> QED
  BY <1>4, <1>9, <1>10, <1>11, <1>12, <1>13, Steps

(* Two layers are one when there is one at most.                           *)
LEMMA AtMostOne ==
  ASSUME Typed, NEW K, Cardinality(Passed(K)) =< 1
  PROVE  \A i, j \in Passed(K) : i = j
<1> SUFFICES ASSUME NEW i \in Passed(K), NEW j \in Passed(K), i # j PROVE FALSE
  OBVIOUS
<1>1. IsFiniteSet(Passed(K))
  <2>1. Depth \in Int /\ Passed(K) \subseteq 1 .. Depth
    BY Places DEF Passed
  <2>2. IsFiniteSet(1 .. Depth)
    BY <2>1, FS_Interval
  <2> QED
    BY <2>1, <2>2, FS_Subset
<1>2. IsFiniteSet({i}) /\ Cardinality({i}) = 1 /\ j \notin {i}
  BY FS_Singleton
<1>3. Cardinality({i} \cup {j}) = Cardinality({i}) + 1
  BY <1>2, FS_AddElement
<1>4. Cardinality({i} \cup {j}) =< Cardinality(Passed(K))
  BY <1>1, FS_Subset
<1>5. Cardinality(Passed(K)) \in Nat
  BY <1>1, FS_CardinalityType
<1> QED
  BY <1>2, <1>3, <1>4, <1>5

(* Every part of the body is coded as the headers declare, provided there  *)
(* is one Compress at most, it sees the chain's own Ctx and net/http does  *)
(* not delete what it has declared.                                        *)
THEOREM CodingsAreHonest == Spec => []SingleCodingHonest
<1>1. Init => CodingOK
  <2> SUFFICES ASSUME Init PROVE CodingOK
    OBVIOUS
  <2>1. /\ pos = 1 /\ phase = "down" /\ wire.body = <<>>
        /\ wire.coded = FALSE /\ wire.dropped = FALSE
        /\ response = [k \in Ids |-> NewResponse]
    BY DEF Init
  <2>2. \A K : Passed(K) = {}
    BY <2>1 DEF Passed
  <2>3. Len(response[0].writer) = 0
    <3>1. 0 \in Ids
      BY DEF Ids
    <3> QED
      BY <2>1, <3>1 DEF NewResponse
  <2>4. CodedAsDeclared
    BY <2>1 DEF CodedAsDeclared
  <2> QED
    BY <2>1, <2>2, <2>3, <2>4 DEF CodingOK
<1>2. Typed /\ SentOK /\ AnswerOK /\ CodingOK /\ [Next]_vars => CodingOK'
  BY CodingStep
<1>3. Typed /\ CodingOK => SingleCodingHonest
  BY AtMostOne DEF CodingOK, SingleCodingHonest
<1> QED
  BY <1>1, <1>2, <1>3, AnswerBase, PTL DEF Spec

-----------------------------------------------------------------------------
(* What the client sees.                                                   *)

(* What a client sees of a body is the kind of its parts.                  *)
Seen(b) == [n \in DOMAIN b |-> b[n].what]

(* A body that gets one part more is seen to get it.                       *)
LEMMA SeenAppend ==
  ASSUME NEW b \in Seq([what : {"page", "error"}, codings : Nat]),
         NEW part \in [what : {"page", "error"}, codings : Nat]
  PROVE  Seen(Append(b, part)) = Append(Seen(b), part.what)
<1> DEFINE Whats == {"page", "error"}
           new == Append(b, part)
<1>a. Len(b) \in Nat /\ DOMAIN b = 1 .. Len(b)
  BY LenProperties
<1>b. \A n \in 1 .. Len(b) : b[n] \in [what : {"page", "error"}, codings : Nat]
  BY ElementOfSeq
<1>1. /\ Len(b) \in Nat /\ DOMAIN b = 1 .. Len(b)
      /\ \A n \in 1 .. Len(b) : b[n].what \in Whats
      /\ part.what \in Whats
  BY <1>a, <1>b
<1>2. /\ Len(new) = Len(b) + 1 /\ DOMAIN new = 1 .. Len(b) + 1
      /\ \A n \in 1 .. Len(b) : new[n] = b[n]
      /\ new[Len(b) + 1] = part
  BY AppendProperties, LenProperties
<1>3. Seen(b) \in Seq(Whats) /\ Len(Seen(b)) = Len(b)
  BY <1>1 DEF Seen
<1>4. /\ Seen(new) \in Seq(Whats) /\ Len(Seen(new)) = Len(b) + 1
      /\ \A n \in 1 .. Len(b) : Seen(new)[n] = Seen(b)[n]
      /\ Seen(new)[Len(b) + 1] = part.what
  BY <1>1, <1>2 DEF Seen
<1> HIDE DEF Whats, new
<1>5. /\ Append(Seen(b), part.what) \in Seq(Whats)
      /\ Len(Append(Seen(b), part.what)) = Len(b) + 1
      /\ \A n \in 1 .. Len(b) : Append(Seen(b), part.what)[n] = Seen(b)[n]
      /\ Append(Seen(b), part.what)[Len(b) + 1] = part.what
  BY <1>1, <1>3, AppendProperties
<1>6. Seen(new) = Append(Seen(b), part.what)
  BY <1>1, <1>4, <1>5, SeqEqual
<1> QED
  BY <1>6 DEF new

(* What a client may see of an answer: no other status, no coding anew,    *)
(* one part more of the body at most, none before the header.              *)
Seeable(what) ==
  /\ wire'.status \in Nat
  /\ wire.status # 0 => wire'.status = wire.status
  /\ what = "error" => wire'.status # 0 /\ wire'.coded = wire.coded
  /\ \/ wire'.coded = wire.coded
     \/ wire.status = 0 /\ wire'.coded = FALSE
  /\ wire'.session = wire.session
  /\ wire'.status = 0 => wire'.body = wire.body
  /\ \/ Seen(wire'.body) = Seen(wire.body)
     \/ /\ wire'.status \notin {101, 204, 304}
        /\ Seen(wire'.body) = Append(Seen(wire.body), what)

(* An answer through any Ctx is one the client can take.                   *)
LEMMA AnswerSeen ==
  ASSUME Typed, NEW k, NEW code, NEW what \in {"page", "error"},
         Answers(k, code, what)
  PROVE  Seeable(what)
<1>1. wire \in WireType /\ response \in [Ids -> ResponseType]
  BY Types
<1>2. /\ wire.status # 0 => wire'.status = wire.status
      /\ what = "error" => wire'.status # 0
      /\ Keeps \/ (Drops /\ what = "page")
      /\ k \in Ids /\ wire' \in WireType /\ wire'.session = wire.session
      /\ wire'.status \in {0, 101, 204, 304} => wire'.body = wire.body
      /\ AddsAtMost(wire.body, wire'.body,
                    [what |-> what, codings |-> Len(response[k].writer)])
  BY DEF Answers
<1>3. PICK part : part = [what |-> what, codings |-> Len(response[k].writer)]
  OBVIOUS
<1>4. part \in [what : {"page", "error"}, codings : Nat] /\ part.what = what
  <2>1. response[k].writer \in Seq(1 .. MaxDepth)
    BY <1>1, <1>2 DEF ResponseType
  <2> QED
    BY <1>3, <2>1
<1>5. wire.status \in Nat
      /\ wire.body \in Seq([what : {"page", "error"}, codings : Nat])
  BY <1>1 DEF WireType
<1>6. Seen(Append(wire.body, part)) = Append(Seen(wire.body), what)
  BY <1>4, <1>5, SeenAppend
<1>7. \/ wire'.body = wire.body
      \/ wire'.body = Append(wire.body, part)
  BY <1>2, <1>3, Zenon DEF AddsAtMost
<1>8. \/ Seen(wire'.body) = Seen(wire.body)
      \/ /\ wire'.status \notin {101, 204, 304}
         /\ Seen(wire'.body) = Append(Seen(wire.body), what)
  <2>1. wire'.status \in {101, 204, 304} => wire'.body = wire.body
    BY <1>2
  <2> QED
    BY <1>6, <1>7, <2>1, Zenon
<1>9. /\ wire'.status \in Nat
      /\ what = "error" => wire'.coded = wire.coded
      /\ \/ wire'.coded = wire.coded
         \/ wire.status = 0 /\ wire'.coded = FALSE
  BY <1>2 DEF Keeps, Drops, WireType
<1> QED
  BY <1>2, <1>8, <1>9 DEF Seeable

(* The first state of a request is that of its exchange.                   *)
LEMMA InitRefines == Init => Client!Init
<1> SUFFICES ASSUME Init PROVE Client!Init
  OBVIOUS
<1>1. /\ wire.status = 0 /\ wire.coded = FALSE /\ wire.body = <<>>
      /\ wire.session = "none" /\ phase = "down"
  BY DEF Init
<1>2. Seen(wire.body) = <<>>
  BY <1>1 DEF Seen
<1> QED
  BY <1>1, <1>2 DEF Client!Init, Served, Seen

(* What an answer adds to the exchange, the end of the exchange aside.     *)
LEMMA AnswerRefines ==
  ASSUME Typed, NEW k, NEW code, NEW what \in {"page", "error"},
         Answers(k, code, what), wire'.status # 0
  PROVE  /\ Client!HeadersOut /\ Client!Part(what)
         /\ what = "error" => wire'.coded = wire.coded
         /\ \/ wire'.coded = wire.coded
            \/ wire.status = 0 /\ wire'.coded = FALSE
         /\ wire'.session = wire.session
<1>1. Seeable(what)
  BY AnswerSeen
<1>2. Client!HeadersOut
  BY <1>1 DEF Seeable, Client!HeadersOut
<1>3. Client!Part(what)
  BY <1>1, Zenon DEF Seeable, Client!Part, Client!Bodyless, Seen
<1> QED
  BY <1>1, <1>2, <1>3 DEF Seeable

(* An informational one adds nothing, and may delete the coding.           *)
LEMMA InformingRefines ==
  ASSUME Typed, NEW k, NEW code, Answers(k, code, "page"), wire'.status = 0,
         ~Served, ~Served'
  PROVE  Client!Next
<1>1. /\ wire.status = 0 /\ wire'.body = wire.body /\ wire'.session = wire.session
  BY AnswerSeen DEF Seeable
<1>2. wire'.coded \in BOOLEAN
  BY DEF Answers, WireType
<1>3. Client!Declare
  BY <1>1, <1>2 DEF Client!Declare
<1> QED
  BY <1>3 DEF Client!Next

(* So does the 200 net/http sends when nobody answered, without a body.    *)
LEMMA CommitRefines ==
  ASSUME Typed, wire' = Commit(200), NEW what
  PROVE  /\ Client!HeadersOut /\ Client!Part(what)
         /\ wire'.coded = wire.coded /\ wire'.session = wire.session
<1>1. wire \in WireType /\ wire.status \in Nat
  BY Types DEF WireType
<1>2. /\ wire'.status = IF wire.status # 0 THEN wire.status ELSE 200
      /\ wire'.coded = wire.coded /\ wire'.body = wire.body
      /\ wire'.session = wire.session
  BY CommitsOK
<1> QED
  BY <1>1, <1>2 DEF Client!HeadersOut, Client!Part

(* Every step of the chain is one of the exchange, or none.                *)
LEMMA StepRefines ==
  ASSUME Typed, SentOK, SessionOK, AnswerOK, [Next]_vars
  PROVE  [Client!Next]_(Client!exchangeVars)
<1> USE DEF Client!exchangeVars
<1>1. /\ wire \in WireType /\ wire.session \in {"none", "open", "closed"}
      /\ wire.status \in Nat
  BY Types DEF WireType
<1>2. /\ phase = "down" /\ answer.status = 0 => wire.status = 0
      /\ phase = "down" /\ pos =< Depth => answer.status = 0
      /\ phase = "down" /\ wire.coded => response[Ctx(pos - 1)].writer # <<>>
      /\ wire.session # "none" => wire.status = 101
      /\ wire.session = "open" => phase = "down"
  BY DEF SentOK, AnswerOK, SessionOK, SessionSealed
<1>3. CASE Enter
  <2>1. phase = "down" /\ phase' = "down" /\ pos \in 1 .. Depth /\ pos =< Depth
    BY <1>3, EnterWay, Places
  <2>2. ~Served /\ ~Served'
    BY <2>1 DEF Served
  <2>3. CASE Wraps
    <3>1. /\ wire'.status = wire.status /\ wire'.body = wire.body
          /\ wire'.session = wire.session /\ wire'.coded = TRUE
      <4>1. wire' = [wire EXCEPT !.coded = TRUE]
        BY <2>3 DEF Wraps
      <4> QED
        BY <1>1, <4>1 DEF WireType
    <3>2. wire.status = 0
      BY <1>2, <2>1
    <3>3. Client!Declare
      BY <2>2, <3>1, <3>2 DEF Client!Declare
    <3> QED
      BY <2>2, <3>3 DEF Client!Next
  <2>4. CASE wire' = wire
    BY <2>2, <2>4
  <2> QED
    BY <1>3, <2>3, <2>4, EnterEffect DEF CopiesDown
<1>4. ASSUME phase' \in {"down", "up"}, phase \in {"down", "up"},
             Client!HeadersOut, Client!Part("page"),
             \/ wire'.coded = wire.coded
             \/ wire.status = 0 /\ wire'.coded = FALSE,
             wire'.session = wire.session
      PROVE  Client!Next
  <2>1. ~Served /\ ~Served'
    BY <1>4 DEF Served
  <2>2. Client!Send
    BY <1>1, <1>4, <2>1 DEF Client!Send, WireType
  <2> QED
    BY <2>1, <2>2 DEF Client!Next
<1>5. CASE Turn
  <2>1. phase = "down" /\ phase' = "up"
    BY <1>5, TurnWay
  <2>2. ~Served /\ ~Served'
    BY <2>1 DEF Served
  <2>3. CASE \E k \in Ids, code \in Nat \ {0} : Answers(k, code, "page")
    BY <1>4, <2>1, <2>2, <2>3, AnswerRefines, InformingRefines
  <2>4. CASE wire' = wire
    BY <2>2, <2>4
  <2>5. CASE Closes
    <3>1. wire' = [wire EXCEPT !.session = IF @ = "open" THEN "closed" ELSE @]
      BY <2>5 DEF Closes
    <3>2. /\ wire'.status = wire.status /\ wire'.body = wire.body
          /\ wire'.coded = wire.coded
          /\ wire'.session = IF wire.session = "open" THEN "closed" ELSE wire.session
      BY <1>1, <3>1 DEF WireType
    <3>3. CASE wire.session = "open"
      <4>1. Client!HangUp
        BY <2>2, <3>2, <3>3 DEF Client!HangUp
      <4> QED
        BY <2>2, <4>1 DEF Client!Next
    <3>4. CASE wire.session # "open"
      BY <2>2, <3>2, <3>4
    <3> QED
      BY <3>3, <3>4
  <2> QED
    BY <1>5, <2>3, <2>4, <2>5, TurnEffect
<1>6. CASE Work
  <2>1. phase = "down" /\ phase' = "down" /\ pos = Depth + 1 /\ Depth \in Nat
    BY <1>6, WorkWay, Places
  <2>2. ~Served /\ ~Served'
    BY <2>1 DEF Served
  <2>3. CASE \E k \in Ids, code \in Nat \ {0} : Answers(k, code, "page")
    BY <1>4, <2>1, <2>2, <2>3, AnswerRefines, InformingRefines
  <2>4. CASE Upgrades
    <3>1. /\ wire.status = 0 /\ response[Ctx(Depth)].writer = <<>>
          /\ wire' = [wire EXCEPT !.status = 101, !.session = "open"]
      BY <2>4 DEF Upgrades
    <3>2. /\ wire'.status = 101 /\ wire'.session = "open"
          /\ wire'.body = wire.body /\ wire'.coded = wire.coded
      BY <1>1, <3>1 DEF WireType
    <3>3. ~wire.coded /\ wire.session = "none"
      <4>1. pos - 1 = Depth
        BY <2>1
      <4> QED
        BY <1>1, <1>2, <2>1, <3>1, <4>1
    <3>4. Client!Upgrade
      BY <2>2, <3>1, <3>2, <3>3 DEF Client!Upgrade
    <3> QED
      BY <2>2, <3>4 DEF Client!Next
  <2> QED
    BY <1>6, <2>3, <2>4, WorkEffect
<1>7. CASE Return
  <2>1. phase = "up" /\ phase' = "up"
    BY <1>7, ReturnWay
  <2>2. CASE wire' = wire
    BY <2>1, <2>2 DEF Served
  <2>3. CASE wire' = Commit(200)
    BY <1>4, <2>1, <2>3, CommitRefines
  <2> QED
    BY <1>7, <2>2, <2>3, ReturnEffect
<1>8. CASE End
  <2>1. phase = "up" /\ ~Served /\ wire.session # "open"
    BY <1>2, <1>8, EndWay DEF Served
  <2>2. ASSUME phase' = "done", Client!HeadersOut, Client!Part("error"),
               wire'.coded = wire.coded, wire'.session = wire.session
        PROVE  Client!Next
    <3>1. Served'
      BY <2>2 DEF Served
    <3>2. Client!Finish
      BY <2>1, <2>2, <3>1 DEF Client!Finish
    <3> QED
      BY <2>1, <3>2 DEF Client!Next
  <2>3. CASE phase' = "done" /\ Answers(0, err.code, "error")
    <3>1. wire'.status # 0
      BY <2>3 DEF Answers
    <3> QED
      BY <2>2, <2>3, <3>1, AnswerRefines
  <2>4. CASE phase' = "done" /\ wire' = Commit(200)
    BY <2>2, <2>4, CommitRefines
  <2>5. CASE phase' = "aborted" /\ wire' = wire
    <3>1. Served'
      BY <2>5 DEF Served
    <3>2. Client!Abort
      BY <2>1, <2>5, <3>1 DEF Client!Abort
    <3> QED
      BY <2>1, <3>2 DEF Client!Next
  <2> QED
    BY <1>8, <2>3, <2>4, <2>5, EndEffect
<1>9. CASE Idle
  BY <1>9 DEF Idle, Served
<1> QED
  BY <1>3, <1>5, <1>6, <1>7, <1>8, <1>9, Steps

(* What the client gets is one well-formed exchange, for a chain of any    *)
(* length in any order and whatever fails in it: the headers once and      *)
(* first, no coding declared or withdrawn after them, no body and no       *)
(* coding in a session, an error's text last and no end but by an answer   *)
(* or an abort.                                                            *)
THEOREM ExchangeImplemented == Spec => ImplementsExchange
<1>1. Init => SessionOK
  BY DEF Init, SessionOK, SessionSealed
<1>2. Typed /\ SentOK /\ SessionOK /\ [Next]_vars => SessionOK'
  BY SessionStep
<1>3. Typed /\ SentOK /\ SessionOK /\ AnswerOK /\ [Next]_vars
        => [Client!Next]_(Client!exchangeVars)
  BY StepRefines
<1> QED
  BY <1>1, <1>2, <1>3, AnswerBase, InitRefines, PTL
     DEF Spec, ImplementsExchange, Client!Spec
=============================================================================
