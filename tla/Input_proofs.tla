---------------------------- MODULE Input_proofs -----------------------------
(***************************************************************************)
(* What the run of Input shows of binding and of FileUpload.Validate on a  *)
(* few requests and files, proved for all requests, structs, files, limits *)
(* and widths of the integers.                                             *)
(***************************************************************************)
EXTENDS Input, Extremes, SequenceTheorems, FiniteSetTheorems

USE MaxIntAssumption, FilesAssumption, LimitsAssumption
USE DEF MaxIntAssumption, FilesAssumption, LimitsAssumption

-----------------------------------------------------------------------------
(* What a size check reads.                                                *)

(* The LimitReader lets through one byte more than MaxSize, but nothing    *)
(* when that wraps around; so what is read exceeds MaxSize only if what is *)
(* left of the file does, and from the start exactly then.                 *)
LEMMA ReadTells ==
  ASSUME Shape, check # "closed"
  PROVE  /\ Read \in 0 .. file.size - at
         /\ TooLarge => file.size > limits.max
         /\ at = 0 => (TooLarge <=> file.size > limits.max)
<1> DEFINE m == limits.max
           left_ == file.size - at
           wrapped == Wrap(m + 1)
<1>1. /\ m \in 0 .. MaxInt /\ file.size \in 0 .. MaxInt
      /\ at \in 0 .. file.size /\ left_ \in Nat
  BY DEF Shape
<1>2. wrapped = IF m = MaxInt THEN -(MaxInt + 1) ELSE m + 1
  BY <1>1 DEF Wrap
<1>3. Max({0, wrapped}) = IF m = MaxInt THEN 0 ELSE m + 1
  BY <1>1, <1>2, MaxOfTwo
<1>4. Read = IF m = MaxInt THEN 0 ELSE IF left_ =< m + 1 THEN left_ ELSE m + 1
  <2> HIDE DEF left_, wrapped, m
  <2>1. Min({left_, 0}) = 0
    BY <1>1, MinOfTwo
  <2>2. Min({left_, m + 1}) = IF left_ =< m + 1 THEN left_ ELSE m + 1
    BY <1>1, MinOfTwo
  <2>3. Read = Min({left_, Max({0, wrapped})})
    BY DEF Read, left_, wrapped, m
  <2> QED
    BY <1>3, <2>1, <2>2, <2>3
<1> QED
  <2> HIDE DEF wrapped
  <2> QED
    BY <1>1, <1>4 DEF TooLarge

-----------------------------------------------------------------------------
(* The steps.                                                              *)

(* What the handler does between two checks forgets the verdict.           *)
LEMMA HandlerStepInv ==
  ASSUME UploadInv, \/ Open \/ HandlerReads
                    \/ \E l \in Limits : \/ \E t \in l.types : AddType(t)
                                         \/ \E e \in l.exts : AddExtension(e)
  PROVE  UploadInv'
<1>1. check' = "open" /\ verdict' = "none"
  BY DEF Open, HandlerReads, AddType, AddExtension
<1>2. Shape'
  <2>1. CASE Open
    BY <2>1 DEF Shape, Open
  <2>2. CASE HandlerReads
    BY <2>2 DEF UploadInv, Shape, HandlerReads
  <2>3. ASSUME NEW l \in Limits, NEW t \in l.types, AddType(t) PROVE Shape'
    <3>1. t \in STRING
      BY <2>3
    <3> QED
      BY <2>3, <3>1 DEF UploadInv, Shape, AddType
  <2>4. ASSUME NEW l \in Limits, NEW e \in l.exts, AddExtension(e) PROVE Shape'
    <3>1. e \in STRING
      BY <2>4
    <3> QED
      BY <2>4, <3>1 DEF UploadInv, Shape, AddExtension
  <2> QED
    BY <2>1, <2>2, <2>3, <2>4
<1> QED
  BY <1>1, <1>2 DEF UploadInv, Progress, VerdictDeserved, LeftAtStart, Decided

(* The call of Validate.                                                   *)
LEMMA ValidateInv == ASSUME UploadInv, Validate PROVE UploadInv'
  BY DEF UploadInv, Shape, Progress, VerdictDeserved, LeftAtStart, Decided, Validate

(* The size check, which lets a file pass that starts at 0 only if it is   *)
(* small enough, and rejects only what is too large.                       *)
LEMMA CheckSizeInv == ASSUME UploadInv, CheckSize PROVE UploadInv'
<1>1. /\ check = "size" /\ at = start
      /\ file \in Files /\ at \in 0 .. file.size /\ file.size \in Nat
      /\ limits.max \in Nat
      /\ UNCHANGED <<file, limits, start>>
  BY DEF UploadInv, Shape, Progress, CheckSize
<1>2. /\ Read \in 0 .. file.size - at
      /\ TooLarge => file.size > limits.max
      /\ at = 0 => (TooLarge <=> file.size > limits.max)
  BY <1>1, ReadTells DEF UploadInv
<1>3. CASE limits.max = 0 /\ check' = "type" /\ UNCHANGED <<at, verdict>>
  BY <1>1, <1>3 DEF UploadInv, Shape, Progress, VerdictDeserved, LeftAtStart,
     Decided, Oversize
<1>4. CASE Ends("error") /\ at' \in at .. at + Read
  <2>1. at' \in 0 .. file.size
    BY <1>1, <1>2, <1>4
  <2> QED
    BY <1>1, <1>4, <2>1 DEF UploadInv, Shape, Progress, VerdictDeserved,
       LeftAtStart, Decided, Ends
<1>5. CASE limits.max > 0 /\ at' = 0 /\ TooLarge /\ Ends("413")
  <2>1. Oversize
    BY <1>2, <1>5 DEF Oversize
  <2> QED
    BY <1>1, <1>5, <2>1 DEF UploadInv, Shape, Progress, VerdictDeserved,
       LeftAtStart, Oversize, Ends
<1>6. CASE limits.max > 0 /\ at' = 0 /\ ~TooLarge /\ check' = "type" /\ UNCHANGED verdict
  <2>1. start = 0 => ~Oversize
    BY <1>1, <1>2, <1>6 DEF Oversize
  <2> QED
    BY <1>1, <1>6, <2>1 DEF UploadInv, Shape, Progress, VerdictDeserved,
       LeftAtStart, Decided, Oversize
<1> QED
  BY <1>3, <1>4, <1>5, <1>6 DEF CheckSize, Rewound

(* The type check sees the type of a file that stands at its start.        *)
LEMMA CheckTypeInv == ASSUME UploadInv, CheckType PROVE UploadInv'
<1>1. /\ check = "type" /\ UNCHANGED <<file, limits, start>>
      /\ file \in Files /\ at \in 0 .. file.size /\ file.size \in Nat
      /\ limits.max \in Nat
      /\ limits.max > 0 => at = 0
      /\ start = 0 => at = 0 /\ ~Oversize
  BY DEF UploadInv, Shape, Progress, CheckType
<1>2. CASE limits.types = {} /\ check' = "ext" /\ UNCHANGED <<at, verdict>>
  BY <1>1, <1>2 DEF UploadInv, Shape, Progress, VerdictDeserved, LeftAtStart,
     Decided, Oversize, TypeFits
<1>3. CASE Ends("error") /\ at' \in at .. file.size
  BY <1>1, <1>3 DEF UploadInv, Shape, Progress, VerdictDeserved, LeftAtStart,
     Decided, Ends
<1>4. CASE at' = 0 /\ TRUE \in Allowed /\ check' = "ext" /\ UNCHANGED verdict
  <2>1. at = 0 => file.type \in limits.types
    BY <1>4 DEF Allowed
  <2> QED
    BY <1>1, <1>4, <2>1 DEF UploadInv, Shape, Progress, VerdictDeserved,
       LeftAtStart, Decided, Oversize, TypeFits
<1>5. CASE limits.types # {} /\ at' = 0 /\ FALSE \in Allowed /\ Ends("415")
  <2>1. at = 0 => file.type \notin limits.types
    BY <1>5 DEF Allowed
  <2> QED
    BY <1>1, <1>5, <2>1 DEF UploadInv, Shape, Progress, VerdictDeserved,
       LeftAtStart, Oversize, Misfit, Ends
<1> QED
  BY <1>2, <1>3, <1>4, <1>5 DEF CheckType

(* The last check gives the verdict.                                       *)
LEMMA CheckExtensionInv == ASSUME UploadInv, CheckExtension PROVE UploadInv'
<1>1. /\ check = "ext" /\ check' = "open"
      /\ verdict' = IF limits.exts = {} \/ file.ext \in limits.exts
                    THEN "accepted" ELSE "415"
      /\ UNCHANGED <<file, limits, at, start>>
  BY DEF CheckExtension, Ends
<1>2. Shape'
  BY <1>1 DEF UploadInv, Shape
<1>3. VerdictDeserved'
  BY <1>1 DEF UploadInv, Progress, VerdictDeserved, Decided, Oversize, Misfit, TypeFits
<1>4. LeftAtStart'
  BY <1>1 DEF UploadInv, Progress, LeftAtStart, Decided
<1> QED
  BY <1>1, <1>2, <1>3, <1>4 DEF UploadInv, Progress

-----------------------------------------------------------------------------
(* The theorems.                                                           *)

(* No file, no verdict.                                                    *)
LEMMA InitUploadInv == Init => UploadInv
  BY DEF Init, Closed, UploadInv, Shape, Progress, VerdictDeserved, LeftAtStart, Decided

(* UploadInv is inductive, whatever else the endpoint does in between.     *)
LEMMA UploadInvStep == UploadInv /\ [Next]_vars => UploadInv'
<1> SUFFICES ASSUME UploadInv, [Next]_vars PROVE UploadInv'
  OBVIOUS
<1>1. CASE UNCHANGED uploadVars
  BY <1>1 DEF UploadInv, uploadVars, Shape, Progress, VerdictDeserved, LeftAtStart,
     Decided, Oversize, Misfit, TypeFits
<1> QED
  BY <1>1, HandlerStepInv, ValidateInv, CheckSizeInv, CheckTypeInv, CheckExtensionInv
  DEF Next, OpenFile, ValidateStep, vars

(* UploadInv holds in every reachable state.                               *)
LEMMA UploadInvariance == Spec => []UploadInv
  BY InitUploadInv, UploadInvStep, PTL DEF Spec

(* Validate judges every file as its size, type and name deserve, from     *)
(* wherever it reads, for every MaxSize up to the largest integer.         *)
THEOREM VerdictIsDeserved == Spec => []VerdictDeserved
<1>1. UploadInv => VerdictDeserved
  BY DEF UploadInv
<1> QED
  BY <1>1, UploadInvariance, PTL

(* A judged file stands at its start.                                      *)
THEOREM FileIsLeftAtStart == Spec => []LeftAtStart
<1>1. UploadInv => LeftAtStart
  BY DEF UploadInv
<1> QED
  BY <1>1, UploadInvariance, PTL

-----------------------------------------------------------------------------
(* The calls of Binding.                                                   *)

USE FieldsAssumption, BytesAssumption DEF FieldsAssumption, BytesAssumption

(* What was sent.                                                          *)
LEMMA Requested ==
  ASSUME BindType
  PROVE  /\ sent.kind \in {"json", "xml", "urlencoded", "multipart"}
         /\ sent.fault \in {"none", "malformed", "unreadable"}
         /\ sent.length \in Nat \ {0} /\ sent.delimited \in BOOLEAN
         /\ sent.names \subseteq {"json", "xml", "form"}
         /\ sent.query \in [DOMAIN Fields -> STRING]
         /\ sent.form \in [DOMAIN Fields -> STRING]
         /\ IsForm(sent) => sent.length = 1 /\ sent.ends = <<>>
         /\ ~IsForm(sent) => Ordered(sent)
         /\ sent.ends \in Seq(Nat)
         /\ left \in Nat /\ left =< sent.length
<1>1. /\ sent \in Requests /\ left \in 0 .. sent.length
      /\ IsForm(sent) => sent.length = 1 /\ sent.ends = <<>>
      /\ ~IsForm(sent) => Ordered(sent)
  BY SentAssumption DEF SentAssumption, BindType
<1> QED
  BY <1>1 DEF Requests

(* One call more.                                                          *)
Calls(op, r) == /\ op \in Ways /\ r \in Results /\ sent' = sent
                /\ calls' = Append(calls, [op |-> op, result |-> r])

LEMMA OneMore ==
  ASSUME BindType, NEW op, NEW r, Calls(op, r)
  PROVE  /\ calls' \in Seq([op : Ways, result : Results])
         /\ Len(calls) \in Nat /\ Len(calls') = Len(calls) + 1
         /\ DOMAIN calls = 1 .. Len(calls) /\ DOMAIN calls' = 1 .. Len(calls) + 1
         /\ \A n \in 1 .. Len(calls) : calls'[n] = calls[n]
         /\ calls'[Len(calls) + 1].op = op /\ calls'[Len(calls) + 1].result = r
<1>1. calls \in Seq([op : Ways, result : Results])
  BY DEF BindType
<1>2. PICK c : c = [op |-> op, result |-> r]
  OBVIOUS
<1>3. c \in [op : Ways, result : Results] /\ c.op = op /\ c.result = r
  BY <1>2 DEF Calls
<1>4. calls' = Append(calls, c)
  BY <1>2 DEF Calls
<1>5. /\ calls' \in Seq([op : Ways, result : Results])
      /\ Len(calls) \in Nat /\ Len(calls') = Len(calls) + 1
      /\ DOMAIN calls = 1 .. Len(calls) /\ DOMAIN calls' = 1 .. Len(calls) + 1
  BY <1>1, <1>3, <1>4
<1>6. /\ \A n \in 1 .. Len(calls) : calls'[n] = calls[n]
      /\ calls'[Len(calls) + 1] = c
  BY <1>1, <1>3, <1>4
<1> QED
  BY <1>3, <1>5, <1>6

(* It is the last of its kind.                                             *)
LEMMA OpsMore ==
  ASSUME BindType, NEW op, NEW r, Calls(op, r), NEW K
  PROVE  /\ Ops(K)' = IF op \in K THEN Ops(K) \cup {Len(calls) + 1} ELSE Ops(K)
         /\ \A n \in Ops(K) : n \in Nat /\ n < Len(calls) + 1
<1>1. /\ Len(calls) \in Nat
      /\ DOMAIN calls = 1 .. Len(calls) /\ DOMAIN calls' = 1 .. Len(calls) + 1
      /\ \A n \in 1 .. Len(calls) : calls'[n] = calls[n]
      /\ calls'[Len(calls) + 1].op = op
  BY OneMore
<1>2. Ops(K) = {n \in 1 .. Len(calls) : calls[n].op \in K}
  BY <1>1 DEF Ops
<1>3. Ops(K)' = {n \in 1 .. Len(calls) + 1 : calls'[n].op \in K}
  BY <1>1 DEF Ops
<1> QED
  BY <1>1, <1>2, <1>3

(* What it changes of who has read and who has taken the body.             *)
LEMMA Order ==
  ASSUME BindType, NEW op, NEW r, Calls(op, r), NEW N, N = Len(calls) + 1
  PROVE  /\ Reading' = IF op \in {"form", "value", "file"}
                       THEN Reading \cup {N} ELSE Reading
         /\ Ops({"body"})' = IF op = "body" THEN Ops({"body"}) \cup {N}
                                            ELSE Ops({"body"})
         /\ Robbing' = IF op = "body" /\ Reading = {} THEN Ops({"body"})' ELSE Robbing
         /\ Parsing' = IF op = "file" \/ (op = "value" /\ Reading = {})
                       THEN Parsing \cup {N} ELSE Parsing
         /\ \A n \in Reading \cup Ops({"body"}) : n \in Nat /\ n < N
         /\ \A n \in Reading : First(n)' <=> First(n)
         /\ First(N)' <=> op \in {"form", "value", "file"} /\ Reading = {}
<1> DEFINE B == Ops({"body"})
<1>2. /\ N \in Nat /\ \A n \in 1 .. Len(calls) : calls'[n] = calls[n]
      /\ calls'[N].op = op /\ DOMAIN calls = 1 .. Len(calls)
  BY OneMore
<1>3. /\ Reading' = IF op \in {"form", "value", "file"} THEN Reading \cup {N} ELSE Reading
      /\ \A n \in Reading : n \in Nat /\ n < N
  <2>1. PICK K : K = {"form", "value", "file"}
    OBVIOUS
  <2>2. /\ Ops(K)' = IF op \in K THEN Ops(K) \cup {N} ELSE Ops(K)
        /\ \A n \in Ops(K) : n \in Nat /\ n < N
    BY OpsMore
  <2>3. Reading = Ops(K) /\ Reading' = Ops(K)'
    BY <2>1 DEF Reading
  <2> QED
    BY <2>1, <2>2, <2>3
<1>4. /\ B' = IF op \in {"body"} THEN B \cup {N} ELSE B
      /\ \A n \in B : n \in Nat /\ n < N
  BY OpsMore
<1>5. Robbing = {n \in B : \A m \in Reading : n < m}
  BY DEF Robbing
<1>6. Robbing' = {n \in B' : \A m \in Reading' : n < m}
  BY DEF Robbing
<1>7. Robbing' = IF op = "body" /\ Reading = {} THEN B' ELSE Robbing
  <2> HIDE DEF B
  <2>1. CASE op = "body"
    BY <1>2, <1>3, <1>4, <1>5, <1>6, <2>1
  <2>2. CASE op # "body"
    BY <1>2, <1>3, <1>4, <1>5, <1>6, <2>2
  <2> QED
    BY <2>1, <2>2
<1>8. /\ \A n \in Reading : First(n)' <=> First(n)
      /\ First(N)' <=> op \in {"form", "value", "file"} /\ Reading = {}
  <2>1. \A n : First(n)' <=> n \in Reading' /\ \A m \in Reading' : n =< m
    BY DEF First
  <2> QED
    BY <1>2, <1>3, <2>1 DEF First
<1>9. \A n \in Reading : calls'[n] = calls[n]
  BY <1>2 DEF Reading, Ops
<1>10. Parsing' = {n \in Reading' : \/ calls'[n].op = "file"
                                    \/ calls'[n].op = "value" /\ First(n)'}
  BY DEF Parsing
<1>11. Parsing' = IF op = "file" \/ (op = "value" /\ Reading = {})
                  THEN Parsing \cup {N} ELSE Parsing
  BY <1>2, <1>3, <1>8, <1>9, <1>10 DEF Parsing
<1> QED
  BY <1>3, <1>4, <1>7, <1>8, <1>11

(* And so of the form that binders find.                                   *)
LEMMA Available ==
  ASSUME BindType, NEW op, NEW r, Calls(op, r)
  PROVE  /\ op \in {"none", "query", "form"} => (FormAvailable' <=> FormAvailable)
         /\ sent.kind = "urlencoded" =>
              (FormAvailable' <=> sent.fault # "unreadable" /\ Robbing' = {})
         /\ sent.kind = "multipart" =>
              (FormAvailable' <=>
                 \/ FormAvailable
                 \/ /\ sent.fault = "none" /\ Ops({"body"}) = {}
                    /\ op = "file" \/ (op = "value" /\ Reading = {}))
<1> DEFINE B == Ops({"body"})
<1>1. sent' = sent
  BY DEF Calls
<1>2. PICK N : N = Len(calls) + 1
  OBVIOUS
<1>3. /\ B' = IF op = "body" THEN B \cup {N} ELSE B
      /\ Robbing' = IF op = "body" /\ Reading = {} THEN B' ELSE Robbing
      /\ Parsing' = IF op = "file" \/ (op = "value" /\ Reading = {})
                    THEN Parsing \cup {N} ELSE Parsing
      /\ \A n \in Reading \cup B : n \in Nat /\ n < N
      /\ Parsing \subseteq Reading
  BY <1>2, Order DEF Parsing
<1>4. N \in Nat
  BY <1>2, OneMore
<1>5. CASE sent.kind = "urlencoded"
  BY <1>1, <1>3, <1>5 DEF FormAvailable
<1>6. CASE sent.kind = "multipart"
  <2>1. FormAvailable <=> (sent.fault = "none" /\ \E n \in Parsing : \A b \in B : n < b)
    BY <1>6 DEF FormAvailable
  <2>2. FormAvailable' <=> (sent.fault = "none" /\ \E n \in Parsing' : \A b \in B' : n < b)
    BY <1>1, <1>6 DEF FormAvailable
  <2> HIDE DEF B
  <2>3. CASE op = "body"
    <3>1. Parsing' = Parsing /\ B' = B \cup {N} /\ \A n \in Parsing : n < N
      BY <1>3, <2>3
    <3>2. FormAvailable' <=> FormAvailable
      BY <2>1, <2>2, <3>1
    <3> QED
      BY <1>6, <2>1, <2>3, <3>2
  <2>4. CASE op = "file" \/ (op = "value" /\ Reading = {})
    <3>1. Parsing' = Parsing \cup {N} /\ B' = B
      BY <1>3, <2>4
    <3>2. \A b \in B : ~(N < b)
      BY <1>3, <1>4
    <3>3. (\E n \in Parsing' : \A b \in B' : n < b)
            <=> ((\E n \in Parsing : \A b \in B : n < b) \/ B = {})
      BY <3>1, <3>2
    <3> QED
      BY <1>6, <2>1, <2>2, <2>4, <3>3 DEF B
  <2>5. CASE ~(op = "body" \/ op = "file" \/ (op = "value" /\ Reading = {}))
    <3>1. Parsing' = Parsing /\ B' = B
      BY <1>3, <2>5
    <3> QED
      BY <1>6, <2>1, <2>2, <2>5, <3>1 DEF B
  <2> QED
    BY <2>3, <2>4, <2>5
<1>7. CASE sent.kind \notin {"urlencoded", "multipart"}
  BY <1>1, <1>7 DEF FormAvailable
<1> QED
  BY <1>5, <1>6, <1>7

-----------------------------------------------------------------------------
(* The steps of Binding, as the request and the struct see them.           *)

(* A bind begins; it binds one field; it stops at one.                     *)
Starts(s) ==
  /\ source = "none" /\ source' = s /\ next' = 1 /\ result' = "none"
  /\ target' \in {Unset, target} /\ before' = target'
  /\ sent' = sent /\ calls' = calls

Fills ==
  /\ source # "none" /\ next =< Len(Fields)
  /\ Raw = Absent \/ Parses(Raw)
  /\ target' = IF Raw = Absent THEN target ELSE [target EXCEPT ![next] = Stored(Raw)]
  /\ next' = next + 1
  /\ UNCHANGED <<source, result, calls, sent, requestVars, before>>

Stops ==
  /\ source # "none" /\ next =< Len(Fields)
  /\ ~(Raw = Absent \/ Parses(Raw))
  /\ Returns(source, "field") /\ source' = "none"
  /\ UNCHANGED <<target, next, sent, requestVars, before>>

(* A call that is over at once.                                            *)
Asks(op, r) == source = "none" /\ Returns(op, r) /\ UNCHANGED <<sent, structVars>>

FormFault == ReadsForm /\ FormBroken

(* There are no other steps.                                               *)
LEMMA Steps ==
  ASSUME [Next]_vars
  PROVE  \/ UNCHANGED bindVars
         \/ Starts("query") /\ UNCHANGED requestVars
         \/ Starts("form") /\ ParseForm /\ ~FormFault
         \/ Fills \/ Stops \/ BindEnds
         \/ Asks("query", "target") /\ UNCHANGED requestVars
         \/ Asks("form", "target") /\ ParseForm /\ ~FormFault
         \/ Asks("form", "parse") /\ ParseForm /\ FormFault
         \/ Asks("none", "unsupported") /\ UNCHANGED requestVars
         \/ BindDocument
         \/ Asks("value", "nil") /\ hasForm /\ UNCHANGED requestVars
         \/ Asks("value", "nil") /\ ~hasForm /\ ParseMultipart
         \/ \E r \in {"nil", "parse"} : Asks("file", r) /\ ParseMultipart
<1>1. CASE BindQuery
  BY <1>1 DEF BindQuery, BindStruct, Idle, Starts, Asks
<1>2. CASE BindForm
  BY <1>2 DEF BindForm, BindStruct, Idle, Starts, Asks, FormFault
<1>3. CASE BindField
  BY <1>3 DEF BindField, Fills, Stops
<1>4. CASE BindUnsupported
  BY <1>4 DEF BindUnsupported, Idle, Asks
<1>5. CASE FormValue
  BY <1>5 DEF FormValue, Idle, Asks
<1>6. CASE FormFile
  BY <1>6 DEF FormFile, Idle, Asks
<1>7. CASE UNCHANGED bindVars
  BY <1>7
<1>8. CASE BindByName
  BY <1>2, <1>8 DEF BindByName
<1> QED
  BY <1>1, <1>2, <1>3, <1>4, <1>5, <1>6, <1>7, <1>8
  DEF Next, BindStep, OpenFile, vars

(* A call that is over at once is one call more.                           *)
LEMMA Asked ==
  ASSUME NEW op \in {"none", "query", "form", "value", "file"},
         NEW r \in {"nil", "target", "parse", "unsupported"},
         Asks(op, r)
  PROVE  Calls(op, r) /\ result' = r /\ UNCHANGED structVars /\ source = "none"
  BY DEF Asks, Returns, Calls, structVars, Ways, Results

-----------------------------------------------------------------------------
(* The types.                                                              *)

(* Where documents begin and end.                                          *)
LEMMA BeginsBefore ==
  ASSUME BindType, ~IsForm(sent), NEW d \in DOMAIN sent.ends
  PROVE  /\ sent.ends[d] \in Nat /\ Begins(d) \in Nat /\ Begins(d) < sent.ends[d]
         /\ \A c \in DOMAIN sent.ends : d =< c => sent.ends[d] =< sent.ends[c]
<1>1. /\ sent.ends \in Seq(Nat)
      /\ \A c \in DOMAIN sent.ends : sent.ends[c] \in 1 .. sent.length
      /\ \A b, c \in DOMAIN sent.ends : b < c => sent.ends[b] < sent.ends[c]
  BY Requested DEF Ordered
<1>2. d \in Nat \ {0} /\ (d # 1 => d - 1 \in DOMAIN sent.ends)
  BY <1>1
<1>3. \A c \in DOMAIN sent.ends : c \in Nat /\ sent.ends[c] \in Nat \ {0}
  BY <1>1
<1>4. Begins(d) \in Nat /\ Begins(d) < sent.ends[d]
  <2>1. CASE d = 1
    BY <1>3, <2>1 DEF Begins
  <2>2. CASE d # 1
    <3>1. d - 1 < d /\ sent.ends[d - 1] < sent.ends[d]
      BY <1>1, <1>2, <2>2
    <3> QED
      BY <1>2, <1>3, <2>2, <3>1 DEF Begins
  <2> QED
    BY <2>1, <2>2
<1>5. ASSUME NEW c \in DOMAIN sent.ends, d =< c PROVE sent.ends[d] =< sent.ends[c]
  <2>1. CASE d = c
    BY <1>3, <2>1
  <2>2. CASE d # c
    <3>1. d < c
      BY <1>2, <1>3, <1>5, <2>2
    <3> QED
      BY <1>1, <1>3, <3>1
  <2> QED
    BY <2>1, <2>2
<1> QED
  BY <1>3, <1>4, <1>5

(* The documents decoded end where the body says they do.                  *)
LEMMA EndsKnown ==
  ASSUME BindType
  PROVE  \A n \in DOMAIN decoded : sent.ends[decoded[n]] \in Nat
<1>1. decoded \in Seq(DOMAIN sent.ends) /\ sent.ends \in Seq(Nat)
  BY Requested DEF BindType
<1>2. \A n \in DOMAIN decoded : decoded[n] \in DOMAIN sent.ends
  BY <1>1
<1>3. \A d \in DOMAIN sent.ends : sent.ends[d] \in Nat
  BY <1>1
<1> QED
  BY <1>2, <1>3, Zenon

(* A decoder takes what is left or less.                                   *)
LEMMA TakesLess ==
  ASSUME BindType, NEW b
  PROVE  /\ Takes(b) \in Nat /\ Takes(b) =< left
         /\ left > 0 => Takes(b) > 0
<1>1. left \in Nat /\ MaxBytes \in Nat
  BY Requested
<1>2. Min({left, MaxBytes}) = IF left =< MaxBytes THEN left ELSE MaxBytes
  BY <1>1, MinOfTwo
<1> QED
  BY <1>1, <1>2 DEF Takes

(* What is left never grows.                                               *)
LEMMA LeftShrinks ==
  ASSUME BindType, ParseForm \/ ParseMultipart
  PROVE  /\ left' \in {0, left} /\ left' \in 0 .. sent.length
         /\ hasForm' \in BOOLEAN /\ hasFields' \in BOOLEAN /\ hasFiles' \in BOOLEAN
         /\ decoded' = decoded
<1>1. left \in Nat /\ sent.length \in Nat /\ left =< sent.length
  BY Requested
<1>2. hasForm \in BOOLEAN /\ hasFields \in BOOLEAN /\ hasFiles \in BOOLEAN
  BY DEF BindType
<1>3. CASE ParseForm
  BY <1>1, <1>2, <1>3 DEF ParseForm
<1>4. CASE ParseMultipart
  <2>1. PartsRead \in BOOLEAN
    BY DEF PartsRead
  <2>2. CASE hasFiles
    BY <1>1, <1>2, <1>4, <2>2 DEF ParseMultipart, requestVars
  <2>3. CASE ~hasFiles
    BY <1>1, <1>2, <1>4, <2>1, <2>3 DEF ParseMultipart
  <2> QED
    BY <2>2, <2>3
<1> QED
  BY <1>3, <1>4

(* What a decoder does: it takes some of the body and all of a form, and   *)
(* returns nil with a document that it finds or, when it can, with a part. *)
Documents == {"nil", "decode", "short"}

Document(r) ==
  /\ Calls("body", r) /\ result' = r /\ UNCHANGED structVars
  /\ source = "none" /\ UNCHANGED <<hasForm, hasFields, hasFiles>>
  /\ left' \in 0 .. left /\ (IsForm(sent) => left' = 0)
  /\ r = "nil" => \E b \in sent.names : \E d \in Found(b) :
                    decoded' = Append(decoded, d) /\ left' =< sent.length - sent.ends[d]
  /\ r # "nil" => decoded' = decoded
  /\ r = "short" => \E b \in sent.names : Partial(b)

LEMMA Documented ==
  ASSUME BindType, BindDocument
  PROVE  \E r \in Documents : Document(r)
<1>1. PICK b \in sent.names \ {"form"} :
        /\ Idle
        /\ \/ \E d \in Found(b) :
                /\ Returns("body", "nil") /\ decoded' = Append(decoded, d)
                /\ left' \in left - Takes(b) .. sent.length - sent.ends[d]
           \/ \E r \in {"decode"} \cup IF Partial(b) THEN {"short"} ELSE {} :
                /\ Returns("body", r) /\ UNCHANGED decoded
                /\ left' \in left - Takes(b) .. Max({0, left - 1})
        /\ UNCHANGED <<sent, hasForm, hasFields, hasFiles, structVars>>
  BY DEF BindDocument
<1>2. /\ left \in Nat /\ sent.length \in Nat /\ left =< sent.length
      /\ Takes(b) \in Nat /\ Takes(b) =< left
      /\ IsForm(sent) => left =< 1 /\ sent.ends = <<>>
  BY Requested, TakesLess
<1>3. ASSUME NEW r \in Documents, Returns("body", r)
      PROVE  /\ Calls("body", r) /\ result' = r /\ UNCHANGED structVars
             /\ source = "none" /\ UNCHANGED <<hasForm, hasFields, hasFiles>>
  BY <1>1, <1>3 DEF Calls, Returns, Ways, Results, Documents, Idle
<1>4. ASSUME NEW d \in Found(b), Returns("body", "nil"), decoded' = Append(decoded, d),
             left' \in left - Takes(b) .. sent.length - sent.ends[d]
      PROVE  Document("nil")
  <2>1. /\ d \in DOMAIN sent.ends /\ ~IsForm(sent)
        /\ sent.ends[d] \in 1 .. sent.length /\ Begins(d) = sent.length - left
        /\ sent.ends[d] =< sent.length - left + Takes(b)
    BY <1>2, <1>4, Requested DEF Found, Ordered, Position
  <2>2. Begins(d) < sent.ends[d]
    BY <2>1, BeginsBefore
  <2>3. left' \in 0 .. left
    BY <1>2, <1>4, <2>1, <2>2
  <2> QED
    BY <1>1, <1>3, <1>4, <2>1, <2>3 DEF Document, Documents
<1>5. ASSUME NEW r \in {"decode"} \cup IF Partial(b) THEN {"short"} ELSE {},
             Returns("body", r), decoded' = decoded,
             left' \in left - Takes(b) .. Max({0, left - 1})
      PROVE  r \in Documents /\ Document(r)
  <2>1. r \in Documents /\ r # "nil" /\ (r = "short" => Partial(b))
    <3>1. CASE Partial(b)
      BY <1>5, <3>1 DEF Documents
    <3>2. CASE ~Partial(b)
      BY <1>5, <3>2 DEF Documents
    <3> QED
      BY <3>1, <3>2
  <2>2. Max({0, left - 1}) = IF 0 =< left - 1 THEN left - 1 ELSE 0
    BY <1>2, MaxOfTwo
  <2>3. left' \in 0 .. left /\ (IsForm(sent) => left' = 0)
    BY <1>2, <1>5, <2>2
  <2> QED
    BY <1>1, <1>3, <1>5, <2>1, <2>3 DEF Document
<1> QED
  BY <1>1, <1>4, <1>5 DEF Documents

(* BindType is inductive.                                                  *)
LEMMA BindTypeStep == ASSUME BindType, [Next]_vars PROVE BindType'
<1> DEFINE Records == [op : Ways, result : Results]
<1>1. /\ sent \in Sent /\ left \in 0 .. sent.length /\ sent.length \in Nat
      /\ hasForm \in BOOLEAN /\ hasFields \in BOOLEAN /\ hasFiles \in BOOLEAN
      /\ target \in [DOMAIN Fields -> Held] /\ before \in [DOMAIN Fields -> Held]
      /\ source \in {"none", "query", "form"} /\ next \in 1 .. Len(Fields) + 1
      /\ result \in Results /\ calls \in Seq(Records)
      /\ decoded \in Seq(DOMAIN sent.ends)
  BY Requested DEF BindType
<1>2. Unset \in [DOMAIN Fields -> Held] /\ Len(Fields) \in Nat
  BY DEF Unset, Held
<1>3. ASSUME NEW s \in {"query", "form"}, Starts(s)
      PROVE  /\ sent' = sent /\ calls' \in Seq(Records) /\ result' \in Results
             /\ target' \in [DOMAIN Fields -> Held]
             /\ before' \in [DOMAIN Fields -> Held]
             /\ source' \in {"none", "query", "form"} /\ next' \in 1 .. Len(Fields) + 1
  BY <1>1, <1>2, <1>3 DEF Starts, Results
<1>4. ASSUME NEW op, NEW r, Calls(op, r), result' = r, UNCHANGED structVars
      PROVE  /\ sent' = sent /\ calls' \in Seq(Records) /\ result' \in Results
             /\ target' \in [DOMAIN Fields -> Held]
             /\ before' \in [DOMAIN Fields -> Held]
             /\ source' \in {"none", "query", "form"} /\ next' \in 1 .. Len(Fields) + 1
  <2>1. calls' \in Seq(Records)
    BY <1>4, OneMore
  <2>2. sent' = sent /\ r \in Results
    BY <1>4 DEF Calls
  <2> QED
    BY <1>1, <1>4, <2>1, <2>2 DEF structVars
<1>5. CASE UNCHANGED requestVars /\ Starts("query")
  BY <1>1, <1>3, <1>5 DEF BindType, requestVars
<1>6. CASE ParseForm /\ Starts("form")
  BY <1>1, <1>3, <1>6, LeftShrinks DEF BindType
<1>7. CASE Fills
  <2>1. target' \in [DOMAIN Fields -> Held]
    <3>1. CASE Raw = Absent
      BY <1>1, <1>7, <3>1 DEF Fills
    <3>2. CASE Raw # Absent
      <4>1. next \in DOMAIN Fields
        BY <1>1, <1>2, <1>7 DEF Fills
      <4>2. Raw \in Held
        BY <1>1, <1>7, Requested, <4>1 DEF Raw, Held
      <4>3. Stored(Raw) \in Held
        BY <1>1, <4>1, <4>2 DEF Stored, Held
      <4> QED
        BY <1>1, <1>7, <3>2, <4>1, <4>3 DEF Fills
    <3> QED
      BY <3>1, <3>2
  <2> QED
    BY <1>1, <1>2, <1>7, <2>1 DEF BindType, Fills, requestVars
<1>8. CASE Stops \/ BindEnds
  <2>1. PICK r \in {"field", "nil"} : Calls(source, r) /\ result' = r
    <3>1. source \in {"query", "form"}
      BY <1>1, <1>8 DEF Stops, BindEnds
    <3> QED
      BY <1>8, <3>1 DEF Stops, BindEnds, Returns, Calls, Ways, Results
  <2>2. calls' \in Seq(Records)
    BY <2>1, OneMore
  <2>3. result' \in Results
    BY <2>1 DEF Results
  <2>4. source' = "none" /\ UNCHANGED <<sent, requestVars, target, before, next>>
    BY <1>8 DEF Stops, BindEnds
  <2> HIDE DEF Records
  <2>5. /\ sent' \in Sent /\ left' \in 0 .. sent'.length
        /\ hasForm' \in BOOLEAN /\ hasFields' \in BOOLEAN /\ hasFiles' \in BOOLEAN
        /\ target' \in [DOMAIN Fields -> Held]
        /\ before' \in [DOMAIN Fields -> Held]
        /\ source' \in {"none", "query", "form"} /\ next' \in 1 .. Len(Fields) + 1
        /\ decoded' \in Seq(DOMAIN sent.ends')
    BY <1>1, <2>4 DEF requestVars
  <2> QED
    BY <2>2, <2>3, <2>5, Zenon DEF BindType, Records
<1>9. CASE BindDocument
  <2>1. PICK r \in Documents : Document(r)
    BY <1>9, Documented
  <2>2. decoded' \in Seq(DOMAIN sent.ends)
    <3>1. CASE r = "nil"
      <4>1. PICK d \in DOMAIN sent.ends : decoded' = Append(decoded, d)
        BY <2>1, <3>1 DEF Document, Found
      <4> QED
        BY <1>1, <4>1
    <3>2. CASE r # "nil"
      BY <1>1, <2>1, <3>2 DEF Document
    <3> QED
      BY <3>1, <3>2
  <2>3. /\ sent' = sent /\ calls' \in Seq(Records) /\ result' \in Results
        /\ target' \in [DOMAIN Fields -> Held] /\ before' \in [DOMAIN Fields -> Held]
        /\ source' \in {"none", "query", "form"} /\ next' \in 1 .. Len(Fields) + 1
    BY <1>4, <2>1 DEF Document
  <2>4. left' \in 0 .. sent.length /\ UNCHANGED <<hasForm, hasFields, hasFiles>>
    BY <1>1, <2>1 DEF Document
  <2> HIDE DEF Records
  <2> QED
    BY <1>1, <2>2, <2>3, <2>4 DEF BindType, Records
<1>10. ASSUME NEW op \in {"none", "query", "form", "value", "file"},
              NEW r \in {"nil", "target", "parse", "unsupported"},
              Asks(op, r),
              UNCHANGED requestVars \/ ParseForm \/ ParseMultipart
       PROVE  BindType'
  <2>1. Calls(op, r) /\ result' = r /\ UNCHANGED structVars
    BY <1>10, Asked
  <2>2. /\ left' \in 0 .. sent.length
        /\ hasForm' \in BOOLEAN /\ hasFields' \in BOOLEAN /\ hasFiles' \in BOOLEAN
        /\ decoded' = decoded
    BY <1>1, <1>10, LeftShrinks DEF requestVars
  <2> QED
    BY <1>1, <1>4, <2>1, <2>2 DEF BindType
<1>11. CASE UNCHANGED bindVars
  BY <1>1, <1>11 DEF BindType, bindVars, requestVars, structVars
<1> HIDE DEF Records
<1> QED
  BY <1>5, <1>6, <1>7, <1>8, <1>9, <1>10, <1>11, Steps

-----------------------------------------------------------------------------
(* What the request holds.                                                 *)

(* How the readers and the form they make available hang together.         *)
LEMMA Readers ==
  /\ Reading = {} => Robbing = Ops({"body"}) /\ Parsing = {}
  /\ Robbing \subseteq Ops({"body"})
  /\ sent.kind = "urlencoded" =>
       (FormAvailable <=> sent.fault # "unreadable" /\ Robbing = {})
  /\ sent.kind = "multipart" =>
       /\ FormAvailable => sent.fault = "none" /\ Parsing # {}
       /\ sent.fault = "none" /\ Ops({"body"}) = {} /\ Parsing # {} => FormAvailable
  /\ ~IsForm(sent) => ~FormAvailable
<1>1. Reading = {} => Robbing = Ops({"body"}) /\ Parsing = {}
  BY DEF Robbing, Parsing
<1>2. Robbing \subseteq Ops({"body"})
  BY DEF Robbing
<1>3. CASE sent.kind = "urlencoded"
  BY <1>1, <1>2, <1>3 DEF FormAvailable, IsForm
<1>4. CASE sent.kind = "multipart"
  BY <1>1, <1>2, <1>4 DEF FormAvailable, IsForm
<1>5. CASE sent.kind \notin {"urlencoded", "multipart"}
  BY <1>1, <1>2, <1>5 DEF FormAvailable, IsForm
<1> QED
  BY <1>3, <1>4, <1>5

(* A step that does not read the request, nor need it be read.             *)
LEMMA FormKept ==
  ASSUME BindType, FormOK, UNCHANGED requestVars, sent' = sent,
         Looked' <=> Looked, Ops({"body"})' = Ops({"body"}),
         (Parsing # {})' <=> (Parsing # {}),
         FormAvailable' <=> FormAvailable
  PROVE  FormOK'
  BY DEF FormOK, IsForm, requestVars

(* ParseForm reads an encoded form and nothing else.                       *)
LEMMA FormParsed ==
  ASSUME BindType, FormOK, ParseForm, source = "none", sent' = sent,
         Looked', Ops({"body"})' = Ops({"body"}), Parsing' = Parsing,
         FormAvailable' <=> FormAvailable
  PROVE  FormOK'
<1>1. /\ hasForm' = TRUE
      /\ hasFields' = (hasFields \/ FormRead)
      /\ left' = IF ReadsForm THEN 0 ELSE left
      /\ hasFiles' = hasFiles
  BY DEF ParseForm
<1>2. (Looked <=> Reading # {}) /\ Looked'
  BY DEF Looked
<1>3. CASE sent.kind = "urlencoded"
  BY <1>1, <1>2, <1>3, Readers DEF FormOK, ReadsForm, FormRead, Consumed, IsForm
<1>4. CASE sent.kind = "multipart"
  BY <1>1, <1>2, <1>4, Readers DEF FormOK, ReadsForm, FormRead, Consumed, IsForm
<1>5. CASE ~IsForm(sent)
  BY <1>1, <1>2, <1>5, Readers DEF FormOK, ReadsForm, FormRead, Consumed, IsForm
<1> QED
  BY <1>3, <1>4, <1>5 DEF IsForm

(* ParseMultipartForm reads any form.                                      *)
LEMMA PartsParsed ==
  ASSUME BindType, FormOK, ParseMultipart, source = "none", sent' = sent,
         Looked', Ops({"body"})' = Ops({"body"}), Parsing' # {},
         sent.kind = "urlencoded" => (FormAvailable' <=> FormAvailable),
         sent.kind = "multipart" =>
           (FormAvailable' <=> \/ FormAvailable
                               \/ sent.fault = "none" /\ Ops({"body"}) = {})
  PROVE  FormOK'
<1>1. CASE hasFiles
  <2>1. UNCHANGED requestVars /\ sent.kind = "multipart" /\ FormAvailable
    BY <1>1 DEF ParseMultipart, FormOK
  <2>2. Looked
    BY <2>1, Readers DEF Looked
  <2> QED
    BY <1>1, <2>1, <2>2, Readers DEF FormOK, IsForm, requestVars
<1>2. CASE ~hasFiles
  <2>1. /\ hasForm' = TRUE
        /\ hasFields' = (hasFields \/ FormRead \/ PartsRead)
        /\ left' = IF ReadsForm \/ sent.kind = "multipart" THEN 0 ELSE left
        /\ hasFiles' = PartsRead
    BY <1>2 DEF ParseMultipart
  <2>2. (Looked <=> Reading # {}) /\ Looked'
    BY DEF Looked
  <2>3. CASE sent.kind = "urlencoded"
    BY <1>2, <2>1, <2>2, <2>3, Readers
    DEF FormOK, ReadsForm, FormRead, PartsRead, Consumed, IsForm
  <2>4. CASE sent.kind = "multipart"
    BY <1>2, <2>1, <2>2, <2>4, Readers
    DEF FormOK, ReadsForm, FormRead, PartsRead, Consumed, IsForm
  <2>5. CASE ~IsForm(sent)
    BY <1>2, <2>1, <2>2, <2>5, Readers
    DEF FormOK, ReadsForm, FormRead, PartsRead, Consumed, IsForm
  <2> QED
    BY <2>3, <2>4, <2>5 DEF IsForm
<1> QED
  BY <1>1, <1>2

(* A decoder takes all of a form, which is shorter than any limit.         *)
LEMMA FormDecoded ==
  ASSUME BindType, FormOK, BindDocument
  PROVE  FormOK'
<1>1. PICK r \in Documents : Document(r)
  BY Documented
<1>2. /\ source = "none" /\ source' = "none" /\ sent' = sent
      /\ UNCHANGED <<hasForm, hasFields, hasFiles>>
  BY <1>1 DEF Document, Calls, structVars
<1>3. Calls("body", r) /\ left' \in 0 .. left
  BY <1>1 DEF Document
<1>4. /\ Reading' = Reading /\ Parsing' = Parsing
      /\ Ops({"body"})' = Ops({"body"}) \cup {Len(calls) + 1}
      /\ Robbing' = IF Reading = {} THEN Ops({"body"})' ELSE Robbing
  BY <1>3, Order
<1>5. /\ sent.kind = "urlencoded" =>
           (FormAvailable' <=> sent.fault # "unreadable" /\ Robbing' = {})
      /\ sent.kind = "multipart" => (FormAvailable' <=> FormAvailable)
  BY <1>3, Available, Readers
<1>6. IsForm(sent) => left' = 0
  BY <1>1 DEF Document
<1>7. (Looked <=> Reading # {}) /\ (Looked' <=> Looked) /\ Ops({"body"})' # {}
  BY <1>2, <1>4 DEF Looked
<1>8. CASE sent.kind = "urlencoded"
  BY <1>2, <1>4, <1>5, <1>6, <1>7, <1>8, Readers DEF FormOK, IsForm
<1>9. CASE sent.kind = "multipart"
  BY <1>2, <1>4, <1>5, <1>6, <1>7, <1>9, Readers DEF FormOK, IsForm
<1>10. CASE ~IsForm(sent)
  BY <1>2, <1>7, <1>10 DEF FormOK, IsForm
<1> QED
  BY <1>8, <1>9, <1>10 DEF IsForm

(* FormOK is inductive.                                                    *)
LEMMA FormStep == ASSUME BindType, FormOK, [Next]_vars PROVE FormOK'
<1>1. CASE UNCHANGED bindVars
  BY <1>1 DEF FormOK, Looked, Reading, Parsing, First, Ops, FormAvailable, Robbing,
     IsForm, bindVars, requestVars, structVars
<1>2. ASSUME calls' = calls, sent' = sent
      PROVE  /\ Reading' = Reading /\ Ops({"body"})' = Ops({"body"})
             /\ Parsing' = Parsing /\ (FormAvailable' <=> FormAvailable)
  BY <1>2 DEF Reading, Parsing, First, Ops, FormAvailable, Robbing
<1>3. CASE Fills \/ (Starts("query") /\ UNCHANGED requestVars)
  <2>1. /\ calls' = calls /\ sent' = sent /\ UNCHANGED requestVars
        /\ source' = "form" <=> source = "form"
    BY <1>3 DEF Fills, Starts
  <2>2. Looked' <=> Looked
    BY <1>2, <2>1 DEF Looked
  <2> QED
    BY <1>2, <2>1, <2>2, FormKept
<1>4. CASE Starts("form") /\ ParseForm
  <2>1. calls' = calls /\ sent' = sent /\ source = "none" /\ Looked'
    BY <1>4 DEF Starts, Looked
  <2> QED
    BY <1>2, <1>4, <2>1, FormParsed
<1>5. CASE Stops \/ BindEnds
  <2>1. PICK r : Calls(source, r) /\ UNCHANGED requestVars
    <3>1. source \in {"query", "form"}
      BY <1>5 DEF BindType, Stops, BindEnds
    <3> QED
      BY <1>5, <3>1 DEF Stops, BindEnds, Returns, Calls, Ways, Results
  <2>2. source \in {"query", "form"} /\ source' = "none"
    BY <1>5 DEF BindType, Stops, BindEnds
  <2>3. /\ Ops({"body"})' = Ops({"body"}) /\ Parsing' = Parsing
        /\ FormAvailable' <=> FormAvailable
    BY <2>1, <2>2, Order, Available
  <2>4. Reading' = IF source = "form" THEN Reading \cup {Len(calls) + 1} ELSE Reading
    BY <2>1, <2>2, Order
  <2>5. Looked' <=> Looked
    BY <2>2, <2>4 DEF Looked
  <2> QED
    BY <2>1, <2>3, <2>5, FormKept DEF Calls
<1>6. CASE BindDocument
  BY <1>6, FormDecoded
<1>7. ASSUME NEW op \in {"none", "query", "form", "value", "file"},
             NEW r \in {"nil", "target", "parse", "unsupported"}, Asks(op, r)
      PROVE  /\ Calls(op, r) /\ sent' = sent /\ source = "none" /\ source' = "none"
             /\ Reading' = IF op \in {"form", "value", "file"}
                           THEN Reading \cup {Len(calls) + 1} ELSE Reading
             /\ Ops({"body"})' = Ops({"body"})
             /\ Parsing' = IF op = "file" \/ (op = "value" /\ Reading = {})
                           THEN Parsing \cup {Len(calls) + 1} ELSE Parsing
             /\ Looked' <=> Looked \/ op \in {"form", "value", "file"}
  <2>1. /\ Calls(op, r) /\ sent' = sent /\ source = "none" /\ source' = "none"
    BY <1>7, Asked DEF Calls, structVars
  <2>2. /\ Reading' = IF op \in {"form", "value", "file"}
                      THEN Reading \cup {Len(calls) + 1} ELSE Reading
        /\ Ops({"body"})' = Ops({"body"})
        /\ Parsing' = IF op = "file" \/ (op = "value" /\ Reading = {})
                      THEN Parsing \cup {Len(calls) + 1} ELSE Parsing
    BY <2>1, Order
  <2>3. Looked' <=> Looked \/ op \in {"form", "value", "file"}
    BY <2>1, <2>2 DEF Looked
  <2> QED
    BY <2>1, <2>2, <2>3
<1>8. ASSUME NEW op \in {"none", "query"}, NEW r \in {"target", "unsupported"},
             Asks(op, r), UNCHANGED requestVars
      PROVE  FormOK'
  BY <1>7, <1>8, Available, FormKept
<1>9. ASSUME NEW r \in {"target", "parse"}, Asks("form", r), ParseForm
      PROVE  FormOK'
  BY <1>7, <1>9, Available, FormParsed
<1>10. CASE Asks("value", "nil") /\ hasForm /\ UNCHANGED requestVars
  <2>1. Looked /\ Reading # {}
    BY <1>7, <1>10 DEF FormOK, Looked
  <2>2. FormAvailable' <=> FormAvailable
    <3>1. CASE IsForm(sent)
      BY <1>7, <1>10, <2>1, <3>1, Available, Order, Readers DEF IsForm
    <3>2. CASE ~IsForm(sent)
      BY <1>7, <1>10, <3>2 DEF FormAvailable, IsForm
    <3> QED
      BY <3>1, <3>2
  <2> QED
    BY <1>7, <1>10, <2>1, <2>2, FormKept
<1>11. CASE Asks("value", "nil") /\ ~hasForm /\ ParseMultipart
  <2>1. Reading = {}
    BY <1>11 DEF FormOK, Looked
  <2>2. /\ sent.kind = "urlencoded" => (FormAvailable' <=> FormAvailable)
        /\ sent.kind = "multipart" =>
             (FormAvailable' <=> \/ FormAvailable
                                 \/ sent.fault = "none" /\ Ops({"body"}) = {})
    <3>1. Calls("value", "nil") /\ (sent.kind = "urlencoded" => (Robbing' = Robbing))
      BY <1>7, <1>11, Order
    <3> QED
      BY <2>1, <3>1, Available, Readers
  <2> QED
    BY <1>7, <1>11, <2>1, <2>2, PartsParsed
<1>12. ASSUME NEW r \in {"nil", "parse"}, Asks("file", r), ParseMultipart
       PROVE  FormOK'
  <2>1. /\ sent.kind = "urlencoded" => (FormAvailable' <=> FormAvailable)
        /\ sent.kind = "multipart" =>
             (FormAvailable' <=> \/ FormAvailable
                                 \/ sent.fault = "none" /\ Ops({"body"}) = {})
    <3>1. Calls("file", r) /\ (sent.kind = "urlencoded" => (Robbing' = Robbing))
      BY <1>7, <1>12, Order
    <3> QED
      BY <3>1, Available, Readers
  <2> QED
    BY <1>7, <1>12, <2>1, PartsParsed
<1> QED
  BY <1>1, <1>3, <1>4, <1>5, <1>6, <1>8, <1>9, <1>10, <1>11, <1>12, Steps

-----------------------------------------------------------------------------
(* What is bound.                                                          *)

(* While a form is bound, what the binder finds is what is available.      *)
LEMMA RawIsValue ==
  ASSUME BindType, FormOK, source # "none"
  PROVE  Raw = Value(source, next)
<1>1. source \in {"query", "form"}
  BY DEF BindType
<1>2. source = "form" => (hasFields <=> FormAvailable)
  BY Readers DEF FormOK, Looked, IsForm
<1> QED
  BY <1>1, <1>2 DEF Raw, Value

(* What a field takes depends on the calls only as far as the form does.   *)
LEMMA BoundKept ==
  ASSUME NEW op, NEW i, sent' = sent, before' = before, target'[i] = target[i],
         op # "query" => (FormAvailable' <=> FormAvailable)
  PROVE  /\ Bound(op, i)' <=> Bound(op, i)
         /\ Fails(op, i)' <=> Fails(op, i)
<1>1. Value(op, i)' = Value(op, i)
  BY DEF Value
<1>2. Fails(op, i)' <=> Fails(op, i)
  BY <1>1 DEF Fails, Known
<1>3. Took(op, i)' <=> Took(op, i)
  BY <1>1 DEF Took, Known
<1> QED
  BY <1>2, <1>3 DEF Bound

(* FillingOK is inductive.                                                 *)
LEMMA FillingStep ==
  ASSUME BindType, FormOK, FillingOK, [Next]_vars
  PROVE  FillingOK'
<1>1. ASSUME calls' = calls, sent' = sent
      PROVE  /\ Reading' = Reading /\ Robbing' = Robbing
             /\ FormAvailable' <=> FormAvailable
  BY <1>1 DEF Reading, Parsing, First, Ops, FormAvailable, Robbing
<1>2. CASE source' = "none"
  BY <1>2 DEF FillingOK
<1>3. ASSUME NEW s \in {"query", "form"}, Starts(s), s = "form" => ~FormFault
      PROVE  FillingOK'
  <2>1. /\ calls' = calls /\ sent' = sent /\ source = "none" /\ source' = s
        /\ next' = 1 /\ before' = target'
    BY <1>3 DEF Starts
  <2>2. s = "form" /\ Reading = {} /\ sent.kind = "urlencoded" =>
          sent.fault = "none" \/ (sent.fault = "malformed" /\ Robbing # {})
    <3>1. SUFFICES ASSUME s = "form", Reading = {}, sent.kind = "urlencoded"
                   PROVE  sent.fault = "none" \/ (sent.fault = "malformed" /\ Robbing # {})
      OBVIOUS
    <3>2. ~Looked /\ ~hasForm /\ (left = 0 <=> Robbing # {})
      BY <2>1, <3>1, Readers DEF FormOK, Looked
    <3>3. ~FormBroken
      BY <1>3, <3>1, <3>2 DEF FormFault, ReadsForm
    <3> QED
      BY <3>2, <3>3, Requested DEF FormBroken, Consumed
  <2>3. \A i \in DOMAIN Fields : ~(i < 1)
    OBVIOUS
  <2> QED
    BY <1>1, <2>1, <2>2, <2>3 DEF FillingOK
<1>4. CASE Fills
  <2>0. PICK op, n : op = source /\ n = next
    OBVIOUS
  <2>1. /\ calls' = calls /\ sent' = sent /\ source' = op /\ op # "none"
        /\ before' = before /\ next' = n + 1 /\ n \in DOMAIN Fields
        /\ n \in Nat /\ (FormAvailable' <=> FormAvailable)
    BY <1>1, <1>4, <2>0 DEF Fills, BindType
  <2>2. Raw = Value(op, n)
    BY <2>0, <2>1, RawIsValue
  <2>3. \A i \in DOMAIN Fields : i # n => target'[i] = target[i]
    BY <1>4, <2>0 DEF Fills, BindType
  <2>4. target'[n] = IF Raw = Absent THEN target[n] ELSE Stored(Raw)
    BY <1>4, <2>0, <2>1 DEF Fills, BindType
  <2>5. target[n] = before[n]
    BY <2>0, <2>1 DEF FillingOK
  <2>6. Bound(op, n)'
    <3>1. Value(op, n)' = Value(op, n)
      BY <2>1 DEF Value
    <3>2. ~Fails(op, n)
      BY <1>4, <2>0, <2>2 DEF Fills, Fails, Parses
    <3>3. target'[n] = IF Value(op, n) = Absent THEN before[n]
                       ELSE IF Known(n) THEN Value(op, n)
                       ELSE IF Fields[n].pointer THEN "zero" ELSE before[n]
      BY <2>0, <2>2, <2>4, <2>5 DEF Stored
    <3> QED
      BY <2>1, <3>1, <3>2, <3>3 DEF Bound, Took, Fails, Known
  <2>7. ASSUME NEW i \in DOMAIN Fields
        PROVE  IF i < n + 1 THEN Bound(op, i)' ELSE target'[i] = before'[i]
    <3>1. CASE i < n
      <4>1. Bound(op, i) /\ target'[i] = target[i]
        BY <2>0, <2>1, <2>3, <3>1 DEF FillingOK
      <4>2. Bound(op, i)'
        BY <2>1, <4>1, BoundKept
      <4> QED
        BY <2>1, <3>1, <4>2
    <3>2. CASE i = n
      BY <2>1, <2>6, <3>2
    <3>3. CASE i > n
      BY <2>0, <2>1, <2>3, <3>3 DEF FillingOK
    <3> QED
      BY <2>1, <3>1, <3>2, <3>3
  <2>8. source' = "form" /\ Reading' = {} /\ sent'.kind = "urlencoded" =>
          sent'.fault = "none" \/ (sent'.fault = "malformed" /\ Robbing' # {})
    BY <1>1, <2>0, <2>1 DEF FillingOK
  <2> QED
    BY <2>1, <2>7, <2>8 DEF FillingOK
<1>5. CASE UNCHANGED bindVars
  BY <1>5 DEF FillingOK, Reading, Parsing, First, Ops, FormAvailable, Robbing,
     Bound, Took, Fails, Value, Known, bindVars, requestVars, structVars
<1> QED
  BY <1>2, <1>3, <1>4, <1>5, Steps
  DEF Stops, BindEnds, Asks, BindDocument, Idle, structVars

(* So BoundAsSent holds when a bind ends, and until the next call.         *)
LEMMA BoundStep ==
  ASSUME BindType, FormOK, FillingOK, BoundAsSent, [Next]_vars
  PROVE  BoundAsSent'
<1>1. ASSUME NEW op, NEW r, Calls(op, r)
      PROVE  Last'.op = op /\ Last'.result = r
  BY <1>1, OneMore DEF Last
<1>2. CASE source' # "none"
  BY <1>2 DEF BoundAsSent
<1>3. CASE Stops \/ BindEnds
  <2>0. PICK op, k : op = source /\ k = next
    OBVIOUS
  <2>1. /\ source' = "none" /\ UNCHANGED <<sent, target, before>>
        /\ op \in {"query", "form"}
    BY <1>3, <2>0 DEF Stops, BindEnds, BindType
  <2>2. PICK r \in {"field", "nil"} :
             /\ Calls(op, r) /\ result' = r
             /\ r = "field" => Stops
             /\ r = "nil" => BindEnds
    BY <1>3, <2>0, <2>1 DEF Stops, BindEnds, Returns, Calls, Ways, Results
  <2>3. Last'.op = op
    BY <1>1, <2>2
  <2>4. FormAvailable' <=> FormAvailable
    BY <2>1, <2>2, Available
  <2>5. \A i \in DOMAIN Fields : /\ Bound(op, i)' <=> Bound(op, i)
                                 /\ Fails(op, i)' <=> Fails(op, i)
    BY <2>1, <2>4, BoundKept
  <2>6. \A i \in DOMAIN Fields :
          IF i < k THEN Bound(op, i) ELSE target[i] = before[i]
    BY <2>0, <2>1 DEF FillingOK
  <2>7. ASSUME r = "nil" PROVE \A i \in DOMAIN Fields : Bound(op, i)'
    <3>1. \A i \in DOMAIN Fields : i < k
      BY <2>0, <2>2, <2>7 DEF BindEnds, BindType
    <3> QED
      BY <2>5, <2>6, <3>1
  <2>8. ASSUME r = "field"
        PROVE  \E n \in DOMAIN Fields :
                 /\ Fails(op, n)'
                 /\ \A i \in DOMAIN Fields :
                      IF i < n THEN Bound(op, i)' ELSE target'[i] = before'[i]
    <3>1. k \in DOMAIN Fields /\ Fails(op, k)
      BY <2>0, <2>2, <2>8, RawIsValue DEF Stops, BindType, Fails, Parses
    <3>2. \A i \in DOMAIN Fields :
            IF i < k THEN Bound(op, i)' ELSE target'[i] = before'[i]
      BY <2>1, <2>5, <2>6
    <3> QED
      BY <2>5, <3>1, <3>2
  <2> QED
    BY <2>2, <2>3, <2>7, <2>8 DEF BoundAsSent
<1>4. ASSUME NEW op \in {"none", "query", "form", "value", "file"},
             NEW r \in {"nil", "target", "parse", "unsupported"}, Asks(op, r),
             r # "nil" \/ op \in {"value", "file"}
      PROVE  BoundAsSent'
  <2>1. Calls(op, r) /\ result' = r
    BY <1>4, Asked
  <2>2. Last'.op = op
    BY <1>1, <2>1
  <2> QED
    BY <1>4, <2>1, <2>2 DEF BoundAsSent
<1>5. CASE BindDocument
  <2>1. PICK r : Calls("body", r)
    BY <1>5, Documented DEF Document
  <2>2. Last'.op = "body"
    BY <1>1, <2>1
  <2> QED
    BY <2>2 DEF BoundAsSent
<1>6. CASE UNCHANGED bindVars
  <2>1. UNCHANGED <<sent, calls, target, before, source, result>>
    BY <1>6 DEF bindVars, requestVars, structVars
  <2>2. FormAvailable' <=> FormAvailable
    BY <2>1 DEF Reading, Parsing, First, Ops, FormAvailable, Robbing
  <2>3. Last' = Last
    BY <2>1 DEF Last
  <2>4. \A i \in DOMAIN Fields :
          /\ Bound(Last.op, i)' <=> Bound(Last.op, i)
          /\ Fails(Last.op, i)' <=> Fails(Last.op, i)
    BY <2>1, <2>2, <2>3 DEF Bound, Took, Fails, Value, Known
  <2> QED
    BY <2>1, <2>3, <2>4 DEF BoundAsSent
<1>7. CASE \E s \in {"query", "form"} : Starts(s)
  BY <1>2, <1>7 DEF Starts
<1>8. CASE Fills
  BY <1>2, <1>8 DEF Fills
<1> QED
  BY <1>3, <1>4, <1>5, <1>6, <1>7, <1>8, Steps

-----------------------------------------------------------------------------
(* Faults of forms.                                                        *)

(* A fault is reported by the first call that looks at the form.           *)
LEMMA FaultStep ==
  ASSUME BindType, FormOK, FillingOK, FaultReportedOnce, [Next]_vars
  PROVE  FaultReportedOnce'
<1> SUFFICES ASSUME sent.kind = "urlencoded", sent.fault # "none", sent' = sent
             PROVE  \A n \in Ops({"form"})' : calls'[n].result = "parse" <=> Reported(n)'
  <2>1. sent' = sent
    BY Steps DEF Starts, Fills, Stops, BindEnds, Asks, BindDocument, bindVars
  <2> QED
    BY <2>1 DEF FaultReportedOnce
<1>1. \A n \in Ops({"form"}) : calls[n].result = "parse" <=> Reported(n)
  BY DEF FaultReportedOnce
<1>2. ASSUME calls' = calls
      PROVE  \A n \in Ops({"form"})' : calls'[n].result = "parse" <=> Reported(n)'
  BY <1>1, <1>2 DEF Ops, Reported, First, Robbing, Reading
<1>3. ASSUME NEW op, NEW r, Calls(op, r),
             op = "form" => (r = "parse" <=> /\ Reading = {}
                                             /\ sent.fault = "unreadable" \/ Robbing = {})
      PROVE  \A n \in Ops({"form"})' : calls'[n].result = "parse" <=> Reported(n)'
  <2>1. PICK N : N = Len(calls) + 1
    OBVIOUS
  <2>2. /\ \A n \in Reading : First(n)' <=> First(n)
        /\ First(N)' <=> op \in {"form", "value", "file"} /\ Reading = {}
        /\ Robbing' = IF op = "body" /\ Reading = {} THEN Ops({"body"})' ELSE Robbing
    BY <1>3, <2>1, Order
  <2>3. Ops({"form"})' = IF op = "form" THEN Ops({"form"}) \cup {N} ELSE Ops({"form"})
    <3>1. PICK K : K = {"form"}
      OBVIOUS
    <3>2. Ops(K)' = IF op \in K THEN Ops(K) \cup {N} ELSE Ops(K)
      BY <1>3, <2>1, OpsMore
    <3> QED
      BY <3>1, <3>2
  <2>4. \A n \in Ops({"form"}) : n \in Reading /\ calls'[n] = calls[n]
    BY <1>3, OneMore DEF Reading, Ops
  <2>5. calls'[N].result = r
    BY <1>3, <2>1, OneMore
  <2>6. \A n \in Ops({"form"}) : calls'[n].result = "parse" <=> Reported(n)'
    BY <1>1, <2>2, <2>4 DEF Reported
  <2>7. op = "form" => (calls'[N].result = "parse" <=> Reported(N)')
    BY <1>3, <2>2, <2>5 DEF Reported
  <2> QED
    BY <2>3, <2>6, <2>7
<1>4. CASE Stops \/ BindEnds
  <2>1. PICK r \in {"field", "nil"} : Calls(source, r)
    <3>1. source \in {"query", "form"}
      BY <1>4 DEF Stops, BindEnds, BindType
    <3> QED
      BY <1>4, <3>1 DEF Stops, BindEnds, Returns, Calls, Ways, Results
  <2>2. source = "form" =>
          ~(Reading = {} /\ (sent.fault = "unreadable" \/ Robbing = {}))
    BY DEF FillingOK
  <2> QED
    BY <1>3, <2>1, <2>2
<1>5. ASSUME NEW r \in {"target", "parse"}, Asks("form", r), ParseForm,
             r = "parse" <=> FormFault
      PROVE  \A n \in Ops({"form"})' : calls'[n].result = "parse" <=> Reported(n)'
  <2>1. Calls("form", r) /\ source = "none"
    BY <1>5, Asked
  <2>2. ReadsForm <=> Reading = {}
    BY <2>1 DEF ReadsForm, FormOK, Looked
  <2>3. Reading = {} => (Consumed <=> Robbing # {})
    BY <2>1, Readers DEF Consumed, FormOK, Looked
  <2>4. sent.fault \in {"malformed", "unreadable"}
    BY Requested
  <2> QED
    BY <1>3, <1>5, <2>1, <2>2, <2>3, <2>4 DEF FormFault, FormBroken
<1>6. ASSUME NEW op \in {"none", "query", "value", "file"},
             NEW r \in {"nil", "target", "parse", "unsupported"}, Asks(op, r)
      PROVE  \A n \in Ops({"form"})' : calls'[n].result = "parse" <=> Reported(n)'
  BY <1>3, <1>6, Asked
<1>7. CASE BindDocument
  <2>1. PICK r : Calls("body", r)
    BY <1>7, Documented DEF Document
  <2> QED
    BY <1>3, <2>1
<1>8. CASE UNCHANGED bindVars
  BY <1>2, <1>8 DEF bindVars
<1>9. CASE Fills \/ Starts("query") \/ Starts("form")
  BY <1>2, <1>9 DEF Fills, Starts
<1> QED
  BY <1>4, <1>5, <1>6, <1>7, <1>8, <1>9, Steps

-----------------------------------------------------------------------------
(* Documents.                                                              *)

(* How many there are.                                                     *)
LEMMA FinitelyMany == ASSUME BindType PROVE IsFiniteSet(Ops({"body"}))
<1>1. Ops({"body"}) \subseteq 1 .. Len(calls) /\ Len(calls) \in Nat
  BY DEF Ops, BindType
<1>2. IsFiniteSet(1 .. Len(calls))
  BY <1>1, FS_Interval
<1> QED
  BY <1>1, <1>2, FS_Subset

(* How the calls that take the body become more.                           *)
LEMMA BodiesMore ==
  ASSUME BindType, NEW op, NEW r, Calls(op, r)
  PROVE  /\ Ops({"body"})' = IF op = "body" THEN Ops({"body"}) \cup {Len(calls) + 1}
                                            ELSE Ops({"body"})
         /\ Len(calls) + 1 \notin Ops({"body"})
<1>1. PICK K : K = {"body"}
  OBVIOUS
<1>2. /\ Ops(K)' = IF op \in K THEN Ops(K) \cup {Len(calls) + 1} ELSE Ops(K)
      /\ \A n \in Ops(K) : n \in Nat /\ n < Len(calls) + 1
  BY OpsMore
<1>3. Len(calls) \in Nat
  BY DEF BindType
<1> QED
  BY <1>1, <1>2, <1>3

(* The document that is decoded lies behind those before it.               *)
LEMMA Behind ==
  ASSUME BindType, DecodedOK, NEW b, NEW d \in Found(b), NEW n \in DOMAIN decoded
  PROVE  decoded[n] < d
<1>1. /\ d \in DOMAIN sent.ends /\ Begins(d) = Position
      /\ decoded[n] \in DOMAIN sent.ends /\ sent.ends[decoded[n]] =< Position
      /\ ~IsForm(sent)
  BY Requested DEF Found, DecodedOK, BindType
<1>2. /\ sent.ends[d] \in Nat /\ Begins(d) \in Nat /\ Begins(d) < sent.ends[d]
      /\ sent.ends[decoded[n]] \in Nat
      /\ d =< decoded[n] => sent.ends[d] =< sent.ends[decoded[n]]
  BY <1>1, BeginsBefore
<1>3. d \in Nat /\ decoded[n] \in Nat
  BY <1>1, Requested
<1> QED
  BY <1>1, <1>2, <1>3

(* Documents are decoded in order and whole.                               *)
LEMMA DocumentStep ==
  ASSUME BindType, FormOK, DecodedOK, DecodedWhole, [Next]_vars
  PROVE  DecodedOK' /\ DecodedWhole'
<1>1. ASSUME decoded' = decoded, Ops({"body"})' = Ops({"body"}), sent' = sent,
             left' \in {0, left}, result' \in {result, "none", "nil", "field",
                                               "unsupported", "target", "parse"}
      PROVE  DecodedOK' /\ DecodedWhole'
  <2>1. left' =< left /\ left \in Nat /\ left' \in Nat /\ sent.length \in Nat
    BY <1>1, Requested
  <2>2. \A n \in DOMAIN decoded : sent.ends[decoded[n]] \in Nat
    <3>1. decoded \in Seq(DOMAIN sent.ends) /\ sent.ends \in Seq(Nat)
      BY Requested DEF BindType
    <3> QED
      BY <3>1
  <2>3. DecodedOK'
    <3>1. sent.length - left =< sent.length - left'
      BY <2>1
    <3>2. \A n \in DOMAIN decoded : sent.ends[decoded[n]] =< sent.length - left
      BY DEF DecodedOK, Position
    <3>3. \A n \in DOMAIN decoded : sent.ends[decoded[n]] =< sent.length - left'
      BY <2>1, <2>2, <3>1, <3>2
    <3> QED
      BY <1>1, <3>3 DEF DecodedOK, Position
  <2>4. DecodedWhole'
    BY <1>1 DEF DecodedWhole, Length, Begins
  <2> QED
    BY <2>3, <2>4
<1>2. ASSUME calls' = calls PROVE Ops({"body"})' = Ops({"body"})
  BY <1>2 DEF Ops
<1>3. CASE UNCHANGED bindVars
  BY <1>1, <1>2, <1>3 DEF bindVars, requestVars, structVars
<1>4. CASE Fills
  BY <1>1, <1>2, <1>4 DEF Fills, requestVars
<1>5. ASSUME NEW s \in {"query", "form"}, Starts(s), UNCHANGED requestVars \/ ParseForm
      PROVE  DecodedOK' /\ DecodedWhole'
  <2>1. left' \in {0, left} /\ decoded' = decoded
    BY <1>5, LeftShrinks DEF requestVars
  <2> QED
    BY <1>1, <1>2, <1>5, <2>1 DEF Starts
<1>6. CASE Stops \/ BindEnds
  <2>1. source \in {"query", "form"} /\ UNCHANGED <<sent, left, decoded>>
    BY <1>6 DEF Stops, BindEnds, BindType, requestVars
  <2>2. PICK r \in {"field", "nil"} : Calls(source, r) /\ result' = r
    BY <1>6, <2>1 DEF Stops, BindEnds, Returns, Calls, Ways, Results
  <2>3. Ops({"body"})' = Ops({"body"})
    BY <2>1, <2>2, BodiesMore
  <2> QED
    BY <1>1, <2>1, <2>2, <2>3
<1>7. ASSUME NEW op \in {"none", "query", "form", "value", "file"},
             NEW r \in {"nil", "target", "parse", "unsupported"}, Asks(op, r),
             UNCHANGED requestVars \/ ParseForm \/ ParseMultipart
      PROVE  DecodedOK' /\ DecodedWhole'
  <2>1. Calls(op, r) /\ result' = r
    BY <1>7, Asked
  <2>2. Ops({"body"})' = Ops({"body"})
    BY <2>1, BodiesMore
  <2>3. left' \in {0, left} /\ decoded' = decoded
    BY <1>7, LeftShrinks DEF requestVars
  <2> QED
    BY <1>1, <2>1, <2>2, <2>3 DEF Calls
<1>8. CASE BindDocument
  <2>1. PICK r \in Documents : Document(r)
    BY <1>8, Documented
  <2>2. Calls("body", r) /\ result' = r /\ sent' = sent
    BY <2>1 DEF Document, Calls
  <2>3. /\ left \in Nat /\ left =< sent.length /\ sent.length \in Nat
        /\ left' \in Nat /\ left' =< left
    BY <2>1, Requested DEF Document
  <2>4. /\ Ops({"body"})' = Ops({"body"}) \cup {Len(calls) + 1}
        /\ Len(calls) + 1 \notin Ops({"body"})
    BY <2>2, BodiesMore
  <2>5. decoded \in Seq(DOMAIN sent.ends) /\ sent.ends \in Seq(Nat) /\ MaxBytes \in Nat
    BY Requested DEF BindType
  <2>6. ASSUME decoded' = decoded
        PROVE  /\ DecodedOK'
               /\ \A m, n \in DOMAIN decoded' : m < n => decoded'[m] < decoded'[n]
               /\ \A n \in DOMAIN decoded' :
                    /\ sent.kind \in sent.names
                    /\ sent.kind = "json" /\ MaxBytes > 0 =>
                         Length(decoded'[n]) =< MaxBytes
    <3>1. \A n \in DOMAIN decoded : sent.ends[decoded[n]] \in Nat
      BY EndsKnown
    <3>2. \A n \in DOMAIN decoded : sent.ends[decoded[n]] =< sent.length - left'
      BY <2>3, <3>1 DEF DecodedOK, Position
    <3>3. DecodedOK'
      BY <2>2, <2>6, <3>2 DEF DecodedOK, Position
    <3> QED
      BY <2>6, <3>3 DEF DecodedWhole
  <2>7. ASSUME NEW b \in sent.names, NEW d \in Found(b), decoded' = Append(decoded, d),
               left' =< sent.length - sent.ends[d]
        PROVE  /\ DecodedOK'
               /\ \A m, n \in DOMAIN decoded' : m < n => decoded'[m] < decoded'[n]
               /\ \A n \in DOMAIN decoded' :
                    /\ sent.kind \in sent.names
                    /\ sent.kind = "json" /\ MaxBytes > 0 =>
                         Length(decoded'[n]) =< MaxBytes
    <3>1. PICK N : N = Len(decoded) + 1
      OBVIOUS
    <3>2. /\ d \in DOMAIN sent.ends /\ sent.kind = b /\ ~IsForm(sent)
          /\ Begins(d) = Position /\ sent.ends[d] =< Position + Takes(b)
      BY <2>7, Requested DEF Found
    <3>3. /\ DOMAIN decoded' = 1 .. N /\ DOMAIN decoded = 1 .. N - 1 /\ N \in Nat
          /\ decoded'[N] = d /\ \A n \in 1 .. N - 1 : decoded'[n] = decoded[n]
      BY <2>5, <2>7, <3>1, <3>2
    <3>4. sent.ends[d] \in Nat /\ Position \in Nat /\ Takes(b) \in Nat
      <4>1. sent.ends[d] \in Nat
        BY <2>5, <3>2
      <4>2. Takes(b) \in Nat
        BY TakesLess
      <4> QED
        BY <2>3, <4>1, <4>2 DEF Position
    <3>5. \A n \in 1 .. N - 1 : decoded[n] < d
      BY <3>3, Behind
    <3>6. \A m, n \in 1 .. N - 1 : m < n => decoded[m] < decoded[n]
      <4>1. \A m, n \in DOMAIN decoded : m < n => decoded[m] < decoded[n]
        BY DEF DecodedWhole
      <4> QED
        BY <3>3, <4>1, Zenon
    <3>7. sent.ends[d] =< sent.length - left'
      BY <2>3, <2>7, <3>4
    <3>8. \A n \in 1 .. N - 1 : sent.ends[decoded[n]] =< sent.length - left'
      <4>1. \A n \in 1 .. N - 1 : /\ sent.ends[decoded[n]] \in Nat
                                  /\ sent.ends[decoded[n]] =< sent.length - left
        <5>1. \A n \in DOMAIN decoded : sent.ends[decoded[n]] \in Nat
          BY EndsKnown
        <5>2. \A n \in DOMAIN decoded : sent.ends[decoded[n]] =< sent.length - left
          BY Zenon DEF DecodedOK, Position
        <5> QED
          BY <3>3, <5>1, <5>2, Zenon
      <4> QED
        BY <2>3, <4>1
    <3>9. sent.kind = "json" /\ MaxBytes > 0 => Length(d) =< MaxBytes
      <4>1. b = "json" /\ MaxBytes > 0 => Takes(b) =< MaxBytes
        <5>1. Min({left, MaxBytes}) = IF left =< MaxBytes THEN left ELSE MaxBytes
          BY <2>3, <2>5, MinOfTwo
        <5> QED
          BY <2>3, <2>5, <5>1 DEF Takes
      <4>2. Length(d) = sent.ends[d] - Position
        BY <3>2 DEF Length
      <4> QED
        BY <2>5, <3>2, <3>4, <4>1, <4>2
    <3>10. \A n \in 1 .. N - 1 : sent.kind = "json" /\ MaxBytes > 0 =>
                                 Length(decoded[n]) =< MaxBytes
      BY <3>3 DEF DecodedWhole
    <3>11. \A n \in 1 .. N : n \in 1 .. N - 1 \/ n = N
      BY <3>3
    <3>12. DecodedOK'
      <4>1. \A n \in 1 .. N : sent.ends[decoded'[n]] =< sent.length - left'
        BY <3>3, <3>7, <3>8, <3>11
      <4> QED
        BY <2>2, <3>3, <4>1 DEF DecodedOK, Position
    <3>13. ASSUME NEW m \in 1 .. N, NEW n \in 1 .. N, m < n
           PROVE  decoded'[m] < decoded'[n]
      <4>1. m \in 1 .. N - 1
        BY <3>3, <3>13
      <4> QED
        BY <3>3, <3>5, <3>6, <3>11, <3>13, <4>1
    <3>14. \A n \in 1 .. N : sent.kind = "json" /\ MaxBytes > 0 =>
                               Length(decoded'[n]) =< MaxBytes
      BY <3>3, <3>9, <3>10, <3>11
    <3> QED
      BY <3>2, <3>3, <3>12, <3>13, <3>14
  <2>8. r = "short" => \/ ~sent.delimited /\ MaxBytes > 0 /\ sent.length > MaxBytes
                       \/ Cardinality(Ops({"body"}) \cup {Len(calls) + 1}) > 1
    <3>1. SUFFICES ASSUME r = "short",
                          ~(~sent.delimited /\ MaxBytes > 0 /\ sent.length > MaxBytes)
                   PROVE  Cardinality(Ops({"body"}) \cup {Len(calls) + 1}) > 1
      OBVIOUS
    <3>2. PICK b : Partial(b)
      BY <2>1, <3>1 DEF Document
    <3>3. left # sent.length
      <4>1. ~(~sent.delimited /\ Takes(b) < left)
        <5>1. Min({left, MaxBytes}) = IF left =< MaxBytes THEN left ELSE MaxBytes
          BY <2>3, <2>5, MinOfTwo
        <5> QED
          BY <2>3, <2>5, <3>1, <5>1 DEF Takes
      <4> QED
        BY <3>2, <4>1 DEF Partial
    <3>4. Ops({"body"}) # {}
      <4>1. sent.kind = "multipart" \/ sent.kind = "urlencoded" => left = 0
        BY <2>3, <3>3, Requested DEF IsForm
      <4> QED
        BY <3>2, <3>3, <4>1 DEF FormOK, IsForm, Partial, Consumed
    <3>5. /\ Cardinality(Ops({"body"}) \cup {Len(calls) + 1}) = Cardinality(Ops({"body"})) + 1
          /\ Cardinality(Ops({"body"})) \in Nat
          /\ Cardinality(Ops({"body"})) # 0
      BY <2>4, <3>4, FinitelyMany, FS_AddElement, FS_CardinalityType, FS_EmptySet
    <3> QED
      BY <3>5
  <2>9. /\ DecodedOK'
        /\ \A m, n \in DOMAIN decoded' : m < n => decoded'[m] < decoded'[n]
        /\ \A n \in DOMAIN decoded' :
             /\ sent.kind \in sent.names
             /\ sent.kind = "json" /\ MaxBytes > 0 => Length(decoded'[n]) =< MaxBytes
    <3>1. CASE r = "nil"
      BY <2>1, <2>7, <3>1 DEF Document
    <3>2. CASE r # "nil"
      BY <2>1, <2>6, <3>2 DEF Document
    <3> QED
      BY <3>1, <3>2
  <2> QED
    BY <2>2, <2>4, <2>8, <2>9 DEF DecodedWhole, Length, Begins
<1> QED
  BY <1>3, <1>4, <1>5, <1>6, <1>7, <1>8, Steps

-----------------------------------------------------------------------------
(* The theorems about Binding.                                             *)

BindInv ==
  BindType /\ FormOK /\ FillingOK /\ DecodedOK
           /\ BoundAsSent /\ FaultReportedOnce /\ DecodedWhole

(* It holds before the first call.                                         *)
LEMMA InitBindInv == ASSUME Init PROVE BindInv
<1>1. /\ sent \in Sent /\ left = sent.length
      /\ hasForm = FALSE /\ hasFields = FALSE /\ hasFiles = FALSE
      /\ target = Unset /\ before = Unset
      /\ source = "none" /\ next = 1 /\ result = "none" /\ calls = <<>>
      /\ decoded = <<>>
  BY DEF Init, Unread
<1>2. sent \in Requests
  BY <1>1, SentAssumption DEF SentAssumption
<1>3. sent.length \in Nat \ {0}
  BY <1>2 DEF Requests
<1>4. Unset \in [DOMAIN Fields -> Held] /\ Len(Fields) \in Nat
  BY DEF Unset, Held
<1>5. BindType
  <2>1. /\ sent \in Sent
        /\ hasForm \in BOOLEAN /\ hasFields \in BOOLEAN /\ hasFiles \in BOOLEAN
        /\ source \in {"none", "query", "form"}
    BY <1>1
  <2>2. next \in 1 .. Len(Fields) + 1
    BY <1>1, <1>4
  <2>3. left \in 0 .. sent.length
    BY <1>1, <1>3
  <2>4. target \in [DOMAIN Fields -> Held] /\ before \in [DOMAIN Fields -> Held]
    BY <1>1, <1>4
  <2>5. /\ result \in Results /\ calls \in Seq([op : Ways, result : Results])
        /\ decoded \in Seq(DOMAIN sent.ends)
    BY <1>1 DEF Results
  <2> QED
    BY <2>1, <2>2, <2>3, <2>4, <2>5, Zenon DEF BindType
<1>6. \A K : Ops(K) = {}
  BY <1>1 DEF Ops
<1>7. Reading = {} /\ Parsing = {} /\ Robbing = {}
  BY <1>6 DEF Reading, Parsing, Robbing
<1>8. FormOK
  BY <1>1, <1>3, <1>6, <1>7, Readers DEF FormOK, Looked
<1>9. FillingOK
  BY <1>1 DEF FillingOK
<1>10. DecodedOK
  BY <1>1 DEF DecodedOK
<1>11. BoundAsSent
  BY <1>1 DEF BoundAsSent
<1>12. FaultReportedOnce
  BY <1>6 DEF FaultReportedOnce
<1>13. DecodedWhole
  BY <1>1 DEF DecodedWhole
<1> QED
  BY <1>5, <1>8, <1>9, <1>10, <1>11, <1>12, <1>13 DEF BindInv

(* It holds in every reachable state.                                      *)
LEMMA BindInvariance == Spec => []BindInv
<1>1. Init => BindInv
  BY InitBindInv
<1>2. BindInv /\ [Next]_vars => BindInv'
  BY BindTypeStep, FormStep, FillingStep, BoundStep, FaultStep, DocumentStep
  DEF BindInv
<1> QED
  BY <1>1, <1>2, PTL DEF Spec

(* When a bind of the query or the form ends, the struct holds what was    *)
(* sent, up to the first field that does not parse, for structs of any     *)
(* length and whatever was called before.                                  *)
THEOREM StructIsBoundAsSent == Spec => []BoundAsSent
<1>1. BindInv => BoundAsSent
  BY DEF BindInv
<1> QED
  BY <1>1, BindInvariance, PTL

(* A fault of an encoded form is reported by the first call that looks at  *)
(* the form, and by no other, in any sequence of calls.                    *)
THEOREM FaultIsReportedOnce == Spec => []FaultReportedOnce
<1>1. BindInv => FaultReportedOnce
  BY DEF BindInv
<1> QED
  BY <1>1, BindInvariance, PTL

(* Documents are decoded in the body's order, none twice, each whole and   *)
(* none longer than the limit, for bodies of any length with any number of *)
(* documents, whatever is behind them, and for any limit.                  *)
THEOREM DocumentIsDecodedWhole == Spec => []DecodedWhole
<1>1. BindInv => DecodedWhole
  BY DEF BindInv
<1> QED
  BY <1>1, BindInvariance, PTL
=============================================================================
