------------------------------- MODULE Binding -------------------------------
(***************************************************************************)
(* bind.go and the methods of Ctx built on it: one request whose body and  *)
(* query an endpoint reads by any calls in any order.  The body is a       *)
(* stream that can be read once; what net/http parsed from it is kept in   *)
(* the request, and which call comes first decides what later ones find.   *)
(***************************************************************************)
EXTENDS Integers, Sequences, FiniteSetsExt

CONSTANTS
  Fields,    \* the struct's fields with a tag: their kind, pointer or not
  Readable,  \* Readable[k]: the strings that parse as a value of kind k, at
             \* its width; not defined for the kinds the binders do not know
  Sent,      \* the requests
  MaxBytes,  \* JSONMaxBytes, 0 for none
  MaxCalls   \* bound: the calls the endpoint makes

ASSUME FieldsAssumption == Fields \in Seq([kind : STRING, pointer : BOOLEAN])
ASSUME BytesAssumption  == MaxBytes \in Nat /\ MaxCalls \in Nat

(* A request: the registered names its Content-Type contains, what its     *)
(* body is, the value of each field in the query and in the form, what is  *)
(* wrong with the form, and the length of the body as far as a limit is    *)
(* concerned.  Of JSON and XML: where the documents in the body end, one   *)
(* behind the other, and what follows the last is none; and whether the    *)
(* end of a document shows (that of a number does not).  A form is shorter *)
(* than any limit.                                                         *)
Requests ==
  [names : SUBSET {"json", "xml", "form"},
   kind : {"json", "xml", "urlencoded", "multipart"},
   query : [DOMAIN Fields -> STRING], form : [DOMAIN Fields -> STRING],
   fault : {"none", "malformed", "unreadable"},
   length : Nat \ {0}, ends : Seq(Nat), delimited : BOOLEAN]

IsForm(s) == s.kind \in {"urlencoded", "multipart"}

Ordered(s) ==
  /\ \A d \in DOMAIN s.ends : s.ends[d] \in 1 .. s.length
  /\ \A c, d \in DOMAIN s.ends : c < d => s.ends[c] < s.ends[d]

ASSUME SentAssumption ==
  Sent \subseteq {s \in Requests :
                  IF IsForm(s) THEN s.length = 1 /\ s.ends = <<>>
                  ELSE s.fault = "none" /\ Ordered(s)}

VARIABLES
  sent,      \* the request
  left,      \* what is left of the body
  hasForm,   \* the request's Form and PostForm are not nil
  hasFields, \* they hold the fields of the body
  hasFiles,  \* the request's MultipartForm is not nil
  decoded,   \* history: the documents that binders have decoded
  target,    \* target[i]: what field i of the struct holds
  before,    \* history: what it held when the call was made
  source,    \* what is bound: "none", "query" or "form"
  next,      \* the field that is next
  result,    \* what the call returned: "none", "nil", "field", "unsupported",
             \* "target", "decode", "parse", or "short" for a nil with what
             \* may be a part of a document
  calls      \* history: the calls and what they returned

requestVars == <<left, hasForm, hasFields, hasFiles, decoded>>
structVars  == <<target, before, source, next>>
bindVars    == <<sent, requestVars, structVars, result, calls>>

Absent == "(absent)"
Unset  == [i \in DOMAIN Fields |-> Absent]

Unread ==
  /\ sent \in Sent
  /\ left = sent.length
  /\ hasForm = FALSE /\ hasFields = FALSE /\ hasFiles = FALSE
  /\ decoded = <<>>
  /\ target = Unset /\ before = Unset
  /\ source = "none" /\ next = 1
  /\ result = "none" /\ calls = <<>>

Idle == source = "none" /\ Len(calls) < MaxCalls

Returns(op, r) ==
  /\ result' = r
  /\ calls' = Append(calls, [op |-> op, result |-> r])

-----------------------------------------------------------------------------
(* net/http's Request, as the binders and the Ctx use it (external).       *)

(* ParseForm reads an encoded body once, and fails once.  Of a malformed   *)
(* body it keeps what it understands.                                      *)
Consumed   == left = 0
ReadsForm  == ~hasForm /\ sent.kind = "urlencoded"
FormBroken == \/ sent.fault = "unreadable"
              \/ sent.fault = "malformed" /\ ~Consumed
FormRead   == ReadsForm /\ sent.fault # "unreadable" /\ ~Consumed

ParseForm ==
  /\ hasForm' = TRUE
  /\ hasFields' = (hasFields \/ FormRead)
  /\ left' = IF ReadsForm THEN 0 ELSE left
  /\ UNCHANGED <<hasFiles, decoded>>

(* ParseMultipartForm: ParseForm, then all the parts or none.              *)
PartsRead == sent.kind = "multipart" /\ sent.fault = "none" /\ ~Consumed

ParseMultipart ==
  IF hasFiles THEN UNCHANGED requestVars
  ELSE /\ hasForm' = TRUE
       /\ hasFields' = (hasFields \/ FormRead \/ PartsRead)
       /\ left' = IF ReadsForm \/ sent.kind = "multipart" THEN 0 ELSE left
       /\ hasFiles' = PartsRead
       /\ UNCHANGED decoded

-----------------------------------------------------------------------------
(* Query and form: the fields in their order.                              *)

(* The struct is new, or one that an earlier call has filled; or it is no  *)
(* pointer to a struct.                                                    *)
BindStruct(s) ==
  \/ /\ source' = s /\ next' = 1 /\ result' = "none"
     /\ target' \in {Unset, target} /\ before' = target'
     /\ UNCHANGED <<sent, calls>>
  \/ Returns(s, "target") /\ UNCHANGED <<sent, structVars>>

BindQuery == Idle /\ BindStruct("query") /\ UNCHANGED requestVars

(* Fault: the error of ParseForm is dropped.                               *)
BindFormUnchecked == Idle /\ ParseForm /\ BindStruct("form")

BindForm ==
  /\ Idle
  /\ ParseForm
  /\ IF ReadsForm /\ FormBroken
     THEN Returns("form", "parse") /\ UNCHANGED <<sent, structVars>>
     ELSE BindStruct("form")

(* The value of the next field's tag.                                      *)
Raw == IF source = "query" THEN sent.query[next]
       ELSE IF hasFields THEN sent.form[next] ELSE Absent

(* setFieldFromString: a kind it does not know is left as it is; integers  *)
(* are parsed at the width of their field.  Fault: at full width.          *)
Known(i)       == Fields[i].kind \in DOMAIN Readable
ParsesWide(s)  == Known(next) => s \in UNION {Readable[k] : k \in DOMAIN Readable}
Parses(s)      == Known(next) => s \in Readable[Fields[next].kind]

(* What the field holds then: a pointer is set to a new value.             *)
Stored(s) == IF Known(next) THEN s
             ELSE IF Fields[next].pointer THEN "zero" ELSE target[next]

BindField ==
  /\ source # "none" /\ next =< Len(Fields)
  /\ IF Raw = Absent \/ Parses(Raw)
     THEN /\ target' = IF Raw = Absent THEN target
                       ELSE [target EXCEPT ![next] = Stored(Raw)]
          /\ next' = next + 1
          /\ UNCHANGED <<source, result, calls>>
     ELSE /\ Returns(source, "field") /\ source' = "none"
          /\ UNCHANGED <<target, next>>
  /\ UNCHANGED <<sent, requestVars, before>>

BindEnds ==
  /\ source # "none" /\ next > Len(Fields)
  /\ Returns(source, "nil") /\ source' = "none"
  /\ UNCHANGED <<sent, requestVars, target, before, next>>

-----------------------------------------------------------------------------
(* Bodies.                                                                 *)

(* What a decoder can read: the limit is one of its reader, which is new   *)
(* with every call.  Fault: there is no limit.                             *)
TakesAll(b) == left
Takes(b) == IF b = "json" /\ MaxBytes > 0 THEN Min({left, MaxBytes}) ELSE left

Position  == sent.length - left
Begins(d) == IF d = 1 THEN 0 ELSE sent.ends[d - 1]

(* The document that it finds, if one begins where the body stands and     *)
(* ends within what it can read.                                           *)
Found(b) == {d \in DOMAIN sent.ends :
               /\ sent.kind = b /\ Begins(d) = Position
               /\ sent.ends[d] =< Position + Takes(b)}

(* Without one it fails, unless what it can read makes sense by itself: a  *)
(* number that the limit cuts is still a number, and what an earlier call  *)
(* has left may begin anywhere.                                            *)
Partial(b) == /\ Found(b) = {} /\ sent.kind = b /\ ~Consumed
              /\ left # sent.length \/ (~sent.delimited /\ Takes(b) < left)

(* Ctx.Bind with the registry: any entry whose name is in the type.        *)
BindUnsupported ==
  /\ Idle /\ sent.names = {}
  /\ Returns("none", "unsupported")
  /\ UNCHANGED <<sent, requestVars, structVars>>

(* A decoder takes the first document it finds, whatever follows that, and *)
(* from the body at least as much.  One that does not suit the struct is   *)
(* an error, and so may all else be.                                       *)
BindDocument == \E b \in sent.names \ {"form"} :
  /\ Idle
  /\ \/ \E d \in Found(b) :
          /\ Returns("body", "nil") /\ decoded' = Append(decoded, d)
          /\ left' \in left - Takes(b) .. sent.length - sent.ends[d]
     \/ \E r \in {"decode"} \cup IF Partial(b) THEN {"short"} ELSE {} :
          /\ Returns("body", r) /\ UNCHANGED decoded
          /\ left' \in left - Takes(b) .. Max({0, left - 1})
  /\ UNCHANGED <<sent, hasForm, hasFields, hasFiles, structVars>>

BindByName == "form" \in sent.names /\ BindForm

(* Ctx.FormValue reads the form if nothing has, and drops the error.       *)
FormValue ==
  /\ Idle
  /\ IF hasForm THEN UNCHANGED requestVars ELSE ParseMultipart
  /\ Returns("value", "nil")
  /\ UNCHANGED <<sent, structVars>>

(* Ctx.FormFile, up to opening the file.                                   *)
FileFound == PartsRead \/ hasFiles

FormFile ==
  /\ Idle
  /\ ParseMultipart
  /\ Returns("file", IF FileFound THEN "nil" ELSE "parse")
  /\ UNCHANGED <<sent, structVars>>

BindStep ==
  \/ BindQuery \/ BindForm \/ BindField \/ BindEnds
  \/ BindUnsupported \/ BindDocument \/ BindByName \/ FormValue

-----------------------------------------------------------------------------
(* Properties.                                                             *)

Last     == calls[Len(calls)]
Ops(ops) == {n \in DOMAIN calls : calls[n].op \in ops}

(* The calls that look at the form, and those before all of them that take *)
(* the body.                                                               *)
Reading == Ops({"form", "value", "file"})
Robbing == {n \in Ops({"body"}) : \A m \in Reading : n < m}

(* The first that looks at the form.                                       *)
First(n) == n \in Reading /\ \A m \in Reading : n =< m

(* Those that read a multipart form.                                       *)
Parsing == {n \in Reading : \/ calls[n].op = "file"
                            \/ calls[n].op = "value" /\ First(n)}

(* Whether the calls so far let a binder find the fields of the form: it   *)
(* must be read before a decoder takes the body, and a multipart form by   *)
(* FormFile, or by FormValue before any other.                             *)
FormAvailable ==
  CASE sent.kind = "urlencoded" -> sent.fault # "unreadable" /\ Robbing = {}
    [] sent.kind = "multipart" ->
         /\ sent.fault = "none"
         /\ \E n \in Parsing : \A b \in Ops({"body"}) : n < b
    [] OTHER -> FALSE

Value(op, i) == IF op = "query" THEN sent.query[i]
                ELSE IF FormAvailable THEN sent.form[i] ELSE Absent

Took(op, i) ==
  target[i] = IF Value(op, i) = Absent THEN before[i]
              ELSE IF Known(i) THEN Value(op, i)
              ELSE IF Fields[i].pointer THEN "zero" ELSE before[i]

Fails(op, i) ==
  /\ Value(op, i) # Absent
  /\ Known(i) /\ Value(op, i) \notin Readable[Fields[i].kind]

Bound(op, i) == Took(op, i) /\ ~Fails(op, i)

(* When BindQuery or BindForm returns nil every field has the value the    *)
(* client sent for it, unless it sent none; when it returns an error some  *)
(* field does not parse, all before it are set and none behind.  The form  *)
(* a binder sees is the one that was sent, if it was read in that order.   *)
BoundAsSent ==
  (source = "none" /\ calls # <<>> /\ Last.op \in {"query", "form"}) =>
    /\ result = "nil" => \A i \in DOMAIN Fields : Bound(Last.op, i)
    /\ result = "field" => \E n \in DOMAIN Fields :
         /\ Fails(Last.op, n)
         /\ \A i \in DOMAIN Fields :
              IF i < n THEN Bound(Last.op, i) ELSE target[i] = before[i]

(* The call that has a fault to report.                                    *)
Reported(n) ==
  /\ First(n)
  /\ sent.fault = "unreadable" \/ Robbing = {}

(* A fault of an encoded form is reported by the first call that looks at  *)
(* the form, unless that is a FormValue, which cannot say so, or a decoder *)
(* has left nothing to be malformed.  Nobody is told twice: later binds    *)
(* find some fields or none, and no error.                                 *)
FaultReportedOnce ==
  sent.kind = "urlencoded" /\ sent.fault # "none" =>
    \A n \in Ops({"form"}) : calls[n].result = "parse" <=> Reported(n)

Length(d) == sent.ends[d] - Begins(d)

(* Whichever binders the registry picks, and whatever follows in the body, *)
(* its documents are decoded in their order, none twice, each whole and by *)
(* its own binder, and none longer than the limit.  A part of one passes   *)
(* only when its value is one that a cut leaves well-formed, or an earlier *)
(* call took the first part.                                               *)
DecodedWhole ==
  /\ \A m, n \in DOMAIN decoded : m < n => decoded[m] < decoded[n]
  /\ \A n \in DOMAIN decoded :
       /\ sent.kind \in sent.names
       /\ sent.kind = "json" /\ MaxBytes > 0 => Length(decoded[n]) =< MaxBytes
  /\ result = "short" =>
       \/ ~sent.delimited /\ MaxBytes > 0 /\ sent.length > MaxBytes
       \/ Cardinality(Ops({"body"})) > 1

-----------------------------------------------------------------------------
(* The inductive invariants behind these properties (see Input_proofs).    *)

Held    == STRING \cup {Absent, "zero"}
Ways    == {"none", "query", "form", "body", "value", "file"}
Results == {"none", "nil", "field", "unsupported", "target", "decode", "parse",
            "short"}

BindType ==
  /\ sent \in Sent /\ left \in 0 .. sent.length
  /\ hasForm \in BOOLEAN /\ hasFields \in BOOLEAN /\ hasFiles \in BOOLEAN
  /\ decoded \in Seq(DOMAIN sent.ends)
  /\ target \in [DOMAIN Fields -> Held] /\ before \in [DOMAIN Fields -> Held]
  /\ source \in {"none", "query", "form"} /\ next \in 1 .. Len(Fields) + 1
  /\ result \in Results /\ calls \in Seq([op : Ways, result : Results])

(* What the request holds, as the calls so far have left it.               *)
Looked == Reading # {} \/ source = "form"

FormOK ==
  /\ hasForm <=> Looked
  /\ sent.kind # "multipart" => ~hasFiles
  /\ sent.kind = "urlencoded" =>
       /\ left = 0 <=> (Looked \/ Ops({"body"}) # {})
       /\ hasFields <=> (Looked /\ FormAvailable)
  /\ sent.kind = "multipart" =>
       /\ left = 0 <=> (Parsing # {} \/ Ops({"body"}) # {})
       /\ (hasFields <=> FormAvailable) /\ (hasFiles <=> FormAvailable)
  /\ ~IsForm(sent) =>
       /\ left # sent.length => Ops({"body"}) # {}
       /\ ~hasFields

(* A bind that is under way has had no fault to report, and has bound the  *)
(* fields before the next.                                                 *)
FillingOK ==
  /\ source = "form" /\ Reading = {} /\ sent.kind = "urlencoded" =>
       sent.fault = "none" \/ (sent.fault = "malformed" /\ Robbing # {})
  /\ source # "none" => \A i \in DOMAIN Fields :
       IF i < next THEN Bound(source, i) ELSE target[i] = before[i]

(* What is decoded has been taken from the body.                           *)
DecodedOK == \A n \in DOMAIN decoded : sent.ends[decoded[n]] =< Position
=============================================================================
