------------------------------- MODULE Context -------------------------------
(***************************************************************************)
(* What a request carries through a chain of middlewares: ctx.go and the   *)
(* middlewares that read or change the request, its context and the        *)
(* headers of the response.                                                *)
(*                                                                         *)
(* A Ctx holds a pointer to an http.Request.  Set and WithContext replace  *)
(* it by a shallow copy, RealIP writes into the one that is there; the     *)
(* headers of request and response are shared by all copies.  So it        *)
(* depends on the order of the layers who sees what.  A Ctx is named after *)
(* the layer that made it, 0 is the one of the chain; the first request is *)
(* the one net/http made and cleans up after.                              *)
(***************************************************************************)
EXTENDS Integers, Sequences, FiniteSetsExt

CONSTANTS
  Layers,     \* the kinds of middleware the chain may contain
  Incoming,   \* the requests that may come in
  Addresses,  \* the strings that parse as an IP address
  Trusted,    \* those within the prefixes of TrustedProxies
  Accepted,   \* the credentials the Validator accepts
  Origins,    \* the origins a CORS with a list allows
  MaxDepth    \* bound: the longest chain

(* "realip" trusts every peer, "realipfrom" has TrustedProxies; "cors"     *)
(* allows every origin, "corsfrom" a list, with credentials; "form" is a   *)
(* middleware of the application that reads a form value; "copy" is        *)
(* Timeout or Adapt.                                                       *)
ASSUME LayersAssumption ==
  Layers \subseteq {"realip", "realipfrom", "requestid", "auth", "ratelimit",
                    "cors", "corsfrom", "logger", "copy", "form", "nocache",
                    "secure"}
ASSUME DepthAssumption   == MaxDepth \in Nat
ASSUME OriginsAssumption == "*" \notin Origins /\ "none" \notin Origins
ASSUME IncomingAssumption ==
  Incoming \subseteq [peer : STRING, forwarded : Seq(STRING), id : {0, -1},
                      credential : STRING, preflight : BOOLEAN, origin : STRING]

VARIABLES
  stack,     \* the chain
  incoming,  \* the request as it came
  phase,     \* "down", "up", "done"
  pos,       \* the layer being entered (down) or left (up)
  last,      \* history: where the way down ended
  requests,  \* the http.Request objects, in the order they were made
  request,   \* request[k]: the one Ctx k holds
  fresh,     \* the conditional headers are deleted from the request
  header,    \* the headers of the response
  status,    \* its status, 0 until it is written
  err,       \* the status of the error on its way up, 0 for nil
  seen,      \* seen[i]: the address layer i (or the endpoint) took
  logged,    \* logged[i]: the id Logger i recorded, 0 for none
  body,      \* the body is consumed
  files      \* temporary files of the multipart form: "none", "kept", "removed"

way   == <<phase, pos, last>>
held  == <<requests, request, body, files>>
wire  == <<header, status>>
noted == <<seen, logged>>
vars  == <<stack, incoming, way, held, fresh, wire, err, noted>>

Depth == Len(stack)
Ids   == 0 .. MaxDepth

(* An http.Request: RemoteAddr, the id and the credential in its context,  *)
(* and whether its form is parsed, with the fields or without.             *)
NewRequest(peer) ==
  [addr |-> peer, id |-> 0, credential |-> "none", form |-> "unparsed"]

Init ==
  /\ stack \in UNION {[1 .. n -> Layers] : n \in Ids}
  /\ incoming \in Incoming
  /\ phase = "down" /\ pos = 1 /\ last = 0
  /\ requests = <<NewRequest(incoming.peer)>>
  /\ request = [k \in Ids |-> 1]
  /\ fresh = FALSE
  /\ header = [id |-> 0, cors |-> FALSE, origin |-> "none", vary |-> FALSE,
               credentials |-> FALSE, cache |-> FALSE, secure |-> FALSE,
               challenge |-> FALSE]
  /\ status = 0 /\ err = 0
  /\ seen = [i \in 1 .. MaxDepth + 1 |-> "none"]
  /\ logged = [i \in 1 .. MaxDepth |-> 0]
  /\ body = FALSE /\ files = "none"

-----------------------------------------------------------------------------
(* The Ctx.                                                                *)

(* The Ctx that layer i hands to the layer below it, the one the layer at  *)
(* pos was given, and the request it holds.                                *)
Ctx(i)  == Max({0} \cup {j \in 1 .. i : stack[j] = "copy"})
Here    == Ctx(pos - 1)
Current == requests[request[Here]]

(* Ctx.Set: a copy with the value in its context replaces the request.     *)
(* Faults: the context starts anew; the Ctx keeps the request it had.      *)
Replace(r) ==
  /\ requests' = Append(requests, r)
  /\ request' = [request EXCEPT ![Here] = Len(requests) + 1]
SetAnew(r)    == Replace([NewRequest(r.addr) EXCEPT !.id = r.id])
SetDropped(r) == requests' = Append(requests, r) /\ UNCHANGED request
Set(r)        == Replace(r)

(* Request.ParseMultipartForm: a parsed form stays, and goes along with    *)
(* later copies; the body can be read once.  Fault: a copy is parsed.      *)
Parsed == [Current EXCEPT !.form = IF body THEN "empty" ELSE "fields"]

KeepParsedCopy == Replace(Parsed)
KeepParsed     == /\ requests' = [requests EXCEPT ![request[Here]] = Parsed]
                  /\ UNCHANGED request

ParseForm ==
  IF Current.form # "unparsed" THEN UNCHANGED held
  ELSE /\ KeepParsed
       /\ files' = IF body THEN files ELSE "kept"
       /\ body' = TRUE

-----------------------------------------------------------------------------
(* The way down.                                                           *)

Entering(kinds) == phase = "down" /\ pos =< Depth /\ stack[pos] \in kinds

Descend == pos' = pos + 1 /\ UNCHANGED <<stack, incoming, phase, last>>

(* The layer at pos does not call next.                                    *)
TurnBack ==
  /\ phase' = "up" /\ pos' = pos - 1 /\ last' = pos
  /\ UNCHANGED <<stack, incoming>>

EnterPlain ==
  /\ Entering({"logger"})
  /\ Descend
  /\ UNCHANGED <<held, fresh, wire, err, noted>>

(* Ctx.WithContext for a new Ctx: a copy of the request, no more.          *)
EnterCopy ==
  /\ Entering({"copy"})
  /\ Descend
  /\ requests' = Append(requests, Current)
  /\ request' = [request EXCEPT ![pos] = Len(requests) + 1]
  /\ UNCHANGED <<body, files, fresh, wire, err, noted>>

EnterForm ==
  /\ Entering({"form"})
  /\ Descend
  /\ ParseForm
  /\ UNCHANGED <<fresh, wire, err, noted>>

(* The first header that is there counts, parsable or not.                 *)
Claim ==
  LET given == {n \in DOMAIN incoming.forwarded : incoming.forwarded[n] # "none"}
  IN  IF given = {} THEN "none" ELSE incoming.forwarded[Min(given)]

(* RealIP writes into the request that is there.  Fault: into a copy that  *)
(* nobody holds.                                                           *)
Believes(layer, addr) == layer = "realip" \/ addr \in Trusted
AddrLost(addr)    == requests
AddrReplaced(addr) == [requests EXCEPT ![request[Here]].addr = addr]

EnterRealIP ==
  /\ Entering({"realip", "realipfrom"})
  /\ Descend
  /\ requests' = IF Believes(stack[pos], Current.addr) /\ Claim \in Addresses
                 THEN AddrReplaced(Claim) ELSE requests
  /\ UNCHANGED <<request, body, files, fresh, wire, err, noted>>

(* The id of the client if it sent one, else a new one.                    *)
RequestID == IF incoming.id # 0 THEN incoming.id ELSE pos

EnterRequestID ==
  /\ Entering({"requestid"})
  /\ Descend
  /\ header' = [header EXCEPT !.id = RequestID]
  /\ Set([Current EXCEPT !.id = RequestID])
  /\ UNCHANGED <<body, files, fresh, status, err, noted>>

(* BasicAuth logs the address, whatever it decides.                        *)
Take == seen' = [seen EXCEPT ![pos] = Current.addr] /\ UNCHANGED logged

AuthSucceeds ==
  /\ Entering({"auth"})
  /\ incoming.credential \in Accepted
  /\ Descend /\ Take
  /\ Set([Current EXCEPT !.credential = incoming.credential])
  /\ UNCHANGED <<body, files, fresh, wire, err>>

AuthFails ==
  /\ Entering({"auth"})
  /\ incoming.credential \notin Accepted
  /\ TurnBack /\ Take
  /\ header' = [header EXCEPT !.challenge = TRUE]
  /\ status' = 401
  /\ UNCHANGED <<held, fresh, err>>

RateLimitPasses ==
  /\ Entering({"ratelimit"})
  /\ Descend /\ Take
  /\ UNCHANGED <<held, fresh, wire, err>>

RateLimitRefuses ==
  /\ Entering({"ratelimit"})
  /\ TurnBack /\ Take
  /\ err' = 429
  /\ UNCHANGED <<held, fresh, wire>>

(* What CORS sets before anything else.  Fault: Vary is forgotten.         *)
CORSWithoutVary == [header EXCEPT
  !.cors = TRUE,
  !.origin = IF stack[pos] = "cors" THEN "*"
             ELSE IF incoming.origin \in Origins THEN incoming.origin ELSE @]
CORSHeaders == [header EXCEPT
  !.cors = TRUE,
  !.origin = IF stack[pos] = "cors" THEN "*"
             ELSE IF incoming.origin \in Origins THEN incoming.origin ELSE @,
  !.vary = @ \/ (stack[pos] = "corsfrom" /\ incoming.origin \in Origins),
  !.credentials = @ \/ stack[pos] = "corsfrom"]

EnterCORS ==
  /\ Entering({"cors", "corsfrom"})
  /\ header' = CORSHeaders
  /\ IF incoming.preflight THEN TurnBack /\ status' = 204
                           ELSE Descend /\ UNCHANGED status
  /\ UNCHANGED <<held, fresh, err, noted>>

EnterNoCache ==
  /\ Entering({"nocache"})
  /\ Descend
  /\ fresh' = TRUE
  /\ header' = [header EXCEPT !.cache = TRUE]
  /\ UNCHANGED <<held, status, err, noted>>

EnterSecure ==
  /\ Entering({"secure"})
  /\ Descend
  /\ header' = [header EXCEPT !.secure = TRUE]
  /\ UNCHANGED <<held, fresh, status, err, noted>>

-----------------------------------------------------------------------------
(* The endpoint, the way up and the end.                                   *)

AtEndpoint == phase = "down" /\ pos = Depth + 1

(* net/http answers 416, 404 or 403 for a file it cannot serve (Ctx.File,  *)
(* a FileServer below Adapt), and takes Cache-Control back before it.      *)
FileError == 416

(* The endpoint may read the form, then answers, lets net/http answer for  *)
(* a file, or returns an error.                                            *)
Endpoint ==
  /\ AtEndpoint
  /\ TurnBack /\ Take
  /\ ParseForm \/ UNCHANGED held
  /\ \/ status' = 200 /\ UNCHANGED <<header, err>>
     \/ /\ status' = FileError /\ header' = [header EXCEPT !.cache = FALSE]
        /\ UNCHANGED err
     \/ err' = 500 /\ UNCHANGED wire
  /\ UNCHANGED fresh

Leaving == phase = "up" /\ pos > 0

(* The layer that called the current one.  Fault: one too far.             *)
CallerSkipped == pos - 2
Caller        == pos - 1

Ascend == pos' = Caller /\ UNCHANGED <<stack, incoming, phase, last>>

LeavePlain ==
  /\ Leaving /\ stack[pos] # "logger"
  /\ Ascend
  /\ UNCHANGED <<held, fresh, wire, err, noted>>

(* Logger asks its own Ctx, once next has returned.                        *)
LeaveLogger ==
  /\ Leaving /\ stack[pos] = "logger"
  /\ Ascend
  /\ logged' = [logged EXCEPT ![pos] = Current.id]
  /\ UNCHANGED <<held, fresh, wire, err, seen>>

(* The error handler answers on the chain's Ctx; net/http then removes the *)
(* files of the form of its own request.                                   *)
Finish ==
  /\ phase = "up" /\ pos = 0
  /\ phase' = "done"
  /\ status' = IF err # 0 THEN err ELSE status
  /\ files' = IF files = "kept" /\ requests[1].form = "fields" THEN "removed"
              ELSE files
  /\ UNCHANGED <<stack, incoming, pos, last, requests, request, body, fresh,
                 header, err, noted>>

Rest == phase = "done" /\ UNCHANGED vars

Next ==
  \/ EnterPlain \/ EnterCopy \/ EnterForm \/ EnterRealIP \/ EnterRequestID
  \/ AuthSucceeds \/ AuthFails \/ RateLimitPasses \/ RateLimitRefuses
  \/ EnterCORS \/ EnterNoCache \/ EnterSecure
  \/ Endpoint \/ LeavePlain \/ LeaveLogger \/ Finish
  \/ Rest

Spec == Init /\ [][Next]_vars

-----------------------------------------------------------------------------
(* Properties.                                                             *)

RequestType ==
  [addr : {incoming.peer, Claim}, id : Int,
   credential : {"none", incoming.credential}, form : {"unparsed", "fields", "empty"}]

HeaderType ==
  [id : Int, cors : BOOLEAN, origin : {"none", "*", incoming.origin},
   vary : BOOLEAN, credentials : BOOLEAN, cache : BOOLEAN, secure : BOOLEAN,
   challenge : BOOLEAN]

TypeOK ==
  /\ stack \in Seq(Layers) /\ Depth \in Ids
  /\ incoming \in Incoming
  /\ phase \in {"down", "up", "done"}
  /\ pos \in 0 .. Depth + 1 /\ last \in 0 .. Depth + 1
  /\ requests \in Seq(RequestType)
  /\ request \in [Ids -> DOMAIN requests]
  /\ header \in HeaderType
  /\ status \in Nat /\ err \in {0, 429, 500}
  /\ seen \in [1 .. MaxDepth + 1 -> {"none", incoming.peer, Claim}]
  /\ logged \in [1 .. MaxDepth -> Int]
  /\ fresh \in BOOLEAN /\ body \in BOOLEAN
  /\ files \in {"none", "kept", "removed"}

(* The layers of some kinds whose work on the way down is done before i.   *)
Above(i, kinds) ==
  {j \in 1 .. i - 1 : j \in DOMAIN stack /\ stack[j] \in kinds}

(* All that were entered.                                                  *)
Entered(kinds) ==
  LET end == IF phase = "down" THEN pos - 1 ELSE last
  IN  {j \in DOMAIN stack : j =< end /\ stack[j] \in kinds}

(* Whatever was set, copied or resolved before, all who take the client's  *)
(* address below a RealIP take the claimed one, if that is an address and  *)
(* the RealIP trusts all or the true peer is trusted; and all others the   *)
(* peer's.  A limiter and the endpoint below it agree on who the client is.*)
Resolved(i) ==
  IF /\ Claim \in Addresses
     /\ \/ Above(i, {"realip"}) # {}
        \/ Above(i, {"realipfrom"}) # {} /\ incoming.peer \in Trusted
  THEN Claim ELSE incoming.peer

AddressSeen ==
  \A i \in DOMAIN seen : seen[i] \in {"none", Resolved(i)}

(* The id in the response is the one a Logger records, provided no Ctx     *)
(* copy comes between the Logger and some RequestID below it, and there is *)
(* one RequestID or the client sent the id.                                *)
IdAgrees ==
  phase = "done" =>
    \A i \in Entered({"logger"}), j \in Entered({"requestid"}) :
      /\ ~\E k \in Entered({"copy"}) : i < k /\ k < j
      /\ incoming.id # 0 \/ Cardinality(Entered({"requestid"})) = 1
      => logged[i] = header.id /\ header.id # 0

(* Nothing put into the context by a layer above is lost on the way down,  *)
(* and no layer reads a form that somebody above has emptied.              *)
ContextReaches ==
  phase = "down" =>
    /\ (Current.id # 0) <=> (Above(pos, {"requestid"}) # {})
    /\ Above(pos, {"requestid"}) # {} => Current.id = header.id
    /\ Current.credential = IF Above(pos, {"auth"}) # {} THEN incoming.credential
                            ELSE "none"
    /\ Current.form # "empty"

(* Every answer, be it of the endpoint, a gate or the error handler, has   *)
(* the headers of all layers entered on the way, except that net/http's    *)
(* answer for a file it cannot serve lacks NoCache's Cache-Control;        *)
(* credentials are never allowed to all origins, and an echoed origin      *)
(* varies, with one CORS.                                                  *)
HeadersOnAnswer ==
  status # 0 =>
    /\ header.cors = (Entered({"cors", "corsfrom"}) # {})
    /\ header.cache = (Entered({"nocache"}) # {} /\ status # FileError)
    /\ header.secure = (Entered({"secure"}) # {})
    /\ (header.id # 0) = (Entered({"requestid"}) # {})
    /\ header.challenge <=> status = 401
    /\ Cardinality(Entered({"cors", "corsfrom"})) =< 1 =>
         /\ ~(header.origin = "*" /\ header.credentials)
         /\ header.origin \notin {"none", "*"} => header.vary

(* The files of a large upload are removed when the request is done, if    *)
(* the form was first read above every layer that replaces the request.    *)
Replacing == {"requestid", "auth", "copy"}

TempFilesRemoved ==
  phase = "done" /\ files = "kept" =>
    \E i \in Entered(Replacing) : \A j \in Entered({"form"}) : i < j

-----------------------------------------------------------------------------
(* The inductive invariants behind these properties (see Context_proofs).  *)

(* Nobody has answered or failed while the request is on its way down, and *)
(* nobody has done both on the way up.                                     *)
WayOK ==
  /\ phase = "down" => pos >= 1 /\ status = 0 /\ err = 0
  /\ phase = "up" => pos =< Depth /\ (status = 0 \/ err = 0)

(* What the layer at pos finds in its request.                             *)
CurrentOK ==
  phase = "down" =>
    /\ Current.addr = Resolved(pos)
    /\ Current.id = header.id
    /\ Current.credential = IF Above(pos, {"auth"}) # {} THEN incoming.credential
                            ELSE "none"
    /\ Current.form = IF body THEN "fields" ELSE "unparsed"

(* The headers, answered or not; of CORS they are known after one.         *)
CORSKinds == {"cors", "corsfrom"}

HeadersOK ==
  /\ header.cors = (Entered(CORSKinds) # {})
  /\ header.cache = (Entered({"nocache"}) # {} /\ status # FileError)
  /\ header.secure = (Entered({"secure"}) # {})
  /\ (header.id # 0) = (Entered({"requestid"}) # {})
  /\ header.challenge <=> status = 401
  /\ Entered(CORSKinds) = {} => header.origin = "none" /\ ~header.credentials
  /\ (\A i, j \in Entered(CORSKinds) : i = j) =>
       /\ ~(header.origin = "*" /\ header.credentials)
       /\ header.origin \notin {"none", "*"} => header.vary

(* Every request that was copied from one with an id has an id; where ids  *)
(* cannot differ it is the one of the response.                            *)
OneId == incoming.id # 0 \/ \A i, j \in Entered({"requestid"}) : i = j

IdsOK ==
  /\ incoming.id # 0 => header.id \in {0, incoming.id}
  /\ Entered({"requestid"}) = {} => \A k \in DOMAIN requests : requests[k].id = 0
  /\ OneId => \A k \in DOMAIN requests : requests[k].id \in {0, header.id}
  /\ \A j \in Entered({"requestid"}), c \in {0} \cup Entered({"copy"}) :
       (c = Ctx(j - 1) \/ j < c) => requests[request[c]].id # 0

(* A Logger has recorded the id of the Ctx it was given.                   *)
LoggedOK ==
  \A i \in Entered({"logger"}) :
    phase = "done" \/ (phase = "up" /\ i > pos) =>
      logged[i] = requests[request[Ctx(i - 1)]].id

(* Temporary files belong to the first request, unless it was replaced     *)
(* above the first layer that reads the form.                              *)
FilesOK ==
  /\ phase = "down" /\ Entered(Replacing) = {} => request[Here] = 1
  /\ ~body => Entered({"form"}) = {} /\ files = "none"
  /\ files = "kept" =>
       \/ requests[1].form = "fields" /\ phase # "done"
       \/ \E i \in Entered(Replacing) : \A j \in Entered({"form"}) : i < j
=============================================================================
