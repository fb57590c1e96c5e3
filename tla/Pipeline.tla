------------------------------ MODULE Pipeline ------------------------------
(***************************************************************************)
(* One request on its way through a chain of middlewares to the endpoint,  *)
(* back up again and, with an error, into the error handler: router.chain, *)
(* Response, Ctx.WithContext, Adapt, the default error handler and the     *)
(* middlewares whose effect depends on what happens below them.            *)
(*                                                                         *)
(* The chain is a sequence of layers, outermost first.  Timeout and Adapt  *)
(* give the layers below a copy of the Ctx; the copy holds its own         *)
(* Response, with its own status and written flag, over the same           *)
(* connection.  Compress replaces the writer inside the Response it sees.  *)
(* A Ctx is named after the layer that made it, 0 is the one of the chain. *)
(* The model follows the one connection (the wire) under all of them.      *)
(***************************************************************************)
EXTENDS Integers, Sequences, FiniteSetsExt

CONSTANTS
  Layers,     \* the kinds of middleware the chain may contain
  MaxDepth,   \* bound: the longest chain
  MaxWrites   \* bound: how often the endpoint writes

ASSUME LayersAssumption ==
  Layers \subseteq
    {"logger", "recoverer", "timeout", "adapt", "compress", "bodylimit", "gate"}
ASSUME BoundsAssumption == MaxDepth \in Nat /\ MaxWrites \in Nat

VARIABLES
  stack,     \* the chain, built at registration
  accepts,   \* the request accepts a content coding Compress offers
  phase,     \* "down", "up", then "done" or "aborted"
  pos,       \* the layer being entered (down) or left (up)
  err,       \* the error on its way up
  panicking, \* a panic is on its way up
  response,  \* response[k]: the Response of Ctx k
  ctxErr,    \* ctxErr[k]: Err() of the context of Ctx k
  closed,    \* the Compress layers whose gzip or flate writer is closed
  wire,      \* what the connection has got, and the WebSocket session on it;
             \* and, a history, whether a declared coding has been deleted
  logs,      \* logs[i]: the status Logger i logged, 0 if it has not
  answer,    \* history: who answered, from where, and how
  expired    \* history: a Timeout was left late with nothing on the wire

vars == <<stack, accepts, phase, pos, err, panicking, response, ctxErr, closed,
          wire, logs, answer, expired>>

Depth == Len(stack)
Ids   == 0 .. MaxDepth

(* An error is the status the default error handler answers (a             *)
(* *StatusError's code, 500 for any other) and whether a MaxBytesError is  *)
(* in its tree.                                                            *)
NoErr         == [code |-> 0, big |-> FALSE]
HTTPError(c)  == [code |-> c, big |-> FALSE]
TooLarge(c)   == [code |-> c, big |-> TRUE]
Errors        == {HTTPError(404), HTTPError(500), TooLarge(400), TooLarge(500)}

NewResponse == [status |-> 200, written |-> FALSE, writer |-> <<>>]

Init ==
  /\ stack \in UNION {[1 .. n -> Layers] : n \in Ids}
  /\ accepts \in BOOLEAN
  /\ phase = "down" /\ pos = 1
  /\ err = NoErr /\ panicking = FALSE
  /\ response = [k \in Ids |-> NewResponse]
  /\ ctxErr = [k \in Ids |-> "none"]
  /\ closed = {}
  /\ wire = [status |-> 0, coded |-> FALSE, dropped |-> FALSE, body |-> <<>>,
             session |-> "none"]
  /\ logs = [i \in 1 .. MaxDepth |-> 0]
  /\ answer = [origin |-> 0, status |-> 0, result |-> "none"]
  /\ expired = FALSE

-----------------------------------------------------------------------------
(* The Ctx and the Response.                                               *)

Copies(i) == stack[i] \in {"timeout", "adapt"}

(* The Ctx that layer i hands to the layer below it.                       *)
Ctx(i) == Max({0} \cup {j \in 1 .. i : Copies(j)})

(* Response.WriteHeader: once per Response, whatever the code.  The        *)
(* connection keeps the first status that is not informational; one that   *)
(* is comes before the header, which is still to be sent.                  *)
Final(code) == code = 101 \/ code >= 200

WriteHeader(k, code) ==
  IF response[k].written THEN response
  ELSE [response EXCEPT ![k] = [@ EXCEPT !.status = code, !.written = TRUE]]

Commit(code) ==
  IF wire.status # 0 \/ ~Final(code) THEN wire ELSE [wire EXCEPT !.status = code]

(* Fault: the header is noted but not passed on.                           *)
WireHeaderLost(k, code) == wire

WireHeader(k, code) == IF response[k].written THEN wire ELSE Commit(code)

(* Response.SetResponseWriter, as Compress i calls it: writers wrapped     *)
(* around the connection, innermost first.  Fault: the result is not kept. *)
NotWrapped(i, writer) == writer
Wrapped(i, writer)    == <<i>> \o writer

(* A body part goes through the writers wrapped around the connection; a   *)
(* closed one, a hijacked connection and a status without a body lose it.  *)
(* If no header was sent yet, net/http sends 200.                          *)
WithBody(w, k, what) ==
  LET writer == response[k].writer IN
  IF \/ w.status \in {101, 204, 304}
     \/ \E n \in DOMAIN writer : writer[n] \in closed
  THEN w
  ELSE [w EXCEPT !.status = IF @ = 0 THEN 200 ELSE @,
                 !.body = Append(@, [what |-> what, codings |-> Len(writer)])]

(* Ctx.Render and everything built on it: the header, then the body.       *)
Render(k, code, what) ==
  /\ response' = WriteHeader(k, code)
  /\ wire' = WithBody(WireHeader(k, code), k, what)

-----------------------------------------------------------------------------
(* The way down.                                                           *)

Entering(kinds) == phase = "down" /\ pos =< Depth /\ stack[pos] \in kinds

(* Layers that do their work on the way up, and a gate that lets pass.     *)
EnterPlain ==
  /\ Entering({"logger", "recoverer", "bodylimit", "gate"})
  /\ pos' = pos + 1
  /\ UNCHANGED <<stack, accepts, phase, err, panicking, response, ctxErr,
                 closed, wire, logs, answer, expired>>

(* Timeout derives a context and, like Adapt, goes on with a copy of the   *)
(* Ctx: Ctx.WithContext copies the Response as it is now.                  *)
EnterCopy ==
  /\ Entering({"timeout", "adapt"})
  /\ pos' = pos + 1
  /\ response' = [response EXCEPT ![pos] = response[Ctx(pos - 1)]]
  /\ ctxErr' = [ctxErr EXCEPT ![pos] = ctxErr[Ctx(pos - 1)]]
  /\ UNCHANGED <<stack, accepts, phase, err, panicking, closed, wire, logs,
                 answer, expired>>

(* Compress wraps the writer of the Response it was given and declares the *)
(* coding in the headers, which all Responses share.                       *)
EnterCompress ==
  /\ Entering({"compress"})
  /\ pos' = pos + 1
  /\ IF accepts
     THEN /\ response' = [response EXCEPT ![Ctx(pos - 1)].writer = Wrapped(pos, @)]
          /\ wire' = [wire EXCEPT !.coded = TRUE]
     ELSE UNCHANGED <<response, wire>>
  /\ UNCHANGED <<stack, accepts, phase, err, panicking, ctxErr, closed, logs,
                 answer, expired>>

(* The layer that called the current one.  Fault: one too far.             *)
CallerSkipped == pos - 2
Caller        == pos - 1

(* The descent ends at pos; the layer above is next.                       *)
TurnBack(e, p, result) ==
  /\ phase' = "up" /\ pos' = Caller
  /\ err' = e /\ panicking' = p
  /\ answer' = [answer EXCEPT !.origin = pos, !.result = result]
  /\ UNCHANGED <<stack, accepts, ctxErr, closed, logs, expired>>

(* A gate returns an error (RateLimit) or panics (RateLimit with limit 0,  *)
(* a Validator of BasicAuth) without calling next.                         *)
GateRejects ==
  /\ Entering({"gate"})
  /\ TurnBack(HTTPError(429), FALSE, "error")
  /\ UNCHANGED <<response, wire>>

GatePanics ==
  /\ Entering({"gate"})
  /\ TurnBack(NoErr, TRUE, "panic")
  /\ UNCHANGED <<response, wire>>

(* CORS answers a preflight, BasicAuth a request without credentials: a    *)
(* header, no body, no error.                                              *)
GateAnswers == LET k == Ctx(pos - 1) IN
  /\ Entering({"gate"})
  /\ phase' = "up" /\ pos' = Caller
  /\ \E code \in {204, 401} :
       /\ response' = WriteHeader(k, code)
       /\ wire' = WireHeader(k, code)
       /\ answer' = [origin |-> pos, status |-> code, result |-> "nil"]
  /\ UNCHANGED <<stack, accepts, err, panicking, ctxErr, closed, logs, expired>>

(* A stdlib middleware under Adapt answers on the Response itself, without *)
(* calling next: handlerErr stays nil.                                     *)
AdaptAnswers == LET k == Ctx(pos - 1) IN
  /\ Entering({"adapt"})
  /\ phase' = "up" /\ pos' = Caller
  /\ \E code \in {200, 403} :
       /\ Render(k, code, "page")
       /\ answer' = [origin |-> pos, status |-> code, result |-> "nil"]
  /\ UNCHANGED <<stack, accepts, err, panicking, ctxErr, closed, logs, expired>>

-----------------------------------------------------------------------------
(* The endpoint, with the Ctx of the innermost copying layer.              *)

AtEndpoint == phase = "down" /\ pos = Depth + 1

(* The status the endpoint answered is the one it wrote first.             *)
Answered(code) == [answer EXCEPT !.status = IF @ = 0 THEN code ELSE @]

Works == AtEndpoint /\ UNCHANGED <<stack, accepts, phase, pos, err, panicking,
                                   ctxErr, closed, logs, expired>>

(* A header and a body go through the endpoint's Response.                 *)
Sends(code) ==
  /\ Works
  /\ Len(wire.body) < MaxWrites
  /\ Render(Ctx(Depth), code, "page")
  /\ answer' = Answered(code)

EndpointRenders == \E code \in {200, 404} : Sends(code)

(* Ctx.Redirect; with a status that is no redirect it only returns an      *)
(* error, as File does when the file cannot be opened.                     *)
EndpointRedirects == Sends(302)

(* File, and a stdlib handler under AdaptHTTP: net/http writes through the *)
(* Response.  Before it answers that the client's copy is still good, with *)
(* a header alone, or that there is no such file or no such part of it, it *)
(* deletes the coding from the headers, if they are still to be sent.      *)
DeleteCoding(w) == [w EXCEPT !.coded = @ /\ wire.status # 0,
                             !.dropped = @ \/ (w.coded /\ wire.status = 0)]

ServesNone(code) == LET k == Ctx(Depth) w == WireHeader(k, code) IN
  /\ Works
  /\ Len(wire.body) < MaxWrites
  /\ response' = WriteHeader(k, code)
  /\ wire' = DeleteCoding(IF code = 304 THEN w ELSE WithBody(w, k, "page"))
  /\ answer' = Answered(code)

EndpointServesFile == Sends(200) \/ \E code \in {304, 404, 416} : ServesNone(code)

(* A header alone: without a body, or informational, as that of an         *)
(* http.ReverseProxy under AdaptHTTP, which is not the last.               *)
SendsHeader(code) ==
  /\ Works
  /\ response' = WriteHeader(Ctx(Depth), code)
  /\ wire' = WireHeader(Ctx(Depth), code)
  /\ answer' = Answered(code)

EndpointNoContent == SendsHeader(204)

EndpointInforms == SendsHeader(103)

(* websocket.Handle: Upgrade hijacks the connection and answers past the   *)
(* Response.  It finds the connection's writer through Response.Unwrap but *)
(* not through the writer of a Compress.  An Upgrade that fails has        *)
(* rendered or not and returns an error, as any endpoint.                  *)
EndpointUpgrades ==
  /\ Works
  /\ wire.status = 0 /\ response[Ctx(Depth)].writer = <<>>
  /\ wire' = [wire EXCEPT !.status = 101, !.session = "open"]
  /\ answer' = Answered(101)
  /\ UNCHANGED response

(* The deferred Close of the connection, if there is one.  Fault: it is    *)
(* not deferred.                                                           *)
HandledThenClosed(p) == IF p THEN wire ELSE
  [wire EXCEPT !.session = IF @ = "open" THEN "closed" ELSE @]
DeferredClose(p) ==
  [wire EXCEPT !.session = IF @ = "open" THEN "closed" ELSE @]

(* The endpoint returns nil or an error: Render's own, which comes after   *)
(* the header, the WebSocket handler's, or else the one of Close.          *)
EndpointReturns ==
  /\ AtEndpoint
  /\ \/ TurnBack(NoErr, FALSE, "nil")
     \/ \E e \in Errors : TurnBack(e, FALSE, "error")
  /\ wire' = DeferredClose(FALSE)
  /\ UNCHANGED response

EndpointPanics ==
  /\ AtEndpoint
  /\ TurnBack(NoErr, TRUE, "panic")
  /\ wire' = DeferredClose(TRUE)
  /\ UNCHANGED response

-----------------------------------------------------------------------------
(* The way up.                                                             *)

Leaving(kinds) == phase = "up" /\ pos > 0 /\ stack[pos] \in kinds

Leave == /\ pos' = Caller
         /\ UNCHANGED <<stack, accepts, phase, answer>>

(* Layers that only pass on what comes, and those a panic runs through.    *)
LeavePlain ==
  /\ \/ Leaving({"adapt", "gate"})
     \/ panicking /\ Leaving({"logger", "timeout", "bodylimit"})
  /\ Leave
  /\ UNCHANGED <<err, panicking, response, ctxErr, closed, wire, logs, expired>>

(* Logger reads the status of the Ctx it was given.  Fault: of the chain's.*)
StatusOfChain(i) == response[0].status
Status(i)        == response[Ctx(i - 1)].status

LeaveLogger ==
  /\ Leaving({"logger"}) /\ ~panicking
  /\ Leave
  /\ logs' = [logs EXCEPT ![pos] = Status(pos)]
  /\ UNCHANGED <<err, panicking, response, ctxErr, closed, wire, expired>>

(* Timeout asks the context and the Ctx it made for its layer.  Faults: it *)
(* asks the Ctx it was given for the answer; or for the deadline.          *)
LateOutside(i) == ctxErr[i] = "deadline" /\ ~response[Ctx(i - 1)].written
LateParent(i)  == ctxErr[Ctx(i - 1)] = "deadline" /\ ~response[i].written
Late(i)        == ctxErr[i] = "deadline" /\ ~response[i].written

LeaveTimeout ==
  /\ Leaving({"timeout"}) /\ ~panicking
  /\ Leave
  /\ err' = IF Late(pos) THEN HTTPError(503) ELSE err
  /\ expired' = (expired \/ (ctxErr[pos] = "deadline" /\ wire.status = 0))
  /\ UNCHANGED <<panicking, response, ctxErr, closed, wire, logs>>

LeaveBodyLimit ==
  /\ Leaving({"bodylimit"}) /\ ~panicking
  /\ Leave
  /\ err' = IF err.big THEN HTTPError(413) ELSE err
  /\ UNCHANGED <<panicking, response, ctxErr, closed, wire, logs, expired>>

(* What Recoverer makes of a panic.  Faults: nothing; it does not recover. *)
RecoveredSilent == err
RecoveredLate   == panicking
Recovered       == IF panicking THEN HTTPError(500) ELSE err
StillPanicking  == FALSE

LeaveRecoverer ==
  /\ Leaving({"recoverer"})
  /\ Leave
  /\ err' = Recovered
  /\ panicking' = StillPanicking
  /\ UNCHANGED <<response, ctxErr, closed, wire, logs, expired>>

(* The deferred Close writes at least the stream's header and trailer to   *)
(* the connection, past the Response: if no header was sent yet, net/http  *)
(* sends 200.                                                              *)
LeaveCompress ==
  /\ Leaving({"compress"})
  /\ Leave
  /\ IF accepts THEN closed' = closed \cup {pos} /\ wire' = Commit(200)
                ELSE UNCHANGED <<closed, wire>>
  /\ UNCHANGED <<err, panicking, response, ctxErr, logs, expired>>

-----------------------------------------------------------------------------
(* The end of the chain.                                                   *)

AtTop == phase = "up" /\ pos = 0

(* The default error handler writes the error's text on the chain's Ctx.   *)
HandleError ==
  /\ AtTop /\ ~panicking /\ err # NoErr
  /\ phase' = "done"
  /\ Render(0, err.code, "error")
  /\ UNCHANGED <<stack, accepts, pos, err, panicking, ctxErr, closed, logs,
                 answer, expired>>

(* net/http ends the response, with 200 if nothing was written.            *)
Finish ==
  /\ AtTop /\ ~panicking /\ err = NoErr
  /\ phase' = "done"
  /\ wire' = Commit(200)
  /\ UNCHANGED <<stack, accepts, pos, err, panicking, response, ctxErr, closed,
                 logs, answer, expired>>

(* A panic that reaches net/http aborts the connection.                    *)
Abort ==
  /\ AtTop /\ panicking
  /\ phase' = "aborted"
  /\ UNCHANGED <<stack, accepts, pos, err, panicking, response, ctxErr, closed,
                 wire, logs, answer, expired>>

Served == phase \in {"done", "aborted"}

Rest == Served /\ UNCHANGED vars

-----------------------------------------------------------------------------
(* The environment: timers fire and clients leave while the request runs.  *)

(* The Ctxs in use.                                                        *)
Live == {k \in 0 .. Depth :
           k = 0 \/ (Copies(k) /\ (IF phase = "down" THEN k < pos ELSE k =< pos))}

(* A context and all derived from it end, with the first reason they get.  *)
EndContexts(k, reason) ==
  /\ ~Served
  /\ k \in Live /\ ctxErr[k] = "none"
  /\ ctxErr' = [j \in Ids |-> IF j \in Live /\ j >= k /\ ctxErr[j] = "none"
                              THEN reason ELSE ctxErr[j]]
  /\ UNCHANGED <<stack, accepts, phase, pos, err, panicking, response, closed,
                 wire, logs, answer, expired>>

DeadlinePasses == \E i \in 1 .. Depth :
  stack[i] = "timeout" /\ EndContexts(i, "deadline")

ClientLeaves == EndContexts(0, "canceled")

Next ==
  \/ EnterPlain \/ EnterCopy \/ EnterCompress
  \/ GateRejects \/ GatePanics \/ GateAnswers \/ AdaptAnswers
  \/ EndpointRenders \/ EndpointRedirects \/ EndpointServesFile
  \/ EndpointNoContent \/ EndpointInforms \/ EndpointUpgrades
  \/ EndpointReturns \/ EndpointPanics
  \/ LeavePlain \/ LeaveLogger \/ LeaveTimeout \/ LeaveBodyLimit
  \/ LeaveRecoverer \/ LeaveCompress
  \/ HandleError \/ Finish \/ Abort
  \/ DeadlinePasses \/ ClientLeaves
  \/ Rest

Spec == Init /\ [][Next]_vars

-----------------------------------------------------------------------------
(* Properties.                                                             *)

ResponseType == [status : Nat, written : BOOLEAN, writer : Seq(1 .. MaxDepth)]

WireType == [status : Nat, coded : BOOLEAN, dropped : BOOLEAN,
             body : Seq([what : {"page", "error"}, codings : Nat]),
             session : {"none", "open", "closed"}]

AnswerType == [origin : Ids \cup {MaxDepth + 1}, status : Nat,
               result : {"none", "nil", "error", "panic"}]

TypeOK ==
  /\ stack \in UNION {[1 .. n -> Layers] : n \in Ids}
  /\ accepts \in BOOLEAN /\ panicking \in BOOLEAN /\ expired \in BOOLEAN
  /\ phase \in {"down", "up", "done", "aborted"}
  /\ pos \in 0 .. Depth + 1
  /\ err \in [code : Nat, big : BOOLEAN]
  /\ response \in [Ids -> ResponseType]
  /\ ctxErr \in [Ids -> {"none", "deadline", "canceled"}]
  /\ closed \in SUBSET (1 .. Depth)
  /\ wire \in WireType
  /\ logs \in [1 .. MaxDepth -> Nat]
  /\ answer \in AnswerType

(* The layers of some kinds that the request has gone through.             *)
Passed(kinds) ==
  LET end == IF phase = "down" THEN pos ELSE answer.origin
  IN  {i \in 1 .. Depth : i < end /\ stack[i] \in kinds}

Copying == {"timeout", "adapt"}

(* Some layer of kind b lies below one of kind a.                          *)
Below(a, b) == \E i \in Passed(a), j \in Passed(b) : i < j

(* A Response that counts as written with a final status has really sent a *)
(* header, whichever copy of the Ctx it belongs to: no write is withheld   *)
(* in the belief that one happened.  An informational status counts as     *)
(* written too, and the final one that follows is withheld.                *)
WrittenIsSent ==
  \A k \in Live :
    response[k].written /\ Final(response[k].status) => wire.status # 0

(* A request whose handler (or gate) failed before it wrote anything is    *)
(* never answered as a success, whatever logging, copying, timing out and  *)
(* recovering lies in between, as long as no Compress does.                *)
FailureReported ==
  (/\ phase = "done"
   /\ answer.result \in {"error", "panic"}
   /\ answer.status = 0
   /\ Passed({"compress"}) = {})
  => wire.status >= 400

(* A deadline that passed while nothing was sent, not even an              *)
(* informational status, is answered 503 in the end, from however deep a   *)
(* Timeout it comes.                                                       *)
DeadlineAnswered ==
  (phase = "done" /\ expired /\ answer.status = 0 /\ Passed({"compress"}) = {})
  => wire.status = 503

(* An answer the endpoint completed without an error reaches the client    *)
(* with its own status and nothing after it, however late it is, provided  *)
(* no Timeout has another Ctx copy below it and no informational status    *)
(* came first.                                                             *)
Untouched ==
  /\ wire.status = answer.status
  /\ \A n \in DOMAIN wire.body : wire.body[n].what = "page"

AnswerUntouched ==
  (/\ phase = "done" /\ answer.result = "nil" /\ Final(answer.status)
   /\ ~Below({"timeout"}, Copying))
  => Untouched

(* A panic reaches net/http only when no Recoverer lies above it.          *)
RecovererShields == phase = "aborted" => Passed({"recoverer"}) = {}

(* Every part of the body is coded as the headers declare, provided there  *)
(* is one Compress at most, it sees the chain's own Ctx and net/http does  *)
(* not delete what it has declared.                                        *)
CodedAsDeclared ==
  \A n \in DOMAIN wire.body :
    wire.body[n].codings = IF wire.coded THEN 1 ELSE 0

SingleCodingHonest ==
  (/\ Cardinality(Passed({"compress"})) =< 1 /\ ~Below(Copying, {"compress"})
   /\ ~wire.dropped)
  => CodedAsDeclared

(* A WebSocket session is over when its handler has returned or panicked,  *)
(* whoever recovers or not, and nothing that layers, Recoverer, a late     *)
(* Timeout or the error handler still write gets onto its connection.      *)
SessionSealed ==
  wire.session # "none" =>
    /\ wire.session = "open" <=> phase = "down"
    /\ wire.status = 101 /\ wire.body = <<>> /\ ~wire.coded

(* What a Logger records is the status the client got, when the endpoint   *)
(* answered through its Response, at first with a final status (a          *)
(* WebSocket does not, and is logged as a 200), and no Ctx copy lies       *)
(* between the two.                                                        *)
LogTrueIfAnswered ==
  (Served /\ answer.status >= 200) =>
    \A i \in Passed({"logger"}) :
      (logs[i] # 0 /\ ~\E j \in Passed(Copying) : i < j)
      => logs[i] = wire.status

(* What the client sees is a well-formed exchange, whatever the chain and  *)
(* its order, and whoever fails, panics, is late or leaves: one final      *)
(* status, sent before any part of the body; codings declared or withdrawn *)
(* while that is of use; no body and no coding in a session; an error's    *)
(* text last; no end without an answer but an abort.                       *)
Client == INSTANCE Exchange WITH
            status <- wire.status,
            coded <- wire.coded,
            body <- [n \in DOMAIN wire.body |-> wire.body[n].what],
            session <- wire.session,
            end <- IF Served THEN phase ELSE "none"

ImplementsExchange == Client!Spec

-----------------------------------------------------------------------------
(* The inductive invariants behind these properties (see Pipeline_proofs). *)

(* Nothing has failed while the request is on its way down.                *)
WayOK ==
  /\ phase = "down" => /\ pos >= 1 /\ ~panicking /\ err = NoErr /\ ~expired
                       /\ answer.result = "none"
  /\ phase = "up" => pos =< Depth /\ pos < answer.origin
  /\ phase = "done" => ~panicking
  /\ err = NoErr \/ err.code >= 400

(* No Response, in use or not, is ahead of the wire, nor is the body, nor  *)
(* a closed writer; and nothing is on the wire before somebody answers.    *)
SentOK ==
  /\ \A k \in Ids :
       response[k].written /\ Final(response[k].status) => wire.status # 0
  /\ wire.status = 0 => wire.body = <<>> /\ closed = {}
  /\ phase = "down" /\ answer.status = 0 => wire.status = 0
  /\ phase \in {"down", "up"} /\ answer.status = 0 =>
       \A k \in Ids : ~response[k].written

(* A declared coding is done by the writer the next layer will find, and   *)
(* only the endpoint opens a session.                                      *)
SessionOK ==
  /\ phase = "down" /\ wire.coded => response[Ctx(pos - 1)].writer # <<>>
  /\ phase = "down" /\ pos =< Depth => wire.session = "none"
  /\ SessionSealed

(* A panic has not yet come to the Recoverers above it.                    *)
PanicOK ==
  panicking => \A i \in Passed({"recoverer"}) : phase = "up" /\ i =< pos

(* A failure before the first write stays an error until it is answered.   *)
FailureOK ==
  /\ answer.result \in {"error", "panic"}
  /\ answer.status = 0
  /\ Passed({"compress"}) = {}
  => \/ phase = "up" /\ wire.status = 0 /\ (panicking \/ err.code >= 400)
     \/ phase = "done" /\ wire.status >= 400
     \/ phase = "aborted"

(* So does a deadline nobody was faster than.                              *)
DeadlineOK ==
  expired /\ answer.status = 0 /\ Passed({"compress"}) = {}
  => \/ phase = "up" /\ wire.status = 0 /\ ~panicking /\ err = HTTPError(503)
     \/ phase = "done" /\ wire.status = 503

(* The first answer is the one on the wire and in the Response it went     *)
(* through; only the error handler writes the text of errors.              *)
Last == IF phase = "down" THEN pos ELSE answer.origin

AnswerOK ==
  /\ answer.origin =< Depth + 1
  /\ phase = "down" /\ pos =< Depth => answer.status = 0
  /\ Final(answer.status) => wire.status = answer.status
  /\ answer.status >= 200 /\ phase \in {"down", "up"} =>
       /\ response[Ctx(Last - 1)].written
       /\ response[Ctx(Last - 1)].status = answer.status
  /\ phase # "done" => \A n \in DOMAIN wire.body : wire.body[n].what = "page"

(* Then no Timeout turns a finished answer into an error.                  *)
UntouchedOK ==
  (phase = "up" /\ answer.result = "nil" /\ answer.status >= 200
   /\ ~Below({"timeout"}, Copying))
  => err = NoErr /\ ~panicking

(* And a Logger on the same Ctx logs it.                                   *)
LogOK ==
  /\ phase = "down" => \A i \in 1 .. Depth : logs[i] = 0
  /\ answer.status >= 200 =>
       \A i \in Passed({"logger"}) :
         (logs[i] # 0 /\ ~\E j \in Passed(Copying) : i < j)
         => logs[i] = answer.status

(* A Compress on the chain's own Ctx wraps the writer all copies get.      *)
CodingOK ==
  /\ Passed({"compress"}) = {} => ~wire.coded /\ ~wire.dropped
  /\ (\A i, j \in Passed({"compress"}) : i = j) /\ ~Below(Copying, {"compress"}) =>
       /\ \A k \in {0} \cup Passed(Copying) :
            Len(response[k].writer) = IF wire.coded \/ wire.dropped THEN 1 ELSE 0
       /\ ~wire.dropped => CodedAsDeclared

-----------------------------------------------------------------------------
(* What the documentation says without these provisos; each of them fails. *)

(* README.md:879, for a StatusError: the default error handler responds    *)
(* with its status.  With Compress the client gets 200.                    *)
StatusErrorAnswered ==
  (/\ phase = "done" /\ answer.result = "error" /\ answer.status = 0
   /\ ~expired)
  => wire.status >= 400

(* timeout.go:15-17: the 503 is for a deadline exceeded before the handler *)
(* writes.  With another Ctx copy below the Timeout, a response written in *)
(* full gets the text of a 503 appended.                                   *)
TimeoutOnlyUnanswered ==
  (phase = "done" /\ answer.result = "nil" /\ Final(answer.status)) => Untouched
=============================================================================
