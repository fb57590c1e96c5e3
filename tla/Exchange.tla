------------------------------ MODULE Exchange ------------------------------
(***************************************************************************)
(* What the client gets for one request, without layers, Responses, copies *)
(* and writers: headers, which are sent once and complete; then the parts  *)
(* of a body, if the status has one, and the text of an error at the end   *)
(* only; or a WebSocket session in place of all that, which is over when   *)
(* the exchange is.                                                        *)
(* Pipeline.tla shows that every chain of shinobi's middlewares, whatever  *)
(* fails in it and whenever, implements this.                              *)
(***************************************************************************)
EXTENDS Naturals, Sequences

VARIABLES
  status,   \* the final one of the response, 0 before its headers are sent
  coded,    \* the headers declare a content coding
  body,     \* the parts of the body: "page" or "error"
  session,  \* the WebSocket session: "none", "open" or "closed"
  end       \* "none", then "done" or "aborted"

exchangeVars == <<status, coded, body, session, end>>

Bodyless == {101, 204, 304}

Init ==
  /\ status = 0 /\ coded = FALSE
  /\ body = <<>>
  /\ session = "none" /\ end = "none"

(* A coding is declared, or withdrawn, while it can still be told.         *)
Declare ==
  /\ status = 0
  /\ coded' \in BOOLEAN
  /\ UNCHANGED <<status, body, session, end>>

(* The headers are out, with the status they had or with a first one.      *)
HeadersOut ==
  /\ status' \in Nat \ {0}
  /\ status # 0 => status' = status

(* At most one part follows them, where there may be one.                  *)
Part(what) ==
  \/ body' = body
  \/ status' \notin Bodyless /\ body' = Append(body, what)

(* The last moment to withdraw a coding is that of the headers.            *)
Send ==
  /\ HeadersOut /\ Part("page")
  /\ coded' = coded \/ (status = 0 /\ coded' = FALSE)
  /\ UNCHANGED <<session, end>>

(* The connection is taken over before anything is sent or declared.       *)
Upgrade ==
  /\ status = 0 /\ ~coded /\ session = "none"
  /\ status' = 101 /\ session' = "open"
  /\ UNCHANGED <<coded, body, end>>

HangUp ==
  /\ session = "open" /\ session' = "closed"
  /\ UNCHANGED <<status, coded, body, end>>

(* Every exchange that is not aborted ends with an answer.                 *)
Finish ==
  /\ session # "open"
  /\ HeadersOut /\ Part("error")
  /\ end' = "done"
  /\ UNCHANGED <<coded, session>>

Abort ==
  /\ session # "open"
  /\ end' = "aborted"
  /\ UNCHANGED <<status, coded, body, session>>

Next ==
  /\ end = "none"
  /\ Declare \/ Send \/ Upgrade \/ HangUp \/ Finish \/ Abort

Spec == Init /\ [][Next]_exchangeVars
=============================================================================
