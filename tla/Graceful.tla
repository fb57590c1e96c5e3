------------------------------ MODULE Graceful ------------------------------
(***************************************************************************)
(* shinobi.go, serveGraceful: ListenGraceful and ListenTLSGraceful run     *)
(* the server in a goroutine, wait for it to fail or for SIGINT or         *)
(* SIGTERM, and then shut it down, waiting for the requests in flight at   *)
(* most the given timeout.                                                 *)
(*                                                                         *)
(* Two goroutines, two buffered channels, one timer and the operating      *)
(* system's signals interleave.  http.Server and os/signal are external:   *)
(* they are modelled as far as serveGraceful uses them.                    *)
(***************************************************************************)
EXTENDS Naturals

CONSTANTS
  Conns,       \* the connections clients may open
  MaxSignals   \* bound: the signals sent

ASSUME SignalsAssumption == MaxSignals \in Nat

VARIABLES
  main,        \* where serveGraceful is
  result,      \* what it returned
  relayed,     \* signals go to quit instead of ending the process
  quit,        \* signals in the channel quit
  errCh,       \* errors in the channel errCh
  server,      \* where the goroutine that runs start() is
  shutting,    \* Server.inShutdown; the listener is closed
  expired,     \* the context of the timeout has ended
  conn,        \* conn[c]: the state of connection c
  signals,     \* history: the signals sent
  killed       \* a signal ended the process

mainVars   == <<main, result, relayed>>
serverVars == <<server, shutting>>
sigVars    == <<signals, killed>>
vars == <<mainVars, quit, errCh, serverVars, expired, conn, sigVars>>

Init ==
  /\ main = "begin" /\ result = "none" /\ relayed = FALSE
  /\ quit = 0 /\ errCh = 0
  /\ server = "none" /\ shutting = FALSE
  /\ expired = FALSE
  /\ conn = [c \in Conns |-> "none"]
  /\ signals = 0 /\ killed = FALSE

(* What Shutdown waits for: a connection with a request, or with its first *)
(* request still to come.                                                  *)
Active == {c \in Conns : conn[c] \in {"new", "active"}}
Idle   == {c \in Conns : conn[c] = "idle"}

-----------------------------------------------------------------------------
(* serveGraceful.                                                          *)

Notify ==
  /\ main = "begin"
  /\ main' = "notified" /\ relayed' = TRUE
  /\ UNCHANGED <<result, quit, errCh, serverVars, expired, conn, sigVars>>

Go ==
  /\ main = "notified"
  /\ main' = "select" /\ server' = "starting"
  /\ UNCHANGED <<result, relayed, quit, errCh, shutting, expired, conn, sigVars>>

(* Returning runs the deferred signal.Stop.                                *)
Return(what) == main' = "returned" /\ result' = what /\ relayed' = FALSE

ReceiveErr ==
  /\ main = "select" /\ errCh = 1
  /\ errCh' = 0
  /\ Return("error")
  /\ UNCHANGED <<quit, serverVars, expired, conn, sigVars>>

(* Fault: signal.Stop is not deferred but called at once.                  *)
StoppedEarly == FALSE
StillRelayed == relayed

ReceiveQuit ==
  /\ main = "select" /\ quit = 1
  /\ quit' = 0
  /\ main' = "quitting" /\ relayed' = StillRelayed
  /\ UNCHANGED <<result, errCh, serverVars, expired, conn, sigVars>>

(* Shutdown closes the listener; the timeout runs since just before.       *)
ShutdownStarts ==
  /\ main = "quitting"
  /\ main' = "shutdown" /\ shutting' = TRUE
  /\ UNCHANGED <<result, relayed, quit, errCh, server, expired, conn, sigVars>>

(* Once Serve has let go of the listener, Shutdown looks at the            *)
(* connections, now and again until it returns.  A look closes those that  *)
(* are idle, and the new ones that have sent nothing for five seconds; the *)
(* server forgets them, also one whose request was just read (orphaned:    *)
(* its handler runs, its answer is lost).  With no other left, it is done. *)
Look(stale, late) ==
  /\ conn' = [c \in Conns |-> CASE c \in late -> "orphaned"
                              [] c \in (Idle \cup stale) \ late -> "closed"
                              [] OTHER -> conn[c]]
  /\ \/ Active \ stale = {} /\ Return("nil")
     \/ Active \ stale # {} /\ main' = "waiting" /\ UNCHANGED <<result, relayed>>

Poll ==
  /\ main \in {"shutdown", "waiting"} /\ server # "serving"
  /\ \E stale \in SUBSET {c \in Conns : conn[c] = "new"} :
       \E late \in SUBSET (Idle \cup stale) : Look(stale, late)
  /\ UNCHANGED <<quit, errCh, serverVars, expired, sigVars>>

(* Fault: the error of Shutdown is dropped.                                *)
ErrorDropped  == "nil"
ShutdownError == "timeout"

(* Between two looks it takes the end of the context, whatever has become  *)
(* of the connections since the last one.                                  *)
ShutdownTimesOut ==
  /\ main = "waiting" /\ expired
  /\ Return(ShutdownError)
  /\ UNCHANGED <<quit, errCh, serverVars, expired, conn, sigVars>>

-----------------------------------------------------------------------------
(* The goroutine that runs start().                                        *)

ServerStep(from, to) ==
  /\ server \in from /\ server' = to
  /\ UNCHANGED <<mainVars, quit, shutting, expired, conn, sigVars>>

(* ListenAndServe asks whether the server is shutting down, listens, and   *)
(* asks again when it registers the listener.                              *)
Starts(from, to) ==
  ServerStep({from}, IF shutting THEN "closed" ELSE to) /\ UNCHANGED errCh

Listen == Starts("starting", "listening")
Serve  == Starts("listening", "serving")

(* The address is in use, a certificate is missing, Accept fails.          *)
Fail ==
  /\ server = "listening" \/ ~shutting
  /\ ServerStep({"listening", "serving"}, "failed")
  /\ UNCHANGED errCh

(* The accept loop finds the listener closed.                              *)
Closed == shutting /\ ServerStep({"serving"}, "closed") /\ UNCHANGED errCh

(* A send the channel has room for.  Fault: an unbuffered channel, to      *)
(* which one sends only while serveGraceful receives.                      *)
RoomInSelect == errCh = 0 /\ main = "select"
RoomInErrCh  == errCh = 0

(* The outcomes of start() that are sent.  Fault: the test is negated.     *)
Negated  == {"closed"}
Reported == {"failed"}

Report ==
  /\ RoomInErrCh
  /\ ServerStep(Reported, "done")
  /\ errCh' = 1

EndQuietly ==
  ServerStep({"closed", "failed"} \ Reported, "done") /\ UNCHANGED errCh

-----------------------------------------------------------------------------
(* The timer, the clients, the operating system.                           *)

Expire ==
  /\ main \in {"quitting", "shutdown", "waiting"} /\ ~expired
  /\ expired' = TRUE
  /\ UNCHANGED <<mainVars, quit, errCh, serverVars, conn, sigVars>>

Moves(c, from, to) ==
  /\ conn[c] \in from
  /\ conn' = [conn EXCEPT ![c] = to]
  /\ UNCHANGED <<mainVars, quit, errCh, serverVars, expired, sigVars>>

(* Accept may return a connection even after Shutdown has closed the       *)
(* listener, as long as its loop has not noticed.                          *)
Accept(c) == server = "serving" /\ Moves(c, {"none"}, "new")

(* A request is read: the first, or another on a connection kept alive.    *)
Arrive(c) == Moves(c, {"new", "idle"}, "active")

(* Its handler returns; a server that shuts down keeps nothing alive.      *)
Answer(c) == \/ ~shutting /\ Moves(c, {"active"}, "idle")
             \/ Moves(c, {"active"}, "closed")

(* The client closes a connection without a request, or its time is up.    *)
Leave(c) == Moves(c, {"new", "idle"}, "closed")

(* A WebSocket handler takes its connection over: the server forgets it,   *)
(* and the deferred Close of websocket.Handle ends it.                     *)
Hijack(c) == Moves(c, {"active"}, "hijacked")

(* The handler of a connection the server has forgotten returns.           *)
HangUp(c) == Moves(c, {"hijacked", "orphaned"}, "closed")

Client(c) ==
  Accept(c) \/ Arrive(c) \/ Answer(c) \/ Leave(c) \/ Hijack(c) \/ HangUp(c)

(* os/signal never blocks: a signal quit has no room for is lost.  Fault:  *)
(* an unbuffered channel.                                                  *)
QueueInSelect == quit = 0 /\ main = "select"
QueueHasRoom  == quit = 0

Signal ==
  /\ signals < MaxSignals /\ main # "returned"
  /\ signals' = signals + 1
  /\ quit' = IF relayed /\ QueueHasRoom THEN 1 ELSE quit
  /\ killed' = ~relayed
  /\ UNCHANGED <<mainVars, errCh, serverVars, expired, conn>>

Main   == \/ Notify \/ Go \/ ReceiveErr \/ ReceiveQuit
          \/ ShutdownStarts \/ Poll \/ ShutdownTimesOut
Server == Listen \/ Serve \/ Closed \/ Report \/ EndQuietly

Over == killed \/ (main = "returned" /\ server = "done")

Next ==
  \/ ~killed /\ (Main \/ Server \/ Fail \/ Expire \/ Signal)
  \/ ~killed /\ \E c \in Conns : Client(c)
  \/ Over /\ UNCHANGED vars

(* Both goroutines run when they can and the timer fires.  Neither clients *)
(* nor handlers nor signals owe anything.                                  *)
Spec == Init /\ [][Next]_vars
FairSpec == /\ Spec
            /\ WF_vars(~killed /\ Main)
            /\ WF_vars(~killed /\ Server)
            /\ WF_vars(~killed /\ Expire)

-----------------------------------------------------------------------------
(* Properties.                                                             *)

TypeOK ==
  /\ main \in {"begin", "notified", "select", "quitting", "shutdown", "waiting",
              "returned"}
  /\ result \in {"none", "nil", "error", "timeout"}
  /\ relayed \in BOOLEAN /\ shutting \in BOOLEAN
  /\ expired \in BOOLEAN /\ killed \in BOOLEAN
  /\ quit \in {0, 1} /\ errCh \in {0, 1}
  /\ server \in {"none", "starting", "listening", "serving", "failed", "closed",
                 "done"}
  /\ conn \in [Conns -> {"none", "new", "active", "idle", "hijacked", "orphaned",
                       "closed"}]
  /\ signals \in Nat

(* serveGraceful returns nil only when the server waits for no connection  *)
(* any more, and none is accepted after that: also when the signal comes   *)
(* before, while or after the other goroutine opens the listener.  What    *)
(* the server has forgotten may go on: WebSocket sessions, and a request   *)
(* read at the moment its idle connection was closed.                      *)
NilMeansDrained ==
  result = "nil" => Active = {} /\ Idle = {} /\ server # "serving"

(* One signal is enough, whenever it comes after signal.Notify, and        *)
(* whatever the handlers do: serveGraceful returns.                        *)
SignalEndsService == signals > 0 ~> (main = "returned" \/ killed)

(* A server that fails does not leave serveGraceful waiting.               *)
FailureEndsService == server = "failed" ~> (main = "returned" \/ killed)

(* The goroutine does not outlive serveGraceful: nothing it sends blocks,  *)
(* even when serveGraceful has taken a signal instead of its error.        *)
GoroutineEnds == main = "returned" ~> server = "done"

(* From Notify until it returns, no further signal ends the process and    *)
(* cuts the requests in flight.                                            *)
SignalsAreHarmless == killed => main = "begin"

(* What serveGraceful promises, however its goroutines, the timer, the     *)
(* signals and the clients interleave: the door of new connections opens   *)
(* once at most and is shut for good before it returns, whatever it        *)
(* returns; a timeout is returned only after the time is up, and after a   *)
(* look behind the shut door that left a connection to wait for (which may *)
(* have ended since); nil only by a look that left none; a request the     *)
(* server knows of is ended by its handler alone; and a signal ends the    *)
(* process only before the door could open.                                *)
Door ==
  CASE server = "serving" -> "open"
    [] server \in {"failed", "closed", "done"} -> "shut"
    [] server \in {"none", "starting", "listening"} ->
         IF shutting THEN "shut" ELSE "unopened"

Promise == INSTANCE Service WITH
             door <- Door, verdict <- result, dead <- killed,
             late <- expired, found <- (main = "waiting")

ImplementsService == Promise!Spec

-----------------------------------------------------------------------------
(* The inductive invariant behind the safety properties.                   *)

(* The listener is shut as long as the answer depends on it.               *)
ListenerShut ==
  /\ main \in {"shutdown", "waiting"} \/ result = "nil" => shutting
  /\ main = "waiting" => server # "serving"

DrainedForGood ==
  result = "nil" => /\ server # "serving"
                    /\ \A c \in Conns :
                       conn[c] \in {"none", "hijacked", "orphaned", "closed"}

Waiting == {"notified", "select", "quitting", "shutdown", "waiting"}

RelayedWhileWaiting == /\ main \in Waiting => relayed
                       /\ killed => main = "begin"

(* An error in the channel is the goroutine's last act.                    *)
ErrorIsLast == errCh = 1 => server = "done"

(* Nothing is open before the goroutine runs, nothing returned before the  *)
(* end.                                                                    *)
InOrder ==
  /\ main \in {"begin", "notified"} => server = "none" /\ ~shutting
  /\ server \in {"none", "starting", "listening"} =>
       \A c \in Conns : conn[c] = "none"
  /\ main # "returned" => result = "none"

Inv == /\ TypeOK /\ ListenerShut /\ DrainedForGood /\ RelayedWhileWaiting
       /\ ErrorIsLast /\ InOrder
=============================================================================
