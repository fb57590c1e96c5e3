-------------------------- MODULE Graceful_proofs ---------------------------
(* Proofs about Graceful: what serveGraceful returns and how it treats     *)
(* signals, for any number of connections and signals.                     *)
EXTENDS Graceful, TLAPS

(* The state before serveGraceful runs satisfies the invariant.            *)
LEMMA InitInv == Init => Inv
<1>1. Init => TypeOK
  <2> SUFFICES ASSUME Init PROVE TypeOK
    OBVIOUS
  <2>1. /\ relayed \in BOOLEAN /\ shutting \in BOOLEAN
        /\ expired \in BOOLEAN /\ killed \in BOOLEAN
    BY Zenon DEF Init
  <2>2. conn \in [Conns -> {"none", "new", "active", "idle", "hijacked", "orphaned",
                         "closed"}]
    BY DEF Init
  <2> QED
    BY <2>1, <2>2 DEF Init, TypeOK
<1>2. Init => /\ ListenerShut /\ DrainedForGood /\ RelayedWhileWaiting
              /\ ErrorIsLast /\ InOrder
  BY DEF Init, ListenerShut, DrainedForGood, RelayedWhileWaiting, Waiting,
         ErrorIsLast, InOrder
<1> QED
  BY <1>1, <1>2 DEF Inv

(* serveGraceful's own steps keep the invariant.                           *)
LEMMA MainInv == ASSUME Inv, Main, ~killed PROVE Inv'
<1> USE DEF Inv, TypeOK, ListenerShut, DrainedForGood, RelayedWhileWaiting,
            Waiting, ErrorIsLast, InOrder, sigVars, serverVars, mainVars, Return
<1>1. CASE Notify BY <1>1 DEF Notify
<1>2. CASE Go BY <1>2 DEF Go
<1>3. CASE ReceiveErr BY <1>3 DEF ReceiveErr
<1>4. CASE ReceiveQuit BY <1>4 DEF ReceiveQuit, StillRelayed
<1>5. CASE ShutdownStarts BY <1>5 DEF ShutdownStarts
<1>6. CASE Poll
  <2>1. /\ main \in {"shutdown", "waiting"} /\ server # "serving"
        /\ UNCHANGED <<quit, errCh, server, shutting, expired, signals, killed>>
    BY <1>6, Zenon DEF Poll
  <2>2. PICK stale \in SUBSET {c \in Conns : conn[c] = "new"} :
          \E late \in SUBSET (Idle \cup stale) : Look(stale, late)
    BY <1>6, Zenon DEF Poll
  <2>3. PICK late \in SUBSET (Idle \cup stale) : Look(stale, late)
    BY <2>2
  <2>4. conn' \in [Conns -> {"none", "new", "active", "idle", "hijacked", "orphaned",
                             "closed"}]
    BY <2>3 DEF Idle, Look
  <2>5. CASE Active \ stale = {} /\ Return("nil")
    <3>1. \A c \in Conns : conn'[c] \in {"none", "hijacked", "orphaned", "closed"}
      BY <2>3, <2>5 DEF Idle, Active, Look
    <3>2. relayed' = FALSE /\ main' = "returned" /\ result' = "nil"
      BY <2>5, Zenon
    <3>3. shutting' = TRUE
      BY <2>1
    <3>4. TypeOK'
      BY <2>1, <2>4, <3>2
    <3>5. InOrder'
      <4>1. \A c \in Conns : conn[c] = "none" => conn'[c] = "none"
        BY <2>3 DEF Idle, Look
      <4> QED
        BY <2>1, <3>2, <4>1
    <3>6. RelayedWhileWaiting' /\ ErrorIsLast'
      BY <2>1, <3>2
    <3>7. ListenerShut' /\ DrainedForGood'
      BY <2>1, <3>1, <3>2, <3>3
    <3> QED
      BY <3>4, <3>5, <3>6, <3>7, Zenon
  <2>6. CASE main' = "waiting" /\ UNCHANGED <<result, relayed>>
    <3>1. \A c \in Conns : conn[c] = "none" => conn'[c] = "none"
      BY <2>3 DEF Idle, Look
    <3>2. result' = "none"
      BY <2>1, <2>6
    <3> QED
      BY <2>1, <2>4, <2>6, <3>1, <3>2
  <2> QED
    BY <2>3, <2>5, <2>6 DEF Look
<1>7. CASE ShutdownTimesOut BY <1>7 DEF ShutdownTimesOut, ShutdownError
<1> QED
  BY <1>1, <1>2, <1>3, <1>4, <1>5, <1>6, <1>7 DEF Main

(* The steps of the goroutine that runs start() keep the invariant.        *)
LEMMA ServerInv == ASSUME Inv, Server \/ Fail, ~killed PROVE Inv'
<1> USE DEF Inv, TypeOK, ListenerShut, DrainedForGood, RelayedWhileWaiting,
            Waiting, ErrorIsLast, InOrder, sigVars, serverVars, mainVars, ServerStep
<1>1. CASE Listen BY <1>1 DEF Listen, Starts
<1>2. CASE Serve BY <1>2 DEF Serve, Starts
<1>3. CASE Closed BY <1>3 DEF Closed
<1>4. CASE Report BY <1>4 DEF Report, Reported
<1>5. CASE EndQuietly BY <1>5 DEF EndQuietly, Reported
<1>6. CASE Fail BY <1>6 DEF Fail
<1> QED
  BY <1>1, <1>2, <1>3, <1>4, <1>5, <1>6 DEF Server

(* The timer, clients and signals keep the invariant.                      *)
LEMMA OutsideInv ==
  ASSUME Inv, ~killed,
         Expire \/ Signal \/ \E c \in Conns : Client(c)
  PROVE  Inv'
<1> USE DEF Inv, TypeOK, ListenerShut, DrainedForGood, RelayedWhileWaiting,
            Waiting, ErrorIsLast, InOrder, sigVars, serverVars, mainVars
<1>1. CASE Expire BY <1>1 DEF Expire
<1>2. CASE Signal BY <1>2 DEF Signal, QueueHasRoom
<1>3. ASSUME NEW c \in Conns, Accept(c) PROVE Inv' BY <1>3 DEF Accept, Moves
<1>4. ASSUME NEW c \in Conns, NEW to \in {"active", "idle", "closed", "hijacked"},
             Moves(c, {"new", "idle", "active", "hijacked", "orphaned"}, to),
             conn[c] \in {"hijacked", "orphaned"} => to = "closed"
      PROVE  Inv'
  BY <1>4 DEF Moves
<1>5. ASSUME NEW c \in Conns, Arrive(c) \/ Answer(c) \/ Leave(c) \/ Hijack(c)
      PROVE  Inv'
  BY <1>4, <1>5 DEF Arrive, Answer, Leave, Hijack, Moves
<1>6. ASSUME NEW c \in Conns, HangUp(c) PROVE Inv'
  BY <1>4, <1>6 DEF HangUp, Moves
<1> QED
  BY <1>1, <1>2, <1>3, <1>5, <1>6 DEF Client

(* Inv holds in every reachable state.                                     *)
THEOREM Invariance == Spec => []Inv
<1>1. Inv /\ [Next]_vars => Inv'
  <2> SUFFICES ASSUME Inv, [Next]_vars PROVE Inv'
    OBVIOUS
  <2>1. CASE UNCHANGED vars
    BY <2>1 DEF Inv, TypeOK, ListenerShut, DrainedForGood, RelayedWhileWaiting,
                Waiting, ErrorIsLast, InOrder, vars, mainVars, serverVars, sigVars
  <2> QED
    BY <2>1, MainInv, ServerInv, OutsideInv DEF Next
<1> QED
  BY <1>1, InitInv, PTL DEF Spec

(* A nil result means that the server waits for no connection, now and     *)
(* later.                                                                  *)
THEOREM NilDrained == Spec => []NilMeansDrained
<1>1. Inv => NilMeansDrained
  BY DEF Inv, DrainedForGood, NilMeansDrained, Active, Idle
<1> QED
  BY <1>1, Invariance, PTL

(* No signal after Notify ends the process.                                *)
THEOREM SignalsHarmless == Spec => []SignalsAreHarmless
<1>1. Inv => SignalsAreHarmless
  BY DEF Inv, RelayedWhileWaiting, SignalsAreHarmless
<1> QED
  BY <1>1, Invariance, PTL

-----------------------------------------------------------------------------
(* What serveGraceful promises.                                            *)

(* The door, case by case.                                                 *)
LEMMA DoorIs ==
  /\ server \in {"none", "starting", "listening"} /\ shutting => Door = "shut"
  /\ server \in {"failed", "closed", "done"} => Door = "shut"
  /\ server = "serving" => Door = "open"
  /\ server \in {"none", "starting", "listening"} /\ ~shutting => Door = "unopened"
  BY DEF Door

(* And after a step.                                                       *)
LEMMA DoorIsNext ==
  /\ server' \in {"none", "starting", "listening"} /\ shutting' => Door' = "shut"
  /\ server' \in {"failed", "closed", "done"} => Door' = "shut"
  /\ server' = "serving" => Door' = "open"
  /\ server' \in {"none", "starting", "listening"} /\ ~shutting' => Door' = "unopened"
  BY DEF Door

(* Before serveGraceful runs nothing is open and nobody is served.         *)
LEMMA InitRefines == Init => Promise!Init
  BY DoorIs DEF Init, Promise!Init

(* serveGraceful shuts the door and gives its verdict.                     *)
LEMMA MainRefines ==
  ASSUME Inv, Main, ~killed
  PROVE  Promise!Next \/ UNCHANGED Promise!serviceVars
<1> USE DEF sigVars, serverVars, mainVars, Promise!serviceVars
<1>1. /\ main # "returned" => result = "none"
      /\ main \in {"shutdown", "waiting"} => shutting
      /\ main = "waiting" => server # "serving"
      /\ errCh = 1 => server = "done"
      /\ main \in {"begin", "notified"} => server = "none" /\ ~shutting
      /\ server \in {"none", "starting", "listening", "serving", "failed", "closed",
                     "done"}
  BY DEF Inv, TypeOK, InOrder, ListenerShut, ErrorIsLast
<1>2. CASE Notify \/ ReceiveQuit
  <2>1. /\ UNCHANGED <<shutting, server, conn, result, expired, killed>>
        /\ main # "waiting" /\ main' # "waiting"
    BY <1>2 DEF Notify, ReceiveQuit
  <2> QED
    BY <2>1 DEF Door
<1>3. CASE Go
  <2>1. /\ UNCHANGED <<conn, result, expired, killed>>
        /\ Door' = "unopened" /\ Door = "unopened"
        /\ main # "waiting" /\ main' # "waiting"
    BY <1>1, <1>3, DoorIs, DoorIsNext DEF Go
  <2> QED
    BY <2>1
<1>4. CASE ReceiveErr
  <2>1. /\ UNCHANGED <<conn, expired, killed>> /\ Door = "shut" /\ Door' = "shut"
        /\ result = "none" /\ result' = "error"
        /\ main # "waiting" /\ main' # "waiting"
    BY <1>1, <1>4, DoorIs, DoorIsNext DEF ReceiveErr, Return
  <2>2. Promise!Decide
    BY <2>1 DEF Promise!Decide, Promise!Failed
  <2> QED
    BY <2>2 DEF Promise!Next
<1>5. CASE ShutdownStarts
  <2>1. /\ UNCHANGED <<server, conn, result, expired, killed>> /\ shutting'
        /\ main # "waiting" /\ main' # "waiting"
    BY <1>5 DEF ShutdownStarts
  <2>2. CASE server = "serving"
    BY <2>1, <2>2, DoorIs, DoorIsNext
  <2>3. CASE server # "serving"
    <3>1. Door' = "shut"
      BY <1>1, <2>1, <2>3, DoorIsNext
    <3>2. Promise!Shut
      BY <2>1, <3>1 DEF Promise!Shut
    <3> QED
      BY <3>2 DEF Promise!Next
  <2> QED
    BY <2>2, <2>3
<1>6. CASE Poll
  <2>1. /\ main \in {"shutdown", "waiting"} /\ server # "serving"
        /\ UNCHANGED <<server, shutting, expired, killed>>
    BY <1>6, Zenon DEF Poll
  <2>2. /\ Door = "shut" /\ Door' = "shut" /\ result = "none"
    BY <1>1, <2>1, DoorIs, DoorIsNext
  <2>3. PICK stale \in SUBSET {c \in Conns : conn[c] = "new"} :
          \E late \in SUBSET (Idle \cup stale) : Look(stale, late)
    BY <1>6, Zenon DEF Poll
  <2>4. PICK late \in SUBSET (Idle \cup stale) : Look(stale, late)
    BY <2>3
  <2>5. conn \in [Conns -> {"none", "new", "active", "idle", "hijacked", "orphaned",
                            "closed"}]
    BY DEF Inv, TypeOK
  <2>6. \A c \in Conns :
          \/ conn[c] # "idle" /\ conn'[c] = conn[c]
          \/ conn[c] \in {"idle", "new"} /\ conn'[c] \in {"closed", "orphaned"}
    BY <2>4 DEF Idle, Look
  <2>7. conn' \in [Conns -> {"none", "new", "active", "hijacked", "orphaned", "closed"}]
    BY <2>4, <2>5 DEF Idle, Look
  <2>8. {c \in Conns : conn'[c] \in {"new", "active"}} = Active \ stale
    BY <2>4 DEF Idle, Active, Look
  <2>9. Promise!Busy' = Active \ stale
    BY <2>8 DEF Promise!Busy
  <2>10. Promise!Look
    <3>1. CASE Active \ stale = {} /\ Return("nil")
      BY <2>6, <2>7, <2>9, <3>1 DEF Promise!Look, Return
    <3>2. CASE Active \ stale # {} /\ main' = "waiting" /\ UNCHANGED <<result, relayed>>
      BY <2>2, <2>6, <2>7, <2>9, <3>2 DEF Promise!Look
    <3> QED
      BY <2>4, <3>1, <3>2 DEF Look
  <2>11. Promise!Decide
    BY <2>1, <2>2, <2>10 DEF Promise!Decide
  <2> QED
    BY <2>11 DEF Promise!Next
<1>7. CASE ShutdownTimesOut
  <2>1. /\ UNCHANGED <<conn, expired, killed>> /\ Door = "shut" /\ Door' = "shut"
        /\ expired /\ main = "waiting" /\ main' # "waiting"
        /\ result = "none" /\ result' = "timeout"
    BY <1>1, <1>7, DoorIs, DoorIsNext
       DEF ShutdownTimesOut, Return, ShutdownError
  <2>2. Promise!GivenUp
    BY <2>1 DEF Promise!GivenUp
  <2>3. Promise!Decide
    BY <2>1, <2>2 DEF Promise!Decide
  <2> QED
    BY <2>3 DEF Promise!Next
<1> QED
  BY <1>2, <1>3, <1>4, <1>5, <1>6, <1>7 DEF Main

(* The goroutine opens the door, if it is not shut yet, and shuts it when  *)
(* it fails.                                                               *)
LEMMA ServerRefines ==
  ASSUME Inv, Server \/ Fail, ~killed
  PROVE  Promise!Next \/ UNCHANGED Promise!serviceVars
<1> USE DEF sigVars, mainVars, Promise!serviceVars
<1>1. shutting \in BOOLEAN
  BY DEF Inv, TypeOK
<1>2. UNCHANGED <<conn, result, killed, shutting, expired, main>>
  BY DEF Server, Fail, Listen, Serve, Starts, Closed, Report, EndQuietly, ServerStep
<1>3. ASSUME Door' = "shut" PROVE Promise!Next
  <2>1. Promise!Shut
    BY <1>2, <1>3 DEF Promise!Shut
  <2> QED
    BY <2>1 DEF Promise!Next
<1>4. CASE Listen
  <2>1. CASE shutting
    <3>1. server' = "closed"
      BY <1>4, <2>1 DEF Listen, Starts, ServerStep
    <3> QED
      BY <1>3, <3>1, DoorIsNext
  <2>2. CASE ~shutting
    <3>1. Door = "unopened" /\ Door' = "unopened"
      BY <1>2, <1>4, <2>2, DoorIs, DoorIsNext DEF Listen, Starts, ServerStep
    <3> QED
      BY <1>2, <3>1
  <2> QED
    BY <2>1, <2>2
<1>5. CASE Serve
  <2>1. CASE shutting
    <3>1. server' = "closed"
      BY <1>5, <2>1 DEF Serve, Starts, ServerStep
    <3> QED
      BY <1>3, <3>1, DoorIsNext
  <2>2. CASE ~shutting
    <3>1. Door = "unopened" /\ Door' = "open"
      BY <1>2, <1>5, <2>2, DoorIs, DoorIsNext DEF Serve, Starts, ServerStep
    <3>2. Promise!Open
      BY <1>2, <3>1 DEF Promise!Open
    <3> QED
      BY <3>2 DEF Promise!Next
  <2> QED
    BY <2>1, <2>2
<1>6. CASE Closed \/ Report \/ EndQuietly \/ Fail
  <2>1. server' \in {"failed", "closed", "done"}
    BY <1>6 DEF Closed, Report, EndQuietly, Fail, ServerStep
  <2> QED
    BY <1>3, <2>1, DoorIsNext
<1> QED
  BY <1>4, <1>5, <1>6 DEF Server

(* Clients come through the open door; only handlers end their requests;   *)
(* and only a signal that comes before Notify ends the process.            *)
LEMMA OutsideRefines ==
  ASSUME Inv, ~killed,
         Expire \/ Signal \/ \E c \in Conns : Client(c)
  PROVE  Promise!Next \/ UNCHANGED Promise!serviceVars
<1> USE DEF sigVars, mainVars, serverVars, Promise!serviceVars
<1>1. /\ main \in Waiting => relayed
      /\ main \in {"begin", "notified"} => server = "none" /\ ~shutting
      /\ main # "returned" => result = "none"
      /\ main \in Waiting \cup {"begin", "returned"}
      /\ killed \in BOOLEAN
  BY DEF Inv, TypeOK, RelayedWhileWaiting, InOrder, Waiting
<1>2. UNCHANGED <<server, shutting, main>> /\ Door' = Door
  <2>1. UNCHANGED <<server, shutting, main>>
    BY DEF Expire, Signal, Client, Accept, Arrive, Answer, Leave, Hijack, HangUp, Moves
  <2> QED
    BY <2>1, Zenon DEF Door
<1>3. CASE Expire
  <2>1. UNCHANGED <<conn, result, killed>> /\ main # "returned" /\ expired'
    BY <1>3 DEF Expire
  <2>2. expired' = TRUE
    BY <1>3 DEF Expire
  <2>3. Promise!Pass
    BY <1>1, <1>2, <2>1, <2>2 DEF Promise!Pass
  <2> QED
    BY <2>3 DEF Promise!Next
<1>4. CASE Signal
  <2>1. UNCHANGED <<conn, result, expired>> /\ main # "returned" /\ killed' = ~relayed
    BY <1>4 DEF Signal
  <2>2. CASE killed'
    <3>1. main = "begin"
      BY <1>1, <2>1, <2>2
    <3>2. Door = "unopened" /\ result = "none"
      BY <1>1, <3>1, DoorIs
    <3>3. Promise!Die
      BY <1>2, <2>1, <2>2, <3>2 DEF Promise!Die
    <3> QED
      BY <3>3 DEF Promise!Next
  <2>3. CASE ~killed'
    <3>1. killed = FALSE
      BY <1>1
    <3>2. killed' = FALSE
      BY <2>1, <2>3, Zenon
    <3> QED
      BY <1>2, <2>1, <3>1, <3>2
  <2> QED
    BY <2>2, <2>3
<1>5. ASSUME NEW c \in Conns, Client(c) PROVE Promise!Next
  <2>1. UNCHANGED <<result, killed, expired, main>>
    BY <1>5 DEF Client, Accept, Arrive, Answer, Leave, Hijack, HangUp, Moves
  <2> USE <1>2, <2>1 DEF Moves, Promise!Moves
  <2>2. Accept(c) => Promise!Enter(c)
    BY DoorIs DEF Accept, Promise!Enter
  <2>3. Arrive(c) => Promise!Request(c)
    BY DEF Arrive, Promise!Request
  <2>4. Leave(c) => Promise!Leave(c)
    BY DEF Leave, Promise!Leave
  <2>5. Answer(c) \/ Hijack(c) => Promise!Reply(c)
    BY DEF Answer, Hijack, Promise!Reply
  <2>6. HangUp(c) => Promise!HangUp(c)
    BY DEF HangUp, Promise!HangUp
  <2> QED
    BY <1>5, <2>2, <2>3, <2>4, <2>5, <2>6 DEF Client, Promise!Next
<1> QED
  BY <1>3, <1>4, <1>5

(* Every behaviour of serveGraceful keeps its promise: the door opens once *)
(* at most and is shut before any look and any verdict; nil is given by a  *)
(* look that leaves nothing to wait for, a timeout only when the time is   *)
(* up and the last look left something; only handlers end the requests the *)
(* server knows of, and no signal ends the process once the door could     *)
(* open.                                                                   *)
THEOREM PromiseKept == Spec => ImplementsService
<1>1. Inv /\ [Next]_vars => [Promise!Next]_(Promise!serviceVars)
  <2> SUFFICES ASSUME Inv, [Next]_vars
               PROVE  Promise!Next \/ UNCHANGED Promise!serviceVars
    OBVIOUS
  <2>1. CASE UNCHANGED vars
    BY <2>1 DEF vars, mainVars, serverVars, sigVars, Promise!serviceVars, Door
  <2> QED
    BY <2>1, MainRefines, ServerRefines, OutsideRefines DEF Next
<1> QED
  BY <1>1, Invariance, InitRefines, PTL DEF Spec, ImplementsService, Promise!Spec
=============================================================================
