------------------------------ MODULE Service ------------------------------
(***************************************************************************)
(* What ListenGraceful promises the one who calls it and the clients it    *)
(* serves, without goroutines, channels, timers and contexts: a door that  *)
(* is opened at most once and, once shut, stays shut; looks at what is     *)
(* still to wait for, behind the shut door; one verdict, which follows     *)
(* from the last look; requests that only their own handlers end; and no   *)
(* end by a signal once the door may have been opened.                     *)
(* Graceful.tla shows that serveGraceful implements this.                  *)
(***************************************************************************)

CONSTANT Conns

VARIABLES
  door,     \* "unopened", "open" or "shut": where new connections come in
  conn,     \* conn[c]: the state of connection c
  verdict,  \* "none", then "nil", "error" or "timeout"
  late,     \* the time given has passed
  found,    \* the last look left something to wait for
  dead      \* a signal ended the process

serviceVars == <<door, conn, verdict, late, found, dead>>

Busy == {c \in Conns : conn[c] \in {"new", "active"}}
Idle == {c \in Conns : conn[c] = "idle"}

Init ==
  /\ door = "unopened"
  /\ conn = [c \in Conns |-> "none"]
  /\ verdict = "none" /\ late = FALSE /\ found = FALSE /\ dead = FALSE

Open ==
  /\ door = "unopened" /\ door' = "open"
  /\ UNCHANGED <<conn, verdict, late, found, dead>>

Shut ==
  /\ door' = "shut"
  /\ UNCHANGED <<conn, verdict, late, found, dead>>

Pass ==
  /\ verdict = "none" /\ late' = TRUE
  /\ UNCHANGED <<door, conn, verdict, found, dead>>

Moves(c, from, to) ==
  /\ conn[c] \in from
  /\ \E s \in to : conn' = [conn EXCEPT ![c] = s]
  /\ UNCHANGED <<door, verdict, late, found, dead>>

(* Connections come through the open door, requests on connections.        *)
Enter(c)   == door = "open" /\ Moves(c, {"none"}, {"new"})
Request(c) == Moves(c, {"new", "idle"}, {"active"})
Leave(c)   == Moves(c, {"new", "idle"}, {"closed"})

(* Only its handler ends a request; or a WebSocket handler takes over.     *)
Reply(c) == Moves(c, {"active"}, {"idle", "closed", "hijacked"})

HangUp(c) == Moves(c, {"hijacked", "orphaned"}, {"closed"})

(* A look ends what is idle, touches no request, and leaves nothing idle:  *)
(* either something is left to wait for, or nothing is, and that is the    *)
(* verdict nil.                                                            *)
Look ==
  /\ \A c \in Conns :
       \/ conn[c] # "idle" /\ conn'[c] = conn[c]
       \/ conn[c] \in {"idle", "new"} /\ conn'[c] \in {"closed", "orphaned"}
  /\ conn' \in [Conns -> {"none", "new", "active", "hijacked", "orphaned", "closed"}]
  /\ found' = (Busy' # {})
  /\ verdict' = IF found' THEN "none" ELSE "nil"

(* A timeout: the time is up, and the last look left something, which may  *)
(* be over or go on.                                                       *)
GivenUp == late /\ found /\ verdict' = "timeout" /\ found' = FALSE /\ conn' = conn

Failed == ~found /\ verdict' = "error" /\ UNCHANGED <<conn, found>>

Decide ==
  /\ verdict = "none" /\ door = "shut"
  /\ Look \/ GivenUp \/ Failed
  /\ UNCHANGED <<door, late, dead>>

Die ==
  /\ door = "unopened" /\ verdict = "none"
  /\ dead' = TRUE
  /\ UNCHANGED <<door, conn, verdict, late, found>>

Next ==
  /\ ~dead
  /\ \/ Open \/ Shut \/ Pass \/ Decide \/ Die
     \/ \E c \in Conns : \/ Enter(c) \/ Request(c) \/ Leave(c)
                         \/ Reply(c) \/ HangUp(c)

Spec == Init /\ [][Next]_serviceVars
=============================================================================
