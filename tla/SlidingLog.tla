----------------------------- MODULE SlidingLog -----------------------------
(***************************************************************************)
(* What a sliding-window rate limiter promises, without ring buffers,      *)
(* maps, locks or a cleaner: every request of a client gets a time stamp,  *)
(* and later one verdict.  The log of all admitted stamps is kept forever. *)
(* RateLimit.tla shows that middleware/ratelimit.go implements it.         *)
(*                                                                         *)
(* Slack is the longest time a request may wait between its time stamp and *)
(* its verdict.  With Slack = 0 this is the exact sliding window: at most  *)
(* Limit admissions in any Window, and a refusal only when Limit           *)
(* admissions lie in the Window before it.                                 *)
(***************************************************************************)
EXTENDS Integers, FiniteSets

CONSTANTS Requests, Clients, Limit, Window, Slack

VARIABLES
  pc,      \* pc[r]: how far request r is
  client,  \* client[r]: who sent r
  now      \* now[r]: the time stamp of r

absVars == <<pc, client, now>>

Admitted(c) == {s \in Requests : pc[s] = "allowed" /\ client[s] = c}

(* The admissions of r's client in the closed window of length span that   *)
(* ends with r.                                                            *)
WindowEnding(r, span) ==
  {s \in Admitted(client[r]) : now[s] \in (now[r] - span) .. now[r]}

(* The admissions that count against a refusal of r.                       *)
Against(r, slack) ==
  {s \in Admitted(client[r]) :
     now[s] \in (now[r] - Window - slack) .. (now[r] + slack)}

Init ==
  /\ pc = [r \in Requests |-> "new"]
  /\ client \in [Requests -> Clients]
  /\ now = [r \in Requests |-> 0]

Arrive(r) ==
  /\ pc[r] = "new"
  /\ pc' = [pc EXCEPT ![r] = "stamped"]
  /\ now'[r] \in Nat
  /\ now' = [now EXCEPT ![r] = now'[r]]
  /\ UNCHANGED client

Admit(r) ==
  /\ pc[r] = "stamped"
  /\ pc' = [pc EXCEPT ![r] = "allowed"]
  /\ UNCHANGED <<client, now>>
  /\ \A s \in Requests :
       pc'[s] = "allowed" =>
         Cardinality(WindowEnding(s, Window - 2 * Slack)') =< Limit

Refuse(r) ==
  /\ pc[r] = "stamped"
  /\ Cardinality(Against(r, Slack)) >= Limit
  /\ pc' = [pc EXCEPT ![r] = "limited"]
  /\ UNCHANGED <<client, now>>

(* Only a limiter configured to admit nothing may fail.                    *)
Fail(r) ==
  /\ pc[r] = "stamped"
  /\ Limit = 0
  /\ pc' = [pc EXCEPT ![r] = "panicked"]
  /\ UNCHANGED <<client, now>>

Next == \E r \in Requests : Arrive(r) \/ Admit(r) \/ Refuse(r) \/ Fail(r)

Spec == Init /\ [][Next]_absVars
=============================================================================
