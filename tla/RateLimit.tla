----------------------------- MODULE RateLimit ------------------------------
(***************************************************************************)
(* middleware/ratelimit.go: the per-IP rate limiter.                       *)
(*                                                                         *)
(* Each request runs allow() in its own goroutine: it reads the clock      *)
(* BEFORE it takes the mutex (line 62 against line 65), so other requests, *)
(* the cleaner and the clock itself can move between the two.  A bucket is *)
(* a ring buffer of the last Limit admissions of one client; the map leads *)
(* from a client to its bucket; a cleaner goroutine, woken by a ticker of  *)
(* period Window, also reads the clock before the mutex and then deletes   *)
(* the buckets whose newest stamp is older than one window.                *)
(*                                                                         *)
(* A bucket is named after the request that allocated it: allow() makes at *)
(* most one.  A bucket the cleaner deleted stays in the arrays, no client  *)
(* leads to it any more.                                                   *)
(***************************************************************************)
EXTENDS Integers, FiniteSets

CONSTANTS
  Requests,     \* the requests, each served by a goroutine of its own
  Clients,      \* the values of ipFromRequest
  NoBucket,     \* the map has no entry
  Limit,        \* RateLimit's first parameter
  Window,       \* RateLimit's second parameter, in clock units
  MaxLag,       \* bound: the longest wait between time.Now and the verdict
  LastArrival,  \* bound: the last time at which a request arrives
  MaxTime       \* bound: the clock stops here

ASSUME RequestsAssumption == IsFiniteSet(Requests) /\ NoBucket \notin Requests
ASSUME LimitAssumption    == Limit \in Nat
ASSUME WindowAssumption   == Window \in Nat \ {0}
ASSUME BoundsAssumption   == /\ MaxLag \in Nat
                             /\ LastArrival \in Nat
                             /\ MaxTime \in Nat

VARIABLES
  clock,       \* the time time.Now() returns
  pc,          \* pc[r]: how far request r is in the middleware
  client,      \* client[r]: the ip argument of r's allow()
  now,         \* now[r]: r's local variable now
  requests,    \* rl.requests, a map from clients to buckets
  timestamps,  \* the three fields of a bucket
  head,
  size,
  home,        \* home[r]: r's local variable b, the bucket that admitted r
  index,       \* index[r]: the slot r's stamp was written to
  cleaner,     \* "waiting" on the ticker, or "sweeping": between the two
               \* lines that read the clock and take the mutex
  cutoff,      \* the cleaner's local variable
  ticks        \* the ticks buffered in ticker.C, at most one

bucketVars  == <<timestamps, head, size>>
requestVars == <<pc, client, now, home, index>>
cleanerVars == <<cleaner, cutoff, ticks>>
vars == <<clock, requestVars, requests, bucketVars, cleanerVars>>

Slots == 0 .. Limit - 1

(* The zero time.Time a fresh slot holds, before any cutoff.               *)
ZeroTime == -(Window + 1)

Init ==
  /\ clock = 0
  /\ pc = [r \in Requests |-> "new"]
  /\ client \in [Requests -> Clients]
  /\ now = [r \in Requests |-> 0]
  /\ requests = [c \in Clients |-> NoBucket]
  /\ timestamps = [b \in Requests |-> [i \in Slots |-> ZeroTime]]
  /\ head = [b \in Requests |-> 0]
  /\ size = [b \in Requests |-> 0]
  /\ home = [r \in Requests |-> NoBucket]
  /\ index = [r \in Requests |-> 0]
  /\ cleaner = "waiting"
  /\ cutoff = 0
  /\ ticks = 0

-----------------------------------------------------------------------------
(* Requests.                                                               *)

(* The request enters the middleware and reads the clock.                  *)
Arrive(r) ==
  /\ pc[r] = "new"
  /\ clock =< LastArrival
  /\ pc' = [pc EXCEPT ![r] = "stamped"]
  /\ now' = [now EXCEPT ![r] = clock]
  /\ UNCHANGED <<clock, client, requests, bucketVars, home, index, cleanerVars>>

(* b in allow(): the client's bucket, or the one r allocates and registers *)
(* (its fields are still those of Init).                                   *)
BucketOf(r) == IF requests[client[r]] = NoBucket THEN r ELSE requests[client[r]]

(* Fault: the slot of the last entry.                                        *)
NextSlotIsLast(b) == (head[b] + size[b] + Limit - 1) % Limit
NextSlot(b) == (head[b] + size[b]) % Limit

(* Faults: a stamp exactly one window old counts as expired; the window is *)
(* not subtracted; one clock unit too many.                                *)
ExpiredAtCutoff(b, t)  == timestamps[b][head[b]] =< t - Window
ExpiredIfOlder(b, t)   == timestamps[b][head[b]] < t
ExpiredTooLate(b, t)   == timestamps[b][head[b]] < t - Window - 1

(* The oldest stamp of b lies before the window that ends at time t.       *)
OldestExpired(b, t) == timestamps[b][head[b]] < t - Window

(* r holds the mutex with its bucket at hand and gets the verdict v.       *)
Decide(r, v) ==
  /\ pc[r] = "stamped"
  /\ pc' = [pc EXCEPT ![r] = v]
  /\ requests' = [requests EXCEPT ![client[r]] = BucketOf(r)]
  /\ UNCHANGED <<clock, client, now, cleanerVars>>

(* r's stamp is written to slot i of bucket b.                             *)
Store(r, b, i) ==
  /\ timestamps' = [timestamps EXCEPT ![b][i] = now[r]]
  /\ home' = [home EXCEPT ![r] = b]
  /\ index' = [index EXCEPT ![r] = i]

(* The ring is not yet full.                                               *)
Fill(r) == LET b == BucketOf(r) IN
  /\ Decide(r, "allowed")
  /\ size[b] < Limit
  /\ Store(r, b, NextSlot(b))
  /\ size' = [size EXCEPT ![b] = @ + 1]
  /\ UNCHANGED head

(* Fault: the head stays.                                                  *)
NextHeadStays(b) == head[b]

NextHead(b) == (head[b] + 1) % Limit

(* The ring is full and its oldest entry has expired.                      *)
Slide(r) == LET b == BucketOf(r) IN
  /\ Decide(r, "allowed")
  /\ size[b] = Limit /\ Limit > 0
  /\ OldestExpired(b, now[r])
  /\ Store(r, b, head[b])
  /\ head' = [head EXCEPT ![b] = NextHead(b)]
  /\ UNCHANGED size

(* The ring is full of entries that still count: 429.                      *)
Refuse(r) == LET b == BucketOf(r) IN
  /\ Decide(r, "limited")
  /\ size[b] = Limit /\ Limit > 0
  /\ ~OldestExpired(b, now[r])
  /\ UNCHANGED <<bucketVars, home, index>>

(* With Limit = 0 the ring has no slot and reading its head panics; the    *)
(* deferred Unlock still runs, the new bucket stays in the map.            *)
Overrun(r) ==
  /\ Decide(r, "panicked")
  /\ Limit = 0
  /\ UNCHANGED <<bucketVars, home, index>>

Allow(r) == Fill(r) \/ Slide(r) \/ Refuse(r) \/ Overrun(r)

-----------------------------------------------------------------------------
(* The cleaner goroutine.                                                  *)

(* Fault: two windows are subtracted.                                      *)
CutoffTwice == clock - 2 * Window

Cutoff == clock - Window

(* It receives the buffered tick and reads the clock.                      *)
CleanerWake ==
  /\ cleaner = "waiting" /\ ticks = 1
  /\ ticks' = 0
  /\ cleaner' = "sweeping"
  /\ cutoff' = Cutoff
  /\ UNCHANGED <<clock, requestVars, requests, bucketVars>>

(* Fault: cleanup looks at the oldest entry.                               *)
NewestIsHead(b) == head[b]

NewestSlot(b) == (head[b] + size[b] - 1) % Limit

(* Faults: an empty bucket is skipped; only empty buckets are deleted.     *)
StaleUnlessEmpty(b) == size[b] > 0 /\ timestamps[b][NewestSlot(b)] < cutoff
StaleOnlyEmpty(b)   == size[b] = 0

(* What cleanup() deletes.                                                 *)
Stale(b) == size[b] = 0 \/ timestamps[b][NewestSlot(b)] < cutoff

(* It takes the mutex and walks the whole map.                             *)
Sweep ==
  /\ cleaner = "sweeping"
  /\ cleaner' = "waiting"
  /\ requests' = [c \in Clients |->
       IF requests[c] # NoBucket /\ Stale(requests[c])
       THEN NoBucket ELSE requests[c]]
  /\ UNCHANGED <<clock, requestVars, bucketVars, cutoff, ticks>>

-----------------------------------------------------------------------------
(* Time.  The scheduler and the mutex delay a request at most MaxLag; the  *)
(* ticker fires every Window and drops a tick nobody took.                 *)
Tick ==
  /\ clock < MaxTime
  /\ \A r \in Requests : pc[r] = "stamped" => clock < now[r] + MaxLag
  /\ clock' = clock + 1
  /\ ticks' = IF (clock' % Window) = 0 THEN 1 ELSE ticks
  /\ UNCHANGED <<requestVars, requests, bucketVars, cleaner, cutoff>>

Next ==
  \/ \E r \in Requests : Arrive(r) \/ Allow(r)
  \/ CleanerWake
  \/ Sweep
  \/ Tick

Spec == Init /\ [][Next]_vars

(* No fairness on Arrive: nobody owes the server a request.                *)
Fairness ==
  /\ WF_vars(Tick) /\ WF_vars(CleanerWake) /\ WF_vars(Sweep)
  /\ \A r \in Requests : WF_vars(Allow(r))

FairSpec == Spec /\ Fairness

-----------------------------------------------------------------------------
(* Properties.                                                             *)

TypeOK ==
  /\ clock \in Nat
  /\ pc \in [Requests -> {"new", "stamped", "allowed", "limited", "panicked"}]
  /\ client \in [Requests -> Clients]
  /\ now \in [Requests -> Nat]
  /\ requests \in [Clients -> Requests \cup {NoBucket}]
  /\ timestamps \in [Requests -> [Slots -> Int]]
  /\ head \in [Requests -> Nat]
  /\ \A b \in Requests : head[b] \in Slots \/ head[b] = 0
  /\ size \in [Requests -> 0 .. Limit]
  /\ home \in [Requests -> Requests \cup {NoBucket}]
  /\ index \in [Requests -> Nat]
  /\ cleaner \in {"waiting", "sweeping"}
  /\ cutoff \in Int
  /\ ticks \in {0, 1}

(* The abstract sliding log, with the lag of the code as its slack.        *)
Log == INSTANCE SlidingLog WITH Slack <- MaxLag

(* The admissions recorded in one bucket, in the closed window that ends   *)
(* with r.                                                                 *)
SameBucket(r) ==
  {s \in Requests : /\ pc[s] = "allowed" /\ home[s] = home[r]
                    /\ now[s] \in (now[r] - Window) .. now[r]}

(* One ring never admits more than Limit requests in a window, however     *)
(* long they waited for the mutex and in whatever order they got it: the   *)
(* index arithmetic of allow() makes every slot hold an admission for more *)
(* than one window.                                                        *)
BucketLimit ==
  \A r \in Requests :
    pc[r] = "allowed" => Cardinality(SameBucket(r)) =< Limit

(* Across the buckets a client had one after the other, the limit holds in *)
(* the window shortened by twice the lag: once for a deleted bucket whose  *)
(* newest slot is not its latest stamp, once for the request that waited   *)
(* while the cleaner took the bucket away.                                 *)
SlidingWindowUpToLag ==
  \A r \in Requests :
    pc[r] = "allowed" =>
      Cardinality(Log!WindowEnding(r, Window - 2 * MaxLag)) =< Limit

(* A 429 goes to a request only if its client really had Limit admissions  *)
(* in the window before it, up to the lag: no cleaner, no other client and *)
(* no wrapped index makes allow() refuse a client that kept the limit.     *)
RefusedUpToLag ==
  \A r \in Requests :
    pc[r] = "limited" => Cardinality(Log!Against(r, MaxLag)) >= Limit

(* The cleaner forgets an admission only when it is older than a window,   *)
(* up to the lag.                                                          *)
ForgetsOnlyExpired ==
  [][\A r \in Requests :
       /\ pc[r] = "allowed"
       /\ requests[client[r]] = home[r]
       /\ requests'[client[r]] # home[r]
       => now[r] < clock - Window + MaxLag]_vars

LastTick == clock - (clock % Window)

(* The map stays small: once the cleaner is done with the last tick, every *)
(* bucket left in the map was used during the window before that tick.     *)
MapStaysFresh ==
  (cleaner = "waiting" /\ ticks = 0) =>
    \A c \in Clients : LET b == requests[c] IN
      (b # NoBucket /\ size[b] > 0) =>
        \/ timestamps[b][NewestSlot(b)] >= LastTick - Window
        \/ timestamps[b][NewestSlot(b)] >= LastTick - MaxLag

(* When requests stop, the map ends up empty: no bucket leaks.             *)
QuietMapEmpties == <>[](\A c \in Clients : requests[c] = NoBucket)

(* The code implements the sliding log.                                    *)
ImplementsSlidingLog == Log!Spec

(* ratelimit.go:16-18 as it reads: no more than Limit requests of one IP   *)
(* within the window, here the half-open one.  It fails when a request     *)
(* waits for the mutex.                                                    *)
SlidingWindow ==
  \A r \in Requests :
    pc[r] = "allowed" =>
      Cardinality(Log!WindowEnding(r, Window - 1)) =< Limit

(* ratelimit.go:16-18 as it reads: it is the requests exceeding the limit  *)
(* that receive a 429.  It holds while nobody waits between the clock and  *)
(* the mutex.                                                              *)
RefusedOnlyOverLimit ==
  \A r \in Requests :
    pc[r] = "limited" =>
      Cardinality({s \in Log!Admitted(client[r]) : now[s] >= now[r] - Window})
        >= Limit
-----------------------------------------------------------------------------
(* The inductive invariant behind these properties (see RateLimit_proofs). *)

Admitted == {r \in Requests : pc[r] = "allowed"}

(* Stamps are taken from the clock, and a verdict is at most MaxLag away.  *)
StampsInPast ==
  \A r \in Requests :
    now[r] =< clock /\ (pc[r] = "stamped" => clock =< now[r] + MaxLag)

(* A ring that is not full starts at slot 0.                               *)
RingShape == \A b \in Requests : size[b] < Limit => head[b] = 0

(* Every used slot holds the stamp of an admitted request, and no earlier  *)
(* stamp of the slot is above it.                                          *)
SlotOwned ==
  \A b \in Requests : \A i \in 0 .. size[b] - 1 :
    \E s \in Admitted :
      home[s] = b /\ index[s] = i /\ now[s] = timestamps[b][i]

AdmissionStored ==
  \A r \in Admitted :
    /\ home[r] \in Requests
    /\ index[r] \in 0 .. size[home[r]] - 1
    /\ now[r] =< timestamps[home[r]][index[r]]
    /\ client[home[r]] = client[r]

(* A slot is reused only after more than a window.                         *)
SlotSpacing ==
  \A r, s \in Admitted :
    (r # s /\ home[r] = home[s] /\ index[r] = index[s]) =>
      now[r] > now[s] + Window \/ now[s] > now[r] + Window

(* The position of slot i in ring b, counted from the head.                *)
Rank(b, i) == IF i >= head[b] THEN i - head[b] ELSE i - head[b] + Limit

(* The ring is sorted by time, up to the lag.                              *)
RingOrder ==
  \A b \in Requests : \A i, j \in 0 .. size[b] - 1 :
    Rank(b, i) =< Rank(b, j) => timestamps[b][i] =< timestamps[b][j] + MaxLag

(* The map leads a client to a bucket of its own; undecided requests have  *)
(* not allocated one.                                                      *)
BucketOwner ==
  /\ \A c \in Clients : requests[c] # NoBucket =>
       /\ pc[requests[c]] \notin {"new", "stamped"}
       /\ client[requests[c]] = c
  /\ \A r \in Requests : pc[r] \in {"new", "stamped"} => size[r] = 0

(* What the map no longer leads to is older than a window, up to the lag.  *)
ForgottenExpired ==
  \A r \in Admitted :
    requests[client[r]] # home[r] => now[r] < clock - Window + MaxLag

(* Two buckets of one client are apart in time.                            *)
BucketSpacing ==
  \A r, s \in Admitted :
    (client[r] = client[s] /\ home[r] # home[s]) =>
      \/ now[r] > now[s] + Window - 2 * MaxLag
      \/ now[s] > now[r] + Window - 2 * MaxLag

CutoffPast == cleaner = "sweeping" => cutoff =< clock - Window

(* A sweep that missed the last tick will be followed by another one.      *)
SweepCurrent ==
  cleaner = "sweeping" => ticks = 1 \/ cutoff >= LastTick - Window

Inv ==
  /\ TypeOK /\ StampsInPast /\ RingShape /\ SlotOwned /\ AdmissionStored
  /\ SlotSpacing /\ RingOrder /\ BucketOwner /\ ForgottenExpired
  /\ BucketSpacing /\ CutoffPast
=============================================================================
