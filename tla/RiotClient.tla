----------------------------- MODULE RiotClient -----------------------------
(***************************************************************************)
(* The rate limiters of the Riot API client (src/riot/client.rs).  A       *)
(* request passes the limiters of its endpoint one after another, is sent, *)
(* and starts over when the answer is 429.  The crawler awaits one request *)
(* before it makes the next, so there is one request at a time.  The state *)
(* is that of one process: the next run starts with full limiters.         *)
(*                                                                         *)
(* A limiter is the one of the governor crate: it keeps the time at which  *)
(* it will be full again (the theoretical arrival time of GCRA) and lets a *)
(* request pass when at most Burst cells are then in use.                  *)
(***************************************************************************)
EXTENDS Integers, Sequences, FiniteSets

CONSTANTS
  Endpoint, Limiter,
  Limits,        \* Limits[e]: the limiters that a request to e passes, in order
  Burst,         \* Burst[l], Period[l]: the n and period of quota(n, period)
  Period,
  Waits,         \* the waits that Retry-After, or its default, can ask for
  Quota,         \* Quota[e]: the requests and periods the provider allows
  MaxTime,       \* bound of the clock
  MaxRequests,   \* bound of the requests that are sent
  MaxTooMany     \* bound of the 429 answers

ASSUME LimiterAssumption ==
  /\ Burst \in [Limiter -> Nat \ {0}] /\ Period \in [Limiter -> Nat]
  /\ \A l \in Limiter : Period[l] >= Burst[l]

(* Every endpoint has limiters of its own. *)
ASSUME LimitsAssumption ==
  /\ Limits \in [Endpoint -> Seq(Limiter)]
  /\ \A e, f \in Endpoint : \A i \in DOMAIN Limits[e], j \in DOMAIN Limits[f] :
       Limits[e][i] = Limits[f][j] => e = f /\ i = j

ASSUME ClientAssumption == Waits \subseteq Nat /\ MaxTime \in Nat /\ MaxTooMany \in Nat

VARIABLES
  now,
  fullAt,        \* fullAt[l]: when limiter l will be full again
  \* the request: its endpoint, how many of the limiters it passed, its backoff
  pc, endpoint, passed, until,
  \* history: when requests passed each limiter, when they were sent
  granted, sent,
  tooMany

vars == <<now, fullAt, pc, endpoint, passed, until, granted, sent, tooMany>>

----------------------------------------------------------------------------
(* quota: one cell every period/n, rounded down, and a burst of n *)
Interval(l) == Period[l] \div Burst[l]
Tolerance(l) == Interval(l) * (Burst[l] - 1)

Ready(l) == fullAt[l] - Tolerance(l) <= now

(* Faulty variant: the cells in use are forgotten. *)
RefillForgetting(l) == now + Interval(l)

(* Faulty variant: a cell is given back. *)
RefillBackwards(l) == fullAt[l] - Interval(l)

Refill(l) == (IF fullAt[l] > now THEN fullAt[l] ELSE now) + Interval(l)

Init ==
  /\ now = 0 /\ fullAt = [l \in Limiter |-> 0]
  /\ pc = "idle" /\ endpoint \in Endpoint /\ passed = 0 /\ until = 0
  /\ granted = [l \in Limiter |-> <<>>] /\ sent = [e \in Endpoint |-> <<>>]
  /\ tooMany = 0

Request(e) ==
  /\ pc = "idle"
  /\ pc' = "wait" /\ endpoint' = e /\ passed' = 0
  /\ UNCHANGED <<now, fullAt, until, granted, sent, tooMany>>

(* until_ready *)
Pass ==
  /\ pc = "wait" /\ passed < Len(Limits[endpoint])
  /\ LET l == Limits[endpoint][passed + 1] IN
       /\ Ready(l)
       /\ fullAt' = [fullAt EXCEPT ![l] = Refill(l)]
       /\ granted' = [granted EXCEPT ![l] = Append(@, now)]
  /\ passed' = passed + 1
  /\ UNCHANGED <<now, pc, endpoint, until, sent, tooMany>>

Send ==
  /\ pc = "wait" /\ passed = Len(Limits[endpoint])
  /\ Len(sent[endpoint]) < MaxRequests
  /\ sent' = [sent EXCEPT ![endpoint] = Append(@, now)]
  /\ pc' = "sent"
  /\ UNCHANGED <<now, fullAt, endpoint, passed, until, granted, tooMany>>

(* Success, another status, or no answer in time: the caller gets it. *)
Answer ==
  /\ pc = "sent"
  /\ pc' = "idle"
  /\ UNCHANGED <<now, fullAt, endpoint, passed, until, granted, sent, tooMany>>

TooManyRequests(wait) ==
  /\ pc = "sent" /\ tooMany < MaxTooMany
  /\ pc' = "backoff" /\ until' = now + wait
  /\ tooMany' = tooMany + 1
  /\ UNCHANGED <<now, fullAt, endpoint, passed, granted, sent>>

(* Faulty variant: the request is sent again without passing the limiters.  *)
AgainAtOnce == passed' = Len(Limits[endpoint])

Again == passed' = 0

Retry ==
  /\ pc = "backoff" /\ now >= until
  /\ pc' = "wait" /\ Again /\ until' = 0
  /\ UNCHANGED <<now, fullAt, endpoint, granted, sent, tooMany>>

Tick ==
  /\ now < MaxTime
  /\ now' = now + 1
  /\ UNCHANGED <<fullAt, pc, endpoint, passed, until, granted, sent, tooMany>>

Next ==
  \/ \E e \in Endpoint : Request(e)
  \/ Pass \/ Send \/ Answer
  \/ \E wait \in Waits : TooManyRequests(wait)
  \/ Retry \/ Tick

Spec == Init /\ [][Next]_vars

----------------------------------------------------------------------------
(* Properties *)

(* The state has its types: times never go below the start (client.rs:67-92). *)
TypeOK ==
  /\ now \in Nat /\ fullAt \in [Limiter -> Nat]
  /\ pc \in {"idle", "wait", "sent", "backoff"} /\ endpoint \in Endpoint
  /\ passed \in Nat /\ until \in Nat
  /\ granted \in [Limiter -> Seq(Nat)] /\ sent \in [Endpoint -> Seq(Nat)]
  /\ tooMany \in Nat

Spaced(times, interval, slack) ==
  \A i, j \in DOMAIN times : i <= j => (j - i) * interval <= times[j] - times[i] + slack

(* Requests i and j of a limiter are as far apart as the cells between them *)
(* take to refill, less what a full limiter lets pass at once: in any span  *)
(* of time at most Burst plus one per Interval of it (client.rs:22-29).     *)
GrantSpacing == \A l \in Limiter : Spaced(granted[l], Interval(l), Tolerance(l))

(* What the provider sees is not when a request passed a limiter but when   *)
(* it was sent, after the other limiters, retries included: that is at most *)
(* one request more, at every limiter of the endpoint (client.rs:67-101,    *)
(* 112-121).                                                                *)
SendSpacing ==
  \A e \in Endpoint : \A k \in DOMAIN Limits[e] : \A i, j \in DOMAIN sent[e] :
    i < j => (j - i - 1) * Interval(Limits[e][k])
               <= sent[e][j] - sent[e][i] + Tolerance(Limits[e][k])

(* client.rs:10: limiters at some 90 % of a quota keep the client below it, *)
(* that is, no period of a quota sees more requests than it allows.         *)
WithinQuota ==
  \A e \in Endpoint : \A q \in Quota[e] : \A i \in DOMAIN sent[e] :
    Cardinality({j \in DOMAIN sent[e] : sent[e][j] \in sent[e][i] .. sent[e][i] + q.period - 1})
      <= q.count
=============================================================================
