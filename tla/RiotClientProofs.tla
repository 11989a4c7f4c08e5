-------------------------- MODULE RiotClientProofs --------------------------
(***************************************************************************)
(* Theorems about module RiotClient: whatever the bursts, periods and      *)
(* answers, requests pass each limiter, and reach the provider, no faster  *)
(* than the limiter's burst and interval say.                              *)
(***************************************************************************)
EXTENDS RiotClient, TLAPS

----------------------------------------------------------------------------
(* Type correctness *)

(* The cells of a limiter take some time to refill. *)
LEMMA IntervalType ==
  ASSUME NEW l \in Limiter
  PROVE  Interval(l) \in Nat /\ Tolerance(l) \in Nat
<1>1. Burst[l] \in Nat \ {0} /\ Period[l] \in Nat
  BY LimiterAssumption
<1>2. Interval(l) \in Nat
  BY <1>1 DEF Interval
<1>3. \A x, y \in Nat : x * y \in Nat
  OBVIOUS
<1>4. Burst[l] - 1 \in Nat
  BY <1>1
<1> QED
  BY <1>2, <1>3, <1>4 DEF Tolerance

(* A request passes limiters that there are. *)
LEMMA LimitsType ==
  ASSUME NEW e \in Endpoint
  PROVE  /\ Limits[e] \in Seq(Limiter) /\ Len(Limits[e]) \in Nat
         /\ DOMAIN Limits[e] = 1 .. Len(Limits[e])
         /\ \A k \in DOMAIN Limits[e] : Limits[e][k] \in Limiter
  BY LimitsAssumption

(* Every state of the client is well-typed: a limiter never owes cells and  *)
(* no clock runs below zero (client.rs:67-101).                             *)
THEOREM TypeCorrect == Spec => []TypeOK
<1>1. Init => TypeOK
  BY DEF Init, TypeOK
<1>2. TypeOK /\ [Next]_vars => TypeOK'
  <2> SUFFICES ASSUME TypeOK, [Next]_vars PROVE TypeOK'
    OBVIOUS
  <2>1. ASSUME NEW e \in Endpoint, Request(e) PROVE TypeOK'
    BY <2>1 DEF Request, TypeOK
  <2>2. CASE Pass
    <3> DEFINE l == Limits[endpoint][passed + 1]
    <3>1. l \in Limiter
      BY <2>2, LimitsType DEF Pass, TypeOK
    <3>2. Refill(l) \in Nat
      BY <3>1, IntervalType DEF Refill, TypeOK
    <3>3. fullAt' \in [Limiter -> Nat] /\ granted' \in [Limiter -> Seq(Nat)]
      BY <2>2, <3>1, <3>2 DEF Pass, TypeOK
    <3> QED
      BY <2>2, <3>3 DEF Pass, TypeOK
  <2>3. CASE Send
    <3>1. sent' \in [Endpoint -> Seq(Nat)]
      BY <2>3 DEF Send, TypeOK
    <3> QED
      BY <2>3, <3>1 DEF Send, TypeOK
  <2>4. CASE Answer
    BY <2>4 DEF Answer, TypeOK
  <2>5. ASSUME NEW wait \in Waits, TooManyRequests(wait) PROVE TypeOK'
    BY <2>5, ClientAssumption DEF TooManyRequests, TypeOK
  <2>6. CASE Retry
    BY <2>6 DEF Retry, Again, TypeOK
  <2>7. CASE Tick
    BY <2>7 DEF Tick, TypeOK
  <2>8. CASE UNCHANGED vars
    BY <2>8 DEF vars, TypeOK
  <2> QED
    BY <2>1, <2>2, <2>3, <2>4, <2>5, <2>6, <2>7, <2>8 DEF Next
<1> QED
  BY <1>1, <1>2, PTL DEF Spec

----------------------------------------------------------------------------
(* One limiter *)

(* The times at which requests passed a limiter are in the past, and it     *)
(* will not be full before all cells taken since have refilled.             *)
Debt(times, full, clock, interval) ==
  \A i \in DOMAIN times :
    times[i] <= clock /\ times[i] + (Len(times) - i + 1) * interval <= full

DebtInv == \A l \in Limiter : Debt(granted[l], fullAt[l], now, Interval(l))

(* One more cell takes one more interval. *)
LEMMA OneMore ==
  ASSUME NEW n \in Nat, NEW i \in 1 .. n, NEW t \in Nat
  PROVE  /\ (n - i + 1) * t \in Int
         /\ (n + 1 - i + 1) * t = (n - i + 1) * t + t
<1>1. \A k \in Int : (k + 1) * t = k * t + t /\ k * t \in Int
  OBVIOUS
<1>2. n - i + 1 \in Int /\ n + 1 - i + 1 = (n - i + 1) + 1
  OBVIOUS
<1> QED
  BY <1>1, <1>2

(* A cell taken when it is available keeps the debt and the spacing. *)
LEMMA TakeCell ==
  ASSUME NEW s \in Seq(Nat), NEW clock \in Nat, NEW full \in Nat, NEW next \in Nat,
         NEW t \in Nat, NEW slack \in Nat,
         Debt(s, full, clock, t), Spaced(s, t, slack),
         full <= clock + slack, next >= full + t, next >= clock + t
  PROVE  Debt(Append(s, clock), next, clock, t) /\ Spaced(Append(s, clock), t, slack)
<1> DEFINE n == Len(s)
           r == Append(s, clock)
<1>1. n \in Nat /\ DOMAIN s = 1 .. n /\ Len(r) = n + 1 /\ DOMAIN r = 1 .. n + 1
  OBVIOUS
<1>2. r[n + 1] = clock /\ \A i \in 1 .. n : r[i] = s[i] /\ s[i] \in Nat
  OBVIOUS
<1>3. \A i \in 1 .. n : s[i] <= clock /\ s[i] + (n - i + 1) * t <= full
  BY <1>1 DEF Debt
<1> HIDE DEF n, r
<1>4. \A i \in 1 .. n + 1 : r[i] <= clock /\ r[i] + (n + 1 - i + 1) * t <= next
  <2> SUFFICES ASSUME NEW i \in 1 .. n + 1
               PROVE  r[i] <= clock /\ r[i] + (n + 1 - i + 1) * t <= next
    OBVIOUS
  <2>1. CASE i = n + 1
    <3>1. n + 1 - i + 1 = 1
      BY <1>1, <2>1
    <3>2. (n + 1 - i + 1) * t = t
      BY <3>1
    <3> QED
      BY <1>2, <2>1, <3>2
  <2>2. CASE i \in 1 .. n
    <3>1. (n + 1 - i + 1) * t = (n - i + 1) * t + t /\ (n - i + 1) * t \in Int
      BY <1>1, <2>2, OneMore
    <3>2. PICK x \in Int : x = (n - i + 1) * t
      BY <3>1
    <3>3. x \in Int /\ s[i] + x <= full /\ s[i] \in Nat /\ s[i] <= clock /\ r[i] = s[i]
      BY <1>2, <1>3, <2>2, <3>2
    <3>4. s[i] + (x + t) <= next
      BY <3>3
    <3> QED
      BY <3>1, <3>2, <3>3, <3>4
  <2> QED
    BY <1>1, <2>1, <2>2
<1>5. \A i, j \in 1 .. n + 1 : i <= j => (j - i) * t <= r[j] - r[i] + slack
  <2> SUFFICES ASSUME NEW i \in 1 .. n + 1, NEW j \in 1 .. n + 1, i <= j
               PROVE  (j - i) * t <= r[j] - r[i] + slack
    OBVIOUS
  <2>1. CASE j \in 1 .. n
    <3>1. i \in 1 .. n
      BY <1>1, <2>1
    <3> QED
      BY <1>1, <1>2, <2>1, <3>1 DEF Spaced
  <2>2. CASE i = n + 1
    <3>1. j = n + 1 /\ j - i = 0
      BY <1>1, <2>2
    <3>2. (j - i) * t = 0
      BY <3>1
    <3>3. r[i] = clock /\ r[j] = clock
      BY <1>2, <2>2, <3>1
    <3>4. 0 <= r[j] - r[i] + slack
      BY <3>3
    <3> QED
      BY <3>2, <3>4
  <2>3. CASE i \in 1 .. n /\ j = n + 1
    <3>1. j - i = n - i + 1 /\ (n - i + 1) * t \in Int
      BY <1>1, <2>3, OneMore
    <3>2. PICK x \in Int : x = (j - i) * t
      BY <3>1
    <3>3. x \in Int /\ s[i] + x <= full /\ s[i] \in Nat /\ r[i] = s[i] /\ r[j] = clock
      BY <1>2, <1>3, <2>3, <3>1, <3>2
    <3>4. x <= clock - s[i] + slack
      BY <3>3
    <3> QED
      BY <3>2, <3>3, <3>4
  <2> QED
    BY <1>1, <2>1, <2>2, <2>3
<1>6. Len(r) = n + 1 /\ DOMAIN r = 1 .. n + 1
  BY <1>1
<1>7. Debt(r, next, clock, t)
  <2> SUFFICES ASSUME NEW i \in DOMAIN r
               PROVE  r[i] <= clock /\ r[i] + (Len(r) - i + 1) * t <= next
    BY DEF Debt
  <2>1. Len(r) - i + 1 = n + 1 - i + 1
    BY <1>1, <1>6
  <2> QED
    BY <1>4, <1>6, <2>1
<1>8. Spaced(r, t, slack)
  BY <1>5, <1>6 DEF Spaced
<1> QED
  BY <1>7, <1>8 DEF r

(* A request that passes keeps the debt and the spacing of its limiter.     *)
LEMMA PassKeepsSpacing ==
  ASSUME TypeOK, DebtInv, GrantSpacing, Pass
  PROVE  DebtInv' /\ GrantSpacing'
<1> DEFINE p == Limits[endpoint][passed + 1]
<1>1. p \in Limiter
  BY LimitsType DEF Pass, TypeOK
<1>2. /\ granted' = [granted EXCEPT ![p] = Append(@, now)]
      /\ fullAt' = [fullAt EXCEPT ![p] = Refill(p)]
      /\ now' = now /\ Ready(p)
  BY DEF Pass
<1>3. ASSUME NEW l \in Limiter
      PROVE  /\ Debt(granted'[l], fullAt'[l], now', Interval(l))
             /\ Spaced(granted'[l], Interval(l), Tolerance(l))
  <2>1. CASE l # p
    BY <1>2, <2>1 DEF TypeOK, DebtInv, GrantSpacing
  <2>2. CASE l = p
    <3>1. /\ granted[l] \in Seq(Nat) /\ now \in Nat /\ fullAt[l] \in Nat
          /\ granted'[l] = Append(granted[l], now) /\ fullAt'[l] = Refill(l)
      BY <1>2, <2>2 DEF TypeOK
    <3>2. Interval(l) \in Nat /\ Tolerance(l) \in Nat
      BY IntervalType
    <3>3. /\ Refill(l) \in Nat /\ fullAt[l] <= now + Tolerance(l)
          /\ Refill(l) >= fullAt[l] + Interval(l) /\ Refill(l) >= now + Interval(l)
      BY <1>2, <2>2, <3>1, <3>2 DEF Refill, Ready
    <3>4. Debt(granted[l], fullAt[l], now, Interval(l))
          /\ Spaced(granted[l], Interval(l), Tolerance(l))
      BY DEF DebtInv, GrantSpacing
    <3>5. /\ Debt(Append(granted[l], now), Refill(l), now, Interval(l))
          /\ Spaced(Append(granted[l], now), Interval(l), Tolerance(l))
      BY <3>1, <3>2, <3>3, <3>4, TakeCell
    <3> QED
      BY <1>2, <3>1, <3>5
  <2> QED
    BY <2>1, <2>2
<1> QED
  BY <1>3 DEF DebtInv, GrantSpacing, Interval, Tolerance

(* Debt and spacing are kept together: the debt is what makes the spacing   *)
(* inductive.                                                               *)
LEMMA DebtKept == Spec => [](DebtInv /\ GrantSpacing)
<1>1. Init => DebtInv /\ GrantSpacing
  BY DEF Init, DebtInv, GrantSpacing, Debt, Spaced
<1>2. TypeOK /\ DebtInv /\ GrantSpacing /\ [Next]_vars => DebtInv' /\ GrantSpacing'
  <2> SUFFICES ASSUME TypeOK, DebtInv, GrantSpacing, [Next]_vars
               PROVE  DebtInv' /\ GrantSpacing'
    OBVIOUS
  <2>1. CASE Pass
    BY <2>1, PassKeepsSpacing
  <2>2. CASE Tick
    <3>1. now' = now + 1 /\ UNCHANGED <<granted, fullAt>> /\ now \in Nat
      BY <2>2 DEF Tick, TypeOK
    <3>2. ASSUME NEW l \in Limiter, NEW i \in DOMAIN granted[l]
          PROVE  granted[l][i] <= now'
      <4>1. granted[l][i] \in Nat /\ granted[l][i] <= now
        BY DEF DebtInv, Debt, TypeOK
      <4> QED
        BY <3>1, <4>1
    <3> QED
      BY <3>1, <3>2 DEF DebtInv, Debt, GrantSpacing, Interval, Tolerance
  <2>3. CASE UNCHANGED <<now, fullAt, granted>>
    BY <2>3 DEF DebtInv, GrantSpacing, Interval, Tolerance
  <2> QED
    BY <2>1, <2>2, <2>3 DEF Next, vars, Request, Send, Answer, TooManyRequests, Retry
<1> QED
  BY <1>1, <1>2, TypeCorrect, PTL DEF Spec

(* At every limiter of every client, requests are as far apart as its burst *)
(* and interval demand (client.rs:22-29).                                   *)
THEOREM GrantsSpaced == Spec => []GrantSpacing
  BY DebtKept, PTL

----------------------------------------------------------------------------
(* What the provider sees *)

(* The request has passed the k-th limiter of e and has not been sent.      *)
Waiting(e, k) == pc = "wait" /\ endpoint = e /\ k <= passed

(* Each request passes a limiter once, before it is sent and after the      *)
(* request before it was; the last one that passed may not be sent yet.     *)
Matched(sends, passes, waiting) ==
  /\ Len(passes) = Len(sends) + (IF waiting THEN 1 ELSE 0)
  /\ \A i \in DOMAIN sends :
       passes[i] <= sends[i] /\ (i + 1 \in DOMAIN passes => sends[i] <= passes[i + 1])

SentInv == \A e \in Endpoint : \A i \in DOMAIN sent[e] : sent[e][i] <= now

SendInv ==
  /\ SentInv
  /\ \A e \in Endpoint : \A k \in DOMAIN Limits[e] :
       Matched(sent[e], granted[Limits[e][k]], Waiting(e, k))

(* The request passes the limiter. *)
LEMMA MatchedPass ==
  ASSUME NEW s \in Seq(Nat), NEW g \in Seq(Nat), NEW clock \in Nat,
         Matched(s, g, FALSE), \A i \in DOMAIN s : s[i] <= clock
  PROVE  Matched(s, Append(g, clock), TRUE)
<1> DEFINE n == Len(s)
           h == Append(g, clock)
<1>0. n \in Nat
  OBVIOUS
<1>1. DOMAIN s = 1 .. n /\ Len(g) = n /\ DOMAIN g = 1 .. n
  BY <1>0 DEF Matched
<1>2. /\ Len(h) = n + 1 /\ DOMAIN h = 1 .. n + 1 /\ h[n + 1] = clock
      /\ \A i \in 1 .. n : h[i] = g[i]
  BY <1>0, <1>1
<1>3. ASSUME NEW i \in 1 .. n
      PROVE  h[i] <= s[i] /\ s[i] <= h[i + 1]
  <2>1. h[i] <= s[i]
    BY <1>1, <1>2 DEF Matched
  <2>2. CASE i = n
    BY <1>0, <1>1, <1>2, <2>1, <2>2
  <2>3. CASE i # n
    <3>1. i + 1 \in 1 .. n
      BY <1>0, <2>3
    <3> QED
      BY <1>1, <1>2, <2>1, <3>1 DEF Matched
  <2> QED
    BY <2>2, <2>3
<1> QED
  BY <1>0, <1>1, <1>2, <1>3 DEF Matched

(* The request is sent. *)
LEMMA MatchedSend ==
  ASSUME NEW s \in Seq(Nat), NEW g \in Seq(Nat), NEW clock \in Nat,
         Matched(s, g, TRUE), \A i \in DOMAIN g : g[i] <= clock
  PROVE  Matched(Append(s, clock), g, FALSE)
<1> DEFINE n == Len(s)
           r == Append(s, clock)
<1>1. /\ n \in Nat /\ DOMAIN s = 1 .. n /\ Len(g) = n + 1 /\ DOMAIN g = 1 .. n + 1
  BY DEF Matched
<1>2. /\ Len(r) = n + 1 /\ DOMAIN r = 1 .. n + 1 /\ r[n + 1] = clock
      /\ \A i \in 1 .. n : r[i] = s[i]
  BY <1>1
<1>3. ASSUME NEW i \in 1 .. n + 1
      PROVE  g[i] <= r[i] /\ (i + 1 \in DOMAIN g => r[i] <= g[i + 1])
  <2>1. CASE i = n + 1
    <3>1. i + 1 \notin DOMAIN g
      BY <1>1, <2>1
    <3> QED
      BY <1>1, <1>2, <2>1, <3>1
  <2>2. CASE i \in 1 .. n
    BY <1>1, <1>2, <2>2 DEF Matched
  <2> QED
    BY <1>1, <2>1, <2>2
<1>4. Len(g) = Len(r) + 0
  BY <1>1, <1>2
<1> QED
  BY <1>2, <1>3, <1>4 DEF Matched

(* Nothing was sent in the future. *)
LEMMA SentStep ==
  ASSUME TypeOK, SentInv, [Next]_vars
  PROVE  SentInv'
<1>1. CASE Send
  <2>1. sent' = [sent EXCEPT ![endpoint] = Append(@, now)] /\ now' = now
    BY <1>1 DEF Send
  <2>2. ASSUME NEW e \in Endpoint, NEW i \in DOMAIN sent'[e]
        PROVE  sent'[e][i] <= now
    <3>1. sent[e] \in Seq(Nat) /\ now \in Nat
      BY DEF TypeOK
    <3>2. CASE e # endpoint
      BY <2>1, <3>2 DEF SentInv, TypeOK
    <3>3. CASE e = endpoint
      <4>1. sent'[e] = Append(sent[e], now)
        BY <2>1, <3>3 DEF TypeOK
      <4>2. CASE i \in DOMAIN sent[e]
        BY <3>1, <4>1, <4>2 DEF SentInv
      <4>3. CASE i \notin DOMAIN sent[e]
        BY <2>2, <3>1, <4>1, <4>3
      <4> QED
        BY <4>2, <4>3
    <3> QED
      BY <3>2, <3>3
  <2> QED
    BY <2>1, <2>2 DEF SentInv
<1>2. CASE Tick
  <2>1. now' = now + 1 /\ sent' = sent
    BY <1>2 DEF Tick
  <2>2. ASSUME NEW e \in Endpoint, NEW i \in DOMAIN sent[e]
        PROVE  sent[e][i] <= now'
    <3>1. sent[e][i] \in Nat /\ sent[e][i] <= now /\ now \in Nat
      BY DEF TypeOK, SentInv
    <3> QED
      BY <2>1, <3>1
  <2> QED
    BY <2>1, <2>2 DEF SentInv
<1>3. CASE UNCHANGED <<now, sent>>
  BY <1>3 DEF SentInv
<1> QED
  BY <1>1, <1>2, <1>3 DEF Next, vars, Request, Pass, Answer, TooManyRequests, Retry

(* A step passes one limiter, or sends, or leaves all limiters as they are. *)
LEMMA SendInvStep ==
  ASSUME TypeOK, DebtInv, SendInv, [Next]_vars
  PROVE  SendInv'
<1>1. SentInv'
  BY SentStep DEF SendInv
<1>2. ASSUME NEW e \in Endpoint, NEW k \in DOMAIN Limits[e]
      PROVE  Matched(sent[e], granted[Limits[e][k]], Waiting(e, k))'
  <2> DEFINE l == Limits[e][k]
  <2>1. /\ l \in Limiter /\ k \in Nat /\ k > 0
        /\ granted[l] \in Seq(Nat) /\ sent[e] \in Seq(Nat) /\ now \in Nat /\ passed \in Nat
    BY LimitsType DEF TypeOK
  <2>2. Matched(sent[e], granted[l], Waiting(e, k))
    BY DEF SendInv
  <2>3. CASE Pass
    <3> DEFINE p == Limits[endpoint][passed + 1]
    <3>1. /\ p \in Limiter /\ passed + 1 \in DOMAIN Limits[endpoint] /\ endpoint \in Endpoint
      <4>1. endpoint \in Endpoint /\ passed < Len(Limits[endpoint])
        BY <2>3 DEF Pass, TypeOK
      <4>2. Len(Limits[endpoint]) \in Nat /\ DOMAIN Limits[endpoint] = 1 .. Len(Limits[endpoint])
        BY <4>1, LimitsType
      <4>3. passed + 1 \in DOMAIN Limits[endpoint]
        BY <2>1, <4>1, <4>2
      <4> QED
        BY <4>1, <4>3, LimitsType
    <3>2. /\ granted' = [granted EXCEPT ![p] = Append(@, now)] /\ passed' = passed + 1
          /\ pc = "wait" /\ pc' = pc /\ endpoint' = endpoint /\ sent' = sent
      BY <2>3 DEF Pass
    <3>3. CASE e = endpoint /\ k = passed + 1
      <4>1. granted'[l] = Append(granted[l], now)
        BY <3>1, <3>2, <3>3 DEF TypeOK
      <4>2. ~Waiting(e, k) /\ Waiting(e, k)'
        BY <2>1, <3>2, <3>3 DEF Waiting
      <4>3. Matched(sent[e], granted[l], FALSE)
        BY <2>2, <4>2 DEF Matched
      <4>4. Matched(sent[e], Append(granted[l], now), TRUE)
        BY <2>1, <4>3, MatchedPass DEF SendInv, SentInv
      <4> QED
        BY <3>2, <4>1, <4>2, <4>4 DEF Matched
    <3>4. CASE ~(e = endpoint /\ k = passed + 1)
      <4>1. l # p
        BY <3>1, <3>4, LimitsAssumption
      <4>2. granted'[l] = granted[l]
        BY <2>1, <3>2, <4>1 DEF TypeOK
      <4>3. Waiting(e, k)' <=> Waiting(e, k)
        BY <2>1, <3>2, <3>4 DEF Waiting
      <4> QED
        BY <2>2, <3>2, <4>2, <4>3 DEF Matched
    <3> QED
      BY <3>3, <3>4
  <2>4. CASE Send
    <3>1. /\ sent' = [sent EXCEPT ![endpoint] = Append(@, now)] /\ pc' = "sent"
          /\ pc = "wait" /\ passed = Len(Limits[endpoint]) /\ granted' = granted
      BY <2>4 DEF Send
    <3>2. CASE e = endpoint
      <4>1. Waiting(e, k) /\ ~Waiting(e, k)' /\ sent'[e] = Append(sent[e], now)
        BY <2>1, <3>1, <3>2, LimitsType DEF Waiting, TypeOK
      <4>2. Matched(sent[e], granted[l], TRUE)
        BY <2>2, <4>1 DEF Matched
      <4>3. Matched(Append(sent[e], now), granted[l], FALSE)
        BY <2>1, <4>2, MatchedSend DEF DebtInv, Debt
      <4> QED
        BY <3>1, <4>1, <4>3 DEF Matched
    <3>3. CASE e # endpoint
      <4>1. ~Waiting(e, k) /\ ~Waiting(e, k)' /\ sent'[e] = sent[e]
        BY <3>1, <3>3 DEF Waiting, TypeOK
      <4> QED
        BY <2>2, <3>1, <4>1 DEF Matched
    <3> QED
      BY <3>2, <3>3
  <2>5. CASE sent' = sent /\ granted' = granted /\ (Waiting(e, k)' <=> Waiting(e, k))
    BY <2>2, <2>5 DEF Matched
  <2>6. ASSUME NEW f \in Endpoint, Request(f)
        PROVE  sent' = sent /\ granted' = granted /\ (Waiting(e, k)' <=> Waiting(e, k))
    BY <2>1, <2>6 DEF Request, Waiting
  <2>7. CASE Answer \/ (\E wait \in Waits : TooManyRequests(wait)) \/ Retry \/ Tick
    <3>1. sent' = sent /\ granted' = granted /\ (Waiting(e, k)' <=> Waiting(e, k))
      BY <2>1, <2>7 DEF Answer, TooManyRequests, Retry, Again, Tick, Waiting
    <3> QED
      BY <2>5, <3>1
  <2>8. CASE UNCHANGED vars
    BY <2>5, <2>8 DEF vars, Waiting
  <2> QED
    BY <2>3, <2>4, <2>5, <2>6, <2>7, <2>8 DEF Next
<1> QED
  BY <1>1, <1>2 DEF SendInv

(* At every endpoint the requests that are sent are, but for one, as far    *)
(* apart as each limiter of the endpoint demands, however long they waited  *)
(* between limiters and whatever was answered (client.rs:67-101).           *)
THEOREM SendsSpaced == Spec => []SendSpacing
<1>1. Init => SendInv
  BY LimitsType DEF Init, SendInv, SentInv, Matched, Waiting
<1>2. TypeOK /\ DebtInv /\ SendInv /\ [Next]_vars => SendInv'
  BY SendInvStep
<1>3. TypeOK /\ GrantSpacing /\ SendInv => SendSpacing
  <2> SUFFICES ASSUME TypeOK, GrantSpacing, SendInv,
                      NEW e \in Endpoint, NEW k \in DOMAIN Limits[e],
                      NEW i \in DOMAIN sent[e], NEW j \in DOMAIN sent[e], i < j
               PROVE  (j - i - 1) * Interval(Limits[e][k])
                        <= sent[e][j] - sent[e][i] + Tolerance(Limits[e][k])
    BY DEF SendSpacing
  <2> DEFINE l == Limits[e][k]
             g == granted[l]
  <2>1. l \in Limiter /\ g \in Seq(Nat) /\ sent[e] \in Seq(Nat)
    BY LimitsType DEF TypeOK
  <2>2. Matched(sent[e], g, Waiting(e, k))
    BY DEF SendInv
  <2>3. i + 1 \in DOMAIN g /\ j \in DOMAIN g /\ i \in Nat /\ j \in Nat /\ i + 1 <= j
    <3>1. Len(g) \in Nat /\ Len(sent[e]) \in Nat /\ i \in 1 .. Len(sent[e]) /\ j \in 1 .. Len(sent[e])
      BY <2>1
    <3>2. Len(g) = Len(sent[e]) \/ Len(g) = Len(sent[e]) + 1
      <4>1. CASE Waiting(e, k)
        BY <2>2, <4>1 DEF Matched
      <4>2. CASE ~Waiting(e, k)
        <5>1. Len(g) = Len(sent[e]) + 0
          BY <2>2, <4>2 DEF Matched
        <5> QED
          BY <3>1, <5>1
      <4> QED
        BY <4>1, <4>2
    <3>3. i + 1 \in 1 .. Len(g) /\ j \in 1 .. Len(g)
      BY <3>1, <3>2
    <3>4. DOMAIN g = 1 .. Len(g)
      BY <2>1
    <3> QED
      BY <3>1, <3>3, <3>4
  <2>4. sent[e][i] <= g[i + 1] /\ g[j] <= sent[e][j]
    BY <2>2, <2>3 DEF Matched
  <2>5. (j - (i + 1)) * Interval(l) <= g[j] - g[i + 1] + Tolerance(l)
    BY <2>1, <2>3 DEF GrantSpacing, Spaced
  <2>6. PICK x \in Int : x = (j - (i + 1)) * Interval(l)
    <3>1. Interval(l) \in Nat /\ j - (i + 1) \in Nat
      BY <2>1, <2>3, IntervalType
    <3> QED
      BY <3>1
  <2>7. x \in Int /\ x <= g[j] - g[i + 1] + Tolerance(l) /\ Tolerance(l) \in Nat
    BY <2>1, <2>5, <2>6, IntervalType
  <2>8. g[j] \in Nat /\ g[i + 1] \in Nat /\ sent[e][i] \in Nat /\ sent[e][j] \in Nat
    <3>1. \A q \in Seq(Nat) : \A o \in DOMAIN q : q[o] \in Nat
      OBVIOUS
    <3> QED
      BY <2>1, <2>3, <3>1
  <2>9. x <= sent[e][j] - sent[e][i] + Tolerance(l)
    BY <2>4, <2>7, <2>8
  <2>10. j - i - 1 = j - (i + 1)
    BY <2>3
  <2> QED
    BY <2>6, <2>9, <2>10
<1> QED
  BY <1>1, <1>2, <1>3, TypeCorrect, DebtKept, PTL DEF Spec
=============================================================================
