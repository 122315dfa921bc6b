------------------------------ MODULE RateLimits ------------------------------
(***************************************************************************)
(* Everything in the client that counts against a clock: the connect-rate  *)
(* budget of ConnectionRateBudget and the two request trackers of          *)
(* src/rust/src/rate_limit, the trading tracker (one decaying counter per  *)
(* pair, an LRU of them) and the API tracker (one counter per key), with   *)
(* the index that prices an amend or a cancel by the age of its order.     *)
(*                                                                         *)
(* Callers on several threads read the clock BEFORE they take the          *)
(* tracker's lock, so a counter sees instants out of order; a thread is    *)
(* held up at most Stale instants in between.  Costs, caps and decays are  *)
(* integers (hundredths in the code's tier table).                         *)
(***************************************************************************)
EXTENDS ConnectionRateBudget, SequencesExt

CONSTANTS
    None,
    Callers,      \* threads that make requests
    Pairs,        \* trading pairs, all of one API key
    Api,          \* the scope of the API tracker
    Ids,          \* client order ids
    Cap,          \* cap of each scope (Tier)
    Decay,        \* what each scope's counter loses per instant (Tier)
    LruCap,       \* knob: rate_limit_trading_scope_cap
    IndexCap,     \* knob: cl_ord_id_index_cap
    Seconds,      \* seconds per instant of the clock
    Stale         \* bound: how old a sampled instant may be when it is used

Scopes == Pairs \union {Api}

ASSUME RateAssumption ==
    /\ Api \notin Pairs
    /\ Cap \in [Scopes -> Nat]
    /\ Decay \in [Scopes -> Nat]
    /\ LruCap \in Nat \ {0}
    /\ IndexCap \in Nat \ {0}
    /\ Seconds \in Nat
    /\ Stale \in Nat
    /\ None \notin Nat
    /\ None \notin [scope : Scopes, cost : Nat]

VARIABLES
    counter,   \* RateLimitCounter of each scope; an absent one is at zero
    recency,   \* TradingInner::access_order: the tracked pairs, oldest first
    index,     \* ClOrdIdPairIndex, oldest first
    sampled,   \* the instant each caller read from the clock, or None
    owed,      \* a WS charge whose frame is not posted yet, or None
    level,     \* the exchange's counter of each scope (auxiliary)
    uncounted  \* the part of level that no counter here was charged for or
               \* still holds (auxiliary)

trackerVars == <<counter, recency, index, sampled, owed, level, uncounted>>

Fresh == [current |-> 0, last |-> 0]

RateTypeOK ==
    /\ now \in Nat
    /\ counter \in [Scopes -> [current : Nat, last : Nat]]
    /\ recency \in Seq(Pairs)
    /\ index \in Seq([id : Ids, pair : Pairs, sent : Nat])
    /\ sampled \in [Callers -> Nat \union {None}]
    /\ owed \in [Callers -> [scope : Scopes, cost : Nat] \union {None}]
    /\ level \in [Scopes -> Nat]
    /\ uncounted \in [Scopes -> Nat]

RateInit ==
    /\ Init
    /\ counter = [s \in Scopes |-> Fresh]
    /\ recency = <<>>
    /\ index = <<>>
    /\ sampled = [c \in Callers |-> None]
    /\ owed = [c \in Callers |-> None]
    /\ level = [s \in Scopes |-> 0]
    /\ uncounted = [s \in Scopes |-> 0]

-----------------------------------------------------------------------------
(* RateLimitCounter.                                                       *)

AtLeastZero(n) == IF n > 0 THEN n ELSE 0

Later(a, b) == IF a > b THEN a ELSE b

Lesser(a, b) == IF a < b THEN a ELSE b

\* peek_current: an instant before last_updated counts as no time at all.
PeekCurrent(s, t) ==
    AtLeastZero(counter[s].current - Decay[s] * AtLeastZero(t - counter[s].last))

\* Fault: an instant read before the lock takes last_updated back.
TouchedRegressing(s, t, n) == [current |-> n, last |-> t]

\* A counter at n that was last updated at t, or later.
Touched(s, t, n) == [current |-> n, last |-> Later(t, counter[s].last)]

Fits(s, t, cost) == PeekCurrent(s, t) + cost <= Cap[s]

Charged(s, t, cost) == Touched(s, t, PeekCurrent(s, t) + cost)

Exceeded(s, t) == Touched(s, t, PeekCurrent(s, t))

Credited(s, t, cost) == Touched(s, t, AtLeastZero(PeekCurrent(s, t) - cost))

ChargedSaturating(s, t, cost) ==
    LET n == PeekCurrent(s, t) + cost
    IN  Touched(s, t, IF n < Cap[s] THEN n ELSE Cap[s])

SnappedToCap(s, t) == Touched(s, t, Cap[s])

\* Fault: the projection starts from the level at the last update.
HeadroomUndecayed(s, t) == AtLeastZero(Cap[s] - counter[s].current)

Headroom(s, t) == AtLeastZero(Cap[s] - PeekCurrent(s, t))

\* time_until_headroom of the API tracker, in whole instants.
TimeUntilHeadroom(cost, t) ==
    LET missing == AtLeastZero(cost - Headroom(Api, t))
    IN  IF Decay[Api] = 0 THEN 0
        ELSE (missing + Decay[Api] - 1) \div Decay[Api]

-----------------------------------------------------------------------------
(* The trackers.                                                           *)

Tracked == {recency[i] : i \in DOMAIN recency}

\* q without the first of its entries at these positions, if there are any.
Without(q, positions) ==
    IF positions = {} THEN q
    ELSE RemoveAt(q, CHOOSE i \in positions : \A j \in positions : i <= j)

Promote(q, p) == Append(Without(q, {i \in DOMAIN q : q[i] = p}), p)

\* touch_lru: the pair that makes room for p.
Evicted(p) == IF p \notin Tracked /\ Len(recency) >= LruCap THEN {Head(recency)} ELSE {}

\* Only pairs live in the LRU.
Forgets(s) == IF s \in Pairs THEN Evicted(s) ELSE {}

\* consume: the counter of s becomes n, whether or not the charge fitted.
Consumes(s, n) ==
    /\ counter' = [x \in Scopes |->
                      IF x = s THEN n ELSE IF x \in Forgets(s) THEN Fresh ELSE counter[x]]
    /\ recency' = IF s = Api THEN recency
                  ELSE IF Evicted(s) = {} THEN Promote(recency, s)
                  ELSE Tail(Promote(recency, s))

\* The exchange counts cost more on s.  It forgets nothing of a pair that makes
\* room for s, though the counter of that pair is gone.
Counted(s, cost) ==
    /\ level' = [level EXCEPT ![s] = @ + cost]
    /\ uncounted' = [x \in Scopes |-> IF x \in Forgets(s) THEN level[x] ELSE uncounted[x]]

\* A caller reads the clock on its way to the tracker.
Sample(c) ==
    /\ sampled[c] = None
    /\ sampled' = [sampled EXCEPT ![c] = now]
    /\ UNCHANGED <<now, attempts, due, log, counter, recency, index, owed, level, uncounted>>

Ready(c) == sampled[c] # None /\ owed[c] = None

Done(c) == sampled' = [sampled EXCEPT ![c] = None]

\* A request that does not fit is not sent; its scope is still touched.
Refuse(c, s, cost) ==
    /\ Ready(c)
    /\ ~Fits(s, sampled[c], cost)
    /\ Consumes(s, Exceeded(s, sampled[c]))
    /\ Counted(s, 0)
    /\ Done(c)
    /\ UNCHANGED <<now, attempts, due, log, index, owed>>

\* signed_post_costed_once and charge_pre_send_rest: charged, then sent.
Admit(c, s, cost) ==
    /\ Ready(c)
    /\ Fits(s, sampled[c], cost)
    /\ Consumes(s, Charged(s, sampled[c], cost))
    /\ Counted(s, cost)
    /\ Done(c)
    /\ UNCHANGED <<now, attempts, due, log, index, owed>>

\* send_request_costed: charged, the frame still to be posted.
AdmitWs(c, s, cost) ==
    /\ Ready(c)
    /\ Fits(s, sampled[c], cost)
    /\ Consumes(s, Charged(s, sampled[c], cost))
    /\ Counted(s, cost)
    /\ owed' = [owed EXCEPT ![c] = [scope |-> s, cost |-> cost]]
    /\ UNCHANGED <<now, attempts, due, log, index, sampled>>

PostWs(c) ==
    /\ owed[c] # None
    /\ owed' = [owed EXCEPT ![c] = None]
    /\ Done(c)
    /\ UNCHANGED <<now, attempts, due, log, counter, recency, index, level, uncounted>>

\* The post was refused (queue full or closed): the charge is taken back, at
\* the instant it was made, from the counter the pair has by now, if any.
RefundWs(c) ==
    /\ owed[c] # None
    /\ LET s == owed[c].scope
           l == AtLeastZero(level[s] - owed[c].cost)
       IN  /\ counter' = IF s \in Tracked
                         THEN [counter EXCEPT ![s] = Credited(s, sampled[c], owed[c].cost)]
                         ELSE counter
           /\ level' = [level EXCEPT ![s] = l]
           /\ uncounted' = [uncounted EXCEPT ![s] = Lesser(@, l)]
    /\ owed' = [owed EXCEPT ![c] = None]
    /\ Done(c)
    /\ UNCHANGED <<now, attempts, due, log, recency, index>>

\* What a charge of 1 that is never refused leaves out: all of it for a pair
\* without a counter, what is beyond the cap for the others.
Excess(x, t) ==
    IF x \in Tracked THEN AtLeastZero(PeekCurrent(x, t) + 1 - Cap[x]) ELSE 1

\* cancel_all: every tracked pair is charged, and never refused.  The exchange
\* charges the pairs that had orders, which the client does not know.
ChargeAccountWide(c, affected) ==
    /\ Ready(c)
    /\ counter' = [x \in Scopes |-> IF x \in Tracked
                                    THEN ChargedSaturating(x, sampled[c], 1)
                                    ELSE counter[x]]
    /\ level' = [x \in Scopes |-> IF x \in affected THEN level[x] + 1 ELSE level[x]]
    /\ uncounted' = [x \in Scopes |-> IF x \in affected
                                      THEN uncounted[x] + Excess(x, sampled[c])
                                      ELSE uncounted[x]]
    /\ Done(c)
    /\ UNCHANGED <<now, attempts, due, log, recency, index, owed>>

\* A throttle error for one pair: tracked again, at its cap, whatever the LRU
\* holds; for the API key: its counter.
SnapOne(c, s) ==
    /\ Ready(c)
    /\ counter' = [counter EXCEPT ![s] = SnappedToCap(s, sampled[c])]
    /\ recency' = IF s = Api THEN recency ELSE Promote(recency, s)
    /\ Done(c)
    /\ UNCHANGED <<now, attempts, due, log, index, owed, level, uncounted>>

\* A domain throttle error: every tracked pair, promoted in any order (the
\* map's iteration order).
SnapDomain(c) ==
    /\ Ready(c)
    /\ counter' = [x \in Scopes |-> IF x \in Tracked THEN SnappedToCap(x, sampled[c])
                                    ELSE counter[x]]
    /\ recency' \in SetToSeqs(Tracked)
    /\ Done(c)
    /\ UNCHANGED <<now, attempts, due, log, index, owed, level, uncounted>>

-----------------------------------------------------------------------------
(* The price of an amend or a cancel.                                      *)

Brackets ==
    [AmendOrder  |-> << <<5, 4>>, <<10, 3>>, <<15, 2>> >>,
     CancelOrder |-> << <<5, 8>>, <<10, 6>>, <<15, 5>>, <<45, 4>>, <<90, 2>>, <<300, 1>> >>]

Floor == [AmendOrder |-> 1, CancelOrder |-> 0]

\* order_age_cost: the first bracket the age is below.
OrderAgeCost(op, age) ==
    LET under == {i \in DOMAIN Brackets[op] : age < Brackets[op][i][1]}
    IN  IF under = {} THEN Floor[op]
        ELSE Brackets[op][CHOOSE i \in under : \A j \in under : i <= j][2]

Entry(id) == {i \in DOMAIN index : index[i].id = id}

\* LruCache::put and pop_lru.
Insert(e) ==
    LET q == Append(Without(index, Entry(e.id)), e)
    IN  IF Len(q) > IndexCap THEN Tail(q) ELSE q

\* An accepted placement enters the index with the instant t it was sent at.
Accepted(id, p, t) ==
    /\ index' = Insert([id |-> id, pair |-> p, sent |-> t])
    /\ UNCHANGED <<now, attempts, due, log, counter, recency, sampled, owed, level, uncounted>>

\* The exchange counts cost on p, and no counter here was charged for it.
Uncharged(p, cost) ==
    /\ level' = [level EXCEPT ![p] = @ + cost]
    /\ uncounted' = [uncounted EXCEPT ![p] = @ + cost]

\* A caller amends or cancels an order the index does not know: it charges
\* nothing, the exchange the pair and the age the order has.
RepriceMiss(c, op, id, p, age) ==
    /\ Ready(c)
    /\ Entry(id) = {}
    /\ Uncharged(p, OrderAgeCost(op, Seconds * age))
    /\ Done(c)
    /\ UNCHANGED <<now, attempts, due, log, counter, recency, index, owed>>

\* The retry loop sends a cancel once more: it was priced before the loop, whose
\* attempts are free (cancel_one, run_retry_loop).
CancelAgain(p, age) ==
    /\ Uncharged(p, OrderAgeCost("CancelOrder", Seconds * age))
    /\ UNCHANGED <<now, attempts, due, log, counter, recency, index, sampled, owed>>

\* A caller amends or cancels an order of the index: priced by its age.
Reprice(c, op, id) ==
    /\ Ready(c)
    /\ \E i \in Entry(id) :
         LET e == index[i]
             cost == OrderAgeCost(op, Seconds * AtLeastZero(sampled[c] - e.sent))
             t == sampled[c]
         IN  /\ Consumes(e.pair, IF Fits(e.pair, t, cost) THEN Charged(e.pair, t, cost)
                                 ELSE Exceeded(e.pair, t))
             /\ Counted(e.pair, IF Fits(e.pair, t, cost) THEN cost ELSE 0)
             /\ index' = Insert(e)
    /\ Done(c)
    /\ UNCHANGED <<now, attempts, due, log, owed>>

-----------------------------------------------------------------------------
\* Time passes for both; a charge and its post are one synchronous stretch.
RateTick ==
    /\ Tick
    /\ \A c \in Callers : owed[c] = None /\ (sampled[c] # None => now - sampled[c] < Stale)
    /\ level' = [s \in Scopes |-> AtLeastZero(level[s] - Decay[s])]
    /\ uncounted' = [s \in Scopes |-> Lesser(uncounted[s], level'[s])]
    /\ UNCHANGED <<counter, recency, index, sampled, owed>>

\* The connect-rate budget moves on its own.
BudgetStep ==
    /\ \E c \in Conns : Connect(c) \/ WindowAdvanced(c)
    /\ UNCHANGED trackerVars

RateNext ==
    \/ RateTick
    \/ BudgetStep
    \/ \E id \in Ids, p \in Pairs, t \in 0..now : Accepted(id, p, t)
    \/ \E p \in Pairs, age \in 0..now : CancelAgain(p, age)
    \/ \E c \in Callers :
         \/ Sample(c) \/ PostWs(c) \/ RefundWs(c)
         \/ SnapDomain(c)
         \/ \E affected \in SUBSET Pairs : ChargeAccountWide(c, affected)
         \/ \E s \in Scopes : Refuse(c, s, 1) \/ Admit(c, s, 1) \/ SnapOne(c, s)
         \/ \E s \in Pairs : AdmitWs(c, s, 1)
         \/ \E op \in {"AmendOrder", "CancelOrder"}, id \in Ids :
              \/ Reprice(c, op, id)
              \/ \E p \in Pairs, age \in 0..now : RepriceMiss(c, op, id, p, age)

rateVars == <<now, attempts, due, log, counter, recency, index, sampled, owed, level, uncounted>>

RateSpec == RateInit /\ [][RateNext]_rateVars

-----------------------------------------------------------------------------
(* Properties.                                                             *)

\* However the threads interleave and however stale the instants they hand to
\* RateLimitCounter::charge, the exchange's counter of a scope passes the cap by
\* no more than what decays while a thread is held up between reading the clock
\* and taking the lock, and what it was charged without a counter that vouches
\* for it: the level of a pair that touch_lru evicted, what cancel_all cost
\* beyond charge_saturating, an amend or a cancel the index did not know, a
\* cancel the retry loop sent again.  None of these ever befalls the API key.
BurstBounded ==
    /\ uncounted[Api] = 0
    /\ \A s \in Scopes : level[s] <= Cap[s] + Decay[s] * Stale + uncounted[s]

\* time_until_headroom: a throttled read that sleeps that long is admitted if
\* nobody else charged meanwhile, and would not have been an instant earlier,
\* with charges made at any older instant (compute_retry_backoff).
BackoffFits ==
    \A cost \in 0..Cap[Api] :
        LET w == TimeUntilHeadroom(cost, now)
        IN  /\ Fits(Api, now + w, cost)
            /\ w > 0 => ~Fits(Api, now + w - 1, cost)

=============================================================================
