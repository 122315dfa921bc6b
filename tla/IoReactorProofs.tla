--------------------------- MODULE IoReactorProofs ---------------------------
(***************************************************************************)
(* Proofs about the connection machine and its reactor, for every set of   *)
(* keys, requests and callers and every value of the knobs.                *)
(*                                                                         *)
(* The invariants are about one connection record, so the work is done on  *)
(* the operators of ManagedConnection: each maps a Safe connection to a    *)
(* Safe one.  Teardowns pass through connections that are not Safe (the    *)
(* socket is gone and the state not yet left) but are Drained, and every   *)
(* way out of a session starts from a Drained connection.                  *)
(***************************************************************************)
EXTENDS IoReactor, TLAPS

\* d differs from c only in what the invariants do not look at.
SameCore(d, c) ==
    /\ d \in Connection
    /\ d.state = c.state
    /\ d.socket = c.socket
    /\ d.pending_requests = c.pending_requests
    /\ d.undrained = c.undrained

\* A connection with no request in flight, whatever its state.
Drained(c) ==
    /\ c \in Connection
    /\ c.pending_requests = {}
    /\ ~c.undrained

\* The inductive strengthening: only a session or a closing connection has requests
\* in flight, and a session or an attempt has its socket.
Safe(c) ==
    /\ c \in Connection
    /\ c.pending_requests # {} => c.socket /\ c.state \in SessionStates \union {"Closing"}
    /\ c.state \in SessionStates \union {"Connecting"} => c.socket
    /\ ~c.undrained

----------------------------------------------------------------------------
(* Facts about the helpers. *)

\* Safe and Drained look at the core fields only.
LEMMA SameCoreSafe ==
    ASSUME NEW c, NEW d, SameCore(d, c)
    PROVE  (Safe(c) => Safe(d)) /\ (Drained(c) => Drained(d))
  BY DEF SameCore, Safe, Drained

\* Outside a session and its close no request is in flight.
LEMMA SafeDrained ==
    ASSUME NEW c, Safe(c), c.state \notin SessionStates \union {"Closing"}
    PROVE  Drained(c)
  BY DEF Safe, Drained

\* Arming or clearing a timer touches nothing the invariants look at.
LEMMA ArmFacts ==
    ASSUME NEW c \in Connection, NEW t \in TimerNames
    PROVE  SameCore(Arm(c, t), c) /\ SameCore(Disarm(c, t), c)
  BY DEF SameCore, Arm, Disarm, Connection

\* An event that announces no end, or follows a drain, leaves the ghost alone.
LEMMA PublishFacts ==
    ASSUME NEW c \in Connection, NEW ev \in LifecycleEvents
    PROVE  /\ Publish(c, ev) \in Connection
           /\ Publish(c, ev).state = c.state
           /\ Publish(c, ev).socket = c.socket
           /\ Publish(c, ev).pending_requests = c.pending_requests
           /\ ev \notin DisconnectEvents \/ c.pending_requests = {} =>
                  Publish(c, ev).undrained = c.undrained
  BY DEF Publish, Connection

\* The terminal event of a drained connection (emit_connection_failed).
LEMMA EmitConnectionFailedFacts ==
    ASSUME NEW c, Drained(c)
    PROVE  SameCore(EmitConnectionFailed(c), c)
<1> DEFINE p == Publish(c, "failed")
<1>1. SameCore(p, c)
  BY PublishFacts DEF Drained, SameCore, LifecycleEvents
<1> HIDE DEF p
<1>2. p \in Connection
  BY <1>1 DEF SameCore
<1>3. SameCore([p EXCEPT !.pending_connect = {}, !.additional_connect = {},
                         !.asked_connect = @ \ (c.pending_connect \union c.additional_connect)], p)
  BY <1>2 DEF SameCore, Connection, Opt
<1> QED  BY <1>1, <1>3 DEF SameCore, EmitConnectionFailed, p

\* clear_subscribe_ack_state leaves the requests in flight alone.
LEMMA ClearFacts ==
    ASSUME NEW c \in Connection
    PROVE  SameCore(ClearSubscribeAckState(c), c)
  BY ConnectionAssumption DEF SameCore, ClearSubscribeAckState, Connection, NoAttempts, Absent

\* arm_subscribe_ack seeds a budget within the knob.
LEMMA ArmSubscribeAckFacts ==
    ASSUME NEW c \in Connection, NEW k \in Keys
    PROVE  SameCore(ArmSubscribeAck(c, k), c)
<1> DEFINE v == IF c.ack_attempts[k] = Absent THEN SubscribeAckAttempts ELSE c.ack_attempts[k]
           f == [c.ack_attempts EXCEPT ![k] = v]
<1>1. v \in {Absent} \union (0..SubscribeAckAttempts)
  BY ConnectionAssumption DEF Connection
<1> HIDE DEF v
<1>2. f \in [Keys -> {Absent} \union (0..SubscribeAckAttempts)]
  BY <1>1 DEF Connection
<1> HIDE DEF f
<1> DEFINE d == [c EXCEPT !.ack_attempts = f]
<1>3. SameCore(d, c)
  BY <1>2 DEF SameCore, Connection
<1>4. d.ack_timeouts = c.ack_timeouts
  BY DEF Connection
<1>5. ArmSubscribeAck(c, k) = [d EXCEPT !.ack_timeouts = @ \union {k}]
  BY DEF ArmSubscribeAck, f, v, Connection
<1> HIDE DEF d
<1>6. SameCore([d EXCEPT !.ack_timeouts = @ \union {k}], d)
  BY <1>3 DEF SameCore, Connection
<1> QED  BY <1>3, <1>5, <1>6 DEF SameCore

\* disarm_subscribe_ack keeps the types and the core.
LEMMA DisarmSubscribeAckFacts ==
    ASSUME NEW c \in Connection, NEW k \in Keys
    PROVE  SameCore(DisarmSubscribeAck(c, k), c)
  BY ConnectionAssumption DEF SameCore, DisarmSubscribeAck, Connection, Absent

\* The deferral record and the awaiting flag are outside the core.
LEMMA DeferFacts ==
    ASSUME NEW c \in Connection, NEW S \in SUBSET Keys, NEW k \in Keys
    PROVE  /\ SameCore(Defer(c, S), c)
           /\ SameCore(RemoveDeferred(c, k), c)
           /\ SameCore(AwaitRefresh(c), c)
  BY DEF SameCore, Defer, RemoveDeferred, AwaitRefresh, Connection

\* PendingRequestMap::drain empties the map and nothing else.
LEMMA DrainFacts ==
    ASSUME NEW c \in Connection
    PROVE  /\ DrainRequests(c) \in Connection
           /\ DrainRequests(c).state = c.state
           /\ DrainRequests(c).socket = c.socket
           /\ DrainRequests(c).pending_requests = {}
           /\ DrainRequests(c).undrained = c.undrained
  BY DEF DrainRequests, Connection

\* saturating_add stays within the width of the counter.
LEMMA IncrementType ==
    ASSUME NEW n \in 0..CountMax
    PROVE  SaturatingIncrement(n) \in 0..CountMax
  BY ConnectionAssumption DEF SaturatingIncrement

----------------------------------------------------------------------------
(* Ways out of a session or of an attempt. *)

\* exit_authenticating_teardown and exit_resubscribing_teardown drain.
LEMMA HandshakeTeardownDrained ==
    ASSUME NEW c \in Connection, ~c.undrained
    PROVE  Drained(ExitHandshakeTeardown(c)) /\ ExitHandshakeTeardown(c).state = c.state
<1> DEFINE s == [c EXCEPT !.socket = FALSE]
           t == Disarm(s, "staleness")
           u == ClearSubscribeAckState(t)
<1>1. s \in Connection /\ s.state = c.state /\ ~s.undrained
  BY DEF Connection
<1> HIDE DEF s
<1>2. SameCore(t, s)
  BY <1>1, ArmFacts DEF TimerNames
<1> HIDE DEF t
<1>3. SameCore(u, t)
  BY <1>2, ClearFacts DEF SameCore
<1> HIDE DEF u
<1>4. ExitHandshakeTeardown(c) = DrainRequests(u)
  BY DEF ExitHandshakeTeardown, s, t, u
<1> QED  BY <1>1, <1>2, <1>3, <1>4, DrainFacts DEF SameCore, Drained

\* exit_open_teardown drains.
LEMMA OpenTeardownDrained ==
    ASSUME NEW c \in Connection, ~c.undrained
    PROVE  Drained(ExitOpenTeardown(c))
<1> DEFINE r == DrainRequests(c)
           s == [r EXCEPT !.socket = FALSE]
           t == Disarm(s, "staleness")
<1>a. r \in Connection /\ r.pending_requests = {} /\ ~r.undrained
  BY DrainFacts
<1> HIDE DEF r
<1>1. s \in Connection /\ s.pending_requests = {} /\ ~s.undrained
  BY <1>a DEF Connection
<1> HIDE DEF s
<1>2. SameCore(t, s)
  BY <1>1, ArmFacts DEF TimerNames
<1> HIDE DEF t
<1>3. SameCore(ClearSubscribeAckState(t), t)
  BY <1>2, ClearFacts DEF SameCore
<1> QED  BY <1>1, <1>2, <1>3 DEF SameCore, Drained, ExitOpenTeardown, r, s, t

\* A drained connection may fail.
LEMMA FailSafe ==
    ASSUME NEW c, Drained(c)
    PROVE  Safe(Fail(c))
<1> DEFINE d == [c EXCEPT !.state = "Failed"]
<1>1. Drained(d) /\ d.state = "Failed"
  BY DEF Drained, Connection, States
<1> HIDE DEF d
<1>2. SameCore(EmitConnectionFailed(d), d)
  BY <1>1, EmitConnectionFailedFacts
<1> QED  BY <1>1, <1>2 DEF Fail, SameCore, Drained, Safe, SessionStates, d

\* A drained connection may back off, or escalate at the cap.
LEMMA BackOffSafe ==
    ASSUME NEW c, Drained(c), NEW ev \in LifecycleEvents
    PROVE  Safe(BackOff(c, ev))
<1>1. CASE CapExhausted(c)
  <2> DEFINE d == [c EXCEPT !.socket = FALSE, !.timers = @ \ {"staleness", "upgrade"}]
  <2>1. Drained(d)
    BY DEF Drained, Connection
  <2> HIDE DEF d
  <2> QED  BY <1>1, <2>1, FailSafe DEF BackOff, Escalate, d
<1>2. CASE ~CapExhausted(c)
  <2> DEFINE d == [c EXCEPT !.state = "BackingOff"]
             e == Arm(d, "backoff")
  <2>1. Drained(d) /\ d.state = "BackingOff"
    BY DEF Drained, Connection, States
  <2> HIDE DEF d
  <2>2. SameCore(e, d)
    BY <2>1, ArmFacts DEF Drained, TimerNames
  <2> HIDE DEF e
  <2>3. SameCore(Publish(e, ev), e)
    BY <2>1, <2>2, PublishFacts DEF SameCore, Drained
  <2> QED  BY <1>2, <2>1, <2>2, <2>3 DEF BackOff, SameCore, Drained, Safe, SessionStates, d, e
<1> QED  BY <1>1, <1>2

\* A drained connection may start an attempt.
LEMMA EnterConnectingSafe ==
    ASSUME NEW c, Drained(c)
    PROVE  Safe(EnterConnecting(c))
<1> DEFINE d == [c EXCEPT !.state = "Connecting", !.socket = TRUE, !.opened = TRUE]
           e == Arm(d, "upgrade")
<1>1. Safe(d) /\ Drained(d)
  BY DEF Drained, Safe, Connection, States, SessionStates
<1> HIDE DEF d
<1>2. SameCore(e, d)
  BY <1>1, ArmFacts DEF Drained, TimerNames
<1> HIDE DEF e
<1>3. SameCore(Publish(e, "connecting"), e)
  BY <1>1, <1>2, PublishFacts DEF SameCore, Drained, LifecycleEvents
<1> QED  BY <1>1, <1>2, <1>3, SameCoreSafe DEF EnterConnecting, d, e

\* A drained connection may be throttled by the rate budget.
LEMMA ThrottleSafe ==
    ASSUME NEW c, Drained(c)
    PROVE  Safe(Throttle(c))
<1> DEFINE d == [c EXCEPT !.state = "BackingOff"]
           e == Arm(d, "rate_budget")
<1>1. Safe(d) /\ Drained(d)
  BY DEF Drained, Safe, Connection, States, SessionStates
<1> HIDE DEF d
<1>2. SameCore(e, d)
  BY <1>1, ArmFacts DEF Drained, TimerNames
<1> HIDE DEF e
<1>3. SameCore(Publish(e, "throttled"), e)
  BY <1>1, <1>2, PublishFacts DEF SameCore, Drained, LifecycleEvents
<1> QED  BY <1>1, <1>2, <1>3, SameCoreSafe DEF Throttle, d, e

\* Both outcomes of a consultation of the rate budget.
LEMMA ConnectOrThrottleSafe ==
    ASSUME NEW c, Drained(c), NEW admit
    PROVE  Safe(ConnectOrThrottle(c, admit))
  BY EnterConnectingSafe, ThrottleSafe DEF ConnectOrThrottle

\* reenter_connecting from a drained connection.
LEMMA ReenterConnectingSafe ==
    ASSUME NEW c, Drained(c), NEW rid \in Ids, NEW admit
    PROVE  Safe(ReenterConnecting(c, rid, admit))
<1> DEFINE d == [c EXCEPT !.socket = FALSE, !.pending_connect = {rid}]
<1>1. Drained(d)
  BY DEF Drained, Connection, Opt
<1> HIDE DEF d
<1> QED  BY <1>1, ConnectOrThrottleSafe DEF ReenterConnecting, d

\* enter_open keeps the requests of the handshake in flight.
LEMMA EnterOpenSafe ==
    ASSUME NEW c, Safe(c), c.state \in SessionStates
    PROVE  Safe(EnterOpen(c))
<1> DEFINE d == [c EXCEPT !.attempt_count = 0, !.has_been_open = TRUE, !.state = "Open",
                          !.pending_connect = {}, !.additional_connect = {},
                          !.asked_connect = @ \ (c.pending_connect \union c.additional_connect)]
           e == Arm(d, "staleness")
           b == [c EXCEPT !.attempt_count = 0, !.has_been_open = TRUE, !.state = "Open"]
           W == c.pending_connect \union c.additional_connect
<1>a. b \in Connection
  <2>1. c \in Connection /\ 0 \in 0..CountMax
    BY ConnectionAssumption DEF Safe
  <2> QED  BY <2>1 DEF Connection, States
<1>b. d = [b EXCEPT !.pending_connect = {}, !.additional_connect = {}, !.asked_connect = @ \ W]
  BY DEF Safe, Connection
<1> HIDE DEF b, W
<1>1. d \in Connection
  <2>1. [b EXCEPT !.pending_connect = {}, !.additional_connect = {}, !.asked_connect = @ \ W]
            \in Connection
    BY <1>a DEF Connection, Opt
  <2> QED  BY <1>b, <2>1
<1>2. d.state = "Open" /\ d.socket /\ ~d.undrained
  BY DEF Safe, Connection, SessionStates
<1> HIDE DEF d
<1>3. SameCore(e, d)
  BY <1>1, ArmFacts DEF TimerNames
<1> HIDE DEF e
<1>4. SameCore(Publish(e, "open"), e)
  BY <1>3, PublishFacts DEF SameCore, LifecycleEvents, DisconnectEvents
<1>5. Safe(d)
  BY <1>1, <1>2 DEF Safe, SessionStates
<1> QED  BY <1>3, <1>4, <1>5, SameCoreSafe DEF EnterOpen, d, e

\* complete_resubscribe_if_empty, taken or not.
LEMMA CompleteResubscribeSafe ==
    ASSUME NEW c, Safe(c)
    PROVE  Safe(CompleteResubscribeIfEmpty(c))
  BY EnterOpenSafe DEF CompleteResubscribeIfEmpty, SessionStates

\* Answering the close waiters keeps the latched reconnect.
LEMMA ForgetCloseWaitersFacts ==
    ASSUME NEW c \in Connection
    PROVE  SameCore(ForgetCloseWaiters(c), c)
           /\ ForgetCloseWaiters(c).pending_reconnect = c.pending_reconnect
  BY DEF SameCore, ForgetCloseWaiters, CloseWaiters, Connection, Opt

\* The close cohort is answered after the drain.
LEMMA AnswerCloseCohortDrained ==
    ASSUME NEW c \in Connection, ~c.undrained
    PROVE  Drained(AnswerCloseCohort(c))
<1> DEFINE d == DrainRequests(c)
           e == IF CloseWaiters(c) # {} THEN Publish(d, "closed") ELSE d
<1>1. Drained(d)
  BY DrainFacts DEF Drained
<1> HIDE DEF d
<1>2. Drained(e)
  BY <1>1, PublishFacts DEF Drained, LifecycleEvents
<1>3. AnswerCloseCohort(c) = ForgetCloseWaiters(e)
  BY DEF AnswerCloseCohort, d
<1> HIDE DEF e
<1> QED  BY <1>2, <1>3, ForgetCloseWaitersFacts, SameCoreSafe DEF Drained

\* Both exits of Closing (enter_closed_or_reconnect).
LEMMA EnterClosedOrReconnectSafe ==
    ASSUME NEW c \in Connection, ~c.undrained, NEW admit
    PROVE  Safe(EnterClosedOrReconnect(c, admit))
<1> DEFINE x == Disarm(c, "close")
           y == AnswerCloseCohort(x)
           d == [y EXCEPT !.pending_reconnect = {}]
<1>1. x \in Connection /\ ~x.undrained
  BY ArmFacts DEF SameCore, TimerNames
<1> HIDE DEF x
<1>2. Drained(y)
  BY <1>1, AnswerCloseCohortDrained
<1> HIDE DEF y
<1>3. Drained(d)
  BY <1>2 DEF Drained, Connection, Opt
<1> HIDE DEF d
<1>4. CASE c.pending_reconnect = {}
  <2>1. Safe([d EXCEPT !.state = "Closed", !.socket = FALSE])
    BY <1>3 DEF Drained, Safe, Connection, States, SessionStates
  <2> QED  BY <1>4, <2>1 DEF EnterClosedOrReconnect, d, x, y
<1>5. CASE c.pending_reconnect # {}
  <2> DEFINE z == [d EXCEPT !.attempt_count = 0]
             rid == CHOOSE r \in c.pending_reconnect : TRUE
  <2>1. rid \in Ids
    BY <1>5 DEF Connection, Opt
  <2>2. Drained(z)
    BY <1>3, ConnectionAssumption DEF Drained, Connection
  <2> HIDE DEF z, rid
  <2>3. Safe(ReenterConnecting(z, rid, admit))
    BY <2>1, <2>2, ReenterConnectingSafe
  <2> QED  BY <1>5, <2>3 DEF EnterClosedOrReconnect, d, x, y, z, rid
<1> QED  BY <1>4, <1>5

----------------------------------------------------------------------------
(* A subscribe that failed. *)

\* The decremented budget of an entry never goes below zero.
LEMMA AttemptsLeftType ==
    ASSUME NEW c \in Connection, NEW k \in Keys
    PROVE  AttemptsLeft(c, k) \in 0..SubscribeAckAttempts
  BY ConnectionAssumption DEF AttemptsLeft, SaturatingDecrement, Connection, Absent

\* A terminal subscribe failure keeps the session.
LEMMA SubscribeTerminatedSafe ==
    ASSUME NEW c, Safe(c), NEW k \in Keys
    PROVE  Safe(SubscribeTerminated(c, k))
<1>1. Safe(DisarmSubscribeAck(c, k))
  BY DisarmSubscribeAckFacts, SameCoreSafe DEF Safe
<1> QED  BY <1>1, CompleteResubscribeSafe DEF SubscribeTerminated

\* An exhausted subscribe budget drains, whatever the state it is met in.
LEMMA BudgetExhaustedSafe ==
    ASSUME NEW c \in Connection, ~c.undrained
    PROVE  Safe(SubscribeBudgetExhausted(c))
<1> DEFINE torn == ExitHandshakeTeardown(c)
           d == [torn EXCEPT !.state = "BackingOff"]
           e == Arm(d, "backoff")
<1>1. Drained(torn)
  BY HandshakeTeardownDrained
<1> HIDE DEF torn
<1>2. Safe(BackOff(torn, "dropped"))
  BY <1>1, BackOffSafe DEF LifecycleEvents
<1>3. Safe(d) /\ Drained(d)
  BY <1>1 DEF Drained, Safe, Connection, States, SessionStates
<1> HIDE DEF d
<1>4. SameCore(e, d)
  BY <1>3, ArmFacts DEF Drained, TimerNames
<1> HIDE DEF e
<1>5. SameCore(Publish(e, "attempt_failed"), e)
  BY <1>3, <1>4, PublishFacts DEF SameCore, Drained, LifecycleEvents
<1> QED  BY <1>2, <1>3, <1>4, <1>5, SameCoreSafe DEF SubscribeBudgetExhausted, torn, d, e

\* The three outcomes of handle_subscribe_failure.
LEMMA HandleSubscribeFailureSafe ==
    ASSUME NEW c, Safe(c), NEW k \in Keys, NEW transient \in BOOLEAN
    PROVE  Safe(HandleSubscribeFailure(c, k, transient))
<1> DEFINE left == AttemptsLeft(c, k)
           R == IF left > 0 THEN c.resend_due \union {k} ELSE c.resend_due \ {k}
           f == [c.ack_attempts EXCEPT ![k] = left]
           d == [c EXCEPT !.ack_timeouts = @ \ {k}, !.resend_due = R, !.ack_attempts = f]
<1>1. c \in Connection /\ left \in 0..SubscribeAckAttempts
  BY AttemptsLeftType DEF Safe
<1> HIDE DEF left
<1>2. R \in SUBSET Keys /\ f \in [Keys -> {Absent} \union (0..SubscribeAckAttempts)]
  BY <1>1 DEF Connection
<1> HIDE DEF R, f
<1>3. SameCore(d, c)
  BY <1>1, <1>2 DEF SameCore, Connection
<1>4. [c EXCEPT !.ack_timeouts = @ \ {k},
                !.resend_due = IF left > 0 THEN @ \union {k} ELSE @ \ {k},
                !.ack_attempts[k] = left] = d
  BY DEF R, f
<1> HIDE DEF d
<1>5. Safe(d)
  BY <1>3, SameCoreSafe
<1>6. Safe(SubscribeBudgetExhausted(d))
  BY <1>5, BudgetExhaustedSafe DEF Safe
<1>7. Safe(SubscribeTerminated(c, k))
  BY SubscribeTerminatedSafe
<1> QED  BY <1>4, <1>5, <1>6, <1>7 DEF HandleSubscribeFailure, left

----------------------------------------------------------------------------
(* Caller events. *)

\* Latching a connect waiter is outside the core.
LEMMA AskFacts ==
    ASSUME NEW c \in Connection, NEW rid \in Ids
    PROVE  /\ SameCore(Ask(c, rid), c)
           /\ SameCore(JoinConnect(c, rid), c)
           /\ SameCore(JoinReconnect(c, rid), c)
  BY ZenonT(60) DEF SameCore, Ask, JoinConnect, JoinReconnect, Connection, Opt

\* Latching a close waiter is outside the core.
LEMMA LatchCloseFacts ==
    ASSUME NEW c \in Connection, NEW rid \in Ids
    PROVE  SameCore(LatchClose(c, rid), c) /\ SameCore(ClosingClose(c, rid), c)
  BY DEF SameCore, LatchClose, ClosingClose, Connection, Opt

\* CallStartConnect in every state.
LEMMA CallStartConnectSafe ==
    ASSUME NEW c, Safe(c), NEW rid \in Ids, NEW admit
    PROVE  Safe(CallStartConnect(c, rid, admit))
<1>1. CASE c.state = "Idle"
  <2> DEFINE n == IF admit THEN SaturatingIncrement(c.attempt_count) ELSE c.attempt_count
             d == [c EXCEPT !.pending_connect = {rid}, !.attempt_count = n]
  <2>1. Drained(c)
    BY <1>1, SafeDrained DEF SessionStates
  <2>2. n \in 0..CountMax
    BY <2>1, IncrementType DEF Drained, Connection
  <2> HIDE DEF n
  <2>3. Drained(d)
    BY <2>1, <2>2 DEF Drained, Connection, Opt
  <2> HIDE DEF d
  <2>4. Safe(ConnectOrThrottle(d, admit))
    BY <2>3, ConnectOrThrottleSafe
  <2> QED  BY <1>1, <2>4 DEF CallStartConnect, d, n
<1>2. CASE c.state # "Idle"
  BY <1>2 DEF CallStartConnect
<1> QED  BY <1>1, <1>2

\* A connection with its socket may start closing.
LEMMA EnterClosingSafe ==
    ASSUME NEW c, Safe(c), c.socket
    PROVE  Safe(EnterClosing(c))
<1> DEFINE x == ClearSubscribeAckState(c)
           d == [x EXCEPT !.state = "Closing"]
           e == Disarm(d, "staleness")
<1>1. SameCore(x, c) /\ Safe(x) /\ x.socket
  BY ClearFacts, SameCoreSafe DEF Safe, SameCore
<1> HIDE DEF x
<1>2. Safe(d)
  BY <1>1 DEF Safe, Connection, States, SessionStates
<1> HIDE DEF d
<1>3. Safe(e)
  BY <1>2, ArmFacts, SameCoreSafe DEF Safe, TimerNames
<1> HIDE DEF e
<1>4. Safe(Arm(e, "close"))
  BY <1>3, ArmFacts, SameCoreSafe DEF Safe, TimerNames
<1> QED  BY <1>4 DEF EnterClosing, d, e, x

\* CallClose in every state.
LEMMA CallCloseSafe ==
    ASSUME NEW c, Safe(c), NEW rid \in Ids
    PROVE  Safe(CallClose(c, rid))
<1>0. c \in Connection /\ c.state \in States
  BY DEF Safe, Connection
<1>1. CASE c.state \in {"Idle", "BackingOff", "Failed"}
  <2> DEFINE d == [c EXCEPT !.state = "Closed"]
  <2>1. Safe(d) /\ Drained(d)
    BY <1>1 DEF Safe, Drained, Connection, States, SessionStates
  <2> HIDE DEF d
  <2>2. SameCore(Publish(d, "closed"), d)
    BY <2>1, PublishFacts DEF SameCore, Drained, LifecycleEvents
  <2> QED  BY <1>1, <2>1, <2>2, SameCoreSafe DEF CallClose, CloseAtOnce, d
<1>2. CASE c.state = "Connecting"
  <2> DEFINE d == [c EXCEPT !.state = "Closing"]
             e == Disarm(d, "upgrade")
             f == Arm(e, "close")
  <2>1. Safe(d)
    BY <1>2 DEF Safe, Connection, States, SessionStates
  <2> HIDE DEF d
  <2>2. Safe(e)
    BY <2>1, ArmFacts, SameCoreSafe DEF Safe, TimerNames
  <2> HIDE DEF e
  <2>3. Safe(f)
    BY <2>2, ArmFacts, SameCoreSafe DEF Safe, TimerNames
  <2> HIDE DEF f
  <2>4. Safe(LatchClose(f, rid))
    BY <2>3, LatchCloseFacts, SameCoreSafe DEF Safe
  <2> QED  BY <1>2, <2>4 DEF CallClose, ConnectingClose, d, e, f
<1>3. CASE c.state \in {"Authenticating", "Resubscribing"}
  <2>1. Safe(EnterClosing(c))
    BY <1>3, EnterClosingSafe DEF Safe, SessionStates
  <2>2. Safe(LatchClose(EnterClosing(c), rid))
    BY <2>1, LatchCloseFacts, SameCoreSafe DEF Safe
  <2> QED  BY <1>3, <2>2 DEF CallClose, AuthenticatingClose, ResubscribingClose
<1>4. CASE c.state = "Open"
  <2>1. Safe(DrainRequests(c)) /\ DrainRequests(c).socket
    BY <1>4, DrainFacts DEF Safe, SessionStates
  <2>2. Safe(EnterClosing(DrainRequests(c)))
    BY <2>1, EnterClosingSafe
  <2>3. Safe(LatchClose(EnterClosing(DrainRequests(c)), rid))
    BY <2>2, LatchCloseFacts, SameCoreSafe DEF Safe
  <2> QED  BY <1>4, <2>3 DEF CallClose, OpenClose
<1>5. CASE c.state = "Closing"
  BY <1>0, <1>5, LatchCloseFacts, SameCoreSafe DEF CallClose
<1>6. CASE c.state = "Closed"
  BY <1>6 DEF CallClose
<1> QED  BY <1>0, <1>1, <1>2, <1>3, <1>4, <1>5, <1>6 DEF States

\* CallForceReconnect in every state.
LEMMA CallForceReconnectSafe ==
    ASSUME NEW c, Safe(c), NEW rid \in Ids, NEW admit
    PROVE  Safe(CallForceReconnect(c, rid, admit))
<1>0. c \in Connection /\ c.state \in States /\ 0 \in 0..CountMax
  BY ConnectionAssumption DEF Safe, Connection
<1>1. CASE c.state \in {"Idle", "Failed"}
  <2> DEFINE d == [c EXCEPT !.attempt_count = 0, !.pending_connect = {rid}]
  <2>1. Drained(c)
    BY <1>1, SafeDrained DEF SessionStates
  <2>2. Drained(d)
    BY <1>0, <2>1 DEF Drained, Connection, Opt
  <2> HIDE DEF d
  <2>3. Safe(ConnectOrThrottle(d, admit))
    BY <2>2, ConnectOrThrottleSafe
  <2>4. Safe(Ask(ConnectOrThrottle(d, admit), rid))
    BY <2>3, AskFacts, SameCoreSafe DEF Safe
  <2>5. Safe(RestartConnect(c, rid, admit))
    BY <2>4 DEF RestartConnect, d
  <2> QED  BY <1>1, <2>5 DEF CallForceReconnect, SessionStates
<1>2. CASE c.state = "Connecting"
  <2> DEFINE d == [c EXCEPT !.attempt_count = 0]
             e == [d EXCEPT !.additional_connect = @ \union {rid}]
  <2>1. SameCore(d, c)
    BY <1>0 DEF SameCore, Connection
  <2> HIDE DEF d
  <2>2. SameCore(e, d)
    BY <2>1 DEF SameCore, Connection
  <2> HIDE DEF e
  <2>3. Safe(d) /\ Safe(e)
    BY <2>1, <2>2, SameCoreSafe
  <2>4. Safe(Ask(e, rid))
    BY <2>3, AskFacts, SameCoreSafe DEF Safe
  <2> QED  BY <1>2, <2>3, <2>4 DEF CallForceReconnect, ConnectingForceReconnect, d, e, SessionStates
<1>3. CASE c.state \in SessionStates
  <2> DEFINE d == IF c.state = "Open" THEN DrainRequests(c) ELSE c
             e == EnterClosing(d)
             f == [e EXCEPT !.pending_reconnect = {rid}]
  <2>1. Safe(d) /\ d.socket
    BY <1>0, <1>3, DrainFacts DEF Safe, SessionStates
  <2> HIDE DEF d
  <2>2. Safe(e)
    BY <2>1, EnterClosingSafe
  <2> HIDE DEF e
  <2>3. SameCore(f, e)
    BY <2>2 DEF Safe, SameCore, Connection, Opt
  <2> HIDE DEF f
  <2>4. Safe(Ask(f, rid))
    BY <2>2, <2>3, AskFacts, SameCoreSafe DEF SameCore
  <2>5. Safe(SessionForceReconnect(c, rid))
    BY <2>4 DEF SessionForceReconnect, d, e, f
  <2> QED  BY <1>3, <2>5 DEF CallForceReconnect, SessionStates
<1>4. CASE c.state = "BackingOff"
  <2> DEFINE j == JoinConnect(c, rid)
             d == Ask(j, rid)
             e == [d EXCEPT !.attempt_count = 0]
             f == Disarm(e, "backoff")
  <2>1. Drained(c)
    BY <1>4, SafeDrained DEF SessionStates
  <2>2. Drained(j)
    BY <1>0, <2>1, AskFacts, SameCoreSafe
  <2> HIDE DEF j
  <2>3. Drained(d)
    BY <2>2, AskFacts, SameCoreSafe DEF Drained
  <2> HIDE DEF d
  <2>4. Drained(e)
    BY <1>0, <2>3 DEF Drained, Connection
  <2> HIDE DEF e
  <2>5. Drained(f)
    BY <2>4, ArmFacts, SameCoreSafe DEF Drained, TimerNames
  <2> HIDE DEF f
  <2>6. Safe(EnterConnecting(f)) /\ Safe(Throttle(d))
    BY <2>3, <2>5, EnterConnectingSafe, ThrottleSafe
  <2>7. Safe(BackingOffForceReconnect(c, rid, admit))
    BY <2>6 DEF BackingOffForceReconnect, d, e, f, j
  <2> QED  BY <1>4, <2>7 DEF CallForceReconnect, SessionStates
<1>5. CASE c.state = "Closing"
  <2>1. Safe(JoinReconnect(c, rid))
    BY <1>0, AskFacts, SameCoreSafe
  <2>2. Safe(Ask(JoinReconnect(c, rid), rid))
    BY <2>1, AskFacts, SameCoreSafe DEF Safe
  <2> QED  BY <1>5, <2>2 DEF CallForceReconnect, ClosingForceReconnect, SessionStates
<1>6. CASE c.state = "Closed"
  BY <1>6 DEF CallForceReconnect, SessionStates
<1> QED  BY <1>0, <1>1, <1>2, <1>3, <1>4, <1>5, <1>6 DEF States, SessionStates

----------------------------------------------------------------------------
(* The upgrade and the auth handshake. *)

\* WireUpgradeOk in every state.
LEMMA WireUpgradeOkSafe ==
    ASSUME NEW c, Safe(c)
    PROVE  Safe(WireUpgradeOk(c))
<1> DEFINE d == [c EXCEPT !.state = IF Url = "Public" THEN "Resubscribing" ELSE "Authenticating"]
           e == Disarm(d, "upgrade")
<1>1. CASE c.state = "Connecting"
  <2>1. Safe(d)
    BY <1>1 DEF Safe, Connection, States, SessionStates
  <2> HIDE DEF d
  <2>2. Safe(e)
    BY <2>1, ArmFacts, SameCoreSafe DEF Safe, TimerNames
  <2> HIDE DEF e
  <2>3. Safe(Arm(e, "staleness"))
    BY <2>2, ArmFacts, SameCoreSafe DEF Safe, TimerNames
  <2> QED  BY <1>1, <2>3 DEF WireUpgradeOk, d, e
<1>2. CASE c.state # "Connecting"
  BY <1>2 DEF WireUpgradeOk
<1> QED  BY <1>1, <1>2

\* A failed or timed out upgrade in every state.
LEMMA WireUpgradeFailedSafe ==
    ASSUME NEW c, Safe(c), NEW transient \in BOOLEAN
    PROVE  Safe(WireUpgradeFailed(c, transient)) /\ Safe(TimerUpgradeTimeout(c))
<1> DEFINE d == [c EXCEPT !.socket = FALSE]
           e == Disarm(d, "upgrade")
<1>1. CASE c.state = "Connecting"
  <2>1. Drained(d)
    BY <1>1 DEF Safe, Drained, Connection, SessionStates
  <2> HIDE DEF d
  <2>2. Drained(e)
    BY <2>1, ArmFacts, SameCoreSafe DEF Drained, TimerNames
  <2> HIDE DEF e
  <2>3. Safe(BackOff(e, "attempt_failed")) /\ Safe(Fail(e))
    BY <2>2, BackOffSafe, FailSafe DEF LifecycleEvents
  <2> QED  BY <1>1, <2>3 DEF WireUpgradeFailed, TimerUpgradeTimeout, d, e
<1>2. CASE c.state # "Connecting"
  BY <1>2 DEF WireUpgradeFailed, TimerUpgradeTimeout
<1> QED  BY <1>1, <1>2

\* A session torn down may back off or fail.
LEMMA HandshakeTeardownSafe ==
    ASSUME NEW c, Safe(c), NEW ev \in LifecycleEvents
    PROVE  /\ Safe(BackOff(ExitHandshakeTeardown(c), ev))
           /\ Safe(Fail(ExitHandshakeTeardown(c)))
           /\ Safe(BackOff(ExitOpenTeardown(c), ev))
           /\ Safe(Fail(ExitOpenTeardown(c)))
  BY HandshakeTeardownDrained, OpenTeardownDrained, BackOffSafe, FailSafe DEF Safe

\* WireAuthHandshakeOk in every state.
LEMMA WireAuthHandshakeOkSafe ==
    ASSUME NEW c, Safe(c)
    PROVE  Safe(WireAuthHandshakeOk(c))
<1>1. c \in Connection /\ 0 \in 0..CountMax
  BY ConnectionAssumption DEF Safe
<1>2. CASE c.state = "Authenticating"
  BY <1>1, <1>2 DEF WireAuthHandshakeOk, Safe, Connection, States, SessionStates
<1> QED  BY <1>2 DEF WireAuthHandshakeOk

\* WireOrderAuthOk opens with the order still in flight.
LEMMA WireOrderAuthOkSafe ==
    ASSUME NEW c, Safe(c)
    PROVE  Safe(WireOrderAuthOk(c))
<1> DEFINE d == [c EXCEPT !.auth_handshake_fail_count = 0]
           e == ClearSubscribeAckState(d)
<1>1. CASE c.state = "Authenticating"
  <2>1. SameCore(d, c)
    BY ConnectionAssumption DEF Safe, SameCore, Connection
  <2> HIDE DEF d
  <2>2. SameCore(e, d)
    BY <2>1, ClearFacts DEF SameCore
  <2> HIDE DEF e
  <2>3. Safe(e) /\ e.state \in SessionStates
    BY <1>1, <2>1, <2>2, SameCoreSafe DEF SameCore, SessionStates
  <2> QED  BY <1>1, <2>3, EnterOpenSafe DEF WireOrderAuthOk, d, e
<1> QED  BY <1>1 DEF WireOrderAuthOk

\* WireAuthHandshakeFailed, each kind in every state.
LEMMA WireAuthHandshakeFailedSafe ==
    ASSUME NEW c, Safe(c), NEW kind \in AuthErrorKinds
    PROVE  Safe(WireAuthHandshakeFailed(c, kind))
<1>1. CASE c.state # "Authenticating"
  BY <1>1 DEF WireAuthHandshakeFailed
<1>2. Safe(HandshakeRefused(c)) /\ Safe(HandshakeTransient(c))
  BY HandshakeTeardownSafe DEF HandshakeRefused, HandshakeTransient, LifecycleEvents
<1>3. Safe(HandshakeTokenStale(c))
  <2> DEFINE n == SaturatingIncrement(c.auth_handshake_fail_count)
             m == SaturatingIncrement(c.attempt_count)
             d == [c EXCEPT !.auth_handshake_fail_count = n]
             e == [d EXCEPT !.awaiting_token_refresh = TRUE, !.attempt_count = m]
  <2>1. n \in 0..CountMax /\ m \in 0..CountMax
    BY IncrementType DEF Safe, Connection
  <2>2. d.attempt_count = c.attempt_count /\ c \in Connection
    BY DEF Safe, Connection
  <2> HIDE DEF n, m
  <2>3. SameCore(d, c)
    BY <2>1, <2>2 DEF SameCore, Connection
  <2> HIDE DEF d
  <2>4. SameCore(e, d)
    BY <2>1, <2>3 DEF SameCore, Connection
  <2> HIDE DEF e
  <2>5. Safe(d) /\ Safe(e)
    BY <2>3, <2>4, SameCoreSafe
  <2>6. Safe(Fail(ExitHandshakeTeardown(d)))
    BY <2>5, HandshakeTeardownSafe DEF LifecycleEvents
  <2>7. e = [d EXCEPT !.awaiting_token_refresh = TRUE, !.attempt_count = SaturatingIncrement(@)]
    BY <2>2 DEF e, m
  <2> QED  BY <2>5, <2>6, <2>7 DEF HandshakeTokenStale, d, n
<1> QED  BY <1>1, <1>2, <1>3 DEF WireAuthHandshakeFailed

\* Refresh outcomes and a stale order ack in every state.
LEMMA BusTokenRefreshSafe ==
    ASSUME NEW c, Safe(c), NEW retryable \in BOOLEAN
    PROVE  /\ Safe(BusTokenRefreshed(c))
           /\ Safe(BusTokenRefreshFailed(c, retryable))
           /\ Safe(WireOrderAckTokenStale(c))
<1>1. \A b \in BOOLEAN : SameCore([c EXCEPT !.awaiting_token_refresh = b], c)
  BY DEF Safe, SameCore, Connection
<1>2. \A b \in BOOLEAN : Safe([c EXCEPT !.awaiting_token_refresh = b])
  BY <1>1, SameCoreSafe
<1>3. Safe(AuthenticatingRefreshFailed(c, retryable))
  BY HandshakeTeardownSafe DEF AuthenticatingRefreshFailed, LifecycleEvents
<1> QED  BY <1>2, <1>3 DEF BusTokenRefreshed, BusTokenRefreshFailed, WireOrderAckTokenStale

----------------------------------------------------------------------------
(* Acknowledgements, the end of the socket, and timers. *)

\* WireSubscribeAck, last or not, in every state.
LEMMA WireSubscribeAckSafe ==
    ASSUME NEW c, Safe(c), NEW k \in Keys, NEW last
    PROVE  Safe(WireSubscribeAck(c, k, last))
<1>1. SameCore(DisarmSubscribeAck(c, k), c) /\ Safe(DisarmSubscribeAck(c, k))
  BY DisarmSubscribeAckFacts, SameCoreSafe DEF Safe
<1>2. c.state = "Resubscribing" => Safe(EnterOpen(DisarmSubscribeAck(c, k)))
  BY <1>1, EnterOpenSafe DEF SameCore, SessionStates
<1> QED  BY <1>1, <1>2 DEF WireSubscribeAck

\* A rejected or unanswered subscribe in every state.
LEMMA WireSubscribeFailedSafe ==
    ASSUME NEW c, Safe(c), NEW k \in Keys, NEW transient \in BOOLEAN
    PROVE  Safe(WireSubscribeFailed(c, k, transient)) /\ Safe(TimerSubscribeAckTimeout(c, k))
  BY HandleSubscribeFailureSafe DEF WireSubscribeFailed, TimerSubscribeAckTimeout

\* WireCloseReceived in every state, Closing included.
LEMMA WireCloseReceivedSafe ==
    ASSUME NEW c, Safe(c), NEW policy \in BOOLEAN, NEW admit
    PROVE  Safe(WireCloseReceived(c, policy, admit))
<1>1. /\ Safe(AuthenticatingClosed(c, policy))
      /\ Safe(ResubscribingClosed(c, policy))
      /\ Safe(OpenClosed(c, policy))
  BY HandshakeTeardownSafe
  DEF AuthenticatingClosed, ResubscribingClosed, OpenClosed, LifecycleEvents
<1>2. Safe(EnterClosedOrReconnect(c, admit))
  BY EnterClosedOrReconnectSafe DEF Safe
<1> QED  BY <1>1, <1>2 DEF WireCloseReceived

\* The staleness and the close timer in every state.
LEMMA TimersSafe ==
    ASSUME NEW c, Safe(c), NEW admit
    PROVE  Safe(TimerStalenessElapsed(c)) /\ Safe(TimerCloseTimeout(c, admit))
<1>1. Safe(EnterClosedOrReconnect(c, admit))
  BY EnterClosedOrReconnectSafe DEF Safe
<1>2. /\ Safe(BackOff(ExitHandshakeTeardown(c), "attempt_failed"))
      /\ Safe(BackOff(ExitOpenTeardown(c), "dropped"))
  BY HandshakeTeardownSafe DEF LifecycleEvents
<1> QED  BY <1>1, <1>2 DEF TimerStalenessElapsed, TimerCloseTimeout

\* A retry out of BackingOff, admitted or throttled.
LEMMA RetrySafe ==
    ASSUME NEW c, Safe(c), NEW t \in TimerNames, NEW admit
    PROVE  c.state = "BackingOff" => Safe(Retry(c, t, admit))
<1> SUFFICES ASSUME c.state = "BackingOff" PROVE Safe(Retry(c, t, admit))
  OBVIOUS
<1> DEFINE n == SaturatingIncrement(c.attempt_count)
           d == [c EXCEPT !.attempt_count = n]
<1>1. Drained(c)
  BY SafeDrained DEF SessionStates
<1>2. n \in 0..CountMax
  BY IncrementType DEF Safe, Connection
<1>3. d = [c EXCEPT !.attempt_count = SaturatingIncrement(@)]
  OBVIOUS
<1> HIDE DEF n
<1>4. Drained(d)
  BY <1>1, <1>2 DEF Drained, Connection
<1> HIDE DEF d
<1>5. Drained(Disarm(d, t))
  BY <1>4, ArmFacts, SameCoreSafe DEF Drained
<1>6. Safe(EnterConnecting(Disarm(d, t))) /\ Safe(Throttle(c))
  BY <1>1, <1>5, EnterConnectingSafe, ThrottleSafe
<1> QED  BY <1>3, <1>6 DEF Retry

\* The backoff and the rate timer in every state.
LEMMA RetryTimersSafe ==
    ASSUME NEW c, Safe(c), NEW admit
    PROVE  Safe(TimerBackoffElapsed(c, admit)) /\ Safe(TimerRateBudgetWindowAdvanced(c, admit))
  BY RetrySafe DEF TimerBackoffElapsed, TimerRateBudgetWindowAdvanced, TimerNames

----------------------------------------------------------------------------
(* Sending subscribe frames. *)

\* Every possible effect of a send leaves a Safe connection.
GoodEffects(E) ==
    \A e \in E : Safe(e.conn) /\ e.sent \in SUBSET Keys /\ e.spawn \in BOOLEAN

\* A send that only records.
LEMMA OneEffect ==
    ASSUME NEW c, Safe(c), NEW sent \in SUBSET Keys, NEW spawn \in BOOLEAN
    PROVE  GoodEffects({Effect(c, sent, spawn)})
  BY DEF GoodEffects, Effect

\* send_subscribe_frame, whatever its outcome.
LEMMA SendOneGood ==
    ASSUME NEW c, Safe(c), NEW k \in Keys
    PROVE  GoodEffects(SendOne(c, k))
<1>1. ASSUME NEW result \in SendResults(c), NEW admit \in BOOLEAN
      PROVE  Safe(SendSubscribe(c, k, result, admit))
  <2>1. Safe(ArmSubscribeAck(c, k))
    BY ArmSubscribeAckFacts, SameCoreSafe DEF Safe
  <2>2. Safe(HandleSubscribeFailure(c, k, TRUE)) /\ Safe(WireAbnormalClose(c, admit))
    BY HandleSubscribeFailureSafe, WireCloseReceivedSafe DEF WireAbnormalClose
  <2> QED  BY <2>1, <2>2 DEF SendSubscribe, SendResults
<1>2. ASSUME NEW e \in SendOne(c, k)
      PROVE  Safe(e.conn) /\ e.sent \in SUBSET Keys /\ e.spawn \in BOOLEAN
  <2>1. PICK admit \in BOOLEAN : e \in SendOutcomes(c, k, admit)
    BY <1>2 DEF SendOne
  <2>2. PICK result \in SendResults(c) :
            e = Effect(SendSubscribe(c, k, result, admit), IF result = "sent" THEN {k} ELSE {}, FALSE)
    BY <2>1 DEF SendOutcomes
  <2> QED  BY <1>1, <2>2 DEF Effect
<1> QED  BY <1>2 DEF GoodEffects

\* A loop of sends, wherever it stops.
LEMMA SendBatchSafe ==
    ASSUME NEW c, Safe(c), NEW b \in Batches
    PROVE  Safe(SendBatch(c, b))
<1>1. CASE b.end = "done"
  <2> DEFINE f == [k \in Keys |->
                    CASE k \in b.sent /\ c.ack_attempts[k] = Absent -> SubscribeAckAttempts
                      [] k \in b.full -> AttemptsLeft(c, k)
                      [] OTHER -> c.ack_attempts[k]]
             d == [c EXCEPT !.ack_timeouts = (@ \union b.sent) \ b.full,
                            !.resend_due = @ \union b.full,
                            !.ack_attempts = f]
  <2>1. c \in Connection /\ b.sent \in SUBSET Keys /\ b.full \in SUBSET Keys
    BY DEF Safe, Batches
  <2>2. f \in [Keys -> {Absent} \union (0..SubscribeAckAttempts)]
    <3>1. \A k \in Keys : AttemptsLeft(c, k) \in 0..SubscribeAckAttempts
      BY <2>1, AttemptsLeftType
    <3>2. \A k \in Keys : c.ack_attempts[k] \in {Absent} \union (0..SubscribeAckAttempts)
      BY <2>1 DEF Connection
    <3> QED  BY <3>1, <3>2, ConnectionAssumption
  <2> HIDE DEF f
  <2>3. SameCore(d, c)
    BY <2>1, <2>2 DEF SameCore, Connection
  <2>4. SendBatch(c, b) = d
    BY <1>1 DEF SendBatch, f
  <2> QED  BY <2>3, <2>4, SameCoreSafe
<1>2. CASE b.end = "exhausted"
  BY <1>2, BudgetExhaustedSafe DEF SendBatch, Safe
<1>3. CASE b.end = "dead"
  BY <1>3, WireCloseReceivedSafe DEF SendBatch, WireAbnormalClose
<1> QED  BY <1>1, <1>2, <1>3 DEF Batches

\* Every outcome of a loop of sends.
LEMMA SendManyGood ==
    ASSUME NEW c, Safe(c), NEW F
    PROVE  GoodEffects(SendMany(c, F))
<1> SUFFICES ASSUME NEW e \in SendMany(c, F)
             PROVE  Safe(e.conn) /\ e.sent \in SUBSET Keys /\ e.spawn \in BOOLEAN
  BY DEF GoodEffects
<1>1. PICK b \in Batches : e = Effect(SendBatch(c, b), b.sent, FALSE)
  BY DEF SendMany
<1>2. b.sent \in SUBSET Keys
  BY DEF Batches
<1> QED  BY <1>1, <1>2, SendBatchSafe DEF Effect

\* A token miss defers and kicks a refresh.
LEMMA DeferForTokenGood ==
    ASSUME NEW c, Safe(c), NEW F \in SUBSET Keys
    PROVE  GoodEffects(DeferForToken(c, F))
<1>1. Safe(Defer(c, F))
  BY SameCoreSafe DEF Safe, Defer, Connection
<1>2. Safe(AwaitRefresh(Defer(c, F)))
  BY <1>1 DEF Safe, AwaitRefresh, Connection
<1>3. (~c.awaiting_token_refresh) \in BOOLEAN
  OBVIOUS
<1> QED  BY <1>2, <1>3, OneEffect DEF DeferForToken

\* send_first_signed_subscribe, with and without a token.
LEMMA SendFirstSignedSubscribeGood ==
    ASSUME NEW c, Safe(c)
    PROVE  GoodEffects(SendFirstSignedSubscribe(c))
<1>1. Safe(AwaitRefresh(c))
  BY DEF Safe, AwaitRefresh, Connection
<1>2. GoodEffects({Effect(AwaitRefresh(c), {}, TRUE)}) /\ GoodEffects({Effect(c, {}, FALSE)})
  BY <1>1, OneEffect
<1>3. GoodEffects(UNION {SendOne(c, k) : k \in LiveKeys})
  BY SendOneGood DEF GoodEffects, LiveKeys
<1> QED  BY <1>2, <1>3 DEF SendFirstSignedSubscribe

\* The other two signed sends.
LEMMA SignedSendsGood ==
    ASSUME NEW c, Safe(c), NEW F \in SUBSET Keys, NEW k \in Keys
    PROVE  /\ GoodEffects(SendRemainingSignedSubscribes(c, F))
           /\ GoodEffects(SendSingleSignedSubscribe(c, k))
  BY SendManyGood, SendOneGood, DeferForTokenGood
  DEF SendRemainingSignedSubscribes, SendSingleSignedSubscribe

\* Both replays of the registry.
LEMMA ReplayGood ==
    ASSUME NEW c, Safe(c)
    PROVE  GoodEffects(ResubscribeReplay(c)) /\
           \A F \in SUBSET Keys : GoodEffects(ReplayAfterHandshake(c, F))
<1>1. GoodEffects(ResubscribeReplay(c))
  <2> SUFFICES ASSUME NEW e \in SendMany(c, LiveKeys)
               PROVE  GoodEffects({Effect(CompleteResubscribeIfEmpty(e.conn), e.sent, FALSE)})
    BY DEF ResubscribeReplay, GoodEffects
  <2>1. Safe(e.conn) /\ e.sent \in SUBSET Keys
    BY SendManyGood DEF GoodEffects
  <2> QED  BY <2>1, CompleteResubscribeSafe, OneEffect
<1>2. ASSUME NEW F \in SUBSET Keys PROVE GoodEffects(ReplayAfterHandshake(c, F))
  <2> SUFFICES ASSUME NEW e \in SendRemainingSignedSubscribes(c, F)
               PROVE  GoodEffects({Effect(CompleteResubscribeIfEmpty(e.conn), e.sent, e.spawn)})
    BY DEF ReplayAfterHandshake, GoodEffects
  <2>1. GoodEffects(SendRemainingSignedSubscribes(c, F))
    BY SendManyGood, DeferForTokenGood DEF SendRemainingSignedSubscribes
  <2>2. Safe(e.conn) /\ e.sent \in SUBSET Keys /\ e.spawn \in BOOLEAN
    BY <2>1 DEF GoodEffects
  <2> QED  BY <2>2, CompleteResubscribeSafe, OneEffect
<1> QED  BY <1>1, <1>2

----------------------------------------------------------------------------
(* The reactor.  TypeOK is split by who changes the variables. *)

NetOK ==
    /\ sockets \in {"none", "cur", "old"}
    /\ bridge \in BOOLEAN
    /\ late_failed \in BOOLEAN
    /\ wire \in SUBSET Keys
    /\ wire_reqs \in SUBSET ReqIds

RegOK == reg \in [Keys -> EntryStates]

TokenOK ==
    /\ token \in {"none", "valid", "expired"}
    /\ refreshing \in 0..MaxRefresh
    /\ proactive \in BOOLEAN
    /\ landed \in SUBSET Outcomes

IInv == Safe(mc) /\ NetOK /\ RegOK /\ TokenOK

\* The inductive invariant implies the three properties.
LEMMA IInvTypeOK == IInv => TypeOK /\ RequestsHaveSession /\ DrainBeforeEmit
  BY DEF IInv, TypeOK, NetOK, RegOK, TokenOK, Safe, RequestsHaveSession, DrainBeforeEmit

\* The end of a handler: the connection and the socket map.
LEMMA WiredSafe ==
    ASSUME IInv, NEW c, Safe(c), NEW sent \in SUBSET Keys, NEW done,
           NEW s \in {"none", "cur", "old"}, NEW b \in BOOLEAN, Wired(c, sent, done, s, b)
    PROVE  /\ Safe(mc')
           /\ late_failed' \in BOOLEAN => NetOK'
<1>1. SameCore([c EXCEPT !.opened = FALSE], c)
  BY DEF Safe, SameCore, Connection
<1>2. Safe(mc')
  BY <1>1, SameCoreSafe DEF Wired
<1> QED  BY <1>2 DEF Wired, IInv, NetOK

\* The end of a handler that may drop a bridge.
LEMMA LandSafe ==
    ASSUME IInv, NEW c, Safe(c), NEW sent \in SUBSET Keys,
           NEW s \in {"none", "cur", "old"}, NEW b \in BOOLEAN, Land(c, sent, s, b)
    PROVE  Safe(mc') /\ NetOK'
<1>1. Wired(c, sent, {}, s, b) /\ late_failed' \in BOOLEAN
  BY DEF Land, LateOutcomes, IInv, NetOK
<1> QED  BY <1>1, WiredSafe

\* project_socket_and_wire_bridge, before and after the event.
LEMMA ProjectSafe ==
    ASSUME IInv, NEW c, Safe(c), NEW sent \in SUBSET Keys,
           Project(c, sent) \/ ProjectLate(c, sent)
    PROVE  Safe(mc') /\ NetOK'
<1>1. (c.opened \/ bridge) \in BOOLEAN /\ (bridge /\ ~c.opened) \in BOOLEAN
  OBVIOUS
<1>2. CASE Project(c, sent)
  BY <1>1, <1>2, LandSafe DEF Project
<1>3. CASE ProjectLate(c, sent)
  BY <1>1, <1>3, LandSafe DEF ProjectLate
<1> QED  BY <1>2, <1>3

\* The map after a handler that leaves it alone.
LEMMA UnprojectedType ==
    ASSUME IInv, NEW c
    PROVE  Unprojected(c) \in {"none", "cur", "old"}
  BY DEF Unprojected, IInv, NetOK

\* Spawning a refresh keeps the token state typed.
LEMMA SpawnOK ==
    ASSUME IInv, NEW spawned \in BOOLEAN, Spawn(spawned)
    PROVE  TokenOK'
  BY ReactorAssumption DEF Spawn, RefreshSpawned, IInv, TokenOK

\* The count of refresh tasks stays within its bound.
LEMMA RefreshSpawnedType ==
    ASSUME IInv
    PROVE  RefreshSpawned \in 0..MaxRefresh
  BY ReactorAssumption DEF RefreshSpawned, IInv, TokenOK

\* note_acked and note_terminated keep the registry typed.
LEMMA RegUpdates ==
    ASSUME IInv, NEW k \in Keys
    PROVE  NoteAcked(k) \in [Keys -> EntryStates] /\ NoteTerminated(k) \in [Keys -> EntryStates]
  BY DEF NoteAcked, NoteTerminated, IInv, RegOK, EntryStates

\* Handlers that leave the registry or the tokens alone.
LEMMA Unchanged ==
    ASSUME IInv
    PROVE  /\ UNCHANGED reg => RegOK'
           /\ UNCHANGED tokenVars => TokenOK'
           /\ UNCHANGED netVars => NetOK'
  BY DEF IInv, RegOK, TokenOK, NetOK, tokenVars, netVars

\* The entries to replay are keys.
LEMMA LiveKeysType == LiveKeys \in SUBSET Keys
  BY DEF LiveKeys

----------------------------------------------------------------------------
(* One lemma per group of handlers. *)

\* CallerInbound connect, force_reconnect and close.
LEMMA PostsSafe ==
    ASSUME IInv, NEW rid \in CallIds, NEW admit \in BOOLEAN,
           PostStartConnect(rid, admit) \/ PostForceReconnect(rid, admit) \/ PostClose(rid)
    PROVE  IInv'
<1>1. rid \in Ids /\ Safe(mc)
  BY DEF Ids, IInv
<1>2. CASE PostStartConnect(rid, admit)
  <2>1. Safe(CallStartConnect(mc, rid, admit))
    BY <1>1, CallStartConnectSafe
  <2>2. Safe(Ask(CallStartConnect(mc, rid, admit), rid))
    BY <1>1, <2>1, AskFacts, SameCoreSafe DEF Safe
  <2> QED  BY <1>2, <2>2, ProjectSafe, Unchanged DEF PostStartConnect, IInv
<1>3. CASE PostForceReconnect(rid, admit)
  <2>1. Safe(CallForceReconnect(mc, rid, admit))
    BY <1>1, CallForceReconnectSafe
  <2> QED  BY <1>3, <2>1, ProjectSafe, Unchanged DEF PostForceReconnect, IInv
<1>4. CASE PostClose(rid)
  <2>1. Safe(CallClose(mc, rid))
    BY <1>1, CallCloseSafe
  <2> QED  BY <1>4, <2>1, ProjectSafe, Unchanged DEF PostClose, IInv
<1> QED  BY <1>2, <1>3, <1>4

\* register_one_and_emit.
LEMMA RegisterSafe ==
    ASSUME IInv, NEW k \in Keys, NEW admit \in BOOLEAN, Register(k, admit)
    PROVE  IInv'
<1> DEFINE started == Started(admit)
<1>1. Safe(started)
  <2>1. Safe(mc) /\ ReactorId \in Ids
    BY DEF IInv, Ids
  <2>2. Safe(CallStartConnect(mc, ReactorId, admit))
    BY <2>1, CallStartConnectSafe
  <2> QED  BY <2>1, <2>2 DEF Started
<1>2. PICK e \in RegisterEffects(started, k) :
        /\ Land(e.conn, e.sent, AfterRegister(e.conn, RegisterSocket(started)),
                IF mc.state = "Idle" THEN e.conn.socket ELSE bridge /\ e.conn.socket)
        /\ Spawn(e.spawn)
  BY Zenon DEF Register
<1>3. RegisterSocket(started) \in {"none", "cur", "old"}
  BY DEF RegisterSocket, IInv, NetOK
<1> HIDE DEF started
<1>4. GoodEffects(RegisterEffects(started, k))
  <2>1. GoodEffects({Effect(started, {}, FALSE)})
    BY <1>1, OneEffect
  <2>2. GoodEffects(SendSingleSignedSubscribe(started, k)) /\ GoodEffects(SendOne(started, k))
    BY <1>1, SendOneGood, DeferForTokenGood DEF SendSingleSignedSubscribe
  <2> QED  BY <2>1, <2>2 DEF RegisterEffects
<1>5. Safe(e.conn) /\ e.sent \in SUBSET Keys /\ e.spawn \in BOOLEAN
  BY <1>2, <1>4 DEF GoodEffects
<1>6. AfterRegister(e.conn, RegisterSocket(started)) \in {"none", "cur", "old"}
  BY <1>3 DEF AfterRegister
<1>7. (IF mc.state = "Idle" THEN e.conn.socket ELSE bridge /\ e.conn.socket) \in BOOLEAN
  BY <1>5 DEF Safe, Connection
<1>8. Safe(mc') /\ NetOK'
  BY <1>2, <1>5, <1>6, <1>7, LandSafe
<1>9. RegOK'
  BY DEF Register, IInv, RegOK, EntryStates
<1> QED  BY <1>2, <1>5, <1>8, <1>9, SpawnOK DEF IInv

\* deregister_one and deregister_all.
LEMMA ReleaseKeysSafe ==
    ASSUME IInv, NEW S \in SUBSET Keys, ReleaseKeys(S)
    PROVE  IInv'
<1> DEFINE f == [k \in Keys |-> IF k \in S THEN Absent ELSE mc.ack_attempts[k]]
           d == [mc EXCEPT !.ack_timeouts = @ \ S, !.resend_due = @ \ S,
                           !.ack_attempts = f, !.deferred = @ \ S]
<1>1. mc \in Connection /\ Safe(mc)
  BY DEF IInv, Safe
<1>2. f \in [Keys -> {Absent} \union (0..SubscribeAckAttempts)]
  BY <1>1 DEF Connection
<1>3. d = [mc EXCEPT !.ack_timeouts = @ \ S,
                     !.resend_due = @ \ S,
                     !.ack_attempts = [k \in Keys |-> IF k \in S THEN Absent ELSE @[k]],
                     !.deferred = @ \ S]
  OBVIOUS
<1> HIDE DEF f
<1>4. SameCore(d, mc)
  BY <1>1, <1>2 DEF SameCore, Connection
<1> HIDE DEF d
<1>5. Safe(CompleteResubscribeIfEmpty(d))
  BY <1>1, <1>4, SameCoreSafe, CompleteResubscribeSafe
<1>6. Land(CompleteResubscribeIfEmpty(d), {}, sockets, bridge) /\ UNCHANGED tokenVars
  BY <1>3 DEF ReleaseKeys
<1>7. sockets \in {"none", "cur", "old"} /\ bridge \in BOOLEAN
  BY DEF IInv, NetOK
<1>8. RegOK'
  BY DEF ReleaseKeys, IInv, RegOK, EntryStates
<1> QED  BY <1>5, <1>6, <1>7, <1>8, LandSafe, Unchanged DEF IInv

\* handle_ws_request_frame and AbandonWsRequest.
LEMMA RequestsSafe ==
    ASSUME IInv, NEW r \in ReqIds,
           WsRequestNoToken \/ WsRequestFrame(r) \/ AbandonWsRequest(r)
    PROVE  IInv'
<1>1. mc \in Connection /\ Safe(mc)
  BY DEF IInv, Safe
<1>2. CASE WsRequestNoToken
  <2>1. Safe(mc')
    BY <1>1, <1>2 DEF WsRequestNoToken, AwaitRefresh, Safe, Connection
  <2>2. TokenOK'
    BY <1>2, RefreshSpawnedType DEF WsRequestNoToken, IInv, TokenOK
  <2> QED  BY <1>2, <2>1, <2>2, Unchanged DEF WsRequestNoToken, IInv
<1>3. CASE WsRequestFrame(r)
  <2>1. mc.state \in SessionStates /\ mc.socket
    BY <1>1, <1>3 DEF WsRequestFrame, RequestAdmitted, Safe, SessionStates
  <2>2. Safe(mc')
    BY <1>1, <1>3, <2>1 DEF WsRequestFrame, Safe, Connection
  <2>3. NetOK'
    BY <1>3 DEF WsRequestFrame, IInv, NetOK
  <2> QED  BY <1>3, <2>2, <2>3, Unchanged DEF WsRequestFrame, IInv
<1>4. CASE AbandonWsRequest(r)
  <2>1. Safe(mc')
    BY <1>1, <1>4 DEF AbandonWsRequest, Safe, Connection
  <2> QED  BY <1>4, <2>1, Unchanged DEF AbandonWsRequest, IInv
<1> QED  BY <1>2, <1>3, <1>4

\* UpgradeOutcome::Ok with the replay or the probe it sends.
LEMMA UpgradeOkSafe ==
    ASSUME IInv, UpgradeOk
    PROVE  IInv'
<1> DEFINE c == WireUpgradeOk(mc)
<1>1. Safe(c) /\ UNCHANGED reg
  BY WireUpgradeOkSafe DEF IInv, UpgradeOk
<1>2. sockets \in {"none", "cur", "old"}
  BY DEF IInv, NetOK
<1>3. CASE UpgradeOkReplay
  <2>1. PICK e \in ResubscribeReplay(c) :
            IF e.conn.socket THEN Land(e.conn, e.sent, "cur", FALSE)
                             ELSE Land(e.conn, {}, "none", FALSE)
    BY <1>3 DEF UpgradeOkReplay
  <2> HIDE DEF c
  <2>2. Safe(e.conn) /\ e.sent \in SUBSET Keys
    BY <1>1, <2>1, ReplayGood DEF GoodEffects
  <2>3. Safe(mc') /\ NetOK'
    BY <2>1, <2>2, LandSafe
  <2> QED  BY <1>1, <1>3, <2>3, Unchanged DEF UpgradeOkReplay, IInv
<1>4. CASE UpgradeOkFirst
  <2>1. Land(c, {}, sockets, FALSE) /\ UNCHANGED tokenVars
    BY <1>4 DEF UpgradeOkFirst
  <2> HIDE DEF c
  <2> QED  BY <1>1, <1>2, <2>1, LandSafe, Unchanged DEF IInv
<1>5. CASE UpgradeOkAuth
  <2>1. PICK e \in SendFirstSignedSubscribe(c) :
            Land(e.conn, e.sent, Unprojected(e.conn), FALSE) /\ Spawn(e.spawn)
    BY <1>5 DEF UpgradeOkAuth
  <2> HIDE DEF c
  <2>2. Safe(e.conn) /\ e.sent \in SUBSET Keys /\ e.spawn \in BOOLEAN
    BY <1>1, <2>1, SendFirstSignedSubscribeGood DEF GoodEffects
  <2>3. Safe(mc') /\ NetOK'
    BY <2>1, <2>2, UnprojectedType, LandSafe
  <2> QED  BY <1>1, <2>1, <2>2, <2>3, SpawnOK, Unchanged DEF IInv
<1> QED  BY <1>3, <1>4, <1>5 DEF UpgradeOk

\* UpgradeOutcome::Failed, of the current socket or of an old one.
LEMMA UpgradeFailedSafe ==
    ASSUME IInv, NEW transient \in BOOLEAN,
           UpgradeFailed(transient) \/ LateUpgradeFailed(transient)
    PROVE  IInv'
<1> DEFINE c == WireUpgradeFailed(mc, transient)
           s == IF c.socket THEN sockets ELSE "none"
<1>1. Safe(c) /\ s \in {"none", "cur", "old"}
  BY WireUpgradeFailedSafe DEF IInv, NetOK
<1>2. CASE UpgradeFailed(transient)
  <2>1. Wired(c, {}, {}, s, FALSE) /\ UNCHANGED <<late_failed, reg, tokenVars>>
    BY <1>2 DEF UpgradeFailed
  <2> HIDE DEF c, s
  <2>2. late_failed' \in BOOLEAN
    BY <2>1 DEF IInv, NetOK
  <2> QED  BY <1>1, <2>1, <2>2, WiredSafe, Unchanged DEF IInv
<1>3. CASE LateUpgradeFailed(transient)
  <2> DEFINE b == bridge /\ c.socket
  <2>1. Wired(c, {}, {}, s, b) /\ late_failed' \in LateOutcomes(c, s, b) /\ UNCHANGED <<reg, tokenVars>>
    BY <1>3 DEF LateUpgradeFailed
  <2>2. b \in BOOLEAN
    OBVIOUS
  <2> HIDE DEF c, s, b
  <2>3. late_failed' \in BOOLEAN
    BY <2>1 DEF LateOutcomes
  <2> QED  BY <1>1, <2>1, <2>2, <2>3, WiredSafe, Unchanged DEF IInv
<1> QED  BY <1>2, <1>3

\* The refresh tasks and the expiry of the token.
LEMMA TokenStepsSafe ==
    ASSUME IInv,
           \/ \E o \in ReactiveOutcomes : RefreshLands(o)
           \/ \E o \in {"proactive_ok", "proactive_err"} : ProactiveLands(o)
           \/ TokenExpires
    PROVE  IInv'
<1>1. TokenOK'
  <2>1. ASSUME NEW o \in ReactiveOutcomes, RefreshLands(o) PROVE TokenOK'
    BY <2>1, ReactorAssumption DEF RefreshLands, IInv, TokenOK, Outcomes
  <2>2. ASSUME NEW o \in {"proactive_ok", "proactive_err"}, ProactiveLands(o) PROVE TokenOK'
    BY <2>2 DEF ProactiveLands, IInv, TokenOK, Outcomes
  <2>3. CASE TokenExpires
    BY <2>3 DEF TokenExpires, IInv, TokenOK
  <2> QED  BY <2>1, <2>2, <2>3
<1>2. UNCHANGED <<mc, netVars, reg>>
  BY DEF RefreshLands, ProactiveLands, TokenExpires
<1> QED  BY <1>1, <1>2, Unchanged DEF IInv

\* The reactor takes a refresh outcome.
LEMMA RefreshOutcomeSafe ==
    ASSUME IInv, NEW o \in Outcomes, RefreshOutcome(o)
    PROVE  IInv'
<1> DEFINE c == DeliverRefresh(o)
<1>1. Safe(c)
  <2>1. (o # "fatal") \in BOOLEAN /\ Safe(mc)
    BY DEF IInv
  <2> QED  BY <2>1, BusTokenRefreshSafe DEF DeliverRefresh
<1>2. PICK e \in RefreshEffects(o, c) :
          /\ ProjectLate(RearmTokenRefresh(o, e.conn), e.sent)
          /\ refreshing' = IF e.spawn THEN RefreshSpawned ELSE refreshing
  BY DEF RefreshOutcome
<1> HIDE DEF c
<1>3. GoodEffects(RefreshEffects(o, c))
  <2>1. GoodEffects({Effect(c, {}, FALSE)}) /\ GoodEffects(SendFirstSignedSubscribe(c))
    BY <1>1, OneEffect, SendFirstSignedSubscribeGood
  <2>2. GoodEffects(DrainDeferred(c))
    <3> DEFINE d == [c EXCEPT !.deferred = {}]
    <3>1. Safe(d)
      BY <1>1 DEF Safe, Connection
    <3>2. Reissue(c) \in SUBSET Keys
      BY <1>1 DEF Reissue, Safe, Connection
    <3> HIDE DEF d
    <3>3. GoodEffects(SendMany(d, Reissue(c))) /\ GoodEffects(DeferForToken(d, Reissue(c)))
      BY <3>1, <3>2, SendManyGood, DeferForTokenGood
    <3> QED  BY <3>3 DEF DrainDeferred, d
  <2> QED  BY <2>1, <2>2 DEF RefreshEffects
<1>4. Safe(e.conn) /\ e.sent \in SUBSET Keys
  BY <1>2, <1>3 DEF GoodEffects
<1>5. Safe(RearmTokenRefresh(o, e.conn))
  <2>1. Safe(Disarm(e.conn, "token_refresh")) /\ Safe(Arm(e.conn, "token_refresh"))
    BY <1>4, ArmFacts, SameCoreSafe DEF Safe, TimerNames
  <2> QED  BY <1>4, <2>1 DEF RearmTokenRefresh
<1>6. Safe(mc') /\ NetOK'
  BY <1>2, <1>4, <1>5, ProjectSafe
<1>7. TokenOK'
  BY <1>2, RefreshSpawnedType DEF RefreshOutcome, IInv, TokenOK
<1> QED  BY <1>6, <1>7, Unchanged DEF RefreshOutcome, IInv

\* handle_sub_ack of a success, in its three cases.
LEMMA SubAckSafe ==
    ASSUME IInv, NEW k \in Keys, SubAck(k)
    PROVE  IInv'
<1>1. Safe(mc) /\ mc \in Connection /\ bridge \in BOOLEAN
  BY DEF IInv, Safe, NetOK
<1>2. CASE AckInHandshake(k)
  <2> DEFINE x == WireAuthHandshakeOk(mc)
             y == DisarmSubscribeAck(x, k)
             c == RemoveDeferred(y, k)
  <2>1. PICK e \in ReplayAfterHandshake(c, LiveKeys \ {k}) :
            Land(e.conn, e.sent, Unprojected(e.conn), bridge) /\ Spawn(e.spawn)
    BY <1>2 DEF AckInHandshake
  <2>2. Safe(x)
    BY <1>1, WireAuthHandshakeOkSafe
  <2> HIDE DEF x
  <2>3. Safe(y)
    BY <2>2, DisarmSubscribeAckFacts, SameCoreSafe DEF Safe
  <2> HIDE DEF y
  <2>4. Safe(c)
    BY <2>3, DeferFacts, SameCoreSafe DEF Safe
  <2> HIDE DEF c
  <2>5. LiveKeys \ {k} \in SUBSET Keys
    BY LiveKeysType
  <2>6. Safe(e.conn) /\ e.sent \in SUBSET Keys /\ e.spawn \in BOOLEAN
    BY <2>1, <2>4, <2>5, ReplayGood DEF GoodEffects
  <2>7. Safe(mc') /\ NetOK'
    BY <1>1, <2>1, <2>6, UnprojectedType, LandSafe
  <2>8. RegOK'
    BY <1>2, RegUpdates DEF AckInHandshake, RegOK
  <2> QED  BY <2>1, <2>6, <2>7, <2>8, SpawnOK DEF IInv
<1>3. CASE AckUnarmed(k)
  <2>1. Safe(DisarmSubscribeAck(mc, k))
    BY <1>1, DisarmSubscribeAckFacts, SameCoreSafe
  <2>2. Safe(RemoveDeferred(DisarmSubscribeAck(mc, k), k))
    BY <2>1, DeferFacts, SameCoreSafe DEF Safe
  <2>3. Safe(mc')
    BY <1>3, <2>2, CompleteResubscribeSafe DEF AckUnarmed
  <2> QED  BY <1>3, <2>3, Unchanged DEF AckUnarmed, IInv
<1>4. CASE AckArmed(k)
  <2>1. Safe(RemoveDeferred(mc, k))
    BY <1>1, DeferFacts, SameCoreSafe
  <2>2. Safe(mc')
    BY <1>4, <2>1, WireSubscribeAckSafe DEF AckArmed
  <2>3. RegOK'
    BY <1>4, RegUpdates DEF AckArmed, RegOK
  <2> QED  BY <1>4, <2>2, <2>3, Unchanged DEF AckArmed, IInv
<1> QED  BY <1>2, <1>3, <1>4 DEF SubAck

\* handle_sub_ack of a reject.
LEMMA RejectsSafe ==
    ASSUME IInv, NEW k \in Keys, NEW kind \in AuthErrorKinds, NEW transient \in BOOLEAN,
           RejectInHandshake(k, kind) \/ Reject(k, transient)
    PROVE  IInv'
<1>1. Safe(mc) /\ bridge \in BOOLEAN
  BY DEF IInv, NetOK
<1>2. CASE RejectInHandshake(k, kind)
  <2> DEFINE x == WireAuthHandshakeFailed(mc, kind)
             c == DisarmSubscribeAck(x, k)
             spawned == c.state = "Authenticating" /\ c.awaiting_token_refresh
  <2>1. Land(c, {}, Unprojected(c), bridge) /\ Spawn(spawned) /\ UNCHANGED reg
    BY <1>2 DEF RejectInHandshake
  <2>2. Safe(x)
    BY <1>1, WireAuthHandshakeFailedSafe
  <2> HIDE DEF x
  <2>3. Safe(c)
    BY <2>2, DisarmSubscribeAckFacts, SameCoreSafe DEF Safe
  <2>4. spawned \in BOOLEAN
    OBVIOUS
  <2> HIDE DEF c, spawned
  <2>5. Safe(mc') /\ NetOK'
    BY <1>1, <2>1, <2>3, UnprojectedType, LandSafe
  <2> QED  BY <2>1, <2>4, <2>5, SpawnOK, Unchanged DEF IInv
<1>3. CASE Reject(k, transient)
  <2> DEFINE c == WireSubscribeFailed(mc, k, transient)
  <2>1. Land(c, {}, Unprojected(c), bridge) /\ UNCHANGED tokenVars
    BY <1>3 DEF Reject
  <2>2. Safe(c)
    BY <1>1, WireSubscribeFailedSafe
  <2> HIDE DEF c
  <2>3. Safe(mc') /\ NetOK'
    BY <1>1, <2>1, <2>2, UnprojectedType, LandSafe
  <2>4. RegOK'
    BY <1>3, RegUpdates DEF Reject, RegOK, IInv
  <2> QED  BY <2>1, <2>3, <2>4, Unchanged DEF IInv
<1> QED  BY <1>2, <1>3

\* Resolving one request keeps Safe.
LEMMA ResolvedSafe ==
    ASSUME NEW c, Safe(c), NEW r
    PROVE  Safe(Resolved(c, r))
  BY DEF Safe, Resolved, Connection

\* The end of the response handlers.
LEMMA LandResponseSafe ==
    ASSUME IInv, NEW c, Safe(c), NEW r, NEW sent \in SUBSET Keys, LandResponse(c, r, sent)
    PROVE  Safe(mc') /\ NetOK' /\ RegOK'
<1>1. Wired(c, sent, {r}, Unprojected(c), bridge) /\ UNCHANGED <<late_failed, reg>>
  BY DEF LandResponse
<1>2. bridge \in BOOLEAN /\ late_failed' \in BOOLEAN
  BY <1>1 DEF IInv, NetOK
<1> QED  BY <1>1, <1>2, UnprojectedType, WiredSafe, Unchanged

\* handle_request_response in its four cases.
LEMMA ResponsesSafe ==
    ASSUME IInv, NEW r \in ReqIds, NEW kind \in {"TokenStale", "BadCreds"},
           \/ ResponseAuthenticates(r)
           \/ ResponseStaleInOpen(r)
           \/ ResponseResolves(r)
           \/ ResponseRefused(r, kind)
    PROVE  IInv'
<1>1. Safe(mc)
  BY DEF IInv
<1>2. CASE ResponseAuthenticates(r)
  <2> DEFINE E == IF LiveKeys # {}
                  THEN ReplayAfterHandshake(WireAuthHandshakeOk(mc), LiveKeys)
                  ELSE {Effect(WireOrderAuthOk(mc), {}, FALSE)}
  <2>1. PICK e \in E : LandResponse(Resolved(e.conn, r), r, e.sent) /\ Spawn(e.spawn)
    BY <1>2 DEF ResponseAuthenticates
  <2>2. GoodEffects(ReplayAfterHandshake(WireAuthHandshakeOk(mc), LiveKeys))
    BY <1>1, WireAuthHandshakeOkSafe, LiveKeysType, ReplayGood
  <2>3. GoodEffects({Effect(WireOrderAuthOk(mc), {}, FALSE)})
    BY <1>1, WireOrderAuthOkSafe, OneEffect
  <2>4. GoodEffects(E)
    BY <2>2, <2>3
  <2> HIDE DEF E
  <2>5. Safe(e.conn) /\ e.sent \in SUBSET Keys /\ e.spawn \in BOOLEAN
    BY <2>1, <2>4 DEF GoodEffects
  <2>6. Safe(mc') /\ NetOK' /\ RegOK'
    BY <2>1, <2>5, ResolvedSafe, LandResponseSafe
  <2> QED  BY <2>1, <2>5, <2>6, SpawnOK DEF IInv
<1>3. CASE ResponseStaleInOpen(r)
  <2>1. Safe(Resolved(WireOrderAckTokenStale(mc), r))
    BY <1>1, BusTokenRefreshSafe, ResolvedSafe
  <2>2. Safe(mc') /\ NetOK' /\ RegOK'
    BY <1>3, <2>1, LandResponseSafe DEF ResponseStaleInOpen
  <2>3. TokenOK'
    BY <1>3, RefreshSpawnedType DEF ResponseStaleInOpen, IInv, TokenOK
  <2> QED  BY <2>2, <2>3 DEF IInv
<1>4. CASE ResponseResolves(r)
  <2>1. Safe(mc') /\ NetOK' /\ RegOK'
    BY <1>1, <1>4, ResolvedSafe, LandResponseSafe DEF ResponseResolves
  <2> QED  BY <1>4, <2>1, Unchanged DEF ResponseResolves, IInv
<1>5. CASE ResponseRefused(r, kind)
  <2>1. Safe(Resolved(WireAuthHandshakeFailed(mc, kind), r))
    BY <1>1, WireAuthHandshakeFailedSafe, ResolvedSafe DEF AuthErrorKinds
  <2>2. Safe(mc') /\ NetOK' /\ RegOK'
    BY <1>5, <2>1, LandResponseSafe DEF ResponseRefused
  <2> QED  BY <1>5, <2>2, Unchanged DEF ResponseRefused, IInv
<1> QED  BY <1>2, <1>3, <1>4, <1>5

\* drive_wire_close.
LEMMA WireClosedSafe ==
    ASSUME IInv, NEW policy \in BOOLEAN, NEW admit \in BOOLEAN, WireClosed(policy, admit)
    PROVE  IInv'
<1> DEFINE c == WireCloseReceived(mc, policy, admit)
<1>1. /\ IF c.opened THEN Land(c, {}, "cur", TRUE) ELSE Land(c, {}, "none", FALSE)
      /\ UNCHANGED <<reg, tokenVars>>
  BY DEF WireClosed
<1>2. Safe(c)
  BY WireCloseReceivedSafe DEF IInv
<1> HIDE DEF c
<1>3. Safe(mc') /\ NetOK'
  BY <1>1, <1>2, LandSafe
<1> QED  BY <1>1, <1>3, Unchanged DEF IInv

\* A popped timer is outside the core.
LEMMA PoppedSafe ==
    ASSUME IInv, NEW t \in TimerNames
    PROVE  Safe(Popped(t))
  BY ArmFacts, SameCoreSafe DEF IInv, Safe, Popped

\* The timers that drive the FSM or the proactive refresh.
LEMMA TimerStepsSafe ==
    ASSUME IInv, NEW admit \in BOOLEAN,
           \/ BackoffElapsed(admit)
           \/ RateBudgetWindowAdvanced(admit)
           \/ CloseTimeout(admit)
           \/ UpgradeTimeout
           \/ StalenessElapsed
           \/ TokenRefreshDue
    PROVE  IInv'
<1>1. \A t \in TimerNames : Safe(Popped(t))
  BY PoppedSafe
<1>2. /\ Safe(TimerBackoffElapsed(Popped("backoff"), admit))
      /\ Safe(TimerRateBudgetWindowAdvanced(Popped("rate_budget"), admit))
      /\ Safe(TimerCloseTimeout(Popped("close"), admit))
      /\ Safe(TimerStalenessElapsed(Popped("staleness")))
      /\ Safe(TimerUpgradeTimeout(Popped("upgrade")))
  BY <1>1, RetryTimersSafe, TimersSafe, WireUpgradeFailedSafe DEF TimerNames
<1>3. CASE BackoffElapsed(admit)
  BY <1>2, <1>3, ProjectSafe, Unchanged DEF BackoffElapsed, IInv
<1>4. CASE RateBudgetWindowAdvanced(admit)
  BY <1>2, <1>4, ProjectSafe, Unchanged DEF RateBudgetWindowAdvanced, IInv
<1>5. CASE CloseTimeout(admit)
  BY <1>2, <1>5, ProjectSafe, Unchanged DEF CloseTimeout, IInv
<1>6. CASE UpgradeTimeout
  BY <1>2, <1>6, ProjectSafe, Unchanged DEF UpgradeTimeout, IInv
<1>7. CASE StalenessElapsed
  BY <1>2, <1>7, ProjectSafe, Unchanged DEF StalenessElapsed, IInv
<1>8. CASE TokenRefreshDue
  <2>1. Safe(mc')
    BY <1>1, <1>8 DEF TokenRefreshDue, IInv, TimerNames
  <2>2. TokenOK'
    BY <1>8 DEF TokenRefreshDue, IInv, TokenOK
  <2> QED  BY <1>8, <2>1, <2>2, Unchanged DEF TokenRefreshDue, IInv
<1> QED  BY <1>3, <1>4, <1>5, <1>6, <1>7, <1>8

\* The per-entry ack timeout and resend timers.
LEMMA SubscribeTimersSafe ==
    ASSUME IInv, NEW k \in Keys, SubscribeAckTimeout(k) \/ SubscribeResendDue(k)
    PROVE  IInv'
<1> DEFINE x == [mc EXCEPT !.ack_timeouts = @ \ {k}]
           y == [mc EXCEPT !.resend_due = @ \ {k}]
<1>1. Safe(x) /\ Safe(y)
  <2>1. SameCore(x, mc) /\ SameCore(y, mc)
    BY DEF IInv, Safe, SameCore, Connection
  <2> QED  BY <2>1, SameCoreSafe DEF IInv
<1>2. CASE SubscribeAckTimeout(k)
  <2>1. Project(TimerSubscribeAckTimeout(x, k), {}) /\ UNCHANGED <<reg, tokenVars>>
    BY <1>2 DEF SubscribeAckTimeout
  <2> HIDE DEF x
  <2>2. Safe(TimerSubscribeAckTimeout(x, k))
    BY <1>1, WireSubscribeFailedSafe
  <2> QED  BY <2>1, <2>2, ProjectSafe, Unchanged DEF IInv
<1>3. CASE SubscribeResendDue(k)
  <2>1. PICK e \in ResendEffects(y, k) : ProjectLate(e.conn, e.sent) /\ Spawn(e.spawn)
    BY <1>3 DEF SubscribeResendDue
  <2> HIDE DEF y
  <2>2. GoodEffects({Effect(y, {}, FALSE)}) /\ GoodEffects(SendOne(y, k))
    BY <1>1, OneEffect, SendOneGood
  <2> DEFINE d == CompleteResubscribeIfEmpty(Defer(y, {k}))
  <2>3. GoodEffects({Effect(AwaitRefresh(d), {}, ~d.awaiting_token_refresh)})
    <3>1. Safe(Defer(y, {k}))
      BY <1>1, DeferFacts, SameCoreSafe DEF Safe
    <3>2. Safe(d)
      BY <3>1, CompleteResubscribeSafe
    <3> HIDE DEF d
    <3>3. Safe(AwaitRefresh(d)) /\ (~d.awaiting_token_refresh) \in BOOLEAN
      BY <3>2, DeferFacts, SameCoreSafe DEF Safe
    <3> QED  BY <3>3, OneEffect
  <2>4. GoodEffects(ResendEffects(y, k))
    BY <2>2, <2>3 DEF ResendEffects
  <2> HIDE DEF d
  <2>5. Safe(e.conn) /\ e.sent \in SUBSET Keys /\ e.spawn \in BOOLEAN
    BY <2>1, <2>4 DEF GoodEffects
  <2> QED  BY <1>3, <2>1, <2>5, ProjectSafe, SpawnOK, Unchanged DEF SubscribeResendDue, IInv
<1> QED  BY <1>2, <1>3

----------------------------------------------------------------------------
(* The theorems. *)

\* Every turn of the reactor keeps the inductive invariant.
LEMMA ReactorInductive == IInv /\ [Next]_vars => IInv'
<1> SUFFICES ASSUME IInv, [Next]_vars PROVE IInv'
  OBVIOUS
<1>1. CASE CallerNext
  <2>1. ASSUME NEW k \in Keys, DeregisterOne(k) PROVE IInv'
    BY <2>1, ReleaseKeysSafe DEF DeregisterOne
  <2>2. CASE DeregisterAll
    BY <2>2, ReleaseKeysSafe DEF DeregisterAll
  <2>3. CASE WsRequestNoToken
    BY <2>3, RequestsSafe DEF WsRequestNoToken
  <2>4. ASSUME NEW rid \in CallIds, PostClose(rid) PROVE IInv'
    BY <2>4, PostsSafe
  <2> QED  BY <1>1, <2>1, <2>2, <2>3, <2>4, PostsSafe, RegisterSafe, RequestsSafe DEF CallerNext
<1>2. CASE WireNext
  <2>1. ASSUME NEW k \in Keys, NEW kind \in AuthErrorKinds, RejectInHandshake(k, kind)
        PROVE  IInv'
    BY <2>1, RejectsSafe
  <2>2. ASSUME NEW k \in Keys, NEW transient \in BOOLEAN, Reject(k, transient) PROVE IInv'
    BY <2>2, RejectsSafe DEF AuthErrorKinds
  <2>3. ASSUME NEW r \in ReqIds,
               ResponseAuthenticates(r) \/ ResponseStaleInOpen(r) \/ ResponseResolves(r)
        PROVE  IInv'
    BY <2>3, ResponsesSafe
  <2>4. ASSUME NEW r \in ReqIds, NEW kind \in {"TokenStale", "BadCreds"}, ResponseRefused(r, kind)
        PROVE  IInv'
    BY <2>4, ResponsesSafe
  <2> QED  BY <1>2, <2>1, <2>2, <2>3, <2>4, UpgradeOkSafe, UpgradeFailedSafe, SubAckSafe,
              WireClosedSafe DEF WireNext
<1>3. CASE TimerNext
  <2>1. CASE UpgradeTimeout \/ StalenessElapsed \/ TokenRefreshDue
    BY <2>1, TimerStepsSafe
  <2> QED  BY <1>3, <2>1, TimerStepsSafe, SubscribeTimersSafe DEF TimerNext
<1>4. CASE TokenNext
  BY <1>4, TokenStepsSafe, RefreshOutcomeSafe DEF TokenNext
<1>5. CASE UNCHANGED vars
  BY <1>5, Unchanged DEF vars, IInv, netVars, tokenVars
<1> QED  BY <1>1, <1>2, <1>3, <1>4, <1>5 DEF Next

\* A new reactor satisfies it.
LEMMA ReactorInit == Init => IInv
<1> SUFFICES ASSUME Init PROVE IInv
  OBVIOUS
<1>1. NewConnection \in Connection
  BY ConnectionAssumption
  DEF NewConnection, Connection, States, LifecycleEvents, Opt, NoAttempts
<1>2. Safe(NewConnection)
  BY <1>1 DEF Safe, NewConnection, SessionStates
<1>3. NetOK
  BY Zenon DEF Init, NetOK
<1>4. RegOK
  BY DEF Init, RegOK, EntryStates
<1>5. TokenOK
  <2>1. 0 \in 0..MaxRefresh
    BY ReactorAssumption
  <2>2. {} \in SUBSET Outcomes /\ FALSE \in BOOLEAN
    OBVIOUS
  <2> QED  BY <2>1, <2>2, Zenon DEF Init, TokenOK
<1> QED  BY <1>2, <1>3, <1>4, <1>5 DEF Init, IInv

\* Every handler of the reactor keeps the types of the connection and of its own maps.
THEOREM TypeCorrect == Spec => []TypeOK
  BY ReactorInit, ReactorInductive, IInvTypeOK, PTL DEF Spec

\* No teardown, close, timeout or failed send leaves an order future behind on a
\* connection that can no longer answer it.
THEOREM RequestsAlwaysHaveSession == Spec => []RequestsHaveSession
  BY ReactorInit, ReactorInductive, IInvTypeOK, PTL DEF Spec

\* Every lifecycle event that announces an end is published after the drain of the
\* requests in flight, on every path of the machine.
THEOREM AlwaysDrainBeforeEmit == Spec => []DrainBeforeEmit
  BY ReactorInit, ReactorInductive, IInvTypeOK, PTL DEF Spec

----------------------------------------------------------------------------
(***************************************************************************)
(* Timers, lifecycle events and the socket map: a second inductive         *)
(* invariant, on top of the first and proved the same way.  Every state    *)
(* that waits has its timer, the last event tells the state, a session     *)
(* runs on the socket the reactor reads, and a connection that is closing  *)
(* has somebody to answer: without the last, the exit of Closing would     *)
(* publish nothing and Open would stay announced for a closed connection.  *)
(***************************************************************************)

\* Who is told of the end of a close: the close cohort or a latched reconnect.
Awaited(c) == CloseWaiters(c) \union c.pending_reconnect

\* The handler found a started connection, and the reactor reads its socket.
OnCurrent == sockets = "cur" /\ mc.state # "Idle"

Held(c) ==
    /\ c \in Connection
    /\ c.state = "Connecting" => "upgrade" \in c.timers
    /\ c.state \in SessionStates => "staleness" \in c.timers
    /\ c.state = "Closing" => "close" \in c.timers
    /\ c.state = "BackingOff" => c.timers \intersect {"backoff", "rate_budget"} # {}
    /\ c.state = "Open" => c.seen = "open"
    /\ c.seen = "open" => c.state \in {"Open", "Closing"}
    /\ c.state = "Failed" <=> c.seen = "failed"
    /\ c.seen = "dropped" => c.state = "BackingOff"
    /\ c.state = "Closing" => Awaited(c) # {}
    /\ c.state \in SessionStates => ~c.opened /\ OnCurrent

\* d differs from c in what Held does not look at, or has more timers or waiters.
SameView(d, c) ==
    /\ d \in Connection
    /\ d.state = c.state
    /\ d.seen = c.seen
    /\ d.opened = c.opened
    /\ c.timers \subseteq d.timers
    /\ Awaited(c) \subseteq Awaited(d)

\* Held looks at the view only.
LEMMA SameViewHeld ==
    ASSUME NEW c, NEW d, Held(c), SameView(d, c)
    PROVE  Held(d)
  BY DEF Held, SameView

\* Views compose.
LEMMA SameViewTrans ==
    ASSUME NEW c, NEW d, NEW e, SameView(d, c), SameView(e, d)
    PROVE  SameView(e, c)
  BY DEF SameView

\* Arming a timer, and the bookkeeping of one subscription.
LEMMA ArmView ==
    ASSUME NEW c \in Connection, NEW t \in TimerNames
    PROVE  SameView(Arm(c, t), c) /\ t \in Arm(c, t).timers
  BY DEF SameView, Arm, Connection, Awaited, CloseWaiters

\* Clearing a timer: the other timers stay.
LEMMA DisarmView ==
    ASSUME NEW c \in Connection, NEW t \in TimerNames
    PROVE  /\ Disarm(c, t) \in Connection
           /\ Disarm(c, t).state = c.state
           /\ Disarm(c, t).seen = c.seen
           /\ Disarm(c, t).opened = c.opened
           /\ Disarm(c, t).timers = c.timers \ {t}
           /\ Disarm(c, t).pending_reconnect = c.pending_reconnect
           /\ CloseWaiters(Disarm(c, t)) = CloseWaiters(c)
  BY DEF Disarm, Connection, CloseWaiters

\* A timer no state of c waits for may be cleared.
LEMMA DisarmHeld ==
    ASSUME NEW c, Held(c), NEW t \in TimerNames,
           t = "upgrade" => c.state # "Connecting",
           t = "staleness" => c.state \notin SessionStates,
           t = "close" => c.state # "Closing",
           t \in {"backoff", "rate_budget"} => c.state # "BackingOff"
    PROVE  Held(Disarm(c, t))
<1>1. c \in Connection
  BY DEF Held
<1> DEFINE d == Disarm(c, t)
<1>2. /\ d \in Connection
      /\ d.state = c.state
      /\ d.seen = c.seen
      /\ d.opened = c.opened
      /\ d.timers = c.timers \ {t}
      /\ Awaited(d) = Awaited(c)
  BY <1>1, DisarmView DEF Awaited
<1> HIDE DEF d
<1>3. /\ d.state = "Connecting" => "upgrade" \in d.timers
      /\ d.state \in SessionStates => "staleness" \in d.timers
      /\ d.state = "Closing" => "close" \in d.timers
      /\ d.state = "BackingOff" => d.timers \intersect {"backoff", "rate_budget"} # {}
  BY <1>2 DEF Held
<1> QED  BY <1>2, <1>3 DEF Held, d

\* emit_lifecycle changes what was last told and no other part of the view.
LEMMA PublishView ==
    ASSUME NEW c \in Connection, NEW ev \in LifecycleEvents
    PROVE  /\ Publish(c, ev) \in Connection
           /\ Publish(c, ev).state = c.state
           /\ Publish(c, ev).seen = ev
           /\ Publish(c, ev).opened = c.opened
           /\ Publish(c, ev).timers = c.timers
           /\ Publish(c, ev).pending_reconnect = c.pending_reconnect
           /\ CloseWaiters(Publish(c, ev)) = CloseWaiters(c)
<1>1. Publish(c, ev) \in Connection
  BY PublishFacts
<1> QED  BY <1>1 DEF Publish, Connection, CloseWaiters

\* Draining is outside the view, and so is clearing the subscribe-ack state.
LEMMA DrainView ==
    ASSUME NEW c \in Connection
    PROVE  SameView(DrainRequests(c), c) /\ SameView(ClearSubscribeAckState(c), c)
<1>1. DrainRequests(c) \in Connection /\ ClearSubscribeAckState(c) \in Connection
  BY DrainFacts, ClearFacts DEF SameCore
<1>2. SameView(DrainRequests(c), c)
  BY <1>1 DEF SameView, DrainRequests, Connection, Awaited, CloseWaiters
<1>3. SameView(ClearSubscribeAckState(c), c)
  BY <1>1 DEF SameView, ClearSubscribeAckState, Connection, Awaited, CloseWaiters
<1> QED  BY <1>2, <1>3

\* The bookkeeping of one subscription is outside the view.
LEMMA SubscribeView ==
    ASSUME NEW c \in Connection, NEW k \in Keys, NEW S \in SUBSET Keys
    PROVE  /\ SameView(ArmSubscribeAck(c, k), c)
           /\ SameView(DisarmSubscribeAck(c, k), c)
           /\ SameView(Defer(c, S), c)
           /\ SameView(RemoveDeferred(c, k), c)
           /\ SameView(AwaitRefresh(c), c)
<1>1. /\ ArmSubscribeAck(c, k) \in Connection
      /\ DisarmSubscribeAck(c, k) \in Connection
      /\ Defer(c, S) \in Connection
      /\ RemoveDeferred(c, k) \in Connection
      /\ AwaitRefresh(c) \in Connection
  BY ArmSubscribeAckFacts, DisarmSubscribeAckFacts, DeferFacts DEF SameCore
<1>2. SameView(ArmSubscribeAck(c, k), c)
  BY <1>1 DEF SameView, ArmSubscribeAck, Connection, Awaited, CloseWaiters
<1>3. SameView(DisarmSubscribeAck(c, k), c)
  BY <1>1 DEF SameView, DisarmSubscribeAck, Connection, Awaited, CloseWaiters
<1>4. SameView(Defer(c, S), c)
  BY <1>1 DEF SameView, Defer, Connection, Awaited, CloseWaiters
<1>5. SameView(RemoveDeferred(c, k), c)
  BY <1>1 DEF SameView, RemoveDeferred, Connection, Awaited, CloseWaiters
<1>6. SameView(AwaitRefresh(c), c)
  BY <1>1 DEF SameView, AwaitRefresh, Connection, Awaited, CloseWaiters
<1> QED  BY <1>2, <1>3, <1>4, <1>5, <1>6

\* Latching a connect waiter, or one more waiter of a close, loses no waiter.
LEMMA AskView ==
    ASSUME NEW c \in Connection, NEW rid \in Ids
    PROVE  /\ SameView(Ask(c, rid), c)
           /\ SameView(JoinConnect(c, rid), c)
           /\ SameView(JoinReconnect(c, rid), c)
           /\ SameView(ClosingClose(c, rid), c)
<1>1. /\ Ask(c, rid) \in Connection
      /\ JoinConnect(c, rid) \in Connection
      /\ JoinReconnect(c, rid) \in Connection
      /\ ClosingClose(c, rid) \in Connection
  BY AskFacts, LatchCloseFacts DEF SameCore
<1>2. SameView(Ask(c, rid), c)
  BY <1>1 DEF SameView, Ask, Connection, Awaited, CloseWaiters
<1>3. SameView(JoinConnect(c, rid), c)
  BY <1>1 DEF SameView, JoinConnect, Connection, Awaited, CloseWaiters
<1>4. SameView(JoinReconnect(c, rid), c)
  BY <1>1 DEF SameView, JoinReconnect, Connection, Awaited, CloseWaiters
<1>5. SameView(ClosingClose(c, rid), c)
  BY <1>1 DEF SameView, ClosingClose, LatchClose, Connection, Awaited, CloseWaiters
<1> QED  BY <1>2, <1>3, <1>4, <1>5

\* A latched close() is answered by the exit of Closing.
LEMMA LatchCloseView ==
    ASSUME NEW c \in Connection, NEW rid \in Ids
    PROVE  /\ LatchClose(c, rid) \in Connection
           /\ LatchClose(c, rid).state = c.state
           /\ LatchClose(c, rid).seen = c.seen
           /\ LatchClose(c, rid).opened = c.opened
           /\ LatchClose(c, rid).timers = c.timers
           /\ Awaited(LatchClose(c, rid)) # {}
<1>1. LatchClose(c, rid) \in Connection
  BY LatchCloseFacts DEF SameCore
<1> QED  BY <1>1 DEF LatchClose, Connection, Awaited, CloseWaiters

\* emit_connection_failed tells the failure.
LEMMA FailHeld ==
    ASSUME NEW c, Drained(c)
    PROVE  Held(Fail(c))
<1> DEFINE d == [c EXCEPT !.state = "Failed"]
           p == Publish(d, "failed")
           e == [p EXCEPT !.pending_connect = {}, !.additional_connect = {},
                          !.asked_connect = @ \ (d.pending_connect \union d.additional_connect)]
<1>1. d \in Connection /\ d.state = "Failed"
  BY DEF Drained, Connection, States
<1>2. Fail(c) = e /\ Fail(c) \in Connection
  BY FailSafe DEF Fail, EmitConnectionFailed, Safe
<1> HIDE DEF d
<1>3. p \in Connection /\ p.state = "Failed" /\ p.seen = "failed"
  BY <1>1, PublishView DEF LifecycleEvents
<1> HIDE DEF p
<1>4. e.state = "Failed" /\ e.seen = "failed"
  BY <1>3 DEF Connection
<1> HIDE DEF e
<1> QED  BY <1>2, <1>4 DEF Held, SessionStates

\* BackingOff is told as the end of an attempt or a session, or as a throttled one.
LEMMA BackingOffHeld ==
    ASSUME NEW c \in Connection, NEW t \in {"backoff", "rate_budget"},
           NEW ev \in {"attempt_failed", "dropped", "throttled"}
    PROVE  Held(Publish(Arm([c EXCEPT !.state = "BackingOff"], t), ev))
<1> DEFINE d == [c EXCEPT !.state = "BackingOff"]
           e == Arm(d, t)
           p == Publish(e, ev)
<1>1. d \in Connection /\ d.state = "BackingOff"
  BY DEF Connection, States
<1> HIDE DEF d
<1>2. e \in Connection /\ e.state = "BackingOff" /\ t \in e.timers
  BY <1>1, ArmView DEF SameView, TimerNames
<1> HIDE DEF e
<1>3. p \in Connection /\ p.state = "BackingOff" /\ t \in p.timers /\ p.seen = ev
  BY <1>2, PublishView DEF LifecycleEvents
<1> HIDE DEF p
<1>4. p.timers \intersect {"backoff", "rate_budget"} # {}
  BY <1>3
<1>5. Held(p)
  BY <1>3, <1>4 DEF Held, SessionStates
<1> QED  BY <1>5 DEF p, e, d

\* The transient end of an attempt or a session, escalated at the cap.
LEMMA BackOffHeld ==
    ASSUME NEW c, Drained(c), NEW ev \in {"attempt_failed", "dropped"}
    PROVE  Held(BackOff(c, ev))
<1>1. CASE CapExhausted(c)
  <2> DEFINE d == [c EXCEPT !.socket = FALSE, !.timers = @ \ {"staleness", "upgrade"}]
  <2>1. Drained(d)
    BY DEF Drained, Connection
  <2> HIDE DEF d
  <2> QED  BY <1>1, <2>1, FailHeld DEF BackOff, Escalate, d
<1>2. CASE ~CapExhausted(c)
  BY <1>2, BackingOffHeld DEF BackOff, Drained
<1> QED  BY <1>1, <1>2

\* Neither end is a session.
LEMMA EndStates ==
    ASSUME NEW c, Drained(c), NEW ev \in LifecycleEvents
    PROVE  BackOff(c, ev).state \notin SessionStates /\ Fail(c).state \notin SessionStates
<1>1. Fail(c).state = "Failed"
  BY DEF Fail, EmitConnectionFailed, Publish, Drained, Connection
<1>2. CapExhausted(c) => BackOff(c, ev).state = "Failed"
  BY DEF BackOff, Escalate, Fail, EmitConnectionFailed, Publish, Drained, Connection
<1>3. ~CapExhausted(c) => BackOff(c, ev).state = "BackingOff"
  BY DEF BackOff, Publish, Arm, Drained, Connection
<1> QED  BY <1>1, <1>2, <1>3 DEF SessionStates

\* A session torn down backs off or fails.
LEMMA TeardownHeld ==
    ASSUME NEW c, Safe(c), NEW ev \in {"attempt_failed", "dropped"}
    PROVE  /\ Held(BackOff(ExitHandshakeTeardown(c), ev))
           /\ Held(Fail(ExitHandshakeTeardown(c)))
           /\ Held(BackOff(ExitOpenTeardown(c), ev))
           /\ Held(Fail(ExitOpenTeardown(c)))
  BY HandshakeTeardownDrained, OpenTeardownDrained, BackOffHeld, FailHeld DEF Safe

\* enter_connecting arms the upgrade timer and says so.
LEMMA EnterConnectingHeld ==
    ASSUME NEW c \in Connection
    PROVE  Held(EnterConnecting(c))
<1> DEFINE d == [c EXCEPT !.state = "Connecting", !.socket = TRUE, !.opened = TRUE]
           e == Arm(d, "upgrade")
           p == Publish(e, "connecting")
<1>1. d \in Connection /\ d.state = "Connecting"
  BY DEF Connection, States
<1> HIDE DEF d
<1>2. e \in Connection /\ e.state = "Connecting" /\ "upgrade" \in e.timers
  BY <1>1, ArmView DEF SameView, TimerNames
<1> HIDE DEF e
<1>3. p \in Connection /\ p.state = "Connecting" /\ "upgrade" \in p.timers /\ p.seen = "connecting"
  BY <1>2, PublishView DEF LifecycleEvents
<1> HIDE DEF p
<1>4. Held(p)
  BY <1>3 DEF Held, SessionStates
<1> QED  BY <1>4 DEF EnterConnecting, p, e, d

\* Both outcomes of a consultation of the rate budget.
LEMMA ConnectOrThrottleHeld ==
    ASSUME NEW c \in Connection, NEW admit
    PROVE  Held(ConnectOrThrottle(c, admit)) /\ Held(Throttle(c))
<1>1. Held(Throttle(c))
  BY BackingOffHeld DEF Throttle
<1> QED  BY <1>1, EnterConnectingHeld DEF ConnectOrThrottle

\* enter_open arms the staleness timer and announces Open.
LEMMA EnterOpenHeld ==
    ASSUME NEW c, Safe(c), Held(c), c.state \in SessionStates
    PROVE  Held(EnterOpen(c))
<1> DEFINE W == c.pending_connect \union c.additional_connect
           b == [c EXCEPT !.attempt_count = 0, !.has_been_open = TRUE, !.state = "Open"]
           d == [b EXCEPT !.pending_connect = {}, !.additional_connect = {}, !.asked_connect = @ \ W]
           e == Arm(d, "staleness")
           p == Publish(e, "open")
<1>0. c \in Connection /\ 0 \in 0..CountMax /\ ~c.opened /\ OnCurrent
  BY ConnectionAssumption DEF Held
<1>1. b \in Connection /\ b.state = "Open" /\ ~b.opened
  BY <1>0 DEF Connection, States
<1>2. EnterOpen(c) = p
  BY <1>0 DEF EnterOpen, Connection
<1> HIDE DEF b, W
<1>3. d \in Connection /\ d.state = "Open" /\ ~d.opened
  BY <1>1 DEF Connection, Opt
<1> HIDE DEF d
<1>4. e \in Connection /\ e.state = "Open" /\ ~e.opened /\ "staleness" \in e.timers
  BY <1>3, ArmView DEF SameView, TimerNames
<1> HIDE DEF e
<1>5. p \in Connection /\ p.state = "Open" /\ ~p.opened /\ "staleness" \in p.timers /\ p.seen = "open"
  BY <1>4, PublishView DEF LifecycleEvents
<1> HIDE DEF p
<1>6. Held(p)
  BY <1>0, <1>5 DEF Held, SessionStates
<1> QED  BY <1>2, <1>6

\* enter_open leaves Open.
LEMMA EnterOpenState ==
    ASSUME NEW c, Safe(c)
    PROVE  EnterOpen(c).state = "Open"
  BY DEF EnterOpen, Publish, Arm, Safe, Connection

\* complete_resubscribe_if_empty, taken or not.
LEMMA CompleteResubscribeHeld ==
    ASSUME NEW c, Safe(c), Held(c)
    PROVE  Held(CompleteResubscribeIfEmpty(c))
  BY EnterOpenHeld DEF CompleteResubscribeIfEmpty, SessionStates

\* Both exits of Closing tell somebody: the cohort, or the reconnect's own events.
LEMMA EnterClosedOrReconnectHeld ==
    ASSUME NEW c, Safe(c), Awaited(c) # {}, NEW admit
    PROVE  Held(EnterClosedOrReconnect(c, admit))
<1> DEFINE x == Disarm(c, "close")
           y == AnswerCloseCohort(x)
           d == [y EXCEPT !.pending_reconnect = {}]
<1>1. /\ c \in Connection
      /\ x \in Connection /\ ~x.undrained
      /\ CloseWaiters(x) = CloseWaiters(c)
  <2>1. c \in Connection /\ ~c.undrained
    BY DEF Safe
  <2> QED  BY <2>1, ArmFacts, DisarmView DEF SameCore, TimerNames
<1> HIDE DEF x
<1>2. y \in Connection
  BY <1>1, AnswerCloseCohortDrained DEF Drained
<1>3. CASE c.pending_reconnect = {}
  <2> DEFINE f == DrainRequests(x)
             g == Publish(f, "closed")
             z == [d EXCEPT !.state = "Closed", !.socket = FALSE]
  <2>1. CloseWaiters(x) # {}
    BY <1>1, <1>3 DEF Awaited
  <2>2. y = ForgetCloseWaiters(g)
    BY <2>1 DEF AnswerCloseCohort
  <2>3. f \in Connection
    BY <1>1, DrainFacts
  <2> HIDE DEF f
  <2>4. g \in Connection /\ g.seen = "closed"
    BY <2>3, PublishView DEF LifecycleEvents
  <2> HIDE DEF g
  <2>5. y.seen = "closed"
    BY <2>2, <2>4 DEF ForgetCloseWaiters, Connection
  <2> HIDE DEF y
  <2>6. d \in Connection /\ d.seen = "closed"
    BY <1>2, <2>5 DEF Connection, Opt
  <2>7. EnterClosedOrReconnect(c, admit) = z
    BY <1>3 DEF EnterClosedOrReconnect, x, y
  <2> HIDE DEF d
  <2>8. z \in Connection /\ z.seen = "closed" /\ z.state = "Closed"
    BY <2>6 DEF Connection, States
  <2> HIDE DEF z
  <2>9. Held(z)
    BY <2>8 DEF Held, SessionStates
  <2> QED  BY <2>7, <2>9
<1>4. CASE c.pending_reconnect # {}
  <2> DEFINE w == [d EXCEPT !.attempt_count = 0]
             rid == CHOOSE r \in c.pending_reconnect : TRUE
             v == [w EXCEPT !.socket = FALSE, !.pending_connect = {rid}]
  <2>1. EnterClosedOrReconnect(c, admit) = ConnectOrThrottle(v, admit)
    BY <1>4 DEF EnterClosedOrReconnect, ReenterConnecting, x
  <2>2. rid \in Ids /\ 0 \in 0..CountMax
    BY <1>1, <1>4, ConnectionAssumption DEF Connection, Opt
  <2> HIDE DEF y, rid
  <2>3. d \in Connection
    BY <1>2 DEF Connection, Opt
  <2> HIDE DEF d
  <2>4. w \in Connection
    BY <2>2, <2>3 DEF Connection
  <2> HIDE DEF w
  <2>5. v \in Connection
    BY <2>2, <2>4 DEF Connection, Opt
  <2> HIDE DEF v
  <2> QED  BY <2>1, <2>5, ConnectOrThrottleHeld
<1> QED  BY <1>3, <1>4

\* A terminal subscribe failure keeps the session.
LEMMA SubscribeTerminatedHeld ==
    ASSUME NEW c, Safe(c), Held(c), NEW k \in Keys
    PROVE  Held(SubscribeTerminated(c, k))
<1>1. c \in Connection
  BY DEF Held
<1>2. Held(DisarmSubscribeAck(c, k)) /\ Safe(DisarmSubscribeAck(c, k))
  BY <1>1, SubscribeView, SameViewHeld, DisarmSubscribeAckFacts, SameCoreSafe
<1> QED  BY <1>2, CompleteResubscribeHeld DEF SubscribeTerminated

\* An exhausted subscribe budget backs off, whatever the state it is met in.
LEMMA BudgetExhaustedHeld ==
    ASSUME NEW c, Safe(c)
    PROVE  Held(SubscribeBudgetExhausted(c))
<1>1. Drained(ExitHandshakeTeardown(c))
  BY HandshakeTeardownDrained DEF Safe
<1>2. Held(BackOff(ExitHandshakeTeardown(c), "dropped"))
  BY <1>1, BackOffHeld
<1>3. Held(Publish(Arm([ExitHandshakeTeardown(c) EXCEPT !.state = "BackingOff"], "backoff"),
                   "attempt_failed"))
  BY <1>1, BackingOffHeld DEF Drained
<1> QED  BY <1>2, <1>3 DEF SubscribeBudgetExhausted

\* The three outcomes of handle_subscribe_failure.
LEMMA HandleSubscribeFailureHeld ==
    ASSUME NEW c, Safe(c), Held(c), NEW k \in Keys, NEW transient \in BOOLEAN
    PROVE  Held(HandleSubscribeFailure(c, k, transient))
<1> DEFINE left == AttemptsLeft(c, k)
           R == IF left > 0 THEN c.resend_due \union {k} ELSE c.resend_due \ {k}
           f == [c.ack_attempts EXCEPT ![k] = left]
           d == [c EXCEPT !.ack_timeouts = @ \ {k}, !.resend_due = R, !.ack_attempts = f]
<1>1. c \in Connection /\ left \in 0..SubscribeAckAttempts
  BY AttemptsLeftType DEF Safe
<1> HIDE DEF left
<1>2. R \in SUBSET Keys /\ f \in [Keys -> {Absent} \union (0..SubscribeAckAttempts)]
  BY <1>1 DEF Connection
<1>3. [c EXCEPT !.ack_timeouts = @ \ {k},
                !.resend_due = IF left > 0 THEN @ \union {k} ELSE @ \ {k},
                !.ack_attempts[k] = left] = d
  OBVIOUS
<1> HIDE DEF R, f
<1>4. SameCore(d, c) /\ SameView(d, c)
  BY <1>1, <1>2 DEF SameCore, SameView, Connection, Awaited, CloseWaiters
<1> HIDE DEF d
<1>5. Safe(d) /\ Held(d)
  BY <1>4, SameCoreSafe, SameViewHeld
<1>6. Held(SubscribeBudgetExhausted(d)) /\ Held(SubscribeTerminated(c, k))
  BY <1>5, BudgetExhaustedHeld, SubscribeTerminatedHeld
<1> QED  BY <1>3, <1>5, <1>6 DEF HandleSubscribeFailure, left

\* CallStartConnect in every state.
LEMMA CallStartConnectHeld ==
    ASSUME NEW c, Held(c), NEW rid \in Ids, NEW admit
    PROVE  Held(CallStartConnect(c, rid, admit))
<1>1. CASE c.state = "Idle"
  <2> DEFINE n == IF admit THEN SaturatingIncrement(c.attempt_count) ELSE c.attempt_count
             d == [c EXCEPT !.pending_connect = {rid}, !.attempt_count = n]
  <2>1. c \in Connection /\ n \in 0..CountMax
    BY IncrementType DEF Held, Connection
  <2> HIDE DEF n
  <2>2. d \in Connection
    BY <2>1 DEF Connection, Opt
  <2> HIDE DEF d
  <2>3. Held(ConnectOrThrottle(d, admit))
    BY <2>2, ConnectOrThrottleHeld
  <2> QED  BY <1>1, <2>3 DEF CallStartConnect, d, n
<1>2. CASE c.state # "Idle"
  BY <1>2 DEF CallStartConnect
<1> QED  BY <1>1, <1>2

\* What every way into Closing leaves: the close timer, once somebody is latched.
LEMMA EnterClosingView ==
    ASSUME NEW c, Held(c), c.state \in SessionStates
    PROVE  /\ EnterClosing(c) \in Connection
           /\ EnterClosing(c).state = "Closing"
           /\ EnterClosing(c).seen = c.seen
           /\ "close" \in EnterClosing(c).timers
<1> DEFINE x == ClearSubscribeAckState(c)
           d == [x EXCEPT !.state = "Closing"]
           e == Disarm(d, "staleness")
<1>1. x \in Connection /\ x.seen = c.seen
  BY DrainView DEF Held, SameView
<1> HIDE DEF x
<1>2. d \in Connection /\ d.state = "Closing" /\ d.seen = c.seen
  BY <1>1 DEF Connection, States
<1> HIDE DEF d
<1>3. e \in Connection /\ e.state = "Closing" /\ e.seen = c.seen
  BY <1>2, DisarmView DEF TimerNames
<1> HIDE DEF e
<1>4. EnterClosing(c) = Arm(e, "close")
  BY DEF EnterClosing, e, d, x
<1> QED  BY <1>3, <1>4, ArmView DEF SameView, TimerNames

\* Closing with its timer and somebody to answer.
LEMMA ClosingHeld ==
    ASSUME NEW c \in Connection, c.state = "Closing", "close" \in c.timers, Awaited(c) # {},
           c.seen \notin {"failed", "dropped"}
    PROVE  Held(c)
  BY DEF Held, SessionStates

\* CallClose in every state.
LEMMA CallCloseHeld ==
    ASSUME NEW c, Safe(c), Held(c), NEW rid \in Ids
    PROVE  Held(CallClose(c, rid))
<1>0. c \in Connection /\ c.state \in States
  BY DEF Held, Connection
<1>1. CASE c.state \in {"Idle", "BackingOff", "Failed"}
  <2> DEFINE d == [c EXCEPT !.state = "Closed"]
             p == Publish(d, "closed")
  <2>1. d \in Connection /\ d.state = "Closed"
    BY <1>0 DEF Connection, States
  <2> HIDE DEF d
  <2>2. p \in Connection /\ p.state = "Closed" /\ p.seen = "closed"
    BY <2>1, PublishView DEF LifecycleEvents
  <2> HIDE DEF p
  <2>3. Held(p)
    BY <2>2 DEF Held, SessionStates
  <2> QED  BY <1>1, <2>3 DEF CallClose, CloseAtOnce, d, p
<1>2. CASE c.state = "Connecting"
  <2> DEFINE d == [c EXCEPT !.state = "Closing"]
             e == Disarm(d, "upgrade")
             f == Arm(e, "close")
             g == LatchClose(f, rid)
  <2>1. d \in Connection /\ d.state = "Closing" /\ d.seen = c.seen
    BY <1>0 DEF Connection, States
  <2> HIDE DEF d
  <2>2. e \in Connection /\ e.state = "Closing" /\ e.seen = c.seen
    BY <2>1, DisarmView DEF TimerNames
  <2> HIDE DEF e
  <2>3. f \in Connection /\ f.state = "Closing" /\ f.seen = c.seen /\ "close" \in f.timers
    BY <2>2, ArmView DEF SameView, TimerNames
  <2> HIDE DEF f
  <2>4. /\ g \in Connection /\ g.state = "Closing" /\ g.seen = c.seen
        /\ "close" \in g.timers /\ Awaited(g) # {}
    BY <2>3, LatchCloseView
  <2>5. c.seen \notin {"failed", "dropped"}
    BY <1>2 DEF Held
  <2>6. CallClose(c, rid) = g
    BY <1>2 DEF CallClose, ConnectingClose, d, e, f
  <2> HIDE DEF g
  <2> QED  BY <2>4, <2>5, <2>6, ClosingHeld
<1>3. CASE c.state \in SessionStates
  <2> DEFINE d == IF c.state = "Open" THEN DrainRequests(c) ELSE c
             e == EnterClosing(d)
             g == LatchClose(e, rid)
  <2>1. Held(d) /\ d.state = c.state /\ d.seen = c.seen
    BY <1>0, DrainView, SameViewHeld DEF SameView
  <2>2. CallClose(c, rid) = g
    BY <1>3 DEF CallClose, AuthenticatingClose, ResubscribingClose, OpenClose, SessionStates
  <2> HIDE DEF d
  <2>3. e \in Connection /\ e.state = "Closing" /\ e.seen = c.seen /\ "close" \in e.timers
    BY <1>3, <2>1, EnterClosingView
  <2> HIDE DEF e
  <2>4. /\ g \in Connection /\ g.state = "Closing" /\ g.seen = c.seen
        /\ "close" \in g.timers /\ Awaited(g) # {}
    BY <2>3, LatchCloseView
  <2>5. c.seen \notin {"failed", "dropped"}
    BY <1>3 DEF Held, SessionStates
  <2> HIDE DEF g
  <2> QED  BY <2>2, <2>4, <2>5, ClosingHeld
<1>4. CASE c.state = "Closing"
  BY <1>0, <1>4, AskView, SameViewHeld DEF CallClose
<1>5. CASE c.state = "Closed"
  BY <1>5 DEF CallClose
<1> QED  BY <1>0, <1>1, <1>2, <1>3, <1>4, <1>5 DEF States, SessionStates

\* CallForceReconnect in every state.
LEMMA CallForceReconnectHeld ==
    ASSUME NEW c, Safe(c), Held(c), NEW rid \in Ids, NEW admit
    PROVE  Held(CallForceReconnect(c, rid, admit))
<1>0. c \in Connection /\ c.state \in States /\ 0 \in 0..CountMax
  BY ConnectionAssumption DEF Held, Connection
<1>1. CASE c.state \in {"Idle", "Failed"}
  <2> DEFINE d == [c EXCEPT !.attempt_count = 0, !.pending_connect = {rid}]
             e == ConnectOrThrottle(d, admit)
  <2>1. d \in Connection
    BY <1>0 DEF Connection, Opt
  <2> HIDE DEF d
  <2>2. Held(e)
    BY <2>1, ConnectOrThrottleHeld
  <2> HIDE DEF e
  <2>3. Held(Ask(e, rid))
    BY <2>2, AskView, SameViewHeld DEF Held
  <2>4. CallForceReconnect(c, rid, admit) = Ask(e, rid)
    BY <1>1 DEF CallForceReconnect, RestartConnect, SessionStates, d, e
  <2> QED  BY <2>3, <2>4
<1>2. CASE c.state = "Connecting"
  <2> DEFINE d == [c EXCEPT !.attempt_count = 0]
             e == [d EXCEPT !.additional_connect = @ \union {rid}]
  <2>1. SameView(d, c)
    BY <1>0 DEF SameView, Connection, Awaited, CloseWaiters
  <2> HIDE DEF d
  <2>2. SameView(e, d)
    BY <2>1 DEF SameView, Connection, Awaited, CloseWaiters
  <2> HIDE DEF e
  <2>3. Held(d) /\ Held(e)
    BY <2>1, <2>2, SameViewHeld
  <2>4. Held(Ask(e, rid))
    BY <2>3, AskView, SameViewHeld DEF Held
  <2> QED  BY <1>2, <2>3, <2>4 DEF CallForceReconnect, ConnectingForceReconnect, d, e, SessionStates
<1>3. CASE c.state \in SessionStates
  <2> DEFINE d == IF c.state = "Open" THEN DrainRequests(c) ELSE c
             e == EnterClosing(d)
             f == [e EXCEPT !.pending_reconnect = {rid}]
  <2>1. Held(d) /\ d.state = c.state /\ d.seen = c.seen
    BY <1>0, DrainView, SameViewHeld DEF SameView
  <2>2. SessionForceReconnect(c, rid) = Ask(f, rid)
    BY DEF SessionForceReconnect
  <2> HIDE DEF d
  <2>3. e \in Connection /\ e.state = "Closing" /\ e.seen = c.seen /\ "close" \in e.timers
    BY <1>3, <2>1, EnterClosingView
  <2> HIDE DEF e
  <2>4. f \in Connection /\ rid \in f.pending_reconnect
    BY <2>3 DEF Connection, Opt
  <2>5. f.state = "Closing" /\ f.seen = c.seen /\ "close" \in f.timers
    BY <2>3 DEF Connection
  <2> HIDE DEF f
  <2>6. c.seen \notin {"failed", "dropped"} /\ Awaited(f) # {}
    BY <1>3, <2>4 DEF Held, SessionStates, Awaited
  <2>7. Held(f)
    BY <2>4, <2>5, <2>6, ClosingHeld
  <2>8. Held(Ask(f, rid))
    BY <2>4, <2>7, AskView, SameViewHeld
  <2> QED  BY <1>3, <2>2, <2>8 DEF CallForceReconnect, SessionStates
<1>4. CASE c.state = "BackingOff"
  <2> DEFINE j == JoinConnect(c, rid)
             d == Ask(j, rid)
             e == [d EXCEPT !.attempt_count = 0]
             f == Disarm(e, "backoff")
  <2>1. j \in Connection
    BY <1>0, AskView DEF SameView
  <2> HIDE DEF j
  <2>2. d \in Connection
    BY <2>1, AskView DEF SameView
  <2> HIDE DEF d
  <2>3. e \in Connection
    BY <1>0, <2>2 DEF Connection
  <2> HIDE DEF e
  <2>4. f \in Connection
    BY <2>3, DisarmView DEF TimerNames
  <2> HIDE DEF f
  <2>5. Held(EnterConnecting(f)) /\ Held(Throttle(d))
    BY <2>2, <2>4, EnterConnectingHeld, ConnectOrThrottleHeld
  <2>6. Held(BackingOffForceReconnect(c, rid, admit))
    BY <2>5 DEF BackingOffForceReconnect, d, e, f, j
  <2> QED  BY <1>4, <2>6 DEF CallForceReconnect, SessionStates
<1>5. CASE c.state = "Closing"
  <2>1. Held(JoinReconnect(c, rid))
    BY <1>0, AskView, SameViewHeld
  <2>2. Held(Ask(JoinReconnect(c, rid), rid))
    BY <2>1, AskView, SameViewHeld DEF Held
  <2> QED  BY <1>5, <2>2 DEF CallForceReconnect, ClosingForceReconnect, SessionStates
<1>6. CASE c.state = "Closed"
  BY <1>6 DEF CallForceReconnect, SessionStates
<1> QED  BY <1>0, <1>1, <1>2, <1>3, <1>4, <1>5, <1>6 DEF States, SessionStates

\* WireUpgradeOk starts a session on a socket the reactor reads.
LEMMA WireUpgradeOkHeld ==
    ASSUME NEW c, Held(c), ~c.opened, OnCurrent
    PROVE  Held(WireUpgradeOk(c))
<1> DEFINE st == IF Url = "Public" THEN "Resubscribing" ELSE "Authenticating"
           d == [c EXCEPT !.state = st]
           e == Disarm(d, "upgrade")
           f == Arm(e, "staleness")
<1>1. CASE c.state = "Connecting"
  <2>1. d \in Connection /\ d.state = st /\ d.seen = c.seen /\ ~d.opened
    BY DEF Held, Connection, States
  <2>2. WireUpgradeOk(c) = f
    BY <1>1 DEF WireUpgradeOk
  <2> HIDE DEF d
  <2>3. e \in Connection /\ e.state = st /\ e.seen = c.seen /\ ~e.opened
    BY <2>1, DisarmView DEF TimerNames
  <2> HIDE DEF e
  <2>4. f \in Connection /\ f.state = st /\ f.seen = c.seen /\ ~f.opened /\ "staleness" \in f.timers
    BY <2>3, ArmView DEF SameView, TimerNames
  <2>5. st \in {"Resubscribing", "Authenticating"}
    OBVIOUS
  <2> HIDE DEF f, st
  <2>6. c.seen \notin {"open", "failed", "dropped"}
    BY <1>1 DEF Held
  <2>7. Held(f)
    BY <2>4, <2>5, <2>6 DEF Held, SessionStates
  <2> QED  BY <2>2, <2>7
<1>2. CASE c.state # "Connecting"
  BY <1>2 DEF WireUpgradeOk
<1> QED  BY <1>1, <1>2

\* A failed upgrade in every state.
LEMMA WireUpgradeFailedHeld ==
    ASSUME NEW c, Safe(c), c.state # "Connecting" => Held(c), NEW transient \in BOOLEAN
    PROVE  Held(WireUpgradeFailed(c, transient)) /\ Held(TimerUpgradeTimeout(c))
<1> DEFINE d == [c EXCEPT !.socket = FALSE]
           e == Disarm(d, "upgrade")
<1>1. CASE c.state = "Connecting"
  <2>1. Drained(d)
    BY <1>1 DEF Safe, Drained, Connection, SessionStates
  <2> HIDE DEF d
  <2>2. Drained(e)
    BY <2>1, ArmFacts, SameCoreSafe DEF Drained, TimerNames
  <2> HIDE DEF e
  <2>3. Held(BackOff(e, "attempt_failed")) /\ Held(Fail(e))
    BY <2>2, BackOffHeld, FailHeld
  <2> QED  BY <1>1, <2>3 DEF WireUpgradeFailed, TimerUpgradeTimeout, d, e
<1>2. CASE c.state # "Connecting"
  BY <1>2 DEF WireUpgradeFailed, TimerUpgradeTimeout
<1> QED  BY <1>1, <1>2

\* WireAuthHandshakeOk in every state.
LEMMA WireAuthHandshakeOkHeld ==
    ASSUME NEW c, Safe(c), Held(c)
    PROVE  Held(WireAuthHandshakeOk(c))
<1>1. CASE c.state = "Authenticating"
  <2> DEFINE d == [c EXCEPT !.awaiting_token_refresh = FALSE,
                            !.auth_handshake_fail_count = 0,
                            !.state = "Resubscribing"]
  <2>1. d = WireAuthHandshakeOk(c) /\ d \in Connection
    BY <1>1, WireAuthHandshakeOkSafe DEF WireAuthHandshakeOk, Safe
  <2>2. d.state = "Resubscribing" /\ d.seen = c.seen /\ d.opened = c.opened /\ d.timers = c.timers
    BY DEF Held, Connection
  <2> HIDE DEF d
  <2>3. Held(d)
    BY <1>1, <2>1, <2>2 DEF Held, SessionStates
  <2> QED  BY <2>1, <2>3
<1> QED  BY <1>1 DEF WireAuthHandshakeOk

\* WireOrderAuthOk opens the connection.
LEMMA WireOrderAuthOkHeld ==
    ASSUME NEW c, Safe(c), Held(c)
    PROVE  Held(WireOrderAuthOk(c))
<1> DEFINE d == [c EXCEPT !.auth_handshake_fail_count = 0]
           e == ClearSubscribeAckState(d)
<1>1. CASE c.state = "Authenticating"
  <2>1. SameCore(d, c)
    BY ConnectionAssumption DEF Safe, SameCore, Connection
  <2>2. SameView(d, c)
    BY <2>1 DEF SameCore, SameView, Held, Connection, Awaited, CloseWaiters
  <2> HIDE DEF d
  <2>3. SameCore(e, d) /\ SameView(e, d)
    BY <2>1, ClearFacts, DrainView DEF SameCore
  <2> HIDE DEF e
  <2>4. Safe(e) /\ Held(e) /\ e.state \in SessionStates
    BY <1>1, <2>1, <2>2, <2>3, SameCoreSafe, SameViewHeld DEF SameCore, SessionStates
  <2> QED  BY <1>1, <2>4, EnterOpenHeld DEF WireOrderAuthOk, d, e
<1> QED  BY <1>1 DEF WireOrderAuthOk

\* WireAuthHandshakeFailed, each kind in every state.
LEMMA WireAuthHandshakeFailedHeld ==
    ASSUME NEW c, Safe(c), Held(c), NEW kind \in AuthErrorKinds
    PROVE  Held(WireAuthHandshakeFailed(c, kind))
<1>1. CASE c.state # "Authenticating"
  BY <1>1 DEF WireAuthHandshakeFailed
<1>2. Held(HandshakeRefused(c)) /\ Held(HandshakeTransient(c))
  BY TeardownHeld DEF HandshakeRefused, HandshakeTransient
<1>3. Held(HandshakeTokenStale(c))
  <2> DEFINE n == SaturatingIncrement(c.auth_handshake_fail_count)
             m == SaturatingIncrement(c.attempt_count)
             d == [c EXCEPT !.auth_handshake_fail_count = n]
             e == [d EXCEPT !.awaiting_token_refresh = TRUE, !.attempt_count = m]
  <2>1. n \in 0..CountMax /\ m \in 0..CountMax
    BY IncrementType DEF Safe, Connection
  <2>2. d.attempt_count = c.attempt_count /\ c \in Connection
    BY DEF Safe, Connection
  <2> HIDE DEF n, m
  <2>3. SameCore(d, c) /\ SameView(d, c)
    BY <2>1, <2>2 DEF SameCore, SameView, Connection, Awaited, CloseWaiters
  <2> HIDE DEF d
  <2>4. SameView(e, d)
    BY <2>1, <2>3 DEF SameCore, SameView, Connection, Awaited, CloseWaiters
  <2> HIDE DEF e
  <2>5. Safe(d) /\ Held(d) /\ Held(e)
    BY <2>3, <2>4, SameCoreSafe, SameViewHeld
  <2>6. Held(Fail(ExitHandshakeTeardown(d)))
    BY <2>5, TeardownHeld
  <2>7. e = [d EXCEPT !.awaiting_token_refresh = TRUE, !.attempt_count = SaturatingIncrement(@)]
    BY <2>2 DEF e, m
  <2> QED  BY <2>5, <2>6, <2>7 DEF HandshakeTokenStale, d, n
<1> QED  BY <1>1, <1>2, <1>3 DEF WireAuthHandshakeFailed

\* Refresh outcomes and a stale order ack in every state.
LEMMA BusTokenRefreshHeld ==
    ASSUME NEW c, Safe(c), Held(c), NEW retryable \in BOOLEAN
    PROVE  /\ Held(BusTokenRefreshed(c))
           /\ Held(BusTokenRefreshFailed(c, retryable))
           /\ Held(WireOrderAckTokenStale(c))
<1>1. \A b \in BOOLEAN : SameView([c EXCEPT !.awaiting_token_refresh = b], c)
  BY DEF Safe, SameView, Connection, Awaited, CloseWaiters
<1>2. \A b \in BOOLEAN : Held([c EXCEPT !.awaiting_token_refresh = b])
  BY <1>1, SameViewHeld
<1>3. Held(AuthenticatingRefreshFailed(c, retryable))
  BY TeardownHeld DEF AuthenticatingRefreshFailed
<1> QED  BY <1>2, <1>3 DEF BusTokenRefreshed, BusTokenRefreshFailed, WireOrderAckTokenStale

\* WireSubscribeAck, last or not, in every state.
LEMMA WireSubscribeAckHeld ==
    ASSUME NEW c, Safe(c), Held(c), NEW k \in Keys, NEW last
    PROVE  Held(WireSubscribeAck(c, k, last))
<1> DEFINE d == DisarmSubscribeAck(c, k)
<1>1. SameCore(d, c) /\ SameView(d, c)
  BY DisarmSubscribeAckFacts, SubscribeView DEF Safe
<1> HIDE DEF d
<1>2. Safe(d) /\ Held(d) /\ d.state = c.state
  BY <1>1, SameCoreSafe, SameViewHeld DEF SameCore
<1>3. c.state = "Resubscribing" => Held(EnterOpen(d))
  BY <1>2, EnterOpenHeld DEF SessionStates
<1> QED  BY <1>2, <1>3 DEF WireSubscribeAck, d

\* WireCloseReceived in every state, Closing included: no session survives it.
LEMMA WireCloseReceivedHeld ==
    ASSUME NEW c, Safe(c), Held(c), NEW policy \in BOOLEAN, NEW admit
    PROVE  Held(WireCloseReceived(c, policy, admit))
<1>1. /\ Held(AuthenticatingClosed(c, policy))
      /\ Held(ResubscribingClosed(c, policy))
      /\ Held(OpenClosed(c, policy))
  BY TeardownHeld DEF AuthenticatingClosed, ResubscribingClosed, OpenClosed
<1>2. c.state = "Closing" => Held(EnterClosedOrReconnect(c, admit))
  BY EnterClosedOrReconnectHeld DEF Held
<1> QED  BY <1>1, <1>2 DEF WireCloseReceived

\* No session survives the end of its socket.
LEMMA WireCloseReceivedState ==
    ASSUME NEW c, Safe(c), NEW policy \in BOOLEAN, NEW admit
    PROVE  WireCloseReceived(c, policy, admit).state \notin SessionStates
<1>1. Drained(ExitHandshakeTeardown(c)) /\ Drained(ExitOpenTeardown(c))
  BY HandshakeTeardownDrained, OpenTeardownDrained DEF Safe
<1>2. /\ AuthenticatingClosed(c, policy).state \notin SessionStates
      /\ ResubscribingClosed(c, policy).state \notin SessionStates
      /\ OpenClosed(c, policy).state \notin SessionStates
  BY <1>1, EndStates DEF AuthenticatingClosed, ResubscribingClosed, OpenClosed, LifecycleEvents
<1>3. ASSUME NEW d \in Connection, NEW rid
      PROVE  /\ [d EXCEPT !.state = "Closed", !.socket = FALSE].state = "Closed"
             /\ ReenterConnecting(d, rid, admit).state \in {"Connecting", "BackingOff"}
  BY DEF ReenterConnecting, ConnectOrThrottle, EnterConnecting, Throttle, Publish, Arm, Connection
<1>4. EnterClosedOrReconnect(c, admit).state \notin SessionStates
  <2> DEFINE x == Disarm(c, "close")
             y == AnswerCloseCohort(x)
             d == [y EXCEPT !.pending_reconnect = {}]
             w == [d EXCEPT !.attempt_count = 0]
             rid == CHOOSE r \in c.pending_reconnect : TRUE
  <2>1. x \in Connection /\ ~x.undrained
    BY ArmFacts DEF Safe, SameCore, TimerNames
  <2>2. EnterClosedOrReconnect(c, admit) =
            IF c.pending_reconnect = {} THEN [d EXCEPT !.state = "Closed", !.socket = FALSE]
                                        ELSE ReenterConnecting(w, rid, admit)
    BY DEF EnterClosedOrReconnect
  <2> HIDE DEF x
  <2>3. y \in Connection
    BY <2>1, AnswerCloseCohortDrained DEF Drained
  <2> HIDE DEF y
  <2>4. d \in Connection
    BY <2>3 DEF Connection, Opt
  <2> HIDE DEF d
  <2>5. w \in Connection
    BY <2>4, ConnectionAssumption DEF Connection
  <2> HIDE DEF w, rid
  <2>6. /\ [d EXCEPT !.state = "Closed", !.socket = FALSE].state = "Closed"
        /\ ReenterConnecting(w, rid, admit).state \in {"Connecting", "BackingOff"}
    BY <1>3, <2>4, <2>5
  <2> QED  BY <2>2, <2>6 DEF SessionStates
<1> QED  BY <1>2, <1>4 DEF WireCloseReceived, SessionStates

\* A retry out of BackingOff, admitted or throttled.
LEMMA RetryHeld ==
    ASSUME NEW c \in Connection, NEW t \in TimerNames, NEW admit
    PROVE  Held(Retry(c, t, admit))
<1> DEFINE n == SaturatingIncrement(c.attempt_count)
           d == [c EXCEPT !.attempt_count = n]
           e == Disarm(d, t)
<1>1. n \in 0..CountMax
  BY IncrementType DEF Connection
<1>2. Retry(c, t, admit) = IF admit THEN EnterConnecting(e) ELSE Throttle(c)
  BY DEF Retry
<1> HIDE DEF n
<1>3. d \in Connection
  BY <1>1 DEF Connection
<1> HIDE DEF d
<1>4. e \in Connection
  BY <1>3, DisarmView
<1> HIDE DEF e
<1> QED  BY <1>2, <1>4, EnterConnectingHeld, ConnectOrThrottleHeld

\* Each timer of the machine, popped and dispatched, in every state.
LEMMA PoppedTimersHeld ==
    ASSUME Safe(mc), Held(mc), NEW admit
    PROVE  /\ Held(TimerBackoffElapsed(Popped("backoff"), admit))
           /\ Held(TimerRateBudgetWindowAdvanced(Popped("rate_budget"), admit))
           /\ Held(TimerCloseTimeout(Popped("close"), admit))
           /\ Held(TimerStalenessElapsed(Popped("staleness")))
           /\ Held(TimerUpgradeTimeout(Popped("upgrade")))
<1>1. mc \in Connection
  BY DEF Held
<1>2. ASSUME NEW t \in TimerNames
      PROVE  /\ Popped(t) \in Connection
             /\ Safe(Popped(t))
             /\ Popped(t).state = mc.state
             /\ Awaited(Popped(t)) = Awaited(mc)
  BY <1>1, DisarmView, ArmFacts, SameCoreSafe DEF Popped, Awaited
<1>3. Held(TimerBackoffElapsed(Popped("backoff"), admit))
  <2>1. CASE mc.state = "BackingOff"
    BY <1>2, <2>1, RetryHeld DEF TimerBackoffElapsed, TimerNames
  <2>2. CASE mc.state # "BackingOff"
    <3>1. Held(Popped("backoff"))
      BY <2>2, DisarmHeld DEF Popped, TimerNames
    <3> QED  BY <1>2, <2>2, <3>1 DEF TimerBackoffElapsed, TimerNames
  <2> QED  BY <2>1, <2>2
<1>4. Held(TimerRateBudgetWindowAdvanced(Popped("rate_budget"), admit))
  <2>1. CASE mc.state = "BackingOff"
    BY <1>2, <2>1, RetryHeld DEF TimerRateBudgetWindowAdvanced, TimerNames
  <2>2. CASE mc.state # "BackingOff"
    <3>1. Held(Popped("rate_budget"))
      BY <2>2, DisarmHeld DEF Popped, TimerNames
    <3> QED  BY <1>2, <2>2, <3>1 DEF TimerRateBudgetWindowAdvanced, TimerNames
  <2> QED  BY <2>1, <2>2
<1>5. Held(TimerCloseTimeout(Popped("close"), admit))
  <2>1. CASE mc.state = "Closing"
    <3>1. Awaited(mc) # {}
      BY <2>1 DEF Held
    <3> QED  BY <1>2, <2>1, <3>1, EnterClosedOrReconnectHeld DEF TimerCloseTimeout, TimerNames
  <2>2. CASE mc.state # "Closing"
    <3>1. Held(Popped("close"))
      BY <2>2, DisarmHeld DEF Popped, TimerNames
    <3> QED  BY <1>2, <2>2, <3>1 DEF TimerCloseTimeout, TimerNames
  <2> QED  BY <2>1, <2>2
<1>6. Held(TimerStalenessElapsed(Popped("staleness")))
  <2> DEFINE p == Popped("staleness")
  <2>0. Safe(p) /\ p.state = mc.state
    BY <1>2 DEF TimerNames
  <2>1. Held(BackOff(ExitHandshakeTeardown(p), "attempt_failed")) /\ Held(BackOff(ExitOpenTeardown(p), "dropped"))
    BY <2>0, TeardownHeld
  <2>2. mc.state \notin SessionStates => Held(p)
    BY DisarmHeld DEF Popped, TimerNames
  <2> HIDE DEF p
  <2>3. Held(TimerStalenessElapsed(p))
    BY <2>0, <2>1, <2>2 DEF TimerStalenessElapsed, SessionStates
  <2> QED  BY <2>3 DEF p
<1>7. Held(TimerUpgradeTimeout(Popped("upgrade")))
  <2>1. mc.state # "Connecting" => Held(Popped("upgrade"))
    BY DisarmHeld DEF Popped, TimerNames
  <2> QED  BY <1>2, <2>1, WireUpgradeFailedHeld DEF TimerNames
<1> QED  BY <1>3, <1>4, <1>5, <1>6, <1>7

----------------------------------------------------------------------------
(* Sending subscribe frames. *)

\* Every possible effect of a send leaves a connection that is Safe and Held.
HeldEffects(E) == \A e \in E : Safe(e.conn) /\ Held(e.conn)

\* send_subscribe_frame, whatever its outcome.
LEMMA SendOneHeld ==
    ASSUME NEW c, Safe(c), Held(c), NEW k \in Keys
    PROVE  HeldEffects(SendOne(c, k))
<1>1. ASSUME NEW result \in SendResults(c), NEW admit \in BOOLEAN
      PROVE  Held(SendSubscribe(c, k, result, admit))
  <2>1. Held(ArmSubscribeAck(c, k))
    BY SubscribeView, SameViewHeld DEF Held
  <2>2. Held(HandleSubscribeFailure(c, k, TRUE)) /\ Held(WireAbnormalClose(c, admit))
    BY HandleSubscribeFailureHeld, WireCloseReceivedHeld DEF WireAbnormalClose
  <2> QED  BY <2>1, <2>2 DEF SendSubscribe, SendResults
<1>2. ASSUME NEW e \in SendOne(c, k)
      PROVE  Held(e.conn)
  <2>1. PICK admit \in BOOLEAN : e \in SendOutcomes(c, k, admit)
    BY <1>2 DEF SendOne
  <2>2. PICK result \in SendResults(c) :
            e = Effect(SendSubscribe(c, k, result, admit), IF result = "sent" THEN {k} ELSE {}, FALSE)
    BY <2>1 DEF SendOutcomes
  <2> QED  BY <1>1, <2>2 DEF Effect
<1> QED  BY <1>2, SendOneGood DEF GoodEffects, HeldEffects

\* A loop of sends, wherever it stops.
LEMMA SendBatchHeld ==
    ASSUME NEW c, Safe(c), Held(c), NEW b \in Batches
    PROVE  Held(SendBatch(c, b))
<1>1. CASE b.end = "done"
  <2> DEFINE f == [k \in Keys |->
                    CASE k \in b.sent /\ c.ack_attempts[k] = Absent -> SubscribeAckAttempts
                      [] k \in b.full -> AttemptsLeft(c, k)
                      [] OTHER -> c.ack_attempts[k]]
             d == [c EXCEPT !.ack_timeouts = (@ \union b.sent) \ b.full,
                            !.resend_due = @ \union b.full,
                            !.ack_attempts = f]
  <2>1. SendBatch(c, b) = d /\ SendBatch(c, b) \in Connection
    BY <1>1, SendBatchSafe DEF SendBatch, Safe
  <2> HIDE DEF f
  <2>2. SameView(d, c)
    BY <2>1 DEF Held, SameView, Connection, Awaited, CloseWaiters
  <2> QED  BY <2>1, <2>2, SameViewHeld
<1>2. CASE b.end = "exhausted"
  BY <1>2, BudgetExhaustedHeld DEF SendBatch
<1>3. CASE b.end = "dead"
  BY <1>3, WireCloseReceivedHeld DEF SendBatch, WireAbnormalClose
<1> QED  BY <1>1, <1>2, <1>3 DEF Batches

\* Every outcome of a loop of sends.
LEMMA SendManyHeld ==
    ASSUME NEW c, Safe(c), Held(c), NEW F
    PROVE  HeldEffects(SendMany(c, F))
<1> SUFFICES ASSUME NEW e \in SendMany(c, F)
             PROVE  Safe(e.conn) /\ Held(e.conn)
  BY DEF HeldEffects
<1>1. PICK b \in Batches : e = Effect(SendBatch(c, b), b.sent, FALSE)
  BY DEF SendMany
<1> QED  BY <1>1, SendBatchSafe, SendBatchHeld DEF Effect

\* Sends that only record, with or without a token.
LEMMA RecordedHeld ==
    ASSUME NEW c, Safe(c), Held(c), NEW F \in SUBSET Keys, NEW spawn
    PROVE  /\ HeldEffects({Effect(c, {}, spawn)})
           /\ HeldEffects({Effect(AwaitRefresh(c), {}, spawn)})
           /\ HeldEffects(DeferForToken(c, F))
<1>1. c \in Connection
  BY DEF Held
<1>2. Safe(AwaitRefresh(c)) /\ Held(AwaitRefresh(c))
  BY <1>1, SameViewHeld, SameCoreSafe DEF AwaitRefresh, SameView, SameCore, Connection, Awaited, CloseWaiters
<1> DEFINE d == Defer(c, F)
<1>3. Safe(d) /\ Held(d)
  BY <1>1, SameViewHeld, SameCoreSafe DEF Defer, SameView, SameCore, Connection, Awaited, CloseWaiters
<1>4. DeferForToken(c, F) = {Effect(AwaitRefresh(d), {}, ~c.awaiting_token_refresh)}
  BY DEF DeferForToken
<1> HIDE DEF d
<1>5. Safe(AwaitRefresh(d)) /\ Held(AwaitRefresh(d))
  BY <1>3, SameViewHeld, SameCoreSafe DEF Safe, AwaitRefresh, SameView, SameCore, Connection, Awaited, CloseWaiters
<1> QED  BY <1>2, <1>4, <1>5 DEF HeldEffects, Effect

\* The signed sends.
LEMMA SignedSendsHeld ==
    ASSUME NEW c, Safe(c), Held(c)
    PROVE  /\ HeldEffects(SendFirstSignedSubscribe(c))
           /\ \A F \in SUBSET Keys : HeldEffects(SendRemainingSignedSubscribes(c, F))
           /\ \A k \in Keys : HeldEffects(SendSingleSignedSubscribe(c, k))
<1>1. HeldEffects(UNION {SendOne(c, k) : k \in LiveKeys})
  BY SendOneHeld DEF HeldEffects, LiveKeys
<1>2. /\ HeldEffects({Effect(AwaitRefresh(c), {}, TRUE)})
      /\ HeldEffects({Effect(c, {}, FALSE)})
      /\ \A F \in SUBSET Keys : HeldEffects(DeferForToken(c, F))
  BY RecordedHeld
<1>3. HeldEffects(SendFirstSignedSubscribe(c))
  BY <1>1, <1>2 DEF SendFirstSignedSubscribe
<1>4. ASSUME NEW F \in SUBSET Keys PROVE HeldEffects(SendRemainingSignedSubscribes(c, F))
  BY <1>2, SendManyHeld DEF SendRemainingSignedSubscribes
<1>5. ASSUME NEW k \in Keys PROVE HeldEffects(SendSingleSignedSubscribe(c, k))
  BY <1>2, SendOneHeld DEF SendSingleSignedSubscribe
<1> QED  BY <1>3, <1>4, <1>5

\* Both replays of the registry.
LEMMA ReplayHeld ==
    ASSUME NEW c, Safe(c), Held(c)
    PROVE  /\ HeldEffects(ResubscribeReplay(c))
           /\ \A F \in SUBSET Keys : HeldEffects(ReplayAfterHandshake(c, F))
<1>1. HeldEffects(ResubscribeReplay(c))
  <2> SUFFICES ASSUME NEW e \in SendMany(c, LiveKeys)
               PROVE  HeldEffects({Effect(CompleteResubscribeIfEmpty(e.conn), e.sent, FALSE)})
    BY DEF ResubscribeReplay, HeldEffects
  <2>1. Safe(e.conn) /\ Held(e.conn)
    BY SendManyHeld DEF HeldEffects
  <2> QED  BY <2>1, CompleteResubscribeSafe, CompleteResubscribeHeld DEF HeldEffects, Effect
<1>2. ASSUME NEW F \in SUBSET Keys PROVE HeldEffects(ReplayAfterHandshake(c, F))
  <2> SUFFICES ASSUME NEW e \in SendRemainingSignedSubscribes(c, F)
               PROVE  HeldEffects({Effect(CompleteResubscribeIfEmpty(e.conn), e.sent, e.spawn)})
    BY DEF ReplayAfterHandshake, HeldEffects
  <2>1. Safe(e.conn) /\ Held(e.conn)
    BY SignedSendsHeld DEF HeldEffects
  <2> QED  BY <2>1, CompleteResubscribeSafe, CompleteResubscribeHeld DEF HeldEffects, Effect
<1> QED  BY <1>1, <1>2

----------------------------------------------------------------------------
(* The reactor. *)

\* What a handler must leave: the socket map read in Held is the one it leaves.
HeldNow == Held(mc) /\ ~mc.opened

HeldInv == IInv /\ HeldNow

\* The end of a handler.  A session it leaves must be on the socket it leaves.
LEMMA WiredHeld ==
    ASSUME NEW c, Held(c), NEW sent, NEW done, NEW s, NEW b, Wired(c, sent, done, s, b),
           c.state \in SessionStates => s = "cur"
    PROVE  HeldNow'
<1> DEFINE d == [c EXCEPT !.opened = FALSE]
<1>1. /\ d \in Connection /\ d.state = c.state /\ d.seen = c.seen /\ d.timers = c.timers
      /\ Awaited(d) = Awaited(c) /\ ~d.opened
  BY DEF Held, Connection, Awaited, CloseWaiters
<1>2. mc' = d /\ sockets' = s
  BY DEF Wired
<1> HIDE DEF d
<1>3. Awaited(mc)' = Awaited(d)
  BY <1>2 DEF Awaited, CloseWaiters
<1> QED  BY <1>1, <1>2, <1>3 DEF HeldNow, Held, OnCurrent, SessionStates

\* The end of a handler that may drop a bridge.
LEMMA LandHeld ==
    ASSUME NEW c, Held(c), NEW sent, NEW s, NEW b, Land(c, sent, s, b),
           c.state \in SessionStates => s = "cur"
    PROVE  HeldNow'
  BY WiredHeld DEF Land

\* project_socket_and_wire_bridge puts a session's socket in the map.
LEMMA ProjectHeld ==
    ASSUME NEW c, Safe(c), Held(c), NEW sent, Project(c, sent) \/ ProjectLate(c, sent)
    PROVE  HeldNow'
<1>1. c.state \in SessionStates => c.socket
  BY DEF Safe
<1>2. CASE Project(c, sent)
  BY <1>1, <1>2, LandHeld DEF Project
<1>3. CASE ProjectLate(c, sent)
  BY <1>1, <1>3, LandHeld DEF ProjectLate
<1> QED  BY <1>2, <1>3

\* A handler that leaves the map alone leaves a session's socket in it.
LEMMA UnprojectedHeld ==
    ASSUME NEW c, Safe(c), Held(c), c.state \in SessionStates
    PROVE  Unprojected(c) = "cur"
  BY DEF Safe, Held, Unprojected, OnCurrent

\* A handler that only changes the connection.
LEMMA KeptHeld ==
    ASSUME NEW d, Held(d), ~d.opened, mc' = d, UNCHANGED sockets
    PROVE  HeldNow'
<1>1. Awaited(mc)' = Awaited(d)
  BY DEF Awaited, CloseWaiters
<1> QED  BY <1>1 DEF HeldNow, Held, OnCurrent, SessionStates

\* CallerInbound connect, force_reconnect and close.
LEMMA PostsHeld ==
    ASSUME HeldInv, NEW rid \in CallIds, NEW admit \in BOOLEAN,
           PostStartConnect(rid, admit) \/ PostForceReconnect(rid, admit) \/ PostClose(rid)
    PROVE  HeldNow'
<1>1. rid \in Ids /\ Safe(mc) /\ Held(mc)
  BY DEF Ids, HeldInv, HeldNow, IInv
<1>2. CASE PostStartConnect(rid, admit)
  <2> DEFINE c == CallStartConnect(mc, rid, admit)
  <2>1. Safe(c) /\ Held(c)
    BY <1>1, CallStartConnectSafe, CallStartConnectHeld
  <2> HIDE DEF c
  <2>2. Safe(Ask(c, rid)) /\ Held(Ask(c, rid))
    BY <1>1, <2>1, AskFacts, AskView, SameCoreSafe, SameViewHeld DEF Safe
  <2> QED  BY <1>2, <2>2, ProjectHeld DEF PostStartConnect, c
<1>3. CASE PostForceReconnect(rid, admit)
  <2>1. Safe(CallForceReconnect(mc, rid, admit)) /\ Held(CallForceReconnect(mc, rid, admit))
    BY <1>1, CallForceReconnectSafe, CallForceReconnectHeld
  <2> QED  BY <1>3, <2>1, ProjectHeld DEF PostForceReconnect
<1>4. CASE PostClose(rid)
  <2>1. Safe(CallClose(mc, rid)) /\ Held(CallClose(mc, rid))
    BY <1>1, CallCloseSafe, CallCloseHeld
  <2> QED  BY <1>4, <2>1, ProjectHeld DEF PostClose
<1> QED  BY <1>2, <1>3, <1>4

\* register_one_and_emit: a session found there keeps its socket.
LEMMA RegisterHeld ==
    ASSUME HeldInv, NEW k \in Keys, NEW admit \in BOOLEAN, Register(k, admit)
    PROVE  HeldNow'
<1> DEFINE started == Started(admit)
<1>0. Safe(mc) /\ Held(mc) /\ ReactorId \in Ids
  BY DEF HeldInv, HeldNow, IInv, Ids
<1>1. Safe(started) /\ Held(started)
  BY <1>0, CallStartConnectSafe, CallStartConnectHeld DEF Started
<1>2. PICK e \in RegisterEffects(started, k) :
        Land(e.conn, e.sent, AfterRegister(e.conn, RegisterSocket(started)),
             IF mc.state = "Idle" THEN e.conn.socket ELSE bridge /\ e.conn.socket)
  BY Zenon DEF Register
<1> HIDE DEF started
<1>4. HeldEffects(RegisterEffects(started, k))
  <2>1. HeldEffects({Effect(started, {}, FALSE)}) /\ HeldEffects(SendOne(started, k))
    BY <1>1, RecordedHeld, SendOneHeld
  <2>2. HeldEffects(SendSingleSignedSubscribe(started, k))
    BY <1>1, SignedSendsHeld
  <2> QED  BY <2>1, <2>2 DEF RegisterEffects
<1>5. Safe(e.conn) /\ Held(e.conn)
  BY <1>2, <1>4 DEF HeldEffects
<1>6. ASSUME e.conn.state \in SessionStates
      PROVE  AfterRegister(e.conn, RegisterSocket(started)) = "cur"
  <2>1. e.conn.socket /\ ~e.conn.opened /\ sockets = "cur" /\ mc.state # "Idle"
    BY <1>5, <1>6 DEF Safe, Held, OnCurrent
  <2>2. RegisterSocket(started) = "cur"
    BY <2>1 DEF RegisterSocket
  <2> QED  BY <2>1, <2>2 DEF AfterRegister
<1> QED  BY <1>2, <1>5, <1>6, LandHeld

\* deregister_one and deregister_all.
LEMMA ReleaseKeysHeld ==
    ASSUME HeldInv, NEW S \in SUBSET Keys, ReleaseKeys(S)
    PROVE  HeldNow'
<1> DEFINE f == [k \in Keys |-> IF k \in S THEN Absent ELSE mc.ack_attempts[k]]
           d == [mc EXCEPT !.ack_timeouts = @ \ S, !.resend_due = @ \ S,
                           !.ack_attempts = f, !.deferred = @ \ S]
<1>1. mc \in Connection /\ Safe(mc) /\ Held(mc)
  BY DEF HeldInv, HeldNow, Held, IInv
<1>2. f \in [Keys -> {Absent} \union (0..SubscribeAckAttempts)]
  BY <1>1 DEF Connection
<1>3. Land(CompleteResubscribeIfEmpty(d), {}, sockets, bridge)
  BY DEF ReleaseKeys
<1> HIDE DEF f
<1>4. SameCore(d, mc) /\ SameView(d, mc)
  BY <1>1, <1>2 DEF SameCore, SameView, Connection, Awaited, CloseWaiters
<1> HIDE DEF d
<1>5. Safe(d) /\ Held(d)
  BY <1>1, <1>4, SameCoreSafe, SameViewHeld
<1> DEFINE g == CompleteResubscribeIfEmpty(d)
<1>6. Held(g)
  BY <1>5, CompleteResubscribeHeld
<1> HIDE DEF g
<1>7. g.state \in SessionStates => sockets = "cur"
  BY <1>6 DEF Held, OnCurrent
<1> QED  BY <1>3, <1>6, <1>7, LandHeld DEF g

\* handle_ws_request_frame and AbandonWsRequest.
LEMMA RequestsHeld ==
    ASSUME HeldInv, NEW r \in ReqIds,
           WsRequestNoToken \/ WsRequestFrame(r) \/ AbandonWsRequest(r)
    PROVE  HeldNow'
<1>1. mc \in Connection /\ Held(mc) /\ ~mc.opened
  BY DEF HeldInv, HeldNow, Held
<1>2. /\ SameView(AwaitRefresh(mc), mc)
      /\ SameView([mc EXCEPT !.pending_requests = @ \union {r}], mc)
      /\ SameView([mc EXCEPT !.pending_requests = @ \ {r}], mc)
  BY <1>1 DEF AwaitRefresh, SameView, Connection, Awaited, CloseWaiters
<1>3. UNCHANGED sockets /\ SameView(mc', mc)
  BY <1>2 DEF WsRequestNoToken, WsRequestFrame, AbandonWsRequest, netVars
<1> QED  BY <1>1, <1>3, SameViewHeld, KeptHeld DEF SameView

\* UpgradeOutcome::Ok: the session starts on the socket the reactor reads.
LEMMA UpgradeOkHeld ==
    ASSUME HeldInv, UpgradeOk
    PROVE  HeldNow'
<1> DEFINE c == WireUpgradeOk(mc)
<1>0. sockets = "cur" /\ OnCurrent
  BY DEF UpgradeOk, OnCurrent
<1>1. Safe(c) /\ Held(c)
  BY <1>0, WireUpgradeOkSafe, WireUpgradeOkHeld DEF HeldInv, HeldNow, IInv
<1>2. CASE UpgradeOkReplay
  <2>1. PICK e \in ResubscribeReplay(c) :
            IF e.conn.socket THEN Land(e.conn, e.sent, "cur", FALSE)
                             ELSE Land(e.conn, {}, "none", FALSE)
    BY <1>2 DEF UpgradeOkReplay
  <2> HIDE DEF c
  <2>2. Safe(e.conn) /\ Held(e.conn)
    BY <1>1, <2>1, ReplayHeld DEF HeldEffects
  <2>3. e.conn.state \in SessionStates => e.conn.socket
    BY <2>2 DEF Safe
  <2> QED  BY <2>1, <2>2, <2>3, LandHeld
<1>3. CASE UpgradeOkFirst
  <2>1. Land(c, {}, sockets, FALSE)
    BY <1>3 DEF UpgradeOkFirst
  <2> HIDE DEF c
  <2> QED  BY <1>0, <1>1, <2>1, LandHeld
<1>4. CASE UpgradeOkAuth
  <2>1. PICK e \in SendFirstSignedSubscribe(c) : Land(e.conn, e.sent, Unprojected(e.conn), FALSE)
    BY <1>4 DEF UpgradeOkAuth
  <2> HIDE DEF c
  <2>2. Safe(e.conn) /\ Held(e.conn)
    BY <1>1, <2>1, SignedSendsHeld DEF HeldEffects
  <2> QED  BY <2>1, <2>2, UnprojectedHeld, LandHeld
<1> QED  BY <1>2, <1>3, <1>4 DEF UpgradeOk

\* UpgradeOutcome::Failed, of the current socket or of an old one.
LEMMA UpgradeFailedHeld ==
    ASSUME HeldInv, NEW transient \in BOOLEAN,
           UpgradeFailed(transient) \/ LateUpgradeFailed(transient)
    PROVE  HeldNow'
<1> DEFINE c == WireUpgradeFailed(mc, transient)
           s == IF c.socket THEN sockets ELSE "none"
<1>1. Safe(c) /\ Held(c)
  BY WireUpgradeFailedSafe, WireUpgradeFailedHeld DEF HeldInv, HeldNow, IInv
<1>2. \E b : Wired(c, {}, {}, s, b)
  BY DEF UpgradeFailed, LateUpgradeFailed
<1>3. c.state \in SessionStates => s = "cur"
  <2> HIDE DEF c
  <2> QED  BY <1>1 DEF Safe, Held, OnCurrent
<1> HIDE DEF c, s
<1> QED  BY <1>1, <1>2, <1>3, WiredHeld

\* The reactor takes a refresh outcome.
LEMMA RefreshOutcomeHeld ==
    ASSUME HeldInv, NEW o \in Outcomes, RefreshOutcome(o)
    PROVE  HeldNow'
<1> DEFINE c == DeliverRefresh(o)
<1>0. (o # "fatal") \in BOOLEAN /\ Safe(mc) /\ Held(mc)
  BY DEF HeldInv, HeldNow, IInv
<1>1. Safe(c) /\ Held(c)
  BY <1>0, BusTokenRefreshSafe, BusTokenRefreshHeld DEF DeliverRefresh
<1>2. PICK e \in RefreshEffects(o, c) : ProjectLate(RearmTokenRefresh(o, e.conn), e.sent)
  BY DEF RefreshOutcome
<1> HIDE DEF c
<1>3. HeldEffects(RefreshEffects(o, c))
  <2>1. HeldEffects({Effect(c, {}, FALSE)}) /\ HeldEffects(SendFirstSignedSubscribe(c))
    BY <1>1, RecordedHeld, SignedSendsHeld
  <2>2. HeldEffects(DrainDeferred(c))
    <3> DEFINE d == [c EXCEPT !.deferred = {}]
    <3>1. SameCore(d, c) /\ SameView(d, c)
      BY <1>1 DEF Safe, SameCore, SameView, Connection, Awaited, CloseWaiters
    <3>2. Reissue(c) \in SUBSET Keys
      BY <1>1 DEF Reissue, Safe, Connection
    <3> HIDE DEF d
    <3>3. Safe(d) /\ Held(d)
      BY <1>1, <3>1, SameCoreSafe, SameViewHeld
    <3>4. HeldEffects(SendMany(d, Reissue(c))) /\ HeldEffects(DeferForToken(d, Reissue(c)))
      BY <3>2, <3>3, SendManyHeld, RecordedHeld
    <3> QED  BY <3>4 DEF DrainDeferred, d
  <2> QED  BY <2>1, <2>2 DEF RefreshEffects
<1>4. Safe(e.conn) /\ Held(e.conn)
  BY <1>2, <1>3 DEF HeldEffects
<1>5. Safe(RearmTokenRefresh(o, e.conn)) /\ Held(RearmTokenRefresh(o, e.conn))
  <2>1. Safe(Disarm(e.conn, "token_refresh")) /\ Safe(Arm(e.conn, "token_refresh"))
    BY <1>4, ArmFacts, SameCoreSafe DEF Safe, TimerNames
  <2>2. Held(Disarm(e.conn, "token_refresh"))
    BY <1>4, DisarmHeld DEF TimerNames
  <2>3. Held(Arm(e.conn, "token_refresh"))
    BY <1>4, ArmView, SameViewHeld DEF Held, TimerNames
  <2> QED  BY <1>4, <2>1, <2>2, <2>3 DEF RearmTokenRefresh
<1> QED  BY <1>2, <1>5, ProjectHeld

\* handle_sub_ack of a success, in its three cases.
LEMMA SubAckHeld ==
    ASSUME HeldInv, NEW k \in Keys, SubAck(k)
    PROVE  HeldNow'
<1>1. Safe(mc) /\ mc \in Connection /\ Held(mc) /\ ~mc.opened
  BY DEF HeldInv, HeldNow, IInv, Held
<1>2. CASE AckInHandshake(k)
  <2> DEFINE x == WireAuthHandshakeOk(mc)
             y == DisarmSubscribeAck(x, k)
             c == RemoveDeferred(y, k)
  <2>1. PICK e \in ReplayAfterHandshake(c, LiveKeys \ {k}) :
            Land(e.conn, e.sent, Unprojected(e.conn), bridge)
    BY <1>2 DEF AckInHandshake
  <2>2. Safe(x) /\ Held(x)
    BY <1>1, WireAuthHandshakeOkSafe, WireAuthHandshakeOkHeld
  <2> HIDE DEF x
  <2>3. Safe(y) /\ Held(y)
    BY <2>2, DisarmSubscribeAckFacts, SubscribeView, SameCoreSafe, SameViewHeld DEF Safe
  <2> HIDE DEF y
  <2>4. Safe(c) /\ Held(c)
    BY <2>3, DeferFacts, SubscribeView, SameCoreSafe, SameViewHeld DEF Safe
  <2> HIDE DEF c
  <2>5. LiveKeys \ {k} \in SUBSET Keys
    BY LiveKeysType
  <2>6. Safe(e.conn) /\ Held(e.conn)
    BY <2>1, <2>4, <2>5, ReplayHeld DEF HeldEffects
  <2> QED  BY <2>1, <2>6, UnprojectedHeld, LandHeld
<1>3. CASE AckUnarmed(k)
  <2> DEFINE x == DisarmSubscribeAck(mc, k)
             y == RemoveDeferred(x, k)
  <2>0. UNCHANGED sockets /\ mc' = CompleteResubscribeIfEmpty(y)
    BY <1>3 DEF AckUnarmed, netVars
  <2>1. SameCore(x, mc) /\ SameView(x, mc)
    BY <1>1, DisarmSubscribeAckFacts, SubscribeView
  <2> HIDE DEF x
  <2>2. SameCore(y, x) /\ SameView(y, x)
    BY <2>1, DeferFacts, SubscribeView DEF SameCore
  <2> HIDE DEF y
  <2>3. Safe(y) /\ Held(y) /\ ~y.opened
    BY <1>1, <2>1, <2>2, SameCoreSafe, SameViewHeld DEF SameView
  <2>4. y.state = "Resubscribing" => Held(EnterOpen(y)) /\ EnterOpen(y).state = "Open"
    BY <2>3, EnterOpenHeld, EnterOpenState DEF SessionStates
  <2>5. Held(mc') /\ ~mc'.opened
    BY <2>0, <2>3, <2>4 DEF CompleteResubscribeIfEmpty, Held, SessionStates
  <2> QED  BY <2>0, <2>5, KeptHeld
<1>4. CASE AckArmed(k)
  <2> DEFINE y == RemoveDeferred(mc, k)
             last == mc.ack_timeouts = {k}
             z == DisarmSubscribeAck(y, k)
  <2>0. UNCHANGED sockets /\ mc' = WireSubscribeAck(y, k, last)
    BY <1>4 DEF AckArmed, netVars
  <2>1. SameCore(y, mc) /\ SameView(y, mc)
    BY <1>1, DeferFacts, SubscribeView
  <2>9. last \in BOOLEAN
    OBVIOUS
  <2> HIDE DEF y, last
  <2>2. Safe(y) /\ Held(y) /\ ~y.opened /\ y \in Connection
    BY <1>1, <2>1, SameCoreSafe, SameViewHeld DEF SameView
  <2>3. SameCore(z, y) /\ SameView(z, y)
    BY <2>2, DisarmSubscribeAckFacts, SubscribeView
  <2>4. mc' = y \/ mc' = z \/ (y.state = "Resubscribing" /\ mc' = EnterOpen(z))
    <3>1. CASE last
      BY <2>0, <3>1 DEF WireSubscribeAck
    <3>2. CASE ~last
      BY <2>0, <3>2 DEF WireSubscribeAck
    <3> QED  BY <2>9, <3>1, <3>2
  <2> HIDE DEF z
  <2>5. Safe(z) /\ Held(z) /\ ~z.opened
    BY <2>2, <2>3, SameCoreSafe, SameViewHeld DEF SameView
  <2>6. Held(mc') /\ ~mc'.opened
    <3>1. CASE mc' = y \/ mc' = z
      BY <2>2, <2>5, <3>1
    <3>2. CASE y.state = "Resubscribing" /\ mc' = EnterOpen(z)
      <4>1. z.state \in SessionStates
        BY <2>3, <3>2 DEF SameView, SessionStates
      <4>2. Held(EnterOpen(z)) /\ EnterOpen(z).state = "Open"
        BY <2>5, <4>1, EnterOpenHeld, EnterOpenState
      <4> QED  BY <3>2, <4>2 DEF Held, SessionStates
    <3> QED  BY <2>4, <3>1, <3>2
  <2> QED  BY <2>0, <2>6, KeptHeld
<1> QED  BY <1>2, <1>3, <1>4 DEF SubAck

\* handle_sub_ack of a reject.
LEMMA RejectsHeld ==
    ASSUME HeldInv, NEW k \in Keys, NEW kind \in AuthErrorKinds, NEW transient \in BOOLEAN,
           RejectInHandshake(k, kind) \/ Reject(k, transient)
    PROVE  HeldNow'
<1>1. Safe(mc) /\ Held(mc)
  BY DEF HeldInv, HeldNow, IInv
<1>2. CASE RejectInHandshake(k, kind)
  <2> DEFINE x == WireAuthHandshakeFailed(mc, kind)
             c == DisarmSubscribeAck(x, k)
  <2>1. Land(c, {}, Unprojected(c), bridge)
    BY <1>2 DEF RejectInHandshake
  <2>2. Safe(x) /\ Held(x)
    BY <1>1, WireAuthHandshakeFailedSafe, WireAuthHandshakeFailedHeld
  <2> HIDE DEF x
  <2>3. Safe(c) /\ Held(c)
    BY <2>2, DisarmSubscribeAckFacts, SubscribeView, SameCoreSafe, SameViewHeld DEF Safe
  <2> HIDE DEF c
  <2> QED  BY <2>1, <2>3, UnprojectedHeld, LandHeld
<1>3. CASE Reject(k, transient)
  <2> DEFINE c == WireSubscribeFailed(mc, k, transient)
  <2>1. Land(c, {}, Unprojected(c), bridge)
    BY <1>3 DEF Reject
  <2>2. Safe(c) /\ Held(c)
    BY <1>1, WireSubscribeFailedSafe, HandleSubscribeFailureHeld DEF WireSubscribeFailed
  <2> HIDE DEF c
  <2> QED  BY <2>1, <2>2, UnprojectedHeld, LandHeld
<1> QED  BY <1>2, <1>3

\* The end of the response handlers.
LEMMA LandResponseHeld ==
    ASSUME NEW c, Safe(c), Held(c), NEW r, NEW sent, LandResponse(Resolved(c, r), r, sent)
    PROVE  HeldNow'
<1> DEFINE d == Resolved(c, r)
<1>1. SameView(d, c) /\ Safe(d)
  BY ResolvedSafe DEF Safe, Resolved, SameView, Connection, Awaited, CloseWaiters
<1>2. Wired(d, sent, {r}, Unprojected(d), bridge)
  BY DEF LandResponse
<1> HIDE DEF d
<1>3. Held(d)
  BY <1>1, SameViewHeld
<1> QED  BY <1>1, <1>2, <1>3, UnprojectedHeld, WiredHeld

\* handle_request_response in its four cases.
LEMMA ResponsesHeld ==
    ASSUME HeldInv, NEW r \in ReqIds, NEW kind \in {"TokenStale", "BadCreds"},
           \/ ResponseAuthenticates(r)
           \/ ResponseStaleInOpen(r)
           \/ ResponseResolves(r)
           \/ ResponseRefused(r, kind)
    PROVE  HeldNow'
<1>1. Safe(mc) /\ Held(mc)
  BY DEF HeldInv, HeldNow, IInv
<1>2. CASE ResponseAuthenticates(r)
  <2> DEFINE E == IF LiveKeys # {}
                  THEN ReplayAfterHandshake(WireAuthHandshakeOk(mc), LiveKeys)
                  ELSE {Effect(WireOrderAuthOk(mc), {}, FALSE)}
  <2>1. PICK e \in E : LandResponse(Resolved(e.conn, r), r, e.sent)
    BY <1>2 DEF ResponseAuthenticates
  <2>2. HeldEffects(ReplayAfterHandshake(WireAuthHandshakeOk(mc), LiveKeys))
    BY <1>1, WireAuthHandshakeOkSafe, WireAuthHandshakeOkHeld, LiveKeysType, ReplayHeld
  <2>3. Safe(WireOrderAuthOk(mc)) /\ Held(WireOrderAuthOk(mc))
    BY <1>1, WireOrderAuthOkSafe, WireOrderAuthOkHeld
  <2>4. HeldEffects({Effect(WireOrderAuthOk(mc), {}, FALSE)})
    BY <2>3, RecordedHeld
  <2>5. HeldEffects(E)
    BY <2>2, <2>4
  <2> HIDE DEF E
  <2>6. Safe(e.conn) /\ Held(e.conn)
    BY <2>1, <2>5 DEF HeldEffects
  <2> QED  BY <2>1, <2>6, LandResponseHeld
<1>3. CASE ResponseStaleInOpen(r)
  BY <1>1, <1>3, BusTokenRefreshSafe, BusTokenRefreshHeld, LandResponseHeld DEF ResponseStaleInOpen
<1>4. CASE ResponseResolves(r)
  BY <1>1, <1>4, LandResponseHeld DEF ResponseResolves
<1>5. CASE ResponseRefused(r, kind)
  <2>1. kind \in AuthErrorKinds
    BY DEF AuthErrorKinds
  <2>2. Safe(WireAuthHandshakeFailed(mc, kind)) /\ Held(WireAuthHandshakeFailed(mc, kind))
    BY <1>1, <2>1, WireAuthHandshakeFailedSafe, WireAuthHandshakeFailedHeld
  <2> QED  BY <1>5, <2>2, LandResponseHeld DEF ResponseRefused
<1> QED  BY <1>2, <1>3, <1>4, <1>5

\* drive_wire_close: whatever the FSM makes of the end of the socket, no session is left.
LEMMA WireClosedHeld ==
    ASSUME HeldInv, NEW policy \in BOOLEAN, NEW admit \in BOOLEAN, WireClosed(policy, admit)
    PROVE  HeldNow'
<1> DEFINE c == WireCloseReceived(mc, policy, admit)
<1>1. IF c.opened THEN Land(c, {}, "cur", TRUE) ELSE Land(c, {}, "none", FALSE)
  BY DEF WireClosed
<1>2. Safe(mc) /\ Held(mc)
  BY DEF HeldInv, HeldNow, IInv
<1>3. Held(c) /\ c.state \notin SessionStates
  <2>1. Held(c)
    BY <1>2, WireCloseReceivedHeld
  <2>2. c.state \notin SessionStates
    BY <1>2, WireCloseReceivedState
  <2> QED  BY <2>1, <2>2
<1> HIDE DEF c
<1> QED  BY <1>1, <1>3, LandHeld

\* The timers that drive the FSM or the proactive refresh.
LEMMA TimerStepsHeld ==
    ASSUME HeldInv, NEW admit \in BOOLEAN,
           \/ BackoffElapsed(admit)
           \/ RateBudgetWindowAdvanced(admit)
           \/ CloseTimeout(admit)
           \/ UpgradeTimeout
           \/ StalenessElapsed
           \/ TokenRefreshDue
    PROVE  HeldNow'
<1>0. Safe(mc) /\ Held(mc) /\ ~mc.opened
  BY DEF HeldInv, HeldNow, IInv
<1>1. \A t \in TimerNames : Safe(Popped(t))
  BY PoppedSafe DEF HeldInv
<1>2. /\ Safe(TimerBackoffElapsed(Popped("backoff"), admit))
      /\ Safe(TimerRateBudgetWindowAdvanced(Popped("rate_budget"), admit))
      /\ Safe(TimerCloseTimeout(Popped("close"), admit))
      /\ Safe(TimerStalenessElapsed(Popped("staleness")))
      /\ Safe(TimerUpgradeTimeout(Popped("upgrade")))
  BY <1>1, RetryTimersSafe, TimersSafe, WireUpgradeFailedSafe DEF TimerNames
<1>3. CASE BackoffElapsed(admit)
  BY <1>0, <1>2, <1>3, PoppedTimersHeld, ProjectHeld DEF BackoffElapsed
<1>4. CASE RateBudgetWindowAdvanced(admit)
  BY <1>0, <1>2, <1>4, PoppedTimersHeld, ProjectHeld DEF RateBudgetWindowAdvanced
<1>5. CASE CloseTimeout(admit)
  BY <1>0, <1>2, <1>5, PoppedTimersHeld, ProjectHeld DEF CloseTimeout
<1>6. CASE UpgradeTimeout
  BY <1>0, <1>2, <1>6, PoppedTimersHeld, ProjectHeld DEF UpgradeTimeout
<1>7. CASE StalenessElapsed
  BY <1>0, <1>2, <1>7, PoppedTimersHeld, ProjectHeld DEF StalenessElapsed
<1>8. CASE TokenRefreshDue
  <2>1. Held(Popped("token_refresh")) /\ ~Popped("token_refresh").opened
    BY <1>0, DisarmHeld, DisarmView DEF Held, Popped, TimerNames
  <2>2. UNCHANGED sockets /\ mc' \in {mc, Popped("token_refresh")}
    BY <1>8 DEF TokenRefreshDue, netVars
  <2> QED  BY <1>0, <2>1, <2>2, KeptHeld
<1> QED  BY <1>3, <1>4, <1>5, <1>6, <1>7, <1>8

\* The per-entry ack timeout and resend timers.
LEMMA SubscribeTimersHeld ==
    ASSUME HeldInv, NEW k \in Keys, SubscribeAckTimeout(k) \/ SubscribeResendDue(k)
    PROVE  HeldNow'
<1> DEFINE x == [mc EXCEPT !.ack_timeouts = @ \ {k}]
           y == [mc EXCEPT !.resend_due = @ \ {k}]
<1>1. Safe(x) /\ Safe(y) /\ Held(x) /\ Held(y)
  <2>0. Safe(mc) /\ Held(mc)
    BY DEF HeldInv, HeldNow, IInv
  <2>1. SameCore(x, mc) /\ SameCore(y, mc)
    BY <2>0 DEF Safe, SameCore, Connection
  <2>2. SameView(x, mc) /\ SameView(y, mc)
    BY <2>0, <2>1 DEF Held, SameCore, SameView, Connection, Awaited, CloseWaiters
  <2> QED  BY <2>0, <2>1, <2>2, SameCoreSafe, SameViewHeld
<1>2. CASE SubscribeAckTimeout(k)
  <2>1. Project(TimerSubscribeAckTimeout(x, k), {})
    BY <1>2 DEF SubscribeAckTimeout
  <2> HIDE DEF x
  <2>2. Safe(TimerSubscribeAckTimeout(x, k)) /\ Held(TimerSubscribeAckTimeout(x, k))
    BY <1>1, WireSubscribeFailedSafe, HandleSubscribeFailureHeld DEF TimerSubscribeAckTimeout
  <2> QED  BY <2>1, <2>2, ProjectHeld
<1>3. CASE SubscribeResendDue(k)
  <2>1. PICK e \in ResendEffects(y, k) : ProjectLate(e.conn, e.sent)
    BY <1>3 DEF SubscribeResendDue
  <2> HIDE DEF y
  <2>2. HeldEffects({Effect(y, {}, FALSE)}) /\ HeldEffects(SendOne(y, k))
    BY <1>1, RecordedHeld, SendOneHeld
  <2> DEFINE w == Defer(y, {k})
             d == CompleteResubscribeIfEmpty(w)
  <2>3. HeldEffects({Effect(AwaitRefresh(d), {}, ~d.awaiting_token_refresh)})
    <3>1. Safe(w) /\ Held(w)
      BY <1>1, DeferFacts, SubscribeView, SameCoreSafe, SameViewHeld DEF Safe
    <3> HIDE DEF w
    <3>2. Safe(d) /\ Held(d)
      BY <3>1, CompleteResubscribeSafe, CompleteResubscribeHeld
    <3> HIDE DEF d
    <3> QED  BY <3>2, RecordedHeld
  <2>4. HeldEffects(ResendEffects(y, k))
    BY <2>2, <2>3 DEF ResendEffects
  <2> HIDE DEF d
  <2>5. Safe(e.conn) /\ Held(e.conn)
    BY <2>1, <2>4 DEF HeldEffects
  <2> QED  BY <2>1, <2>5, ProjectHeld
<1> QED  BY <1>2, <1>3

\* Steps of the refresh tasks and stuttering leave the connection and its socket alone.
LEMMA UnchangedHeld ==
    ASSUME HeldInv, UNCHANGED <<mc, sockets>>
    PROVE  HeldNow'
  BY DEF HeldInv, HeldNow, Held, Awaited, CloseWaiters, OnCurrent

\* Every turn of the reactor keeps it.
LEMMA HeldInductive == HeldInv /\ [Next]_vars => HeldInv'
<1> SUFFICES ASSUME HeldInv, [Next]_vars PROVE HeldNow'
  BY ReactorInductive DEF HeldInv
<1>1. CASE CallerNext
  <2>1. ASSUME NEW k \in Keys, DeregisterOne(k) PROVE HeldNow'
    BY <2>1, ReleaseKeysHeld DEF DeregisterOne
  <2>2. CASE DeregisterAll
    BY <2>2, ReleaseKeysHeld DEF DeregisterAll
  <2>3. CASE WsRequestNoToken
    BY <2>3, RequestsHeld DEF WsRequestNoToken
  <2>4. ASSUME NEW rid \in CallIds, PostClose(rid) PROVE HeldNow'
    BY <2>4, PostsHeld
  <2> QED  BY <1>1, <2>1, <2>2, <2>3, <2>4, PostsHeld, RegisterHeld, RequestsHeld DEF CallerNext
<1>2. CASE WireNext
  <2>1. ASSUME NEW k \in Keys, NEW kind \in AuthErrorKinds, RejectInHandshake(k, kind)
        PROVE  HeldNow'
    BY <2>1, RejectsHeld
  <2>2. ASSUME NEW k \in Keys, NEW transient \in BOOLEAN, Reject(k, transient) PROVE HeldNow'
    BY <2>2, RejectsHeld DEF AuthErrorKinds
  <2>3. ASSUME NEW r \in ReqIds,
               ResponseAuthenticates(r) \/ ResponseStaleInOpen(r) \/ ResponseResolves(r)
        PROVE  HeldNow'
    BY <2>3, ResponsesHeld
  <2>4. ASSUME NEW r \in ReqIds, NEW kind \in {"TokenStale", "BadCreds"}, ResponseRefused(r, kind)
        PROVE  HeldNow'
    BY <2>4, ResponsesHeld
  <2> QED  BY <1>2, <2>1, <2>2, <2>3, <2>4, UpgradeOkHeld, UpgradeFailedHeld, SubAckHeld,
              WireClosedHeld DEF WireNext
<1>3. CASE TimerNext
  <2>1. CASE UpgradeTimeout \/ StalenessElapsed \/ TokenRefreshDue
    BY <2>1, TimerStepsHeld
  <2> QED  BY <1>3, <2>1, TimerStepsHeld, SubscribeTimersHeld DEF TimerNext
<1>4. CASE TokenNext
  <2>1. ASSUME UNCHANGED <<mc, netVars>> PROVE HeldNow'
    BY <2>1, UnchangedHeld DEF netVars
  <2> QED  BY <1>4, <2>1, RefreshOutcomeHeld DEF TokenNext, RefreshLands, ProactiveLands, TokenExpires
<1>5. CASE UNCHANGED vars
  BY <1>5, UnchangedHeld DEF vars
<1> QED  BY <1>1, <1>2, <1>3, <1>4, <1>5 DEF Next

\* A new reactor satisfies it.
LEMMA HeldInit == Init => HeldInv
<1> SUFFICES ASSUME Init PROVE HeldNow
  BY ReactorInit DEF HeldInv
<1>1. mc \in Connection /\ mc = NewConnection
  BY ReactorInit DEF IInv, Safe, Init
<1>2. mc.state = "Idle" /\ mc.seen = "none" /\ ~mc.opened
  BY <1>1 DEF NewConnection
<1> QED  BY <1>1, <1>2 DEF HeldNow, Held, SessionStates

\* It implies the three properties.
LEMMA HeldImplies == HeldInv => NoWedge /\ EventsTellState /\ SessionSocketWired
<1> SUFFICES ASSUME HeldInv PROVE NoWedge /\ EventsTellState /\ SessionSocketWired
  OBVIOUS
<1>1. Safe(mc) /\ Held(mc)
  BY DEF HeldInv, HeldNow, IInv
<1>2. NoWedge
  BY <1>1 DEF Held, NoWedge
<1>3. EventsTellState
  BY <1>1 DEF Held, EventsTellState
<1>4. SessionSocketWired
  BY <1>1 DEF Safe, Held, OnCurrent, SessionSocketWired
<1> QED  BY <1>2, <1>3, <1>4

\* On every path of the machine, a connection that waits for an upgrade, a frame, a
\* close or its next attempt has armed the timer that ends the wait.
THEOREM NeverWedged == Spec => []NoWedge
  BY HeldInit, HeldInductive, HeldImplies, PTL DEF Spec

\* The last lifecycle event always tells the state: no teardown, race or late outcome
\* leaves Open announced for a connection that is down, or a failure untold.
THEOREM EventsAlwaysTellState == Spec => []EventsTellState
  BY HeldInit, HeldInductive, HeldImplies, PTL DEF Spec

\* Handlers that project the socket map and handlers that do not agree on it: a session
\* is always read from the connection's own socket, on both URLs.
THEOREM SessionAlwaysWired == Spec => []SessionSocketWired
  BY HeldInit, HeldInductive, HeldImplies, PTL DEF Spec

----------------------------------------------------------------------------
(***************************************************************************)
(* The subscriptions of the authenticated connection: a third inductive    *)
(* invariant.  The books of a connection are its armed acks, its pending   *)
(* resends and its deferred keys.  Outside a session they are empty; in a  *)
(* session every armed ack is for a frame on this socket, and every live   *)
(* entry is on the wire, to be resent or deferred.  W stands for the keys  *)
(* on the wire, R for the registered keys and L for the live ones, at the  *)
(* point a handler has reached.                                            *)
(***************************************************************************)

Emptied(c) ==
    /\ c \in Connection
    /\ c.ack_timeouts = {}
    /\ c.resend_due = {}
    /\ ~c.awaiting_token_refresh

\* Outside a session, with nothing on the books.
Quiet(c) == Emptied(c) /\ c.state \notin SessionStates

Filed(c, W, R, L) ==
    /\ c \in Connection
    /\ c.state \notin SessionStates => Quiet(c)
    /\ c.ack_timeouts \union c.resend_due \subseteq R
    /\ c.state \in SessionStates => c.ack_timeouts \subseteq W
    /\ c.state \in {"Resubscribing", "Open"} => L \subseteq UNION {W, c.resend_due, c.deferred}

\* ResubscribingHasWork of one connection.
Worked(c) == c.state = "Resubscribing" => c.ack_timeouts \union c.resend_due # {}

\* d differs from c outside its state and its books.
SameBooks(d, c) ==
    /\ d \in Connection
    /\ d.state = c.state
    /\ d.ack_timeouts = c.ack_timeouts
    /\ d.resend_due = c.resend_due
    /\ d.deferred = c.deferred
    /\ d.awaiting_token_refresh = c.awaiting_token_refresh

\* All of these look at the books only.
LEMMA SameBooksFiled ==
    ASSUME NEW c, NEW d, SameBooks(d, c), NEW W, NEW R, NEW L
    PROVE  /\ Filed(c, W, R, L) => Filed(d, W, R, L)
           /\ Worked(c) => Worked(d)
           /\ Emptied(c) => Emptied(d)
           /\ Quiet(c) => Quiet(d)
<1>1. (Emptied(c) => Emptied(d)) /\ (Quiet(c) => Quiet(d)) /\ (Worked(c) => Worked(d))
  BY DEF SameBooks, Emptied, Quiet, Worked
<1>2. Filed(c, W, R, L) => Filed(d, W, R, L)
  BY <1>1 DEF SameBooks, Filed
<1> QED  BY <1>1, <1>2

\* Nothing to keep outside a session.
LEMMA QuietFiled ==
    ASSUME NEW c, Quiet(c), NEW W, NEW R, NEW L
    PROVE  Filed(c, W, R, L) /\ Worked(c)
  BY DEF Quiet, Emptied, Filed, Worked, SessionStates

\* Timers, events, drains and waiters are not on the books.
LEMMA BooksFacts ==
    ASSUME NEW c \in Connection, NEW t \in TimerNames, NEW ev \in LifecycleEvents, NEW rid \in Ids
    PROVE  /\ SameBooks(Arm(c, t), c)
           /\ SameBooks(Disarm(c, t), c)
           /\ SameBooks(Publish(c, ev), c)
           /\ SameBooks(DrainRequests(c), c)
           /\ SameBooks(Ask(c, rid), c)
           /\ SameBooks(JoinConnect(c, rid), c)
           /\ SameBooks(JoinReconnect(c, rid), c)
           /\ SameBooks(LatchClose(c, rid), c)
           /\ SameBooks(ClosingClose(c, rid), c)
<1>1. SameBooks(Arm(c, t), c) /\ SameBooks(Disarm(c, t), c)
  BY DEF SameBooks, Arm, Disarm, Connection
<1>2. SameBooks(Publish(c, ev), c)
  <2>1. Publish(c, ev) \in Connection
    BY PublishFacts
  <2> QED  BY <2>1 DEF SameBooks, Publish, Connection
<1>3. SameBooks(DrainRequests(c), c)
  BY DEF SameBooks, DrainRequests, Connection
<1>4. /\ SameBooks(Ask(c, rid), c)
      /\ SameBooks(JoinConnect(c, rid), c)
      /\ SameBooks(JoinReconnect(c, rid), c)
  BY ZenonT(60) DEF SameBooks, Ask, JoinConnect, JoinReconnect, Connection, Opt
<1>5. SameBooks(LatchClose(c, rid), c) /\ SameBooks(ClosingClose(c, rid), c)
  BY DEF SameBooks, LatchClose, ClosingClose, Connection, Opt
<1> QED  BY <1>1, <1>2, <1>3, <1>4, <1>5

\* clear_subscribe_ack_state, and the two teardowns that call it.
LEMMA TeardownEmptied ==
    ASSUME NEW c, Safe(c)
    PROVE  /\ Emptied(ClearSubscribeAckState(c))
           /\ Emptied(ExitHandshakeTeardown(c))
           /\ Emptied(ExitOpenTeardown(c))
<1>1. ASSUME NEW d \in Connection PROVE Emptied(ClearSubscribeAckState(d))
  <2>1. ClearSubscribeAckState(d) \in Connection
    BY ClearFacts DEF SameCore
  <2> QED  BY <2>1 DEF Emptied, ClearSubscribeAckState, Connection
<1>2. Emptied(ExitHandshakeTeardown(c))
  <2> DEFINE s == [c EXCEPT !.socket = FALSE]
             t == Disarm(s, "staleness")
             u == ClearSubscribeAckState(t)
  <2>1. s \in Connection
    BY DEF Safe, Connection
  <2> HIDE DEF s
  <2>2. t \in Connection
    BY <2>1, ArmFacts DEF SameCore, TimerNames
  <2> HIDE DEF t
  <2>3. Emptied(u)
    BY <1>1, <2>2
  <2> HIDE DEF u
  <2>4. Emptied(DrainRequests(u))
    BY <2>3 DEF Emptied, DrainRequests, Connection
  <2> QED  BY <2>4 DEF ExitHandshakeTeardown, u, t, s
<1>3. Emptied(ExitOpenTeardown(c))
  <2> DEFINE r == DrainRequests(c)
             s == [r EXCEPT !.socket = FALSE]
             t == Disarm(s, "staleness")
  <2>1. r \in Connection
    BY DrainFacts DEF Safe
  <2> HIDE DEF r
  <2>2. s \in Connection
    BY <2>1 DEF Connection
  <2> HIDE DEF s
  <2>3. t \in Connection
    BY <2>2, ArmFacts DEF SameCore, TimerNames
  <2> HIDE DEF t
  <2> QED  BY <1>1, <2>3 DEF ExitOpenTeardown, t, s, r
<1> QED  BY <1>1, <1>2, <1>3 DEF Safe

\* A change of state that is neither a session's nor on the books.
LEMMA EmptiedMoves ==
    ASSUME NEW c, Emptied(c), NEW st \in States
    PROVE  LET d == [c EXCEPT !.state = st] IN Emptied(d) /\ d.state = st
  BY DEF Emptied, Connection

\* emit_connection_failed is not on the books.
LEMMA FailQuiet ==
    ASSUME NEW c, Drained(c), Emptied(c)
    PROVE  Quiet(Fail(c))
<1> DEFINE d == [c EXCEPT !.state = "Failed"]
           p == Publish(d, "failed")
           e == [p EXCEPT !.pending_connect = {}, !.additional_connect = {},
                          !.asked_connect = @ \ (d.pending_connect \union d.additional_connect)]
<1>1. Emptied(d) /\ d.state = "Failed"
  BY EmptiedMoves DEF States
<1>2. Fail(c) = e /\ Fail(c) \in Connection
  BY FailSafe DEF Fail, EmitConnectionFailed, Safe
<1> HIDE DEF d
<1>3. Emptied(p) /\ p.state = "Failed"
  <2>1. p \in Connection
    BY <1>1, PublishFacts DEF Emptied, LifecycleEvents
  <2> QED  BY <1>1, <2>1 DEF Emptied, Publish, Connection
<1> HIDE DEF p
<1>4. /\ e.state = "Failed" /\ e.ack_timeouts = {} /\ e.resend_due = {}
      /\ ~e.awaiting_token_refresh
  BY <1>3 DEF Emptied, Connection
<1> HIDE DEF e
<1> QED  BY <1>2, <1>4 DEF Quiet, Emptied, SessionStates

\* Entering BackingOff or Connecting with empty books.
LEMMA EnterQuiet ==
    ASSUME NEW c, Emptied(c), NEW t \in TimerNames, NEW ev \in LifecycleEvents
    PROVE  /\ Quiet(Publish(Arm([c EXCEPT !.state = "BackingOff"], t), ev))
           /\ Quiet(EnterConnecting(c))
<1>1. ASSUME NEW d, Emptied(d), d.state \in {"BackingOff", "Connecting"},
             NEW u \in TimerNames, NEW w \in LifecycleEvents
      PROVE  Quiet(Publish(Arm(d, u), w))
  <2> DEFINE e == Arm(d, u)
  <2>1. SameBooks(e, d)
    BY <1>1 DEF Emptied, SameBooks, Arm, Connection
  <2> HIDE DEF e
  <2>2. Publish(e, w) \in Connection
    BY <2>1, PublishFacts DEF SameBooks
  <2>3. SameBooks(Publish(e, w), e)
    BY <2>1, <2>2 DEF SameBooks, Publish, Connection
  <2> QED  BY <1>1, <2>1, <2>3 DEF e, SameBooks, Quiet, Emptied, SessionStates
<1>2. Quiet(Publish(Arm([c EXCEPT !.state = "BackingOff"], t), ev))
  BY <1>1, EmptiedMoves DEF States
<1>3. Quiet(EnterConnecting(c))
  <2> DEFINE d == [c EXCEPT !.state = "Connecting", !.socket = TRUE, !.opened = TRUE]
  <2>1. Emptied(d) /\ d.state = "Connecting"
    BY DEF Emptied, Connection, States
  <2> HIDE DEF d
  <2> QED  BY <1>1, <2>1 DEF EnterConnecting, d, TimerNames, LifecycleEvents
<1> QED  BY <1>2, <1>3

\* Both outcomes of a consultation of the rate budget, with empty books.
LEMMA ConnectOrThrottleQuiet ==
    ASSUME NEW c, Emptied(c), NEW admit
    PROVE  Quiet(ConnectOrThrottle(c, admit)) /\ Quiet(Throttle(c))
<1>1. Quiet(Throttle(c)) /\ Quiet(EnterConnecting(c))
  BY EnterQuiet DEF Throttle, TimerNames, LifecycleEvents
<1> QED  BY <1>1 DEF ConnectOrThrottle

\* The transient end of an attempt or a torn session.
LEMMA BackOffQuiet ==
    ASSUME NEW c, Drained(c), Emptied(c), NEW ev \in LifecycleEvents
    PROVE  Quiet(BackOff(c, ev))
<1>1. CASE CapExhausted(c)
  <2> DEFINE d == [c EXCEPT !.socket = FALSE, !.timers = @ \ {"staleness", "upgrade"}]
  <2>1. Drained(d) /\ Emptied(d)
    BY DEF Drained, Emptied, Connection
  <2> HIDE DEF d
  <2> QED  BY <1>1, <2>1, FailQuiet DEF BackOff, Escalate, d
<1>2. CASE ~CapExhausted(c)
  BY <1>2, EnterQuiet DEF BackOff, TimerNames
<1> QED  BY <1>1, <1>2

\* A session torn down.
LEMMA TeardownQuiet ==
    ASSUME NEW c, Safe(c), NEW ev \in LifecycleEvents
    PROVE  /\ Quiet(BackOff(ExitHandshakeTeardown(c), ev))
           /\ Quiet(Fail(ExitHandshakeTeardown(c)))
           /\ Quiet(BackOff(ExitOpenTeardown(c), ev))
           /\ Quiet(Fail(ExitOpenTeardown(c)))
<1>1. /\ Drained(ExitHandshakeTeardown(c)) /\ Emptied(ExitHandshakeTeardown(c))
      /\ Drained(ExitOpenTeardown(c)) /\ Emptied(ExitOpenTeardown(c))
  BY HandshakeTeardownDrained, OpenTeardownDrained, TeardownEmptied DEF Safe
<1> QED  BY <1>1, BackOffQuiet, FailQuiet

\* An exhausted subscribe budget forgets the books.
LEMMA BudgetExhaustedQuiet ==
    ASSUME NEW c, Safe(c)
    PROVE  Quiet(SubscribeBudgetExhausted(c))
<1>1. Emptied(ExitHandshakeTeardown(c))
  BY TeardownEmptied
<1>2. Quiet(Publish(Arm([ExitHandshakeTeardown(c) EXCEPT !.state = "BackingOff"], "backoff"),
                    "attempt_failed"))
  BY <1>1, EnterQuiet DEF TimerNames, LifecycleEvents
<1> QED  BY <1>2, TeardownQuiet DEF SubscribeBudgetExhausted, LifecycleEvents

\* Both exits of Closing, with empty books.
LEMMA EnterClosedOrReconnectQuiet ==
    ASSUME NEW c, Safe(c), Quiet(c), NEW admit
    PROVE  Quiet(EnterClosedOrReconnect(c, admit))
<1> DEFINE x == Disarm(c, "close")
           f == DrainRequests(x)
           g == IF CloseWaiters(x) # {} THEN Publish(f, "closed") ELSE f
           y == ForgetCloseWaiters(g)
           d == [y EXCEPT !.pending_reconnect = {}]
           w == [d EXCEPT !.attempt_count = 0]
           rid == CHOOSE r \in c.pending_reconnect : TRUE
           v == [w EXCEPT !.socket = FALSE, !.pending_connect = {rid}]
           z == [d EXCEPT !.state = "Closed", !.socket = FALSE]
<1>0. EnterClosedOrReconnect(c, admit) =
          IF c.pending_reconnect = {} THEN z ELSE ConnectOrThrottle(v, admit)
  BY DEF EnterClosedOrReconnect, AnswerCloseCohort, ReenterConnecting
<1>1. Emptied(x)
  BY DEF Quiet, Emptied, Disarm, Connection
<1> HIDE DEF x
<1>2. Emptied(f)
  BY <1>1 DEF Emptied, DrainRequests, Connection
<1> HIDE DEF f
<1>3. Emptied(g)
  <2>1. Publish(f, "closed") \in Connection
    BY <1>2, PublishFacts DEF Emptied, LifecycleEvents
  <2>2. Emptied(Publish(f, "closed"))
    BY <1>2, <2>1 DEF Emptied, Publish, Connection
  <2> QED  BY <1>2, <2>2
<1> HIDE DEF g
<1>4. Emptied(y)
  <2>1. y \in Connection
    BY <1>3, ForgetCloseWaitersFacts DEF Emptied, SameCore
  <2> QED  BY <1>3, <2>1 DEF Emptied, ForgetCloseWaiters, Connection
<1> HIDE DEF y
<1>5. Emptied(d)
  BY <1>4 DEF Emptied, Connection, Opt
<1> HIDE DEF d
<1>6. Quiet(z)
  BY <1>5 DEF Emptied, Quiet, Connection, States, SessionStates
<1>7. c.pending_reconnect # {} => Quiet(ConnectOrThrottle(v, admit))
  <2> SUFFICES ASSUME c.pending_reconnect # {} PROVE Quiet(ConnectOrThrottle(v, admit))
    OBVIOUS
  <2>1. rid \in Ids /\ 0 \in 0..CountMax
    BY ConnectionAssumption DEF Safe, Connection, Opt
  <2> HIDE DEF rid
  <2>2. Emptied(w)
    BY <1>5, <2>1 DEF Emptied, Connection
  <2> HIDE DEF w
  <2>3. Emptied(v)
    BY <2>1, <2>2 DEF Emptied, Connection, Opt
  <2> HIDE DEF v
  <2> QED  BY <2>3, ConnectOrThrottleQuiet
<1> QED  BY <1>0, <1>6, <1>7

\* CallStartConnect of an idle connection.
LEMMA CallStartConnectQuiet ==
    ASSUME NEW c, Quiet(c), NEW rid \in Ids, NEW admit
    PROVE  Quiet(CallStartConnect(c, rid, admit))
<1>1. CASE c.state = "Idle"
  <2> DEFINE n == IF admit THEN SaturatingIncrement(c.attempt_count) ELSE c.attempt_count
             d == [c EXCEPT !.pending_connect = {rid}, !.attempt_count = n]
  <2>1. n \in 0..CountMax
    BY IncrementType DEF Quiet, Emptied, Connection
  <2>2. CallStartConnect(c, rid, admit) = ConnectOrThrottle(d, admit)
    BY <1>1 DEF CallStartConnect
  <2> HIDE DEF n
  <2>3. Emptied(d)
    BY <2>1 DEF Quiet, Emptied, Connection, Opt
  <2> HIDE DEF d
  <2> QED  BY <2>2, <2>3, ConnectOrThrottleQuiet
<1>2. CASE c.state # "Idle"
  BY <1>2 DEF CallStartConnect
<1> QED  BY <1>1, <1>2

\* Every way into Closing forgets the books of a session.
LEMMA EnterClosingQuiet ==
    ASSUME NEW c, Safe(c)
    PROVE  Quiet(EnterClosing(c))
<1> DEFINE x == ClearSubscribeAckState(c)
           d == [x EXCEPT !.state = "Closing"]
           e == Disarm(d, "staleness")
<1>1. Emptied(x)
  BY TeardownEmptied
<1> HIDE DEF x
<1>2. Emptied(d) /\ d.state = "Closing"
  BY <1>1, EmptiedMoves DEF States
<1> HIDE DEF d
<1>3. SameBooks(e, d)
  BY <1>2 DEF Emptied, SameBooks, Disarm, Connection
<1> HIDE DEF e
<1>4. SameBooks(Arm(e, "close"), e)
  BY <1>3 DEF SameBooks, Arm, Connection, TimerNames
<1>5. EnterClosing(c) = Arm(e, "close")
  BY DEF EnterClosing, e, d, x
<1> QED  BY <1>2, <1>3, <1>4, <1>5 DEF SameBooks, Quiet, Emptied, SessionStates

\* close() leaves no session and no books.
LEMMA CallCloseQuiet ==
    ASSUME NEW c, Safe(c), c.state \notin SessionStates => Quiet(c), NEW rid \in Ids
    PROVE  Quiet(CallClose(c, rid))
<1>0. c \in Connection /\ c.state \in States
  BY DEF Safe, Connection
<1>1. CASE c.state \in {"Idle", "BackingOff", "Failed"}
  <2> DEFINE d == [c EXCEPT !.state = "Closed"]
  <2>1. Emptied(d) /\ d.state = "Closed"
    BY <1>1, EmptiedMoves DEF Quiet, States, SessionStates
  <2> HIDE DEF d
  <2>2. Publish(d, "closed") \in Connection
    BY <2>1, PublishFacts DEF Emptied, LifecycleEvents
  <2>3. Quiet(Publish(d, "closed"))
    BY <2>1, <2>2 DEF Quiet, Emptied, Publish, Connection, SessionStates
  <2> QED  BY <1>1, <2>3 DEF CallClose, CloseAtOnce, d
<1>2. CASE c.state = "Connecting"
  <2> DEFINE d == [c EXCEPT !.state = "Closing"]
             e == Disarm(d, "upgrade")
             f == Arm(e, "close")
  <2>1. Emptied(d) /\ d.state = "Closing"
    BY <1>2, EmptiedMoves DEF Quiet, States, SessionStates
  <2>2. Quiet(d)
    BY <2>1 DEF Quiet, SessionStates
  <2> HIDE DEF d
  <2>3. Quiet(e)
    BY <2>2, BooksFacts, SameBooksFiled DEF Quiet, Emptied, TimerNames, LifecycleEvents
  <2> HIDE DEF e
  <2>4. Quiet(f)
    BY <2>3, BooksFacts, SameBooksFiled DEF Quiet, Emptied, TimerNames, LifecycleEvents
  <2> HIDE DEF f
  <2>5. Quiet(LatchClose(f, rid))
    BY <2>4, BooksFacts, SameBooksFiled DEF Quiet, Emptied, TimerNames, LifecycleEvents
  <2> QED  BY <1>2, <2>5 DEF CallClose, ConnectingClose, d, e, f
<1>3. CASE c.state \in SessionStates
  <2> DEFINE d == IF c.state = "Open" THEN DrainRequests(c) ELSE c
             e == EnterClosing(d)
  <2>1. Safe(d)
    BY <1>0, <1>3, DrainFacts DEF Safe, SessionStates
  <2>2. CallClose(c, rid) = LatchClose(e, rid)
    BY <1>3 DEF CallClose, AuthenticatingClose, ResubscribingClose, OpenClose, SessionStates
  <2> HIDE DEF d
  <2>3. Quiet(e)
    BY <2>1, EnterClosingQuiet
  <2> HIDE DEF e
  <2>4. Quiet(LatchClose(e, rid))
    BY <2>3, BooksFacts, SameBooksFiled DEF Quiet, Emptied, TimerNames, LifecycleEvents
  <2> QED  BY <2>2, <2>4
<1>4. CASE c.state = "Closing"
  <2>1. Quiet(ClosingClose(c, rid))
    BY <1>0, <1>4, BooksFacts, SameBooksFiled DEF TimerNames, LifecycleEvents, SessionStates
  <2> QED  BY <1>4, <2>1 DEF CallClose
<1>5. CASE c.state = "Closed"
  BY <1>5 DEF CallClose, SessionStates
<1> QED  BY <1>0, <1>1, <1>2, <1>3, <1>4, <1>5 DEF States, SessionStates

\* force_reconnect() leaves no session and no books.
LEMMA CallForceReconnectQuiet ==
    ASSUME NEW c, Safe(c), c.state \notin SessionStates => Quiet(c), NEW rid \in Ids, NEW admit
    PROVE  Quiet(CallForceReconnect(c, rid, admit))
<1>0. c \in Connection /\ c.state \in States /\ 0 \in 0..CountMax
  BY ConnectionAssumption DEF Safe, Connection
<1>a. ASSUME NEW d, Quiet(d)
      PROVE  /\ Quiet(Ask(d, rid))
             /\ Quiet(JoinConnect(d, rid))
             /\ Quiet(JoinReconnect(d, rid))
             /\ Quiet(Disarm(d, "backoff"))
  <2>1. d \in Connection
    BY <1>a DEF Quiet, Emptied
  <2> QED  BY <1>a, <2>1, BooksFacts, SameBooksFiled DEF TimerNames, LifecycleEvents
<1>1. CASE c.state \in {"Idle", "Failed"}
  <2> DEFINE d == [c EXCEPT !.attempt_count = 0, !.pending_connect = {rid}]
             e == ConnectOrThrottle(d, admit)
  <2>1. Emptied(d)
    BY <1>0, <1>1 DEF Quiet, Emptied, Connection, Opt, SessionStates
  <2> HIDE DEF d
  <2>2. Quiet(e)
    BY <2>1, ConnectOrThrottleQuiet
  <2>3. CallForceReconnect(c, rid, admit) = Ask(e, rid)
    BY <1>1 DEF CallForceReconnect, RestartConnect, SessionStates, d
  <2> HIDE DEF e
  <2> QED  BY <1>a, <2>2, <2>3
<1>2. CASE c.state = "Connecting"
  <2> DEFINE d == [c EXCEPT !.attempt_count = 0]
             e == [d EXCEPT !.additional_connect = @ \union {rid}]
  <2>1. SameBooks(d, c)
    BY <1>0 DEF SameBooks, Connection
  <2> HIDE DEF d
  <2>2. SameBooks(e, d)
    BY <2>1 DEF SameBooks, Connection
  <2> HIDE DEF e
  <2>3. Quiet(d) /\ Quiet(e)
    BY <1>2, <2>1, <2>2, SameBooksFiled DEF SessionStates
  <2> QED  BY <1>2, <1>a, <2>3 DEF CallForceReconnect, ConnectingForceReconnect, d, e, SessionStates
<1>3. CASE c.state \in SessionStates
  <2> DEFINE d == IF c.state = "Open" THEN DrainRequests(c) ELSE c
             e == EnterClosing(d)
             f == [e EXCEPT !.pending_reconnect = {rid}]
  <2>1. Safe(d)
    BY <1>0, <1>3, DrainFacts DEF Safe, SessionStates
  <2>2. SessionForceReconnect(c, rid) = Ask(f, rid)
    BY DEF SessionForceReconnect
  <2> HIDE DEF d
  <2>3. Quiet(e)
    BY <2>1, EnterClosingQuiet
  <2> HIDE DEF e
  <2>4. Quiet(f)
    BY <2>3 DEF Quiet, Emptied, Connection, Opt
  <2> HIDE DEF f
  <2> QED  BY <1>3, <1>a, <2>2, <2>4 DEF CallForceReconnect, SessionStates
<1>4. CASE c.state = "BackingOff"
  <2> DEFINE j == JoinConnect(c, rid)
             d == Ask(j, rid)
             e == [d EXCEPT !.attempt_count = 0]
             f == Disarm(e, "backoff")
  <2>1. Quiet(d)
    BY <1>4, <1>a DEF SessionStates
  <2> HIDE DEF d
  <2>2. Quiet(e)
    BY <1>0, <2>1 DEF Quiet, Emptied, Connection
  <2> HIDE DEF e
  <2>3. Quiet(f)
    BY <1>a, <2>2
  <2> HIDE DEF f
  <2>4. Quiet(EnterConnecting(f)) /\ Quiet(Throttle(d))
    BY <2>1, <2>3, EnterQuiet, ConnectOrThrottleQuiet DEF Quiet, TimerNames, LifecycleEvents
  <2>5. Quiet(BackingOffForceReconnect(c, rid, admit))
    BY <2>4 DEF BackingOffForceReconnect, d, e, f
  <2> QED  BY <1>4, <2>5 DEF CallForceReconnect, SessionStates
<1>5. CASE c.state = "Closing"
  BY <1>5, <1>a DEF CallForceReconnect, ClosingForceReconnect, SessionStates
<1>6. CASE c.state = "Closed"
  BY <1>6 DEF CallForceReconnect, SessionStates
<1> QED  BY <1>0, <1>1, <1>2, <1>3, <1>4, <1>5, <1>6 DEF States, SessionStates

\* A handshake starts with empty books.
LEMMA WireUpgradeOkFiled ==
    ASSUME Url = "Auth", NEW c, Quiet(c), c.state = "Connecting"
    PROVE  /\ Emptied(WireUpgradeOk(c))
           /\ WireUpgradeOk(c).state = "Authenticating"
<1> DEFINE d == [c EXCEPT !.state = "Authenticating"]
           e == Disarm(d, "upgrade")
<1>1. Emptied(d) /\ d.state = "Authenticating"
  BY EmptiedMoves DEF Quiet, States
<1> HIDE DEF d
<1>2. SameBooks(e, d)
  BY <1>1 DEF Emptied, SameBooks, Disarm, Connection
<1> HIDE DEF e
<1>3. SameBooks(Arm(e, "staleness"), e)
  BY <1>2 DEF SameBooks, Arm, Connection, TimerNames
<1>4. WireUpgradeOk(c) = Arm(e, "staleness")
  BY DEF WireUpgradeOk, d, e
<1> QED  BY <1>1, <1>2, <1>3, <1>4 DEF SameBooks, Emptied

\* A failed or timed out upgrade.
LEMMA WireUpgradeFailedFiled ==
    ASSUME NEW c, Safe(c), NEW W, NEW R, NEW L, Filed(c, W, R, L), Worked(c),
           NEW transient \in BOOLEAN
    PROVE  /\ Filed(WireUpgradeFailed(c, transient), W, R, L)
           /\ Worked(WireUpgradeFailed(c, transient))
           /\ Filed(TimerUpgradeTimeout(c), W, R, L)
           /\ Worked(TimerUpgradeTimeout(c))
<1> DEFINE d == [c EXCEPT !.socket = FALSE]
           e == Disarm(d, "upgrade")
<1>1. CASE c.state = "Connecting"
  <2>0. Quiet(c)
    BY <1>1 DEF Filed, SessionStates
  <2>1. Drained(d) /\ Emptied(d)
    BY <1>1, <2>0 DEF Safe, Drained, Quiet, Emptied, Connection, SessionStates
  <2> HIDE DEF d
  <2>2. Drained(e) /\ Emptied(e)
    BY <2>1, ArmFacts, BooksFacts, SameCoreSafe, SameBooksFiled
    DEF Drained, TimerNames, LifecycleEvents, Disarm, Emptied, Connection
  <2> HIDE DEF e
  <2>3. Quiet(BackOff(e, "attempt_failed")) /\ Quiet(Fail(e))
    BY <2>2, BackOffQuiet, FailQuiet DEF LifecycleEvents
  <2>4. Quiet(WireUpgradeFailed(c, transient)) /\ Quiet(TimerUpgradeTimeout(c))
    BY <1>1, <2>3 DEF WireUpgradeFailed, TimerUpgradeTimeout, d, e
  <2> QED  BY <2>4, QuietFiled
<1>2. CASE c.state # "Connecting"
  BY <1>2 DEF WireUpgradeFailed, TimerUpgradeTimeout
<1> QED  BY <1>1, <1>2

\* The handshake accepted: what was armed for it is on the wire, and the replay is owed.
LEMMA WireAuthHandshakeOkFiled ==
    ASSUME NEW c, Safe(c), c.state = "Authenticating", NEW W, NEW R, NEW L, Filed(c, W, R, L)
    PROVE  /\ Filed(WireAuthHandshakeOk(c), W, R, {})
           /\ WireAuthHandshakeOk(c).state = "Resubscribing"
<1> DEFINE d == [c EXCEPT !.awaiting_token_refresh = FALSE,
                          !.auth_handshake_fail_count = 0,
                          !.state = "Resubscribing"]
<1>1. d = WireAuthHandshakeOk(c) /\ d \in Connection
  BY WireAuthHandshakeOkSafe DEF WireAuthHandshakeOk, Safe
<1>2. d.state = "Resubscribing" /\ d.ack_timeouts = c.ack_timeouts /\ d.resend_due = c.resend_due
  BY DEF Safe, Connection
<1> HIDE DEF d
<1>3. Filed(d, W, R, {})
  BY <1>1, <1>2 DEF Filed, SessionStates
<1> QED  BY <1>1, <1>2, <1>3

\* enter_open keeps the books of a session.
LEMMA EnterOpenBooks ==
    ASSUME NEW c, Safe(c), c.state \in SessionStates
    PROVE  /\ EnterOpen(c) \in Connection
           /\ EnterOpen(c).state = "Open"
           /\ EnterOpen(c).ack_timeouts = c.ack_timeouts
           /\ EnterOpen(c).resend_due = c.resend_due
           /\ EnterOpen(c).deferred = c.deferred
           /\ EnterOpen(c).awaiting_token_refresh = c.awaiting_token_refresh
<1>1. EnterOpen(c) \in Connection
  BY EnterOpenSafe DEF Safe
<1> QED  BY <1>1 DEF EnterOpen, Publish, Arm, Safe, Connection

\* A bare order accepted with no live entry.
LEMMA WireOrderAuthOkFiled ==
    ASSUME NEW c, Safe(c), c.state = "Authenticating", NEW W, NEW R
    PROVE  Filed(WireOrderAuthOk(c), W, R, {}) /\ Worked(WireOrderAuthOk(c))
<1> DEFINE d == [c EXCEPT !.auth_handshake_fail_count = 0]
           e == ClearSubscribeAckState(d)
<1>1. SameCore(d, c)
  BY ConnectionAssumption DEF Safe, SameCore, Connection
<1>2. WireOrderAuthOk(c) = EnterOpen(e)
  BY DEF WireOrderAuthOk
<1> HIDE DEF d
<1>3. Safe(d) /\ SameCore(e, d) /\ Emptied(e)
  BY <1>1, SameCoreSafe, ClearFacts, TeardownEmptied DEF SameCore
<1> HIDE DEF e
<1>4. Safe(e) /\ e.state \in SessionStates
  BY <1>1, <1>3, SameCoreSafe DEF SameCore, SessionStates
<1> QED  BY <1>2, <1>3, <1>4, EnterOpenBooks DEF Emptied, Filed, Worked, SessionStates

\* A refused or failed handshake.
LEMMA WireAuthHandshakeFailedFiled ==
    ASSUME NEW c, Safe(c), NEW W, NEW R, NEW L, Filed(c, W, R, L), Worked(c),
           NEW kind \in AuthErrorKinds
    PROVE  /\ Filed(WireAuthHandshakeFailed(c, kind), W, R, L)
           /\ Worked(WireAuthHandshakeFailed(c, kind))
           /\ c.state = "Authenticating" => WireAuthHandshakeFailed(c, kind).state # "Resubscribing"
<1>1. CASE c.state # "Authenticating"
  BY <1>1 DEF WireAuthHandshakeFailed
<1>2. Quiet(HandshakeRefused(c)) /\ Quiet(HandshakeTransient(c))
  BY TeardownQuiet DEF HandshakeRefused, HandshakeTransient, LifecycleEvents
<1>3. CASE c.state = "Authenticating"
  <2> DEFINE n == SaturatingIncrement(c.auth_handshake_fail_count)
             m == SaturatingIncrement(c.attempt_count)
             d == [c EXCEPT !.auth_handshake_fail_count = n]
             e == [d EXCEPT !.awaiting_token_refresh = TRUE, !.attempt_count = m]
  <2>1. n \in 0..CountMax /\ m \in 0..CountMax
    BY IncrementType DEF Safe, Connection
  <2>2. d.attempt_count = c.attempt_count /\ c \in Connection
    BY DEF Safe, Connection
  <2> HIDE DEF n, m
  <2>3. SameCore(d, c) /\ SameBooks(d, c)
    BY <2>1, <2>2 DEF SameCore, SameBooks, Connection
  <2> HIDE DEF d
  <2>4. /\ e \in Connection /\ e.state = d.state
        /\ e.ack_timeouts = d.ack_timeouts /\ e.resend_due = d.resend_due /\ e.deferred = d.deferred
    BY <2>1, <2>3 DEF SameCore, Connection
  <2>5. e = [d EXCEPT !.awaiting_token_refresh = TRUE, !.attempt_count = SaturatingIncrement(@)]
    BY <2>2 DEF m
  <2> HIDE DEF e
  <2>6. Filed(e, W, R, L) /\ Worked(e) /\ e.state # "Resubscribing"
    BY <1>3, <2>3, <2>4 DEF SameBooks, Filed, Worked, SessionStates
  <2>7. Quiet(Fail(ExitHandshakeTeardown(d)))
    BY <2>3, SameCoreSafe, TeardownQuiet DEF LifecycleEvents
  <2>8. Quiet(HandshakeTokenStale(c)) \/ HandshakeTokenStale(c) = e
    BY <2>5, <2>7 DEF HandshakeTokenStale, d, n
  <2>9. WireAuthHandshakeFailed(c, kind) \in {HandshakeTokenStale(c), HandshakeRefused(c), HandshakeTransient(c)}
    BY <1>3 DEF WireAuthHandshakeFailed
  <2> QED  BY <1>2, <2>6, <2>8, <2>9, QuietFiled DEF Quiet, SessionStates
<1> QED  BY <1>1, <1>3

\* Refresh outcomes and a stale order ack.
LEMMA BusTokenRefreshFiled ==
    ASSUME NEW c, Safe(c), NEW W, NEW R, NEW L, Filed(c, W, R, L), Worked(c),
           NEW retryable \in BOOLEAN
    PROVE  /\ Filed(BusTokenRefreshed(c), W, R, L) /\ Worked(BusTokenRefreshed(c))
           /\ Filed(BusTokenRefreshFailed(c, retryable), W, R, L)
           /\ Worked(BusTokenRefreshFailed(c, retryable))
           /\ Filed(WireOrderAckTokenStale(c), W, R, L) /\ Worked(WireOrderAckTokenStale(c))
<1>1. ASSUME NEW b \in BOOLEAN, c.state \in SessionStates
      PROVE  LET d == [c EXCEPT !.awaiting_token_refresh = b] IN Filed(d, W, R, L) /\ Worked(d)
  <2> DEFINE d == [c EXCEPT !.awaiting_token_refresh = b]
  <2>1. /\ d \in Connection /\ d.state = c.state
        /\ d.ack_timeouts = c.ack_timeouts /\ d.resend_due = c.resend_due /\ d.deferred = c.deferred
    BY DEF Safe, Connection
  <2> HIDE DEF d
  <2>2. Filed(d, W, R, L) /\ Worked(d)
    BY <1>1, <2>1 DEF Filed, Worked
  <2> QED  BY <2>2 DEF d
<1>2. Quiet(AuthenticatingRefreshFailed(c, retryable))
  BY TeardownQuiet DEF AuthenticatingRefreshFailed, LifecycleEvents
<1>3. Filed(AuthenticatingRefreshFailed(c, retryable), W, R, L) /\ Worked(AuthenticatingRefreshFailed(c, retryable))
  BY <1>2, QuietFiled
<1>4. Filed(BusTokenRefreshed(c), W, R, L) /\ Worked(BusTokenRefreshed(c))
  BY <1>1 DEF BusTokenRefreshed
<1>5. /\ Filed(BusTokenRefreshFailed(c, retryable), W, R, L)
      /\ Worked(BusTokenRefreshFailed(c, retryable))
  BY <1>1, <1>3 DEF BusTokenRefreshFailed, SessionStates
<1>6. Filed(WireOrderAckTokenStale(c), W, R, L) /\ Worked(WireOrderAckTokenStale(c))
  BY <1>1 DEF WireOrderAckTokenStale, SessionStates
<1> QED  BY <1>4, <1>5, <1>6

\* An entry that is on the wire, or no longer live, may leave the books.
LEMMA DisarmFiled ==
    ASSUME NEW c, NEW W, NEW R, NEW L, Filed(c, W, R, L), NEW k \in Keys, k \in W \/ k \notin L
    PROVE  Filed(DisarmSubscribeAck(c, k), W, R, L) /\ Filed(RemoveDeferred(c, k), W, R, L)
<1>0. c \in Connection
  BY DEF Filed
<1> DEFINE d == DisarmSubscribeAck(c, k)
           e == RemoveDeferred(c, k)
<1>1. /\ d \in Connection /\ d.state = c.state /\ d.awaiting_token_refresh = c.awaiting_token_refresh
      /\ d.ack_timeouts = c.ack_timeouts \ {k} /\ d.resend_due = c.resend_due \ {k}
      /\ d.deferred = c.deferred
  <2>1. d \in Connection
    BY <1>0, DisarmSubscribeAckFacts DEF SameCore
  <2> QED  BY <1>0, <2>1 DEF DisarmSubscribeAck, Connection
<1>2. /\ e \in Connection /\ e.state = c.state /\ e.awaiting_token_refresh = c.awaiting_token_refresh
      /\ e.ack_timeouts = c.ack_timeouts /\ e.resend_due = c.resend_due
      /\ e.deferred = c.deferred \ {k}
  BY <1>0 DEF RemoveDeferred, Connection
<1> HIDE DEF d, e
<1>3. Filed(d, W, R, L)
  BY <1>1 DEF Filed, Quiet, Emptied
<1>4. Filed(e, W, R, L)
  BY <1>2 DEF Filed, Quiet, Emptied
<1> QED  BY <1>3, <1>4 DEF d, e

\* complete_resubscribe_if_empty leaves Resubscribing only with work.
LEMMA CompleteFiled ==
    ASSUME NEW c, Safe(c), NEW W, NEW R, NEW L, Filed(c, W, R, L)
    PROVE  /\ Filed(CompleteResubscribeIfEmpty(c), W, R, L)
           /\ Worked(CompleteResubscribeIfEmpty(c))
<1>1. CASE c.state = "Resubscribing" /\ c.ack_timeouts = {} /\ c.resend_due = {}
  <2>1. CompleteResubscribeIfEmpty(c) = EnterOpen(c)
    BY <1>1 DEF CompleteResubscribeIfEmpty
  <2> QED  BY <1>1, <2>1, EnterOpenBooks DEF Filed, Worked, SessionStates
<1>2. CASE ~(c.state = "Resubscribing" /\ c.ack_timeouts = {} /\ c.resend_due = {})
  <2>1. CompleteResubscribeIfEmpty(c) = c
    BY <1>2 DEF CompleteResubscribeIfEmpty
  <2> QED  BY <1>2, <2>1 DEF Worked
<1> QED  BY <1>1, <1>2

\* A transient failure of k puts it on the resend list, or gives the session up.
LEMMA SubscribeFailureFiled ==
    ASSUME NEW c, Safe(c), c.state \in SessionStates, NEW W, NEW R, NEW L, NEW k \in Keys, k \in R,
           Filed(c, W, R, L \ {k})
    PROVE  /\ Filed(HandleSubscribeFailure(c, k, TRUE), W, R, L)
           /\ Worked(HandleSubscribeFailure(c, k, TRUE))
<1> DEFINE left == AttemptsLeft(c, k)
           S == IF left > 0 THEN c.resend_due \union {k} ELSE c.resend_due \ {k}
           f == [c.ack_attempts EXCEPT ![k] = left]
           d == [c EXCEPT !.ack_timeouts = @ \ {k}, !.resend_due = S, !.ack_attempts = f]
<1>1. c \in Connection /\ left \in 0..SubscribeAckAttempts
  BY AttemptsLeftType DEF Safe
<1> HIDE DEF left
<1>2. S \in SUBSET Keys /\ f \in [Keys -> {Absent} \union (0..SubscribeAckAttempts)]
  BY <1>1 DEF Connection
<1>3. [c EXCEPT !.ack_timeouts = @ \ {k},
                !.resend_due = IF left > 0 THEN @ \union {k} ELSE @ \ {k},
                !.ack_attempts[k] = left] = d
  OBVIOUS
<1>a. left > 0 => S = c.resend_due \union {k}
  OBVIOUS
<1> HIDE DEF S, f
<1>4. SameCore(d, c)
  BY <1>1, <1>2 DEF SameCore, Connection
<1>5. /\ d \in Connection /\ d.state = c.state /\ d.ack_timeouts = c.ack_timeouts \ {k}
      /\ d.resend_due = S /\ d.deferred = c.deferred
  BY <1>1, <1>4 DEF SameCore, Connection
<1> HIDE DEF d
<1>6. CASE left > 0
  <2>1. HandleSubscribeFailure(c, k, TRUE) = d
    BY <1>3, <1>6 DEF HandleSubscribeFailure, left
  <2>2. Filed(d, W, R, L) /\ Worked(d)
    BY <1>5, <1>6, <1>a DEF Filed, Worked
  <2> QED  BY <2>1, <2>2
<1>7. CASE ~(left > 0)
  <2>1. HandleSubscribeFailure(c, k, TRUE) = SubscribeBudgetExhausted(d)
    BY <1>3, <1>7 DEF HandleSubscribeFailure, left
  <2>2. Quiet(SubscribeBudgetExhausted(d))
    BY <1>4, SameCoreSafe, BudgetExhaustedQuiet
  <2> QED  BY <2>1, <2>2, QuietFiled
<1> QED  BY <1>6, <1>7

\* The end of the socket leaves no session and no books.
LEMMA WireCloseReceivedQuiet ==
    ASSUME NEW c, Safe(c), c.state \notin SessionStates => Quiet(c), NEW policy \in BOOLEAN, NEW admit
    PROVE  Quiet(WireCloseReceived(c, policy, admit))
<1>1. /\ Quiet(AuthenticatingClosed(c, policy))
      /\ Quiet(ResubscribingClosed(c, policy))
      /\ Quiet(OpenClosed(c, policy))
  BY TeardownQuiet
  DEF AuthenticatingClosed, ResubscribingClosed, OpenClosed, LifecycleEvents
<1>2. c.state = "Closing" => Quiet(EnterClosedOrReconnect(c, admit))
  BY EnterClosedOrReconnectQuiet DEF SessionStates
<1> QED  BY <1>1, <1>2 DEF WireCloseReceived, SessionStates

\* What a weaker or a changed account still says.
LEMMA FiledMoves ==
    ASSUME NEW c, NEW W, NEW R, NEW L, Filed(c, W, R, L), NEW V, NEW Q, NEW M
    PROVE  /\ W \subseteq V /\ R \subseteq Q /\ M \subseteq L \union V => Filed(c, V, Q, M)
           /\ c.state \notin {"Resubscribing", "Open"} => Filed(c, W, R, M)
  BY DEF Filed

\* The same for the whole connection: outside a session the books are empty.
LEMMA FiledFacts ==
    ASSUME NEW c, NEW W, NEW R, NEW L, Filed(c, W, R, L)
    PROVE  /\ c.state \notin SessionStates => Quiet(c)
           /\ \A k \in c.ack_timeouts : c.state \in SessionStates /\ k \in W /\ k \in R
           /\ \A k \in c.resend_due : c.state \in SessionStates /\ k \in R
  BY DEF Filed, Quiet, Emptied

\* The ack of k, armed or the last one armed.
LEMMA WireSubscribeAckFiled ==
    ASSUME NEW c, Safe(c), NEW W, NEW R, NEW L, Filed(c, W, R, L), NEW k \in Keys, k \in W,
           k \in c.ack_timeouts, c.state # "Authenticating"
    PROVE  /\ Filed(WireSubscribeAck(c, k, c.ack_timeouts = {k}), W, R, L)
           /\ Worked(WireSubscribeAck(c, k, c.ack_timeouts = {k}))
<1> DEFINE z == DisarmSubscribeAck(c, k)
           last == c.ack_timeouts = {k}
           d == WireSubscribeAck(c, k, last)
<1>0. c \in Connection /\ c.state \in {"Resubscribing", "Open"}
  BY FiledFacts DEF Safe, SessionStates
<1>1. Filed(z, W, R, L) /\ Safe(z)
  BY <1>0, DisarmFiled, DisarmSubscribeAckFacts, SameCoreSafe
<1>2. z.state = c.state /\ z.ack_timeouts = c.ack_timeouts \ {k}
  BY <1>0 DEF DisarmSubscribeAck, Connection
<1>3. last \in BOOLEAN /\ (~last => c.ack_timeouts \ {k} # {})
  OBVIOUS
<1>4. CASE last /\ c.state = "Resubscribing"
  <2>1. d = EnterOpen(z)
    BY <1>4 DEF WireSubscribeAck
  <2> HIDE DEF d, z
  <2> QED  BY <1>1, <1>2, <1>4, <2>1, EnterOpenBooks DEF d, last, Filed, Worked, SessionStates
<1>5. CASE ~last \/ c.state = "Open"
  <2>1. d = z
    BY <1>0, <1>5 DEF WireSubscribeAck
  <2>2. Worked(z)
    BY <1>2, <1>3, <1>5 DEF Worked
  <2> HIDE DEF d, z
  <2> QED  BY <1>1, <2>1, <2>2 DEF d, last
<1> QED  BY <1>0, <1>3, <1>4, <1>5

\* A failed subscribe of k in a session, transient or not.
LEMMA WireSubscribeFailedFiled ==
    ASSUME NEW c, Safe(c), NEW W, NEW R, NEW L, Filed(c, W, R, L), Worked(c), NEW k \in Keys,
           k \in R, NEW transient \in BOOLEAN, ~transient => k \notin L
    PROVE  /\ Filed(WireSubscribeFailed(c, k, transient), W, R, L)
           /\ Worked(WireSubscribeFailed(c, k, transient))
<1>1. CASE c.state \notin {"Resubscribing", "Open"}
  BY <1>1 DEF WireSubscribeFailed
<1>2. CASE c.state \in {"Resubscribing", "Open"} /\ transient
  <2>1. Filed(c, W, R, L \ {k})
    BY FiledMoves
  <2> QED  BY <1>2, <2>1, SubscribeFailureFiled DEF WireSubscribeFailed, SessionStates
<1>3. CASE c.state \in {"Resubscribing", "Open"} /\ ~transient
  <2> DEFINE z == DisarmSubscribeAck(c, k)
  <2>1. Filed(z, W, R, L) /\ Safe(z)
    BY <1>3, DisarmFiled, DisarmSubscribeAckFacts, SameCoreSafe DEF Safe
  <2>2. WireSubscribeFailed(c, k, transient) = CompleteResubscribeIfEmpty(z)
    BY <1>3 DEF WireSubscribeFailed, HandleSubscribeFailure, SubscribeTerminated
  <2> HIDE DEF z
  <2> QED  BY <2>1, <2>2, CompleteFiled
<1> QED  BY <1>1, <1>2, <1>3

\* Timers popped and dispatched; their own timer is not on the books.
LEMMA PoppedTimersFiled ==
    ASSUME NEW c, Safe(c), NEW W, NEW R, NEW L, Filed(c, W, R, L), Worked(c), NEW admit
    PROVE  /\ Filed(TimerBackoffElapsed(c, admit), W, R, L)
           /\ Worked(TimerBackoffElapsed(c, admit))
           /\ Filed(TimerRateBudgetWindowAdvanced(c, admit), W, R, L)
           /\ Worked(TimerRateBudgetWindowAdvanced(c, admit))
           /\ Filed(TimerCloseTimeout(c, admit), W, R, L)
           /\ Worked(TimerCloseTimeout(c, admit))
           /\ Filed(TimerStalenessElapsed(c), W, R, L)
           /\ Worked(TimerStalenessElapsed(c))
<1>1. ASSUME NEW t \in {"backoff", "rate_budget"}, c.state = "BackingOff"
      PROVE  Quiet(Retry(c, t, admit))
  <2> DEFINE n == SaturatingIncrement(c.attempt_count)
             d == [c EXCEPT !.attempt_count = n]
             e == Disarm(d, t)
  <2>0. Quiet(c)
    BY <1>1 DEF Filed, SessionStates
  <2>1. n \in 0..CountMax
    BY IncrementType DEF Safe, Connection
  <2> HIDE DEF n
  <2>2. Emptied(d)
    BY <2>0, <2>1 DEF Quiet, Emptied, Connection
  <2> HIDE DEF d
  <2>3. Emptied(e)
    BY <2>2 DEF Emptied, Disarm, Connection
  <2> HIDE DEF e
  <2>4. Quiet(EnterConnecting(e)) /\ Quiet(Throttle(c))
    BY <2>0, <2>3, ConnectOrThrottleQuiet, EnterQuiet DEF Quiet, TimerNames, LifecycleEvents
  <2> QED  BY <2>4 DEF Retry, e, d, n
<1>2. c.state = "Closing" => Quiet(EnterClosedOrReconnect(c, admit))
  BY EnterClosedOrReconnectQuiet DEF Filed, SessionStates
<1>3. /\ Quiet(BackOff(ExitHandshakeTeardown(c), "attempt_failed"))
      /\ Quiet(BackOff(ExitOpenTeardown(c), "dropped"))
  BY TeardownQuiet DEF LifecycleEvents
<1>4. Filed(TimerBackoffElapsed(c, admit), W, R, L) /\ Worked(TimerBackoffElapsed(c, admit))
  BY <1>1, QuietFiled DEF TimerBackoffElapsed
<1>5. /\ Filed(TimerRateBudgetWindowAdvanced(c, admit), W, R, L)
      /\ Worked(TimerRateBudgetWindowAdvanced(c, admit))
  BY <1>1, QuietFiled DEF TimerRateBudgetWindowAdvanced
<1>6. Filed(TimerCloseTimeout(c, admit), W, R, L) /\ Worked(TimerCloseTimeout(c, admit))
  BY <1>2, QuietFiled DEF TimerCloseTimeout
<1>7. Filed(TimerStalenessElapsed(c), W, R, L) /\ Worked(TimerStalenessElapsed(c))
  BY <1>3, QuietFiled DEF TimerStalenessElapsed
<1> QED  BY <1>4, <1>5, <1>6, <1>7

----------------------------------------------------------------------------
(* Sending subscribe frames, on the books. *)

\* Every possible effect of a send is accounted for, what it put on the wire included.
FiledEffects(E, W, R, L) == \A e \in E : Filed(e.conn, W \union e.sent, R, L)

WorkedEffects(E) == \A e \in E : Worked(e.conn)

\* Recording the refresh awaited for the keys F, in a session.
LEMMA DeferFiled ==
    ASSUME NEW c, c.state \in SessionStates, NEW W, NEW R, NEW L, NEW F \in SUBSET Keys,
           Filed(c, W, R, L \ F)
    PROVE  /\ Filed(Defer(c, F), W, R, L)
           /\ Worked(c) => Worked(Defer(c, F))
           /\ Defer(c, F).state = c.state
<1> DEFINE d == Defer(c, F)
<1>1. /\ d \in Connection /\ d.state = c.state /\ d.ack_timeouts = c.ack_timeouts
      /\ d.resend_due = c.resend_due /\ d.deferred = c.deferred \union F
  BY DEF Filed, Defer, Connection
<1> HIDE DEF d
<1>2. Filed(d, W, R, L) /\ (Worked(c) => Worked(d))
  BY <1>1 DEF Filed, Worked
<1> QED  BY <1>1, <1>2 DEF d

LEMMA AwaitFiled ==
    ASSUME NEW c, c.state \in SessionStates, NEW W, NEW R, NEW L, Filed(c, W, R, L)
    PROVE  /\ Filed(AwaitRefresh(c), W, R, L)
           /\ Worked(c) => Worked(AwaitRefresh(c))
<1> DEFINE d == AwaitRefresh(c)
<1>1. /\ d \in Connection /\ d.state = c.state /\ d.ack_timeouts = c.ack_timeouts
      /\ d.resend_due = c.resend_due /\ d.deferred = c.deferred
  BY DEF Filed, AwaitRefresh, Connection
<1> HIDE DEF d
<1>2. Filed(d, W, R, L) /\ (Worked(c) => Worked(d))
  BY <1>1 DEF Filed, Worked
<1> QED  BY <1>2 DEF d

\* send_subscribe_frame of a registered key, whatever its outcome.
LEMMA SendOneFiled ==
    ASSUME NEW c, Safe(c), c.state \in SessionStates, NEW W, NEW R, NEW L, NEW k \in Keys, k \in R,
           Filed(c, W, R, L \ {k})
    PROVE  FiledEffects(SendOne(c, k), W, R, L) /\ WorkedEffects(SendOne(c, k))
<1> DEFINE sent(result) == IF result = "sent" THEN {k} ELSE {}
<1>1. ASSUME NEW result \in SendResults(c), NEW admit \in BOOLEAN
      PROVE  /\ Filed(SendSubscribe(c, k, result, admit), W \union sent(result), R, L)
             /\ Worked(SendSubscribe(c, k, result, admit))
  <2>1. CASE result = "sent"
    <3> DEFINE d == ArmSubscribeAck(c, k)
    <3>0. d \in Connection
      BY ArmSubscribeAckFacts DEF Safe, SameCore
    <3>1. /\ d.state = c.state /\ d.ack_timeouts = c.ack_timeouts \union {k}
          /\ d.resend_due = c.resend_due /\ d.deferred = c.deferred
      BY DEF Safe, ArmSubscribeAck, Connection
    <3>2. SendSubscribe(c, k, result, admit) = d
      BY <2>1 DEF SendSubscribe
    <3> HIDE DEF d
    <3>3. Filed(d, W \union {k}, R, L) /\ Worked(d)
      BY <3>0, <3>1 DEF Filed, Worked
    <3> QED  BY <2>1, <3>2, <3>3
  <2>2. CASE result = "full"
    <3>1. SendSubscribe(c, k, result, admit) = HandleSubscribeFailure(c, k, TRUE)
      BY <2>2 DEF SendSubscribe
    <3>2. W \union sent(result) = W
      BY <2>2
    <3>3. /\ Filed(HandleSubscribeFailure(c, k, TRUE), W, R, L)
          /\ Worked(HandleSubscribeFailure(c, k, TRUE))
      BY SubscribeFailureFiled
    <3> QED  BY <3>1, <3>2, <3>3
  <2>3. CASE result = "closed"
    <3>1. SendSubscribe(c, k, result, admit) = WireCloseReceived(c, FALSE, admit)
      BY <2>3 DEF SendSubscribe, WireAbnormalClose
    <3>2. Quiet(WireCloseReceived(c, FALSE, admit))
      BY WireCloseReceivedQuiet
    <3> QED  BY <3>1, <3>2, QuietFiled
  <2> QED  BY <2>1, <2>2, <2>3 DEF SendResults
<1>2. ASSUME NEW e \in SendOne(c, k)
      PROVE  Filed(e.conn, W \union e.sent, R, L) /\ Worked(e.conn)
  <2>1. PICK admit \in BOOLEAN : e \in SendOutcomes(c, k, admit)
    BY <1>2 DEF SendOne
  <2>2. PICK result \in SendResults(c) :
            e = Effect(SendSubscribe(c, k, result, admit), sent(result), FALSE)
    BY <2>1 DEF SendOutcomes
  <2>3. e.conn = SendSubscribe(c, k, result, admit) /\ e.sent = sent(result)
    BY <2>2 DEF Effect
  <2> HIDE DEF sent
  <2> QED  BY <1>1, <2>3
<1> QED  BY <1>2 DEF FiledEffects, WorkedEffects

\* A loop of sends over the registered keys F, wherever it stops.
LEMMA SendManyFiled ==
    ASSUME NEW c, Safe(c), c.state \in SessionStates, NEW W, NEW R, NEW L, NEW F \in SUBSET Keys,
           F \subseteq R, Filed(c, W, R, L \ F)
    PROVE  /\ FiledEffects(SendMany(c, F), W, R, L)
           /\ Worked(c) => WorkedEffects(SendMany(c, F))
<1> SUFFICES ASSUME NEW e \in SendMany(c, F)
             PROVE  /\ Filed(e.conn, W \union e.sent, R, L)
                    /\ Worked(c) => Worked(e.conn)
  BY DEF FiledEffects, WorkedEffects
<1>1. PICK b \in Batches : BatchPossible(c, F, b) /\ e = Effect(SendBatch(c, b), b.sent, FALSE)
  BY DEF SendMany
<1>2. e.conn = SendBatch(c, b) /\ e.sent = b.sent
  BY <1>1 DEF Effect
<1>3. CASE b.end = "done"
  <2> DEFINE f == [k \in Keys |->
                    CASE k \in b.sent /\ c.ack_attempts[k] = Absent -> SubscribeAckAttempts
                      [] k \in b.full -> AttemptsLeft(c, k)
                      [] OTHER -> c.ack_attempts[k]]
             d == [c EXCEPT !.ack_timeouts = (@ \union b.sent) \ b.full,
                            !.resend_due = @ \union b.full,
                            !.ack_attempts = f]
  <2>1. SendBatch(c, b) = d /\ SendBatch(c, b) \in Connection
    BY <1>3, SendBatchSafe DEF SendBatch, Safe
  <2> HIDE DEF f
  <2>2. b.sent \union b.full = F
    BY <1>1, <1>3 DEF BatchPossible
  <2>3. /\ d.state = c.state /\ d.ack_timeouts = (c.ack_timeouts \union b.sent) \ b.full
        /\ d.resend_due = c.resend_due \union b.full /\ d.deferred = c.deferred
    BY <2>1 DEF Safe, Connection
  <2>4. d \in Connection /\ c \in Connection
    BY <2>1 DEF Safe
  <2> HIDE DEF d
  <2>5. Filed(d, W \union b.sent, R, L)
    BY <2>2, <2>3, <2>4 DEF Filed
  <2>6. Worked(c) => Worked(d)
    BY <2>3 DEF Worked
  <2> QED  BY <1>2, <2>1, <2>5, <2>6
<1>4. CASE b.end = "exhausted"
  BY <1>2, <1>4, BudgetExhaustedQuiet, QuietFiled DEF SendBatch
<1>5. CASE b.end = "dead"
  <2>1. Quiet(WireCloseReceived(c, FALSE, FALSE))
    BY WireCloseReceivedQuiet
  <2> QED  BY <1>2, <1>5, <2>1, QuietFiled DEF SendBatch, WireAbnormalClose
<1> QED  BY <1>3, <1>4, <1>5 DEF Batches

\* A token miss defers the keys it would have sent.
LEMMA DeferForTokenFiled ==
    ASSUME NEW c, c.state \in SessionStates, NEW W, NEW R, NEW L, NEW F \in SUBSET Keys,
           Filed(c, W, R, L \ F)
    PROVE  /\ FiledEffects(DeferForToken(c, F), W, R, L)
           /\ Worked(c) => WorkedEffects(DeferForToken(c, F))
<1> DEFINE d == Defer(c, F)
<1>1. Filed(d, W, R, L) /\ (Worked(c) => Worked(d)) /\ d.state \in SessionStates
  BY DeferFiled
<1>2. DeferForToken(c, F) = {Effect(AwaitRefresh(d), {}, ~c.awaiting_token_refresh)}
  BY DEF DeferForToken
<1> HIDE DEF d
<1>3. Filed(AwaitRefresh(d), W, R, L) /\ (Worked(d) => Worked(AwaitRefresh(d)))
  BY <1>1, AwaitFiled
<1>4. Filed(AwaitRefresh(d), W \union {}, R, L)
  <2>1. W \union {} = W
    OBVIOUS
  <2> QED  BY <1>3, <2>1
<1> QED  BY <1>1, <1>2, <1>3, <1>4 DEF FiledEffects, WorkedEffects, Effect

\* An effect that sends nothing.
LEMMA NoSendFiled ==
    ASSUME NEW c, NEW W, NEW R, NEW L, Filed(c, W, R, L), Worked(c), NEW spawn
    PROVE  FiledEffects({Effect(c, {}, spawn)}, W, R, L) /\ WorkedEffects({Effect(c, {}, spawn)})
<1>1. W \union {} = W
  OBVIOUS
<1> QED  BY <1>1 DEF FiledEffects, WorkedEffects, Effect

\* The keys with an entry in the registry, of any state.
Registered == {k \in Keys : reg[k] # "absent"}

LEMMA RegisteredFacts == LiveKeys \subseteq Registered /\ Registered \subseteq Keys
  BY DEF LiveKeys, Registered

\* The probe of a handshake: the replay is not owed yet.
LEMMA SendFirstFiled ==
    ASSUME NEW c, Safe(c), c.state = "Authenticating", NEW W, NEW L, Filed(c, W, Registered, L)
    PROVE  /\ FiledEffects(SendFirstSignedSubscribe(c), W, Registered, L)
           /\ WorkedEffects(SendFirstSignedSubscribe(c))
<1>0. c.state \in SessionStates /\ Worked(c)
  BY DEF SessionStates, Worked
<1>1. ASSUME NEW k \in LiveKeys
      PROVE  FiledEffects(SendOne(c, k), W, Registered, L) /\ WorkedEffects(SendOne(c, k))
  <2>1. Filed(c, W, Registered, L \ {k}) /\ k \in Keys /\ k \in Registered
    BY FiledMoves, RegisteredFacts
  <2> QED  BY <1>0, <2>1, SendOneFiled
<1>2. Filed(AwaitRefresh(c), W, Registered, L) /\ Worked(AwaitRefresh(c))
  BY <1>0, AwaitFiled
<1>3. /\ FiledEffects({Effect(c, {}, FALSE)}, W, Registered, L)
      /\ WorkedEffects({Effect(c, {}, FALSE)})
      /\ FiledEffects({Effect(AwaitRefresh(c), {}, TRUE)}, W, Registered, L)
      /\ WorkedEffects({Effect(AwaitRefresh(c), {}, TRUE)})
  BY <1>0, <1>2, NoSendFiled
<1>4. /\ FiledEffects(UNION {SendOne(c, k) : k \in LiveKeys}, W, Registered, L)
      /\ WorkedEffects(UNION {SendOne(c, k) : k \in LiveKeys})
  BY <1>1 DEF FiledEffects, WorkedEffects
<1> QED  BY <1>3, <1>4 DEF SendFirstSignedSubscribe

\* The signed sends of a session, with a token or without.
LEMMA SignedSendsFiled ==
    ASSUME NEW c, Safe(c), c.state \in SessionStates, NEW W, NEW R, NEW L, NEW F \in SUBSET Keys,
           F \subseteq R, Filed(c, W, R, L \ F)
    PROVE  /\ FiledEffects(SendRemainingSignedSubscribes(c, F), W, R, L)
           /\ Worked(c) => WorkedEffects(SendRemainingSignedSubscribes(c, F))
           /\ \A k \in Keys : F = {k} => FiledEffects(SendSingleSignedSubscribe(c, k), W, R, L)
           /\ \A k \in Keys : F = {k} /\ Worked(c) => WorkedEffects(SendSingleSignedSubscribe(c, k))
<1>1. /\ FiledEffects(SendMany(c, F), W, R, L)
      /\ Worked(c) => WorkedEffects(SendMany(c, F))
      /\ FiledEffects(DeferForToken(c, F), W, R, L)
      /\ Worked(c) => WorkedEffects(DeferForToken(c, F))
  BY SendManyFiled, DeferForTokenFiled
<1>2. ASSUME NEW k \in Keys, F = {k}
      PROVE  FiledEffects(SendOne(c, k), W, R, L) /\ WorkedEffects(SendOne(c, k))
  BY <1>2, SendOneFiled
<1> QED  BY <1>1, <1>2 DEF SendRemainingSignedSubscribes, SendSingleSignedSubscribe

\* The replay of the registry that an accepted handshake owes.
LEMMA ReplayFiled ==
    ASSUME NEW c, Safe(c), c.state \in SessionStates, NEW W, NEW R, NEW L, NEW F \in SUBSET Keys,
           F \subseteq R, Filed(c, W, R, L \ F)
    PROVE  /\ FiledEffects(ReplayAfterHandshake(c, F), W, R, L)
           /\ WorkedEffects(ReplayAfterHandshake(c, F))
<1>0. GoodEffects(SendRemainingSignedSubscribes(c, F))
  BY SendManyGood, DeferForTokenGood DEF SendRemainingSignedSubscribes
<1>1. ASSUME NEW e \in SendRemainingSignedSubscribes(c, F)
      PROVE  /\ Filed(CompleteResubscribeIfEmpty(e.conn), W \union e.sent, R, L)
             /\ Worked(CompleteResubscribeIfEmpty(e.conn))
  <2>1. Filed(e.conn, W \union e.sent, R, L)
    BY SignedSendsFiled DEF FiledEffects
  <2>2. Safe(e.conn)
    BY <1>0 DEF GoodEffects
  <2> QED  BY <2>1, <2>2, CompleteFiled
<1>2. ASSUME NEW x \in ReplayAfterHandshake(c, F)
      PROVE  Filed(x.conn, W \union x.sent, R, L) /\ Worked(x.conn)
  <2>1. PICK e \in SendRemainingSignedSubscribes(c, F) :
            x = Effect(CompleteResubscribeIfEmpty(e.conn), e.sent, e.spawn)
    BY DEF ReplayAfterHandshake
  <2>2. x.conn = CompleteResubscribeIfEmpty(e.conn) /\ x.sent = e.sent
    BY <2>1 DEF Effect
  <2> QED  BY <1>1, <2>2
<1> QED  BY <1>2 DEF FiledEffects, WorkedEffects

----------------------------------------------------------------------------
(* The reactor, on the books. *)

\* The account of the connection, of its socket and of the registry agree.
FiledNow == Filed(mc, wire, Registered, LiveKeys) /\ Worked(mc)

LedgerInv == HeldInv /\ FiledNow

\* The end of a handler: a session keeps its socket and what is on the wire.
LEMMA WiredFiled ==
    ASSUME NEW c, Held(c), NEW sent, NEW done, NEW s, NEW b, Wired(c, sent, done, s, b),
           c.state \in SessionStates => s = "cur",
           NEW R, NEW L, Filed(c, wire \union sent, R, L), Worked(c)
    PROVE  Filed(mc', wire', R, L) /\ Worked(mc')
<1> DEFINE d == [c EXCEPT !.opened = FALSE]
<1>1. SameBooks(d, c)
  BY DEF Filed, SameBooks, Connection
<1>2. mc' = d
  BY DEF Wired
<1> HIDE DEF d
<1>3. Filed(mc', wire \union sent, R, L) /\ Worked(mc') /\ mc'.state = c.state
  BY <1>1, <1>2, SameBooksFiled DEF SameBooks
<1>4. CASE c.state \in SessionStates
  <2>1. wire' = wire \union sent
    BY <1>4 DEF Held, OnCurrent, Wired, SameSocket
  <2> QED  BY <1>3, <2>1
<1>5. CASE c.state \notin SessionStates
  BY <1>3, <1>5, FiledFacts, QuietFiled
<1> QED  BY <1>4, <1>5

LEMMA LandFiled ==
    ASSUME NEW c, Held(c), NEW sent, NEW s, NEW b, Land(c, sent, s, b),
           c.state \in SessionStates => s = "cur",
           NEW R, NEW L, Filed(c, wire \union sent, R, L), Worked(c)
    PROVE  Filed(mc', wire', R, L) /\ Worked(mc')
  BY WiredFiled DEF Land

\* project_socket_and_wire_bridge, early or late.
LEMMA ProjectFiled ==
    ASSUME NEW c, Safe(c), Held(c), NEW sent, Project(c, sent) \/ ProjectLate(c, sent),
           NEW R, NEW L, Filed(c, wire \union sent, R, L), Worked(c)
    PROVE  Filed(mc', wire', R, L) /\ Worked(mc')
<1>1. c.state \in SessionStates => c.socket
  BY DEF Safe
<1>2. CASE Project(c, sent)
  BY <1>1, <1>2, LandFiled DEF Project
<1>3. CASE ProjectLate(c, sent)
  BY <1>1, <1>3, LandFiled DEF ProjectLate
<1> QED  BY <1>2, <1>3

\* Nothing sent.
LEMMA NothingSent == wire \union {} = wire
  OBVIOUS

\* A handler that leaves the registry alone keeps both of its sets.
LEMMA SameRegistry ==
    ASSUME UNCHANGED reg, Filed(mc', wire', Registered, LiveKeys), Worked(mc')
    PROVE  FiledNow'
<1>1. Registered' = Registered /\ LiveKeys' = LiveKeys
  BY DEF Registered, LiveKeys
<1> QED  BY <1>1 DEF FiledNow

\* What the registry notes do to its two sets.
LEMMA NotedRegistry ==
    ASSUME IInv, NEW k \in Keys, Filed(mc', wire', Registered, LiveKeys \ {k}), Worked(mc')
    PROVE  /\ reg' = NoteAcked(k) /\ Filed(mc', wire', Registered, LiveKeys) => FiledNow'
           /\ reg' = NoteTerminated(k) => FiledNow'
<1>0. reg \in [Keys -> EntryStates]
  BY DEF IInv, RegOK
<1>1. ASSUME reg' = NoteAcked(k) PROVE Registered' = Registered /\ LiveKeys' = LiveKeys
  BY <1>0, <1>1 DEF NoteAcked, Registered, LiveKeys
<1>2. ASSUME reg' = NoteTerminated(k)
      PROVE  Registered' = Registered /\ LiveKeys' = LiveKeys \ {k}
  BY <1>0, <1>2 DEF NoteTerminated, Registered, LiveKeys
<1> QED  BY <1>1, <1>2 DEF FiledNow

\* What every handler starts from.
LEMMA LedgerFacts ==
    ASSUME LedgerInv
    PROVE  /\ IInv /\ HeldInv /\ Safe(mc) /\ mc \in Connection /\ Held(mc) /\ ~mc.opened
           /\ Filed(mc, wire, Registered, LiveKeys)
           /\ Worked(mc)
           /\ mc.state \notin SessionStates => Quiet(mc)
<1>1. /\ IInv /\ HeldInv /\ Safe(mc) /\ mc \in Connection /\ Held(mc) /\ ~mc.opened
      /\ Filed(mc, wire, Registered, LiveKeys) /\ Worked(mc)
  BY DEF LedgerInv, HeldInv, HeldNow, Held, IInv, FiledNow
<1> QED  BY <1>1, FiledFacts

\* CallerInbound connect, force_reconnect and close: no session is left.
LEMMA PostsFiled ==
    ASSUME LedgerInv, NEW rid \in CallIds, NEW admit \in BOOLEAN,
           PostStartConnect(rid, admit) \/ PostForceReconnect(rid, admit) \/ PostClose(rid)
    PROVE  FiledNow'
<1>1. rid \in Ids /\ Safe(mc) /\ Held(mc) /\ (mc.state \notin SessionStates => Quiet(mc))
  BY LedgerFacts DEF Ids
<1>2. ASSUME NEW c, Safe(c), Held(c), Quiet(c), Project(c, {}), UNCHANGED reg PROVE FiledNow'
  <2>1. Filed(c, wire \union {}, Registered, LiveKeys) /\ Worked(c)
    BY <1>2, QuietFiled
  <2> QED  BY <1>2, <2>1, ProjectFiled, SameRegistry
<1>3. CASE PostStartConnect(rid, admit)
  <2> DEFINE c == CallStartConnect(mc, rid, admit)
  <2>0. Project(Ask(c, rid), {}) /\ UNCHANGED reg /\ Quiet(mc)
    BY <1>1, <1>3 DEF PostStartConnect, SessionStates
  <2>1. Safe(c) /\ Held(c) /\ Quiet(c)
    BY <1>1, <2>0, CallStartConnectSafe, CallStartConnectHeld, CallStartConnectQuiet
  <2> HIDE DEF c
  <2>2. Safe(Ask(c, rid)) /\ Held(Ask(c, rid))
    BY <1>1, <2>1, AskFacts, AskView, SameCoreSafe, SameViewHeld DEF Safe
  <2>3. Quiet(Ask(c, rid))
    BY <1>1, <2>1, BooksFacts, SameBooksFiled DEF Quiet, Emptied, TimerNames, LifecycleEvents
  <2> QED  BY <1>2, <2>0, <2>2, <2>3
<1>4. CASE PostForceReconnect(rid, admit)
  <2> DEFINE c == CallForceReconnect(mc, rid, admit)
  <2>1. Safe(c) /\ Held(c)
    BY <1>1, CallForceReconnectSafe, CallForceReconnectHeld
  <2>2. Quiet(c)
    BY <1>1, CallForceReconnectQuiet
  <2>3. Project(c, {}) /\ UNCHANGED reg
    BY <1>4 DEF PostForceReconnect
  <2> HIDE DEF c
  <2> QED  BY <1>2, <2>1, <2>2, <2>3
<1>5. CASE PostClose(rid)
  <2> DEFINE c == CallClose(mc, rid)
  <2>1. Safe(c) /\ Held(c)
    BY <1>1, CallCloseSafe, CallCloseHeld
  <2>2. Quiet(c)
    BY <1>1, CallCloseQuiet
  <2>3. Project(c, {}) /\ UNCHANGED reg
    BY <1>5 DEF PostClose
  <2> HIDE DEF c
  <2> QED  BY <1>2, <2>1, <2>2, <2>3
<1> QED  BY <1>3, <1>4, <1>5

\* register_one_and_emit: the new entry is sent, deferred, or left to the replay.
LEMMA RegisterFiled ==
    ASSUME Url = "Auth", LedgerInv, NEW k \in Keys, NEW admit \in BOOLEAN, Register(k, admit)
    PROVE  FiledNow'
<1> DEFINE started == Started(admit)
           R == Registered \union {k}
           L == LiveKeys \union {k}
<1>0. /\ IInv /\ Safe(mc) /\ Held(mc) /\ ReactorId \in Ids
      /\ Filed(mc, wire, Registered, LiveKeys) /\ Worked(mc)
      /\ (mc.state \notin SessionStates => Quiet(mc))
  BY LedgerFacts DEF Ids
<1>1. Safe(started) /\ Held(started)
  BY <1>0, CallStartConnectSafe, CallStartConnectHeld DEF Started
<1>2. Filed(started, wire, Registered, LiveKeys) /\ Worked(started)
  <2>1. mc.state = "Idle" => Quiet(CallStartConnect(mc, ReactorId, admit))
    BY <1>0, CallStartConnectQuiet DEF SessionStates
  <2> QED  BY <1>0, <2>1, QuietFiled DEF Started
<1>3. PICK e \in RegisterEffects(started, k) :
        Land(e.conn, e.sent, AfterRegister(e.conn, RegisterSocket(started)),
             IF mc.state = "Idle" THEN e.conn.socket ELSE bridge /\ e.conn.socket)
  BY Zenon DEF Register
<1>4. Registered' = R /\ LiveKeys' = L
  <2>1. reg' = [reg EXCEPT ![k] = "pending"] /\ reg \in [Keys -> EntryStates]
    BY <1>0 DEF Register, IInv, RegOK
  <2> QED  BY <2>1 DEF Registered, LiveKeys
<1> HIDE DEF started
<1>5. HeldEffects(RegisterEffects(started, k))
  <2>1. HeldEffects({Effect(started, {}, FALSE)}) /\ HeldEffects(SendOne(started, k))
    BY <1>1, RecordedHeld, SendOneHeld
  <2>2. HeldEffects(SendSingleSignedSubscribe(started, k))
    BY <1>1, SignedSendsHeld
  <2> QED  BY <2>1, <2>2 DEF RegisterEffects
<1>6. FiledEffects(RegisterEffects(started, k), wire, R, L) /\ WorkedEffects(RegisterEffects(started, k))
  <2>1. CASE RegisterSends(started)
    <3>1. started.state \in SessionStates
      BY <2>1 DEF RegisterSends, AuthenticatingNothingInFlight, SessionStates
    <3>2. L \ {k} \subseteq LiveKeys \union wire
      OBVIOUS
    <3>3. Filed(started, wire, R, L \ {k})
      BY <1>2, <3>2, FiledMoves
    <3>4. {k} \in SUBSET Keys /\ {k} \subseteq R
      OBVIOUS
    <3> HIDE DEF R, L
    <3>5. /\ FiledEffects(SendSingleSignedSubscribe(started, k), wire, R, L)
          /\ WorkedEffects(SendSingleSignedSubscribe(started, k))
      BY <1>1, <1>2, <3>1, <3>3, <3>4, SignedSendsFiled
    <3> QED  BY <2>1, <3>5 DEF RegisterEffects
  <2>2. CASE ~RegisterSends(started)
    <3>1. started.state \notin {"Resubscribing", "Open"}
      BY <2>2 DEF RegisterSends
    <3>2. Filed(started, wire, R, LiveKeys)
      BY <1>2, FiledMoves
    <3>3. Filed(started, wire, R, L)
      BY <3>1, <3>2, FiledMoves
    <3> HIDE DEF R, L
    <3>4. /\ FiledEffects({Effect(started, {}, FALSE)}, wire, R, L)
          /\ WorkedEffects({Effect(started, {}, FALSE)})
      BY <1>2, <3>3, NoSendFiled
    <3> QED  BY <2>2, <3>4 DEF RegisterEffects
  <2> QED  BY <2>1, <2>2
<1> HIDE DEF R, L
<1>7. Safe(e.conn) /\ Held(e.conn) /\ Filed(e.conn, wire \union e.sent, R, L) /\ Worked(e.conn)
  BY <1>3, <1>5, <1>6 DEF HeldEffects, FiledEffects, WorkedEffects
<1>8. ASSUME e.conn.state \in SessionStates
      PROVE  AfterRegister(e.conn, RegisterSocket(started)) = "cur"
  <2>1. e.conn.socket /\ ~e.conn.opened /\ sockets = "cur" /\ mc.state # "Idle"
    BY <1>7, <1>8 DEF Safe, Held, OnCurrent
  <2>2. RegisterSocket(started) = "cur"
    BY <2>1 DEF RegisterSocket
  <2> QED  BY <2>1, <2>2 DEF AfterRegister
<1>9. Filed(mc', wire', R, L) /\ Worked(mc')
  BY <1>3, <1>7, <1>8, LandFiled
<1> QED  BY <1>4, <1>9 DEF FiledNow

\* deregister_one and deregister_all: released keys leave the books and the registry.
LEMMA ReleaseKeysFiled ==
    ASSUME LedgerInv, NEW S \in SUBSET Keys, ReleaseKeys(S)
    PROVE  FiledNow'
<1> DEFINE f == [k \in Keys |-> IF k \in S THEN Absent ELSE mc.ack_attempts[k]]
           d == [mc EXCEPT !.ack_timeouts = @ \ S, !.resend_due = @ \ S,
                           !.ack_attempts = f, !.deferred = @ \ S]
           g == CompleteResubscribeIfEmpty(d)
           R == Registered \ S
           L == LiveKeys \ S
<1>1. mc \in Connection /\ Safe(mc) /\ Held(mc) /\ Filed(mc, wire, Registered, LiveKeys)
  BY LedgerFacts
<1>2. f \in [Keys -> {Absent} \union (0..SubscribeAckAttempts)]
  BY <1>1 DEF Connection
<1>3. Land(g, {}, sockets, bridge)
  BY DEF ReleaseKeys
<1>4. Registered' = R /\ LiveKeys' = L
  BY DEF ReleaseKeys, Registered, LiveKeys
<1> HIDE DEF f
<1>5. SameCore(d, mc) /\ SameView(d, mc)
  BY <1>1, <1>2 DEF SameCore, SameView, Connection, Awaited, CloseWaiters
<1>6. /\ d.state = mc.state /\ d.ack_timeouts = mc.ack_timeouts \ S /\ d.resend_due = mc.resend_due \ S
      /\ d.deferred = mc.deferred \ S
  BY <1>1 DEF Connection
<1>7. d.awaiting_token_refresh = mc.awaiting_token_refresh /\ d \in Connection
  BY <1>1, <1>5 DEF SameCore, Connection
<1> HIDE DEF d
<1>8. Filed(d, wire, R, L)
  BY <1>1, <1>6, <1>7 DEF Filed, Quiet, Emptied
<1>9. Safe(d) /\ Held(d)
  BY <1>1, <1>5, SameCoreSafe, SameViewHeld
<1> HIDE DEF R, L
<1>10. Held(g) /\ Filed(g, wire \union {}, R, L) /\ Worked(g)
  BY <1>8, <1>9, CompleteResubscribeHeld, CompleteFiled, NothingSent
<1> HIDE DEF g
<1>11. g.state \in SessionStates => sockets = "cur"
  BY <1>10 DEF Held, OnCurrent
<1>12. Filed(mc', wire', R, L) /\ Worked(mc')
  BY <1>3, <1>10, <1>11, LandFiled
<1> QED  BY <1>4, <1>12 DEF FiledNow

\* handle_ws_request_frame and AbandonWsRequest leave the books alone.
LEMMA RequestsFiled ==
    ASSUME LedgerInv, NEW r \in ReqIds,
           WsRequestNoToken \/ WsRequestFrame(r) \/ AbandonWsRequest(r)
    PROVE  FiledNow'
<1>0. mc \in Connection /\ Filed(mc, wire, Registered, LiveKeys) /\ Worked(mc)
  BY LedgerFacts
<1>1. UNCHANGED wire /\ UNCHANGED reg
  BY DEF WsRequestNoToken, WsRequestFrame, AbandonWsRequest, netVars
<1>2. CASE WsRequestNoToken
  <2>1. mc.state \in SessionStates /\ mc' = AwaitRefresh(mc)
    BY <1>2 DEF WsRequestNoToken, RequestAdmitted, SessionStates
  <2>2. Filed(mc', wire', Registered, LiveKeys) /\ Worked(mc')
    BY <1>0, <1>1, <2>1, AwaitFiled
  <2> QED  BY <1>1, <2>2, SameRegistry
<1>3. CASE WsRequestFrame(r) \/ AbandonWsRequest(r)
  <2>1. /\ SameBooks([mc EXCEPT !.pending_requests = @ \union {r}], mc)
        /\ SameBooks([mc EXCEPT !.pending_requests = @ \ {r}], mc)
    BY <1>0 DEF SameBooks, Connection
  <2>2. SameBooks(mc', mc)
    BY <1>3, <2>1 DEF WsRequestFrame, AbandonWsRequest
  <2>3. Filed(mc', wire', Registered, LiveKeys) /\ Worked(mc')
    BY <1>0, <1>1, <2>2, SameBooksFiled
  <2> QED  BY <1>1, <2>3, SameRegistry
<1> QED  BY <1>2, <1>3

\* UpgradeOutcome::Ok: the handshake starts with empty books and its probe.
LEMMA UpgradeOkFiled ==
    ASSUME Url = "Auth", LedgerInv, UpgradeOk
    PROVE  FiledNow'
<1> DEFINE c == WireUpgradeOk(mc)
<1>0. sockets = "cur" /\ OnCurrent /\ mc.state = "Connecting" /\ UNCHANGED reg
  BY DEF UpgradeOk, OnCurrent
<1>1. Safe(c) /\ Held(c)
  BY <1>0, WireUpgradeOkSafe, WireUpgradeOkHeld DEF LedgerInv, HeldInv, HeldNow, IInv
<1>2. Emptied(c) /\ c.state = "Authenticating"
  BY <1>0, LedgerFacts, WireUpgradeOkFiled DEF SessionStates
<1>3. UpgradeOkAuth
  BY <1>2 DEF UpgradeOk, UpgradeOkReplay, UpgradeOkFirst
<1>4. PICK e \in SendFirstSignedSubscribe(c) : Land(e.conn, e.sent, Unprojected(e.conn), FALSE)
  BY <1>3 DEF UpgradeOkAuth
<1> HIDE DEF c
<1>5. Filed(c, wire, Registered, LiveKeys)
  BY <1>2 DEF Emptied, Filed, SessionStates
<1>6. Safe(e.conn) /\ Held(e.conn)
  BY <1>1, <1>4, SignedSendsHeld DEF HeldEffects
<1>7. Filed(e.conn, wire \union e.sent, Registered, LiveKeys) /\ Worked(e.conn)
  BY <1>1, <1>2, <1>4, <1>5, SendFirstFiled DEF FiledEffects, WorkedEffects
<1>8. Filed(mc', wire', Registered, LiveKeys) /\ Worked(mc')
  BY <1>4, <1>6, <1>7, UnprojectedHeld, LandFiled
<1> QED  BY <1>0, <1>8, SameRegistry

\* UpgradeOutcome::Failed, of the current socket or of an old one.
LEMMA UpgradeFailedFiled ==
    ASSUME LedgerInv, NEW transient \in BOOLEAN,
           UpgradeFailed(transient) \/ LateUpgradeFailed(transient)
    PROVE  FiledNow'
<1> DEFINE c == WireUpgradeFailed(mc, transient)
           s == IF c.socket THEN sockets ELSE "none"
<1>0. Safe(mc) /\ Held(mc) /\ Filed(mc, wire, Registered, LiveKeys) /\ Worked(mc)
  BY LedgerFacts
<1>1. Safe(c) /\ Held(c)
  BY <1>0, WireUpgradeFailedSafe, WireUpgradeFailedHeld
<1>2. Filed(c, wire \union {}, Registered, LiveKeys) /\ Worked(c)
  BY <1>0, WireUpgradeFailedFiled, NothingSent
<1>3. (\E b : Wired(c, {}, {}, s, b)) /\ UNCHANGED reg
  BY DEF UpgradeFailed, LateUpgradeFailed
<1>4. c.state \in SessionStates => s = "cur"
  <2> HIDE DEF c
  <2> QED  BY <1>1 DEF Safe, Held, OnCurrent
<1> HIDE DEF c, s
<1>5. Filed(mc', wire', Registered, LiveKeys) /\ Worked(mc')
  BY <1>1, <1>2, <1>3, <1>4, WiredFiled
<1> QED  BY <1>3, <1>5, SameRegistry

\* Deferred keys that are not re-issued are on the wire: an armed ack says so.
LEMMA DrainDeferredFiled ==
    ASSUME NEW c, Safe(c), c.state \in {"Resubscribing", "Open"}, NEW W,
           Filed(c, W, Registered, LiveKeys), Worked(c)
    PROVE  /\ FiledEffects(DrainDeferred(c), W, Registered, LiveKeys)
           /\ WorkedEffects(DrainDeferred(c))
<1> DEFINE d == [c EXCEPT !.deferred = {}]
           F == Reissue(c)
<1>1. SameCore(d, c) /\ d \in Connection
  BY DEF Safe, SameCore, Connection
<1>2. /\ d.state = c.state /\ d.ack_timeouts = c.ack_timeouts /\ d.resend_due = c.resend_due
      /\ d.deferred = {}
  BY DEF Safe, Connection
<1>3. F \in SUBSET Keys /\ F \subseteq Registered
  BY RegisteredFacts DEF Reissue, Safe, Connection
<1>4. \A k \in LiveKeys \ F : k \in c.deferred => k \in c.ack_timeouts
  BY DEF Reissue
<1> HIDE DEF d, F
<1>5. Safe(d) /\ d.state \in SessionStates /\ Worked(d)
  BY <1>1, <1>2, SameCoreSafe DEF SessionStates, Worked
<1>6. Filed(d, W, Registered, LiveKeys \ F)
  BY <1>1, <1>2, <1>4 DEF Filed, SessionStates
<1>7. /\ FiledEffects(SendMany(d, F), W, Registered, LiveKeys) /\ WorkedEffects(SendMany(d, F))
      /\ FiledEffects(DeferForToken(d, F), W, Registered, LiveKeys)
      /\ WorkedEffects(DeferForToken(d, F))
  BY <1>3, <1>5, <1>6, SendManyFiled, DeferForTokenFiled
<1> QED  BY <1>7 DEF DrainDeferred, d, F

\* The reactor takes a refresh outcome.
LEMMA RefreshOutcomeFiled ==
    ASSUME LedgerInv, NEW o \in Outcomes, RefreshOutcome(o)
    PROVE  FiledNow'
<1> DEFINE c == DeliverRefresh(o)
<1>0. /\ (o # "fatal") \in BOOLEAN /\ Safe(mc) /\ Held(mc) /\ Worked(mc)
      /\ Filed(mc, wire, Registered, LiveKeys)
  BY LedgerFacts
<1>1. Safe(c) /\ Held(c)
  BY <1>0, BusTokenRefreshSafe, BusTokenRefreshHeld DEF DeliverRefresh
<1>2. Filed(c, wire, Registered, LiveKeys) /\ Worked(c)
  BY <1>0, BusTokenRefreshFiled DEF DeliverRefresh
<1>3. /\ UNCHANGED reg
      /\ \E e \in RefreshEffects(o, c) : ProjectLate(RearmTokenRefresh(o, e.conn), e.sent)
  BY DEF RefreshOutcome
<1>4. PICK e \in RefreshEffects(o, c) : ProjectLate(RearmTokenRefresh(o, e.conn), e.sent)
  BY <1>3
<1> HIDE DEF c
<1>5. HeldEffects(RefreshEffects(o, c))
  <2>1. HeldEffects({Effect(c, {}, FALSE)}) /\ HeldEffects(SendFirstSignedSubscribe(c))
    BY <1>1, RecordedHeld, SignedSendsHeld
  <2>2. HeldEffects(DrainDeferred(c))
    <3> DEFINE d == [c EXCEPT !.deferred = {}]
    <3>1. SameCore(d, c) /\ SameView(d, c)
      BY <1>1 DEF Safe, SameCore, SameView, Connection, Awaited, CloseWaiters
    <3>2. Reissue(c) \in SUBSET Keys
      BY <1>1 DEF Reissue, Safe, Connection
    <3> HIDE DEF d
    <3>3. Safe(d) /\ Held(d)
      BY <1>1, <3>1, SameCoreSafe, SameViewHeld
    <3>4. HeldEffects(SendMany(d, Reissue(c))) /\ HeldEffects(DeferForToken(d, Reissue(c)))
      BY <3>2, <3>3, SendManyHeld, RecordedHeld
    <3> QED  BY <3>4 DEF DrainDeferred, d
  <2> QED  BY <2>1, <2>2 DEF RefreshEffects
<1>6. /\ FiledEffects(RefreshEffects(o, c), wire, Registered, LiveKeys)
      /\ WorkedEffects(RefreshEffects(o, c))
  <2>1. /\ FiledEffects({Effect(c, {}, FALSE)}, wire, Registered, LiveKeys)
        /\ WorkedEffects({Effect(c, {}, FALSE)})
    BY <1>2, NoSendFiled
  <2>2. AuthenticatingNothingInFlight(c) =>
          /\ FiledEffects(SendFirstSignedSubscribe(c), wire, Registered, LiveKeys)
          /\ WorkedEffects(SendFirstSignedSubscribe(c))
    BY <1>1, <1>2, SendFirstFiled DEF AuthenticatingNothingInFlight
  <2>3. c.state \in {"Open", "Resubscribing"} =>
          /\ FiledEffects(DrainDeferred(c), wire, Registered, LiveKeys)
          /\ WorkedEffects(DrainDeferred(c))
    BY <1>1, <1>2, DrainDeferredFiled
  <2> QED  BY <2>1, <2>2, <2>3 DEF RefreshEffects
<1> DEFINE x == e.conn
           y == RearmTokenRefresh(o, x)
<1>7. /\ Safe(x) /\ Held(x) /\ x \in Connection
      /\ Filed(x, wire \union e.sent, Registered, LiveKeys) /\ Worked(x)
  BY <1>4, <1>5, <1>6 DEF HeldEffects, FiledEffects, WorkedEffects, Safe
<1> HIDE DEF x
<1>8. Safe(y) /\ Held(y)
  <2>1. Safe(Disarm(x, "token_refresh")) /\ Safe(Arm(x, "token_refresh"))
    BY <1>7, ArmFacts, SameCoreSafe DEF Safe, TimerNames
  <2>2. Held(Disarm(x, "token_refresh"))
    BY <1>7, DisarmHeld DEF TimerNames
  <2>3. Held(Arm(x, "token_refresh"))
    BY <1>7, ArmView, SameViewHeld DEF Held, TimerNames
  <2> QED  BY <1>7, <2>1, <2>2, <2>3 DEF RearmTokenRefresh
<1>9. Filed(y, wire \union e.sent, Registered, LiveKeys) /\ Worked(y)
  <2>1. SameBooks(Disarm(x, "token_refresh"), x) /\ SameBooks(Arm(x, "token_refresh"), x)
    BY <1>7 DEF SameBooks, Arm, Disarm, Connection, TimerNames
  <2>2. y \in {x, Disarm(x, "token_refresh"), Arm(x, "token_refresh")}
    BY DEF RearmTokenRefresh
  <2> HIDE DEF y
  <2> QED  BY <1>7, <2>1, <2>2, SameBooksFiled
<1>10. ProjectLate(y, e.sent)
  BY <1>4 DEF x
<1> HIDE DEF y
<1>11. Filed(mc', wire', Registered, LiveKeys) /\ Worked(mc')
  BY <1>8, <1>9, <1>10, ProjectFiled
<1> QED  BY <1>3, <1>11, SameRegistry

\* The ack of the probe: the session opens its replay with k on the wire.
LEMMA AckInHandshakeFiled ==
    ASSUME LedgerInv, NEW k \in Keys, k \in wire, AckInHandshake(k)
    PROVE  FiledNow'
<1> DEFINE x == WireAuthHandshakeOk(mc)
           y == DisarmSubscribeAck(x, k)
           c == RemoveDeferred(y, k)
           F == LiveKeys \ {k}
<1>0. /\ IInv /\ Safe(mc) /\ Held(mc) /\ mc.state = "Authenticating" /\ reg' = NoteAcked(k)
      /\ Filed(mc, wire, Registered, LiveKeys)
  BY LedgerFacts DEF AckInHandshake
<1>1. PICK e \in ReplayAfterHandshake(c, F) : Land(e.conn, e.sent, Unprojected(e.conn), bridge)
  BY DEF AckInHandshake
<1>2. Safe(x) /\ Held(x) /\ Filed(x, wire, Registered, {}) /\ x.state = "Resubscribing"
  BY <1>0, WireAuthHandshakeOkSafe, WireAuthHandshakeOkHeld, WireAuthHandshakeOkFiled
<1> HIDE DEF x
<1>3. Safe(y) /\ Held(y) /\ Filed(y, wire, Registered, {})
  BY <1>2, DisarmSubscribeAckFacts, SubscribeView, SameCoreSafe, SameViewHeld, DisarmFiled DEF Safe
<1>4. y.state = "Resubscribing"
  BY <1>2 DEF Safe, DisarmSubscribeAck, Connection
<1> HIDE DEF y
<1>5. Safe(c) /\ Held(c) /\ Filed(c, wire, Registered, {})
  BY <1>3, DeferFacts, SubscribeView, SameCoreSafe, SameViewHeld, DisarmFiled DEF Safe
<1>6. c.state \in SessionStates
  BY <1>3, <1>4 DEF Safe, RemoveDeferred, Connection, SessionStates
<1> HIDE DEF c
<1>7. F \in SUBSET Keys /\ F \subseteq Registered /\ LiveKeys \ F \subseteq {} \union wire
  BY RegisteredFacts
<1>8. Filed(c, wire, Registered, LiveKeys \ F)
  BY <1>5, <1>7, FiledMoves
<1> HIDE DEF F
<1>9. Filed(e.conn, wire \union e.sent, Registered, LiveKeys) /\ Worked(e.conn)
  BY <1>1, <1>5, <1>6, <1>7, <1>8, ReplayFiled DEF FiledEffects, WorkedEffects
<1>10. Safe(e.conn) /\ Held(e.conn)
  BY <1>1, <1>5, <1>7, ReplayHeld DEF HeldEffects
<1>11. Filed(mc', wire', Registered, LiveKeys) /\ Worked(mc')
  BY <1>1, <1>9, <1>10, UnprojectedHeld, LandFiled
<1>12. Filed(mc', wire', Registered, LiveKeys \ {k})
  BY <1>11, FiledMoves
<1> QED  BY <1>0, <1>11, <1>12, NotedRegistry

\* handle_sub_ack of a success outside the handshake.
LEMMA AckFiled ==
    ASSUME LedgerInv, NEW k \in Keys, k \in wire, AckUnarmed(k) \/ AckArmed(k)
    PROVE  FiledNow'
<1>0. /\ IInv /\ Safe(mc) /\ mc \in Connection /\ mc.state # "Authenticating"
      /\ Filed(mc, wire, Registered, LiveKeys)
  BY LedgerFacts DEF AckUnarmed, AckArmed
<1>1. wire' = wire
  BY DEF AckUnarmed, AckArmed, netVars
<1>2. CASE AckUnarmed(k)
  <2> DEFINE x == DisarmSubscribeAck(mc, k)
             y == RemoveDeferred(x, k)
  <2>0. UNCHANGED reg /\ mc' = CompleteResubscribeIfEmpty(y)
    BY <1>2 DEF AckUnarmed
  <2>1. Safe(x) /\ Filed(x, wire, Registered, LiveKeys)
    BY <1>0, DisarmSubscribeAckFacts, SameCoreSafe, DisarmFiled
  <2> HIDE DEF x
  <2>2. Safe(y) /\ Filed(y, wire, Registered, LiveKeys)
    BY <2>1, DeferFacts, SameCoreSafe, DisarmFiled DEF Safe
  <2> HIDE DEF y
  <2>3. Filed(mc', wire', Registered, LiveKeys) /\ Worked(mc')
    BY <1>1, <2>0, <2>2, CompleteFiled
  <2> QED  BY <2>0, <2>3, SameRegistry
<1>3. CASE AckArmed(k)
  <2> DEFINE y == RemoveDeferred(mc, k)
  <2>0. /\ reg' = NoteAcked(k) /\ k \in mc.ack_timeouts
        /\ mc' = WireSubscribeAck(y, k, mc.ack_timeouts = {k})
    BY <1>3 DEF AckArmed
  <2>1. Safe(y) /\ Filed(y, wire, Registered, LiveKeys)
    BY <1>0, DeferFacts, SameCoreSafe, DisarmFiled
  <2>2. y.ack_timeouts = mc.ack_timeouts /\ y.state = mc.state
    BY <1>0 DEF RemoveDeferred, Connection
  <2> HIDE DEF y
  <2>3. mc' = WireSubscribeAck(y, k, y.ack_timeouts = {k})
    BY <2>0, <2>2
  <2>4. Filed(mc', wire', Registered, LiveKeys) /\ Worked(mc')
    BY <1>0, <1>1, <2>0, <2>1, <2>2, <2>3, WireSubscribeAckFiled
  <2>5. Filed(mc', wire', Registered, LiveKeys \ {k})
    BY <2>4, FiledMoves
  <2> QED  BY <1>0, <2>0, <2>4, <2>5, NotedRegistry
<1> QED  BY <1>2, <1>3

\* handle_sub_ack of a reject.
LEMMA RejectsFiled ==
    ASSUME LedgerInv, NEW k \in Keys, NEW kind \in AuthErrorKinds, NEW transient \in BOOLEAN,
           RejectInHandshake(k, kind) \/ Reject(k, transient)
    PROVE  FiledNow'
<1>1. IInv /\ Safe(mc) /\ Held(mc) /\ Filed(mc, wire, Registered, LiveKeys) /\ Worked(mc) /\ k \in wire
  BY LedgerFacts DEF RejectInHandshake, Reject
<1>2. CASE RejectInHandshake(k, kind)
  <2> DEFINE x == WireAuthHandshakeFailed(mc, kind)
             c == DisarmSubscribeAck(x, k)
  <2>1. Land(c, {}, Unprojected(c), bridge) /\ UNCHANGED reg /\ mc.state = "Authenticating"
    BY <1>2 DEF RejectInHandshake
  <2>2. Safe(x) /\ Held(x)
    BY <1>1, WireAuthHandshakeFailedSafe, WireAuthHandshakeFailedHeld
  <2>3. Filed(x, wire, Registered, LiveKeys) /\ x.state # "Resubscribing"
    BY <1>1, <2>1, WireAuthHandshakeFailedFiled
  <2> HIDE DEF x
  <2>4. Safe(c) /\ Held(c)
    BY <2>2, DisarmSubscribeAckFacts, SubscribeView, SameCoreSafe, SameViewHeld DEF Safe
  <2>5. Filed(c, wire, Registered, LiveKeys)
    BY <1>1, <2>3, DisarmFiled
  <2>6. Worked(c)
    BY <2>2, <2>3 DEF Safe, DisarmSubscribeAck, Connection, Worked
  <2> HIDE DEF c
  <2>7. Filed(mc', wire', Registered, LiveKeys) /\ Worked(mc')
    BY <2>1, <2>4, <2>5, <2>6, UnprojectedHeld, LandFiled, NothingSent
  <2> QED  BY <2>1, <2>7, SameRegistry
<1>3. CASE Reject(k, transient)
  <2> DEFINE c == WireSubscribeFailed(mc, k, transient)
             L == IF transient THEN LiveKeys ELSE LiveKeys \ {k}
  <2>1. /\ Land(c, {}, Unprojected(c), bridge) /\ k \in mc.ack_timeouts
        /\ reg' = IF transient THEN reg ELSE NoteTerminated(k)
    BY <1>3 DEF Reject
  <2>2. Safe(c) /\ Held(c)
    BY <1>1, WireSubscribeFailedSafe, HandleSubscribeFailureHeld DEF WireSubscribeFailed
  <2>3. Filed(mc, wire, Registered, L) /\ k \in Registered /\ (~transient => k \notin L)
    BY <1>1, <2>1, FiledMoves, FiledFacts
  <2> HIDE DEF L
  <2>4. Filed(c, wire, Registered, L) /\ Worked(c)
    BY <1>1, <2>3, WireSubscribeFailedFiled
  <2> HIDE DEF c
  <2>5. Filed(mc', wire', Registered, L) /\ Worked(mc')
    BY <2>1, <2>2, <2>4, UnprojectedHeld, LandFiled, NothingSent
  <2>6. CASE transient
    BY <2>1, <2>5, <2>6, SameRegistry DEF L
  <2>7. CASE ~transient
    BY <1>1, <2>1, <2>5, <2>7, NotedRegistry DEF L
  <2> QED  BY <2>6, <2>7
<1> QED  BY <1>2, <1>3

\* The end of the response handlers.
LEMMA LandResponseFiled ==
    ASSUME NEW c, Safe(c), Held(c), NEW r, NEW sent, LandResponse(Resolved(c, r), r, sent),
           Filed(c, wire \union sent, Registered, LiveKeys), Worked(c)
    PROVE  FiledNow'
<1> DEFINE d == Resolved(c, r)
<1>1. SameView(d, c) /\ Safe(d) /\ SameBooks(d, c)
  BY ResolvedSafe, SMTT(30) DEF Safe, Resolved, SameView, SameBooks, Connection, Awaited, CloseWaiters
<1>2. Wired(d, sent, {r}, Unprojected(d), bridge) /\ UNCHANGED reg
  BY DEF LandResponse
<1> HIDE DEF d
<1>3. Held(d) /\ Filed(d, wire \union sent, Registered, LiveKeys) /\ Worked(d)
  BY <1>1, SameViewHeld, SameBooksFiled
<1>4. Filed(mc', wire', Registered, LiveKeys) /\ Worked(mc')
  BY <1>1, <1>2, <1>3, UnprojectedHeld, WiredFiled
<1> QED  BY <1>2, <1>4, SameRegistry

\* handle_request_response in its four cases.
LEMMA ResponsesFiled ==
    ASSUME LedgerInv, NEW r \in ReqIds, NEW kind \in {"TokenStale", "BadCreds"},
           \/ ResponseAuthenticates(r)
           \/ ResponseStaleInOpen(r)
           \/ ResponseResolves(r)
           \/ ResponseRefused(r, kind)
    PROVE  FiledNow'
<1>1. Safe(mc) /\ Held(mc) /\ Filed(mc, wire, Registered, LiveKeys) /\ Worked(mc)
  BY LedgerFacts
<1>2. CASE ResponseAuthenticates(r)
  <2> DEFINE x == WireAuthHandshakeOk(mc)
             y == WireOrderAuthOk(mc)
             E == IF LiveKeys # {} THEN ReplayAfterHandshake(x, LiveKeys)
                                   ELSE {Effect(y, {}, FALSE)}
  <2>0. mc.state = "Authenticating"
    BY <1>2 DEF ResponseAuthenticates
  <2>1. PICK e \in E : LandResponse(Resolved(e.conn, r), r, e.sent)
    BY <1>2 DEF ResponseAuthenticates
  <2>2. Safe(x) /\ Held(x) /\ Filed(x, wire, Registered, {}) /\ x.state \in SessionStates
    BY <1>1, <2>0, WireAuthHandshakeOkSafe, WireAuthHandshakeOkHeld, WireAuthHandshakeOkFiled
    DEF SessionStates
  <2>3. Safe(y) /\ Held(y) /\ Filed(y, wire, Registered, {}) /\ Worked(y)
    BY <1>1, <2>0, WireOrderAuthOkSafe, WireOrderAuthOkHeld, WireOrderAuthOkFiled
  <2> HIDE DEF x, y
  <2>4. /\ HeldEffects(ReplayAfterHandshake(x, LiveKeys))
        /\ FiledEffects(ReplayAfterHandshake(x, LiveKeys), wire, Registered, LiveKeys)
        /\ WorkedEffects(ReplayAfterHandshake(x, LiveKeys))
    <3>1. LiveKeys \ LiveKeys = {} /\ LiveKeys \in SUBSET Keys /\ LiveKeys \subseteq Registered
      BY LiveKeysType, RegisteredFacts
    <3> QED  BY <2>2, <3>1, ReplayHeld, ReplayFiled
  <2>5. LiveKeys = {} => /\ HeldEffects({Effect(y, {}, FALSE)})
                         /\ FiledEffects({Effect(y, {}, FALSE)}, wire, Registered, LiveKeys)
                         /\ WorkedEffects({Effect(y, {}, FALSE)})
    BY <2>3, RecordedHeld, NoSendFiled
  <2>6. HeldEffects(E) /\ FiledEffects(E, wire, Registered, LiveKeys) /\ WorkedEffects(E)
    BY <2>4, <2>5
  <2> HIDE DEF E
  <2>7. /\ Safe(e.conn) /\ Held(e.conn)
        /\ Filed(e.conn, wire \union e.sent, Registered, LiveKeys) /\ Worked(e.conn)
    BY <2>1, <2>6 DEF HeldEffects, FiledEffects, WorkedEffects
  <2> QED  BY <2>1, <2>7, LandResponseFiled
<1>3. CASE ResponseStaleInOpen(r)
  BY <1>1, <1>3, BusTokenRefreshSafe, BusTokenRefreshHeld, BusTokenRefreshFiled, LandResponseFiled,
     NothingSent DEF ResponseStaleInOpen
<1>4. CASE ResponseResolves(r)
  BY <1>1, <1>4, LandResponseFiled, NothingSent DEF ResponseResolves
<1>5. CASE ResponseRefused(r, kind)
  <2> DEFINE c == WireAuthHandshakeFailed(mc, kind)
  <2>1. kind \in AuthErrorKinds
    BY DEF AuthErrorKinds
  <2>2. Safe(c) /\ Held(c)
    BY <1>1, <2>1, WireAuthHandshakeFailedSafe, WireAuthHandshakeFailedHeld
  <2>3. Filed(c, wire \union {}, Registered, LiveKeys) /\ Worked(c)
    BY <1>1, <2>1, WireAuthHandshakeFailedFiled, NothingSent
  <2>4. LandResponse(Resolved(c, r), r, {})
    BY <1>5 DEF ResponseRefused
  <2> HIDE DEF c
  <2> QED  BY <2>2, <2>3, <2>4, LandResponseFiled
<1> QED  BY <1>2, <1>3, <1>4, <1>5

\* drive_wire_close leaves no session.
LEMMA WireClosedFiled ==
    ASSUME LedgerInv, NEW policy \in BOOLEAN, NEW admit \in BOOLEAN, WireClosed(policy, admit)
    PROVE  FiledNow'
<1> DEFINE c == WireCloseReceived(mc, policy, admit)
<1>1. /\ IF c.opened THEN Land(c, {}, "cur", TRUE) ELSE Land(c, {}, "none", FALSE)
      /\ UNCHANGED reg
  BY DEF WireClosed
<1>2. Safe(mc) /\ Held(mc) /\ (mc.state \notin SessionStates => Quiet(mc))
  BY LedgerFacts
<1>3. Held(c) /\ Quiet(c)
  BY <1>2, WireCloseReceivedHeld, WireCloseReceivedQuiet
<1> HIDE DEF c
<1>4. Filed(c, wire \union {}, Registered, LiveKeys) /\ Worked(c) /\ c.state \notin SessionStates
  BY <1>3, QuietFiled DEF Quiet
<1>5. Filed(mc', wire', Registered, LiveKeys) /\ Worked(mc')
  BY <1>1, <1>3, <1>4, LandFiled
<1> QED  BY <1>1, <1>5, SameRegistry

\* The timers that drive the FSM or the proactive refresh.
LEMMA TimerStepsFiled ==
    ASSUME LedgerInv, NEW admit \in BOOLEAN,
           \/ BackoffElapsed(admit)
           \/ RateBudgetWindowAdvanced(admit)
           \/ CloseTimeout(admit)
           \/ UpgradeTimeout
           \/ StalenessElapsed
           \/ TokenRefreshDue
    PROVE  FiledNow'
<1>0. /\ HeldInv /\ Safe(mc) /\ Held(mc) /\ mc \in Connection
      /\ Filed(mc, wire, Registered, LiveKeys) /\ Worked(mc)
  BY LedgerFacts
<1>1. ASSUME NEW t \in TimerNames
      PROVE  /\ Safe(Popped(t))
             /\ Filed(Popped(t), wire, Registered, LiveKeys)
             /\ Worked(Popped(t))
  <2>1. SameBooks(Popped(t), mc) /\ Safe(Popped(t))
    BY <1>0, PoppedSafe DEF HeldInv, SameBooks, Popped, Disarm, Connection
  <2> QED  BY <1>0, <2>1, SameBooksFiled
<1>2. ASSUME NEW c, Safe(c), Held(c), Filed(c, wire, Registered, LiveKeys), Worked(c),
             Project(c, {}), UNCHANGED reg
      PROVE  FiledNow'
  BY <1>2, ProjectFiled, NothingSent, SameRegistry
<1>3. CASE BackoffElapsed(admit)
  <2> DEFINE c == TimerBackoffElapsed(Popped("backoff"), admit)
  <2>1. Safe(c) /\ Held(c) /\ Filed(c, wire, Registered, LiveKeys) /\ Worked(c)
    BY <1>0, <1>1, RetryTimersSafe, PoppedTimersHeld, PoppedTimersFiled DEF TimerNames
  <2>2. Project(c, {}) /\ UNCHANGED reg
    BY <1>3 DEF BackoffElapsed
  <2> HIDE DEF c
  <2> QED  BY <1>2, <2>1, <2>2
<1>4. CASE RateBudgetWindowAdvanced(admit)
  <2> DEFINE c == TimerRateBudgetWindowAdvanced(Popped("rate_budget"), admit)
  <2>1. Safe(c) /\ Held(c) /\ Filed(c, wire, Registered, LiveKeys) /\ Worked(c)
    BY <1>0, <1>1, RetryTimersSafe, PoppedTimersHeld, PoppedTimersFiled DEF TimerNames
  <2>2. Project(c, {}) /\ UNCHANGED reg
    BY <1>4 DEF RateBudgetWindowAdvanced
  <2> HIDE DEF c
  <2> QED  BY <1>2, <2>1, <2>2
<1>5. CASE CloseTimeout(admit)
  <2> DEFINE c == TimerCloseTimeout(Popped("close"), admit)
  <2>1. Safe(c) /\ Held(c) /\ Filed(c, wire, Registered, LiveKeys) /\ Worked(c)
    BY <1>0, <1>1, TimersSafe, PoppedTimersHeld, PoppedTimersFiled DEF TimerNames
  <2>2. Project(c, {}) /\ UNCHANGED reg
    BY <1>5 DEF CloseTimeout
  <2> HIDE DEF c
  <2> QED  BY <1>2, <2>1, <2>2
<1>6. CASE UpgradeTimeout
  <2> DEFINE c == TimerUpgradeTimeout(Popped("upgrade"))
  <2>1. Safe(c) /\ Held(c) /\ Filed(c, wire, Registered, LiveKeys) /\ Worked(c)
    BY <1>0, <1>1, WireUpgradeFailedSafe, PoppedTimersHeld, WireUpgradeFailedFiled DEF TimerNames
  <2>2. Project(c, {}) /\ UNCHANGED reg
    BY <1>6 DEF UpgradeTimeout
  <2> HIDE DEF c
  <2> QED  BY <1>2, <2>1, <2>2
<1>7. CASE StalenessElapsed
  <2> DEFINE c == TimerStalenessElapsed(Popped("staleness"))
  <2>1. Safe(c) /\ Held(c) /\ Filed(c, wire, Registered, LiveKeys) /\ Worked(c)
    BY <1>0, <1>1, TimersSafe, PoppedTimersHeld, PoppedTimersFiled DEF TimerNames
  <2>2. Project(c, {}) /\ UNCHANGED reg
    BY <1>7 DEF StalenessElapsed
  <2> HIDE DEF c
  <2> QED  BY <1>2, <2>1, <2>2
<1>8. CASE TokenRefreshDue
  <2>1. UNCHANGED wire /\ UNCHANGED reg /\ mc' \in {mc, Popped("token_refresh")}
    BY <1>8 DEF TokenRefreshDue, netVars
  <2>2. Filed(mc', wire', Registered, LiveKeys) /\ Worked(mc')
    BY <1>0, <1>1, <2>1 DEF TimerNames
  <2> QED  BY <2>1, <2>2, SameRegistry
<1> QED  BY <1>3, <1>4, <1>5, <1>6, <1>7, <1>8

\* The per-entry ack timeout and resend timers.
LEMMA SubscribeTimersFiled ==
    ASSUME Url = "Auth", LedgerInv, NEW k \in Keys, SubscribeAckTimeout(k) \/ SubscribeResendDue(k)
    PROVE  FiledNow'
<1> DEFINE x == [mc EXCEPT !.ack_timeouts = @ \ {k}]
           y == [mc EXCEPT !.resend_due = @ \ {k}]
<1>0. /\ Safe(mc) /\ Held(mc) /\ mc \in Connection
      /\ Filed(mc, wire, Registered, LiveKeys) /\ Worked(mc)
  BY LedgerFacts
<1>1. Safe(x) /\ Safe(y) /\ Held(x) /\ Held(y)
  <2>1. SameCore(x, mc) /\ SameCore(y, mc)
    BY <1>0 DEF SameCore, Connection
  <2>2. SameView(x, mc) /\ SameView(y, mc)
    BY <1>0, <2>1 DEF SameCore, SameView, Connection, Awaited, CloseWaiters
  <2> QED  BY <1>0, <2>1, <2>2, SameCoreSafe, SameViewHeld
<1>2. mc.state \in SessionStates /\ k \in Registered
  <2>1. k \in mc.ack_timeouts \/ k \in mc.resend_due
    BY DEF SubscribeAckTimeout, SubscribeResendDue
  <2> QED  BY <1>0, <2>1, FiledFacts
<1>a. UNCHANGED reg
  BY DEF SubscribeAckTimeout, SubscribeResendDue
<1>3. CASE SubscribeAckTimeout(k)
  <2> DEFINE c == HandleSubscribeFailure(x, k, TRUE)
  <2>0. /\ x \in Connection /\ x.state = mc.state /\ x.ack_timeouts = mc.ack_timeouts \ {k}
        /\ x.resend_due = mc.resend_due /\ x.deferred = mc.deferred
    BY <1>0 DEF Connection
  <2>1. Project(c, {})
    BY <1>2, <1>3, <2>0 DEF SubscribeAckTimeout, TimerSubscribeAckTimeout
  <2> HIDE DEF x
  <2>2. Filed(x, wire, Registered, LiveKeys \ {k}) /\ x.state \in SessionStates
    BY <1>0, <1>2, <2>0 DEF Filed
  <2>3. Safe(c) /\ Held(c)
    BY <1>1, HandleSubscribeFailureSafe, HandleSubscribeFailureHeld
  <2>4. Filed(c, wire, Registered, LiveKeys) /\ Worked(c)
    BY <1>1, <1>2, <2>2, SubscribeFailureFiled
  <2> HIDE DEF c
  <2>5. Filed(mc', wire', Registered, LiveKeys) /\ Worked(mc')
    BY <2>1, <2>3, <2>4, ProjectFiled, NothingSent
  <2> QED  BY <1>a, <2>5, SameRegistry
<1>4. CASE SubscribeResendDue(k)
  <2>0. /\ y \in Connection /\ y.state = mc.state /\ y.ack_timeouts = mc.ack_timeouts
        /\ y.resend_due = mc.resend_due \ {k} /\ y.deferred = mc.deferred
    BY <1>0 DEF Connection
  <2>1. PICK e \in ResendEffects(y, k) : ProjectLate(e.conn, e.sent)
    BY <1>4 DEF SubscribeResendDue
  <2> HIDE DEF y
  <2>2. Filed(y, wire, Registered, LiveKeys \ {k}) /\ y.state \in SessionStates
    BY <1>0, <1>2, <2>0 DEF Filed
  <2>3. reg[k] # "absent" /\ sockets # "none"
    BY <1>0, <1>2 DEF Registered, Held, OnCurrent
  <2> DEFINE w == Defer(y, {k})
             d == CompleteResubscribeIfEmpty(w)
  <2>4. Safe(w) /\ Held(w) /\ Filed(w, wire, Registered, LiveKeys) /\ w.state \in SessionStates
    <3>1. Safe(w) /\ Held(w)
      BY <1>1, DeferFacts, SubscribeView, SameCoreSafe, SameViewHeld DEF Safe
    <3>2. {k} \in SUBSET Keys
      OBVIOUS
    <3>3. Filed(w, wire, Registered, LiveKeys) /\ w.state \in SessionStates
      BY <2>2, <3>2, DeferFiled
    <3> QED  BY <3>1, <3>3
  <2> HIDE DEF w
  <2>5. Safe(d) /\ Held(d) /\ Filed(d, wire, Registered, LiveKeys) /\ Worked(d)
    BY <2>4, CompleteResubscribeSafe, CompleteResubscribeHeld, CompleteFiled
  <2>6. d.state \in SessionStates
    BY <2>4, EnterOpenBooks DEF CompleteResubscribeIfEmpty, SessionStates
  <2> HIDE DEF d
  <2>7. /\ Filed(AwaitRefresh(d), wire, Registered, LiveKeys) /\ Worked(AwaitRefresh(d))
        /\ HeldEffects({Effect(AwaitRefresh(d), {}, ~d.awaiting_token_refresh)})
    BY <2>5, <2>6, AwaitFiled, RecordedHeld
  <2>8. LET E == {Effect(AwaitRefresh(d), {}, ~d.awaiting_token_refresh)}
        IN  HeldEffects(E) /\ FiledEffects(E, wire, Registered, LiveKeys) /\ WorkedEffects(E)
    BY <2>7, NoSendFiled
  <2>9. LET E == SendOne(y, k)
        IN  HeldEffects(E) /\ FiledEffects(E, wire, Registered, LiveKeys) /\ WorkedEffects(E)
    BY <1>1, <1>2, <2>2, SendOneHeld, SendOneFiled
  <2>10. LET E == ResendEffects(y, k)
         IN  HeldEffects(E) /\ FiledEffects(E, wire, Registered, LiveKeys) /\ WorkedEffects(E)
    BY <2>3, <2>8, <2>9 DEF ResendEffects, d, w
  <2>11. /\ Safe(e.conn) /\ Held(e.conn)
         /\ Filed(e.conn, wire \union e.sent, Registered, LiveKeys) /\ Worked(e.conn)
    BY <2>1, <2>10 DEF HeldEffects, FiledEffects, WorkedEffects
  <2>12. Filed(mc', wire', Registered, LiveKeys) /\ Worked(mc')
    BY <2>1, <2>11, ProjectFiled
  <2> QED  BY <1>a, <2>12, SameRegistry
<1> QED  BY <1>3, <1>4

\* Steps of the refresh tasks and stuttering leave the books, the wire and the registry alone.
LEMMA UnchangedFiled ==
    ASSUME LedgerInv, UNCHANGED <<mc, wire, reg>>
    PROVE  FiledNow'
<1>1. mc' = mc /\ wire' = wire /\ UNCHANGED reg
  OBVIOUS
<1> QED  BY <1>1, LedgerFacts, SameRegistry

\* Every turn of the reactor of an authenticated connection keeps it.
LEMMA LedgerInductive ==
    ASSUME Url = "Auth"
    PROVE  LedgerInv /\ [Next]_vars => LedgerInv'
<1> SUFFICES ASSUME LedgerInv, [Next]_vars PROVE FiledNow'
  BY HeldInductive DEF LedgerInv
<1>1. CASE CallerNext
  <2>1. ASSUME NEW k \in Keys, DeregisterOne(k) PROVE FiledNow'
    BY <2>1, ReleaseKeysFiled DEF DeregisterOne
  <2>2. CASE DeregisterAll
    BY <2>2, ReleaseKeysFiled DEF DeregisterAll
  <2>3. CASE WsRequestNoToken
    BY <2>3, RequestsFiled DEF WsRequestNoToken
  <2>4. ASSUME NEW rid \in CallIds, PostClose(rid) PROVE FiledNow'
    BY <2>4, PostsFiled
  <2> QED  BY <1>1, <2>1, <2>2, <2>3, <2>4, PostsFiled, RegisterFiled, RequestsFiled DEF CallerNext
<1>2. CASE WireNext
  <2>1. ASSUME NEW k \in Keys, NEW kind \in AuthErrorKinds, RejectInHandshake(k, kind)
        PROVE  FiledNow'
    BY <2>1, RejectsFiled
  <2>2. ASSUME NEW k \in Keys, NEW transient \in BOOLEAN, Reject(k, transient) PROVE FiledNow'
    BY <2>2, RejectsFiled DEF AuthErrorKinds
  <2>3. ASSUME NEW r \in ReqIds,
               ResponseAuthenticates(r) \/ ResponseStaleInOpen(r) \/ ResponseResolves(r)
        PROVE  FiledNow'
    BY <2>3, ResponsesFiled
  <2>4. ASSUME NEW r \in ReqIds, NEW kind \in {"TokenStale", "BadCreds"}, ResponseRefused(r, kind)
        PROVE  FiledNow'
    BY <2>4, ResponsesFiled
  <2>5. ASSUME NEW k \in Keys, SubAck(k) PROVE FiledNow'
    BY <2>5, AckInHandshakeFiled, AckFiled DEF SubAck
  <2> QED  BY <1>2, <2>1, <2>2, <2>3, <2>4, <2>5, UpgradeOkFiled, UpgradeFailedFiled,
              WireClosedFiled DEF WireNext
<1>3. CASE TimerNext
  <2>1. CASE UpgradeTimeout \/ StalenessElapsed \/ TokenRefreshDue
    BY <2>1, TimerStepsFiled
  <2> QED  BY <1>3, <2>1, TimerStepsFiled, SubscribeTimersFiled DEF TimerNext
<1>4. CASE TokenNext
  <2>1. ASSUME UNCHANGED <<mc, netVars, reg>> PROVE FiledNow'
    BY <2>1, UnchangedFiled DEF netVars
  <2> QED  BY <1>4, <2>1, RefreshOutcomeFiled DEF TokenNext, RefreshLands, ProactiveLands, TokenExpires
<1>5. CASE UNCHANGED vars
  BY <1>5, UnchangedFiled DEF vars
<1> QED  BY <1>1, <1>2, <1>3, <1>4, <1>5 DEF Next

\* A new reactor satisfies it.
LEMMA LedgerInit == Init => LedgerInv
<1> SUFFICES ASSUME Init PROVE FiledNow
  BY HeldInit DEF LedgerInv
<1>1. mc \in Connection /\ mc = NewConnection
  BY ReactorInit DEF IInv, Safe, Init
<1>2. /\ mc.state = "Idle" /\ mc.ack_timeouts = {} /\ mc.resend_due = {}
      /\ ~mc.awaiting_token_refresh
  BY <1>1 DEF NewConnection
<1>3. Quiet(mc)
  BY <1>1, <1>2 DEF Quiet, Emptied, SessionStates
<1> QED  BY <1>3, QuietFiled DEF FiledNow

\* It implies both properties.
LEMMA LedgerImplies == LedgerInv => ResubscribingHasWork /\ NoLostSubscription
  BY LedgerFacts DEF Filed, Worked, ResubscribingHasWork, NoLostSubscription

\* On the authenticated connection no live subscription is ever forgotten by a session
\* that replays or is open: through token misses, full outboxes, resends, late acks,
\* releases and reconnects it is on this socket, to be resent, or deferred.
THEOREM NoSubscriptionLost ==
    ASSUME Url = "Auth"
    PROVE  Spec => []NoLostSubscription
  BY LedgerInit, LedgerInductive, LedgerImplies, PTL DEF Spec

\* The authenticated connection never sits in Resubscribing with nothing to leave it by.
THEOREM ResubscribingAlwaysHasWork ==
    ASSUME Url = "Auth"
    PROVE  Spec => []ResubscribingHasWork
  BY LedgerInit, LedgerInductive, LedgerImplies, PTL DEF Spec

----------------------------------------------------------------------------
(***************************************************************************)
(* The refresh that an authenticated connection waits for.  No handler but *)
(* the ones that spawn a refresh starts a wait, and a reactive outcome     *)
(* ends the wait before it is lost from the queue.  The orders are left    *)
(* out: a stale answer to one that probes a handshake starts a wait and no *)
(* refresh.                                                                *)
(***************************************************************************)

\* d waits for a refresh only if c did.
NoNewWait(d, c) == d.awaiting_token_refresh => c.awaiting_token_refresh

\* The same of every effect of a send that spawned none.
OwedEffects(E, c) == \A e \in E : e.spawn \/ NoNewWait(e.conn, c)

\* Outside a session nothing is waited for, and only the books tell.
LEMMA WaitFacts ==
    ASSUME NEW c, NEW d
    PROVE  /\ Emptied(d) => NoNewWait(d, c)
           /\ Quiet(d) => NoNewWait(d, c)
           /\ SameBooks(d, c) => NoNewWait(d, c)
  BY DEF Emptied, Quiet, SameBooks, NoNewWait

\* The ack bookkeeping of a session and enter_open keep the wait.
LEMMA SessionWaits ==
    ASSUME NEW c, Safe(c), c.state \in SessionStates, NEW k \in Keys
    PROVE  /\ NoNewWait(ArmSubscribeAck(c, k), c)
           /\ NoNewWait(HandleSubscribeFailure(c, k, TRUE), c)
           /\ \A admit \in BOOLEAN : NoNewWait(WireAbnormalClose(c, admit), c)
<1>0. c \in Connection
  BY DEF Safe
<1>1. NoNewWait(ArmSubscribeAck(c, k), c)
  BY <1>0 DEF NoNewWait, ArmSubscribeAck, Connection
<1>2. \A admit \in BOOLEAN : NoNewWait(WireAbnormalClose(c, admit), c)
  <2>1. \A admit \in BOOLEAN : Quiet(WireCloseReceived(c, FALSE, admit))
    BY WireCloseReceivedQuiet
  <2> QED  BY <2>1, WaitFacts DEF WireAbnormalClose
<1>3. NoNewWait(HandleSubscribeFailure(c, k, TRUE), c)
  <2> DEFINE left == AttemptsLeft(c, k)
             S == IF left > 0 THEN c.resend_due \union {k} ELSE c.resend_due \ {k}
             f == [c.ack_attempts EXCEPT ![k] = left]
             d == [c EXCEPT !.ack_timeouts = @ \ {k}, !.resend_due = S, !.ack_attempts = f]
  <2>1. left \in 0..SubscribeAckAttempts
    BY <1>0, AttemptsLeftType
  <2>2. HandleSubscribeFailure(c, k, TRUE) = IF left > 0 THEN d ELSE SubscribeBudgetExhausted(d)
    BY DEF HandleSubscribeFailure
  <2> HIDE DEF left
  <2>3. S \in SUBSET Keys /\ f \in [Keys -> {Absent} \union (0..SubscribeAckAttempts)]
    BY <1>0, <2>1 DEF Connection
  <2> HIDE DEF S, f
  <2>4. SameCore(d, c)
    BY <1>0, <2>3 DEF SameCore, Connection
  <2>5. NoNewWait(d, c)
    BY <1>0 DEF NoNewWait, Connection
  <2> HIDE DEF d
  <2>6. Quiet(SubscribeBudgetExhausted(d))
    BY <2>4, SameCoreSafe, BudgetExhaustedQuiet
  <2> QED  BY <2>2, <2>5, <2>6, WaitFacts
<1> QED  BY <1>1, <1>2, <1>3

LEMMA BooksKeepWaits ==
    ASSUME NEW c, Safe(c), NEW k \in Keys
    PROVE  /\ NoNewWait(DisarmSubscribeAck(c, k), c)
           /\ NoNewWait(RemoveDeferred(c, k), c)
           /\ NoNewWait(CompleteResubscribeIfEmpty(c), c)
<1>1. NoNewWait(DisarmSubscribeAck(c, k), c) /\ NoNewWait(RemoveDeferred(c, k), c)
  BY DEF Safe, NoNewWait, DisarmSubscribeAck, RemoveDeferred, Connection
<1>2. NoNewWait(CompleteResubscribeIfEmpty(c), c)
  BY EnterOpenBooks DEF CompleteResubscribeIfEmpty, NoNewWait, SessionStates
<1> QED  BY <1>1, <1>2

\* send_subscribe_frame, whatever its outcome.
LEMMA SendOneOwed ==
    ASSUME NEW c, Safe(c), c.state \in SessionStates, NEW k \in Keys
    PROVE  OwedEffects(SendOne(c, k), c)
<1>1. ASSUME NEW result \in SendResults(c), NEW admit \in BOOLEAN
      PROVE  NoNewWait(SendSubscribe(c, k, result, admit), c)
  BY <1>1, SessionWaits DEF SendSubscribe, SendResults
<1>2. ASSUME NEW e \in SendOne(c, k) PROVE NoNewWait(e.conn, c)
  <2>1. PICK admit \in BOOLEAN : e \in SendOutcomes(c, k, admit)
    BY <1>2 DEF SendOne
  <2>2. PICK result \in SendResults(c) :
            e = Effect(SendSubscribe(c, k, result, admit), IF result = "sent" THEN {k} ELSE {}, FALSE)
    BY <2>1 DEF SendOutcomes
  <2>3. e.conn = SendSubscribe(c, k, result, admit)
    BY <2>2 DEF Effect
  <2> QED  BY <1>1, <2>3
<1> QED  BY <1>2 DEF OwedEffects

\* A loop of sends, wherever it stops.
LEMMA SendManyOwed ==
    ASSUME NEW c, Safe(c), c.state \in SessionStates, NEW F
    PROVE  OwedEffects(SendMany(c, F), c)
<1> SUFFICES ASSUME NEW e \in SendMany(c, F) PROVE NoNewWait(e.conn, c)
  BY DEF OwedEffects
<1>1. PICK b \in Batches : e = Effect(SendBatch(c, b), b.sent, FALSE)
  BY DEF SendMany
<1>2. e.conn = SendBatch(c, b)
  BY <1>1 DEF Effect
<1>3. CASE b.end = "done"
  <2>1. SendBatch(c, b).awaiting_token_refresh = c.awaiting_token_refresh
    BY <1>3 DEF SendBatch, Safe, Connection
  <2> QED  BY <1>2, <2>1 DEF NoNewWait
<1>4. CASE b.end = "exhausted"
  BY <1>2, <1>4, BudgetExhaustedQuiet, WaitFacts DEF SendBatch
<1>5. CASE b.end = "dead"
  BY <1>2, <1>5, SessionWaits, WireCloseReceivedQuiet, WaitFacts DEF SendBatch, WireAbnormalClose
<1> QED  BY <1>3, <1>4, <1>5 DEF Batches

\* A wait that a token miss starts is one that it spawns a refresh for.
LEMMA DeferForTokenOwed ==
    ASSUME NEW c, Safe(c), NEW F
    PROVE  OwedEffects(DeferForToken(c, F), c)
<1> SUFFICES ASSUME NEW e \in DeferForToken(c, F) PROVE e.spawn \/ NoNewWait(e.conn, c)
  BY DEF OwedEffects
<1>1. e.spawn = ~c.awaiting_token_refresh
  BY DEF DeferForToken, Effect
<1> QED  BY <1>1 DEF NoNewWait

\* The signed sends, with a token or without.
LEMMA SignedSendsOwed ==
    ASSUME NEW c, Safe(c), c.state \in SessionStates, NEW F \in SUBSET Keys
    PROVE  /\ OwedEffects(SendFirstSignedSubscribe(c), c)
           /\ OwedEffects(SendRemainingSignedSubscribes(c, F), c)
           /\ \A k \in Keys : OwedEffects(SendSingleSignedSubscribe(c, k), c)
<1>1. ASSUME NEW S PROVE OwedEffects(DeferForToken(c, S), c)
  BY DeferForTokenOwed
<1>2. OwedEffects(SendFirstSignedSubscribe(c), c)
  <2>1. OwedEffects(UNION {SendOne(c, j) : j \in LiveKeys}, c)
    BY SendOneOwed, LiveKeysType DEF OwedEffects
  <2>2. OwedEffects({Effect(AwaitRefresh(c), {}, TRUE)}, c) /\ OwedEffects({Effect(c, {}, FALSE)}, c)
    BY DEF OwedEffects, Effect, NoNewWait
  <2> QED  BY <2>1, <2>2 DEF SendFirstSignedSubscribe
<1>3. OwedEffects(SendMany(c, F), c) /\ \A k \in Keys : OwedEffects(SendOne(c, k), c)
  BY SendManyOwed, SendOneOwed
<1> QED  BY <1>1, <1>2, <1>3 DEF SendRemainingSignedSubscribes, SendSingleSignedSubscribe

LEMMA ReplayOwed ==
    ASSUME NEW c, Safe(c), c.state \in SessionStates, NEW F \in SUBSET Keys
    PROVE  OwedEffects(ReplayAfterHandshake(c, F), c)
<1>1. GoodEffects(SendRemainingSignedSubscribes(c, F))
  BY SendManyGood, DeferForTokenGood DEF SendRemainingSignedSubscribes
<1>2. OwedEffects(SendRemainingSignedSubscribes(c, F), c)
  BY SignedSendsOwed
<1>3. ASSUME NEW x \in ReplayAfterHandshake(c, F) PROVE x.spawn \/ NoNewWait(x.conn, c)
  <2>1. PICK e \in SendRemainingSignedSubscribes(c, F) :
            x = Effect(CompleteResubscribeIfEmpty(e.conn), e.sent, e.spawn)
    BY DEF ReplayAfterHandshake
  <2>2. x.conn = CompleteResubscribeIfEmpty(e.conn) /\ x.spawn = e.spawn
    BY <2>1 DEF Effect
  <2>3. Safe(e.conn)
    BY <1>1 DEF GoodEffects
  <2>4. NoNewWait(CompleteResubscribeIfEmpty(e.conn), e.conn)
    BY <2>3, EnterOpenBooks DEF CompleteResubscribeIfEmpty, NoNewWait, SessionStates
  <2> QED  BY <1>2, <2>2, <2>4 DEF OwedEffects, NoNewWait
<1> QED  BY <1>3 DEF OwedEffects

----------------------------------------------------------------------------
(* The reactor. *)

OwedInv == LedgerInv /\ RefreshOwed

\* The end of a handler that spawned what it says.
LEMMA SpawnOwed ==
    ASSUME OwedInv, NEW c, NoNewWait(mc', c), NEW spawn \in BOOLEAN, spawn \/ NoNewWait(c, mc),
           refreshing' = IF spawn THEN RefreshSpawned ELSE refreshing, landed' = landed
    PROVE  RefreshOwed'
<1>1. refreshing \in 0..MaxRefresh /\ MaxRefresh \in Nat \ {0} /\ RefreshOwed
  BY LedgerFacts, ReactorAssumption DEF OwedInv, IInv, TokenOK
<1>2. RefreshSpawned > 0
  BY <1>1 DEF RefreshSpawned
<1>3. CASE spawn
  BY <1>2, <1>3 DEF RefreshOwed
<1>4. CASE ~spawn
  BY <1>1, <1>4 DEF RefreshOwed, NoNewWait
<1> QED  BY <1>3, <1>4

\* A handler that leaves the tokens alone.
LEMMA KeptOwed ==
    ASSUME OwedInv, NEW c, NoNewWait(mc', c), NoNewWait(c, mc), UNCHANGED tokenVars
    PROVE  RefreshOwed'
<1>1. refreshing' = refreshing /\ landed' = landed
  BY DEF tokenVars
<1>2. refreshing' = IF FALSE THEN RefreshSpawned ELSE refreshing
  BY <1>1
<1> QED  BY <1>1, <1>2, SpawnOwed

\* Wiring the socket is not on the books.
LEMMA WiredWaits ==
    ASSUME NEW c \in Connection, NEW sent, NEW done, NEW s, NEW b
    PROVE  /\ Wired(c, sent, done, s, b) => NoNewWait(mc', c)
           /\ Land(c, sent, s, b) => NoNewWait(mc', c)
           /\ Project(c, sent) => NoNewWait(mc', c)
           /\ ProjectLate(c, sent) => NoNewWait(mc', c)
<1>1. ASSUME mc' = [c EXCEPT !.opened = FALSE] PROVE NoNewWait(mc', c)
  BY <1>1 DEF NoNewWait, Connection
<1> QED  BY <1>1 DEF Project, ProjectLate, Land, Wired

\* Posts leave no session; a registration spawns the refresh it defers to.
LEMMA CallersOwed ==
    ASSUME Url = "Auth", OwedInv, CallerNext, ReqIds = {}
    PROVE  RefreshOwed'
<1>0. /\ Safe(mc) /\ mc \in Connection /\ Held(mc) /\ (mc.state \notin SessionStates => Quiet(mc))
      /\ ReactorId \in Ids
  BY LedgerFacts DEF OwedInv, Ids
<1>1. ASSUME NEW rid \in CallIds, NEW admit \in BOOLEAN,
             PostStartConnect(rid, admit) \/ PostForceReconnect(rid, admit) \/ PostClose(rid)
      PROVE  RefreshOwed'
  <2>0. rid \in Ids /\ UNCHANGED tokenVars
    BY <1>1 DEF Ids, PostStartConnect, PostForceReconnect, PostClose
  <2>1. CASE PostStartConnect(rid, admit)
    <3> DEFINE c == CallStartConnect(mc, rid, admit)
               d == Ask(c, rid)
    <3>1. Quiet(c) /\ Project(d, {})
      BY <1>0, <2>0, <2>1, CallStartConnectQuiet DEF PostStartConnect, SessionStates
    <3> HIDE DEF c
    <3>2. Quiet(d) /\ d \in Connection
      BY <2>0, <3>1, BooksFacts, SameBooksFiled DEF Quiet, Emptied, TimerNames, LifecycleEvents
    <3> HIDE DEF d
    <3> QED  BY <2>0, <3>1, <3>2, WaitFacts, WiredWaits, KeptOwed
  <2>2. CASE PostForceReconnect(rid, admit)
    <3> DEFINE c == CallForceReconnect(mc, rid, admit)
    <3>1. Quiet(c)
      BY <1>0, <2>0, CallForceReconnectQuiet
    <3>2. Project(c, {})
      BY <2>2 DEF PostForceReconnect
    <3> HIDE DEF c
    <3> QED  BY <2>0, <3>1, <3>2, WaitFacts, WiredWaits, KeptOwed DEF Quiet, Emptied
  <2>3. CASE PostClose(rid)
    <3> DEFINE c == CallClose(mc, rid)
    <3>1. Quiet(c)
      BY <1>0, <2>0, CallCloseQuiet
    <3>2. Project(c, {})
      BY <2>3 DEF PostClose
    <3> HIDE DEF c
    <3> QED  BY <2>0, <3>1, <3>2, WaitFacts, WiredWaits, KeptOwed DEF Quiet, Emptied
  <2> QED  BY <1>1, <2>1, <2>2, <2>3
<1>2. ASSUME NEW k \in Keys, NEW admit \in BOOLEAN, Register(k, admit) PROVE RefreshOwed'
  <2> DEFINE c == Started(admit)
  <2>1. PICK e \in RegisterEffects(c, k) :
            /\ Land(e.conn, e.sent, AfterRegister(e.conn, RegisterSocket(c)),
                    IF mc.state = "Idle" THEN e.conn.socket ELSE bridge /\ e.conn.socket)
            /\ Spawn(e.spawn)
    BY <1>2, Zenon DEF Register
  <2>2. Safe(c) /\ Held(c)
    BY <1>0, CallStartConnectSafe, CallStartConnectHeld DEF Started
  <2>3. NoNewWait(c, mc)
    <3>1. mc.state = "Idle" => Quiet(CallStartConnect(mc, ReactorId, admit))
      BY <1>0, CallStartConnectQuiet DEF SessionStates
    <3> QED  BY <3>1, WaitFacts DEF Started, NoNewWait
  <2> HIDE DEF c
  <2>4. OwedEffects(RegisterEffects(c, k), c) /\ GoodEffects(RegisterEffects(c, k))
    <3>1. RegisterSends(c) => c.state \in SessionStates
      BY DEF RegisterSends, AuthenticatingNothingInFlight, SessionStates
    <3>2. RegisterSends(c) => OwedEffects(SendSingleSignedSubscribe(c, k), c)
      BY <2>2, <3>1, SignedSendsOwed
    <3>3. OwedEffects({Effect(c, {}, FALSE)}, c)
      BY DEF OwedEffects, Effect, NoNewWait
    <3>4. GoodEffects(SendSingleSignedSubscribe(c, k)) /\ GoodEffects({Effect(c, {}, FALSE)})
      BY <2>2, SignedSendsGood, OneEffect
    <3> QED  BY <3>2, <3>3, <3>4 DEF RegisterEffects
  <2>5. e.conn \in Connection /\ e.spawn \in BOOLEAN /\ (e.spawn \/ NoNewWait(e.conn, c))
    BY <2>1, <2>4 DEF OwedEffects, GoodEffects, Safe
  <2>6. NoNewWait(mc', e.conn) /\ (e.spawn \/ NoNewWait(e.conn, mc))
    BY <2>1, <2>3, <2>5, WiredWaits DEF NoNewWait
  <2>7. refreshing' = (IF e.spawn THEN RefreshSpawned ELSE refreshing) /\ landed' = landed
    BY <2>1 DEF Spawn
  <2> QED  BY <2>5, <2>6, <2>7, SpawnOwed
<1>3. ASSUME NEW S \in SUBSET Keys, ReleaseKeys(S) PROVE RefreshOwed'
  <2> DEFINE f == [k \in Keys |-> IF k \in S THEN Absent ELSE mc.ack_attempts[k]]
             d == [mc EXCEPT !.ack_timeouts = @ \ S, !.resend_due = @ \ S,
                             !.ack_attempts = f, !.deferred = @ \ S]
             g == CompleteResubscribeIfEmpty(d)
  <2>1. Land(g, {}, sockets, bridge) /\ UNCHANGED tokenVars
    BY <1>3 DEF ReleaseKeys
  <2>2. f \in [Keys -> {Absent} \union (0..SubscribeAckAttempts)]
    BY <1>0 DEF Connection
  <2> HIDE DEF f
  <2>3. SameCore(d, mc)
    BY <1>0, <2>2 DEF SameCore, Connection
  <2>4. NoNewWait(d, mc)
    BY <1>0 DEF NoNewWait, Connection
  <2> HIDE DEF d
  <2>5. Safe(d)
    BY <1>0, <2>3, SameCoreSafe
  <2>6. NoNewWait(g, d)
    BY <2>5, EnterOpenBooks DEF CompleteResubscribeIfEmpty, NoNewWait, SessionStates
  <2>7. g \in Connection
    BY <2>5, CompleteResubscribeSafe DEF Safe
  <2> HIDE DEF g
  <2> QED  BY <2>1, <2>4, <2>6, <2>7, WiredWaits, KeptOwed DEF NoNewWait
<1>4. ASSUME NEW k \in Keys, DeregisterOne(k) PROVE RefreshOwed'
  BY <1>3, <1>4 DEF DeregisterOne
<1>5. CASE DeregisterAll
  BY <1>3, <1>5 DEF DeregisterAll
<1>6. ASSUME NEW rid \in CallIds, PostClose(rid) PROVE RefreshOwed'
  BY <1>1, <1>6
<1> QED  BY <1>1, <1>2, <1>4, <1>5, <1>6 DEF CallerNext, WsRequestNoToken

\* An upgrade or an ack of the probe starts a wait only with a refresh.
LEMMA HandshakeOwed ==
    ASSUME Url = "Auth", OwedInv, NEW k,
           UpgradeOk \/ (k \in Keys /\ k \in wire /\ AckInHandshake(k))
    PROVE  RefreshOwed'
<1>0. /\ Safe(mc) /\ Held(mc) /\ mc \in Connection /\ (mc.state \notin SessionStates => Quiet(mc))
      /\ Filed(mc, wire, Registered, LiveKeys)
  BY LedgerFacts DEF OwedInv
<1>1. ASSUME NEW E, GoodEffects(E), NEW c, OwedEffects(E, c), NoNewWait(c, mc), NEW b,
             \E e \in E : Land(e.conn, e.sent, Unprojected(e.conn), b) /\ Spawn(e.spawn)
      PROVE  RefreshOwed'
  <2>1. PICK e \in E : Land(e.conn, e.sent, Unprojected(e.conn), b) /\ Spawn(e.spawn)
    BY <1>1
  <2>2. e.conn \in Connection /\ e.spawn \in BOOLEAN /\ (e.spawn \/ NoNewWait(e.conn, mc))
    BY <1>1, <2>1 DEF OwedEffects, GoodEffects, Safe, NoNewWait
  <2>3. refreshing' = (IF e.spawn THEN RefreshSpawned ELSE refreshing) /\ landed' = landed
    BY <2>1 DEF Spawn
  <2> QED  BY <2>1, <2>2, <2>3, WiredWaits, SpawnOwed
<1>2. CASE UpgradeOk
  <2> DEFINE c == WireUpgradeOk(mc)
  <2>0. mc.state = "Connecting" /\ sockets = "cur"
    BY <1>2 DEF UpgradeOk
  <2>1. Emptied(c) /\ c.state = "Authenticating" /\ Safe(c)
    BY <1>0, <2>0, WireUpgradeOkFiled, WireUpgradeOkSafe DEF SessionStates
  <2>2. UpgradeOkAuth
    BY <1>2, <2>1 DEF UpgradeOk, UpgradeOkReplay, UpgradeOkFirst
  <2>3. \E e \in SendFirstSignedSubscribe(c) :
            Land(e.conn, e.sent, Unprojected(e.conn), FALSE) /\ Spawn(e.spawn)
    BY <2>2 DEF UpgradeOkAuth
  <2> HIDE DEF c
  <2>4. OwedEffects(SendFirstSignedSubscribe(c), c) /\ GoodEffects(SendFirstSignedSubscribe(c))
    BY <2>1, SignedSendsOwed, SendFirstSignedSubscribeGood DEF SessionStates
  <2> QED  BY <1>1, <2>1, <2>3, <2>4, WaitFacts
<1>3. CASE k \in Keys /\ k \in wire /\ AckInHandshake(k)
  <2> DEFINE x == WireAuthHandshakeOk(mc)
             y == DisarmSubscribeAck(x, k)
             c == RemoveDeferred(y, k)
             F == LiveKeys \ {k}
  <2>0. mc.state = "Authenticating"
    BY <1>3 DEF AckInHandshake
  <2>1. \E e \in ReplayAfterHandshake(c, F) :
            Land(e.conn, e.sent, Unprojected(e.conn), bridge) /\ Spawn(e.spawn)
    BY <1>3 DEF AckInHandshake
  <2>2. Safe(x) /\ x.state = "Resubscribing"
    BY <1>0, <2>0, WireAuthHandshakeOkSafe, WireAuthHandshakeOkFiled
  <2>3. ~x.awaiting_token_refresh
    BY <1>0, <2>0 DEF WireAuthHandshakeOk, Connection
  <2> HIDE DEF x
  <2>4. Safe(y) /\ ~y.awaiting_token_refresh /\ y.state = "Resubscribing"
    BY <1>3, <2>2, <2>3, DisarmSubscribeAckFacts, SameCoreSafe DEF Safe, DisarmSubscribeAck, Connection
  <2> HIDE DEF y
  <2>5. Safe(c)
    BY <1>3, <2>4, DeferFacts, SameCoreSafe DEF Safe
  <2>6. ~c.awaiting_token_refresh /\ c.state \in SessionStates
    BY <2>4 DEF Safe, RemoveDeferred, Connection, SessionStates
  <2> HIDE DEF c
  <2>7. F \in SUBSET Keys
    BY LiveKeysType
  <2>8. OwedEffects(ReplayAfterHandshake(c, F), c) /\ GoodEffects(ReplayAfterHandshake(c, F))
    BY <2>5, <2>6, <2>7, ReplayOwed, ReplayGood
  <2> QED  BY <1>1, <2>1, <2>6, <2>8 DEF NoNewWait
<1> QED  BY <1>2, <1>3

\* The other frames and the ends of the socket start no wait, but for a stale probe,
\* whose handler spawns the refresh.
LEMMA WireOwed ==
    ASSUME Url = "Auth", OwedInv, WireNext, ReqIds = {}
    PROVE  RefreshOwed'
<1>0. /\ Safe(mc) /\ Held(mc) /\ mc \in Connection /\ (mc.state \notin SessionStates => Quiet(mc))
      /\ Filed(mc, wire, Registered, LiveKeys) /\ Worked(mc)
  BY LedgerFacts DEF OwedInv
<1>1. ASSUME NEW transient \in BOOLEAN, UpgradeFailed(transient) \/ LateUpgradeFailed(transient)
      PROVE  RefreshOwed'
  <2> DEFINE c == WireUpgradeFailed(mc, transient)
             s == IF c.socket THEN sockets ELSE "none"
  <2>1. (\E b : Wired(c, {}, {}, s, b)) /\ UNCHANGED tokenVars
    BY <1>1 DEF UpgradeFailed, LateUpgradeFailed
  <2>2. c \in Connection
    BY <1>0, WireUpgradeFailedSafe DEF Safe
  <2>3. NoNewWait(c, mc)
    <3>1. CASE mc.state = "Connecting"
      <4>1. Filed(c, wire, Registered, LiveKeys) /\ c.state \notin SessionStates
        <5>1. Filed(c, wire, Registered, LiveKeys)
          BY <1>0, WireUpgradeFailedFiled
        <5>2. c.state \notin SessionStates
          <6> DEFINE d == [mc EXCEPT !.socket = FALSE]
                     e == Disarm(d, "upgrade")
          <6>1. Drained(d)
            BY <1>0, <3>1 DEF Safe, Drained, Connection, SessionStates
          <6> HIDE DEF d
          <6>2. Drained(e)
            BY <6>1 DEF Drained, Disarm, Connection
          <6>3. c \in {BackOff(e, "attempt_failed"), Fail(e)}
            BY <3>1 DEF WireUpgradeFailed, e, d
          <6> HIDE DEF e, c
          <6> QED  BY <6>2, <6>3, EndStates DEF LifecycleEvents
        <5> QED  BY <5>1, <5>2
      <4>2. Quiet(c)
        BY <4>1, FiledFacts
      <4> QED  BY <4>2, WaitFacts
    <3>2. CASE mc.state # "Connecting"
      BY <3>2 DEF WireUpgradeFailed, NoNewWait
    <3> QED  BY <3>1, <3>2
  <2> HIDE DEF c, s
  <2> QED  BY <2>1, <2>2, <2>3, WiredWaits, KeptOwed
<1>2. ASSUME NEW k \in Keys, AckUnarmed(k) PROVE RefreshOwed'
  <2> DEFINE x == DisarmSubscribeAck(mc, k)
             y == RemoveDeferred(x, k)
             z == CompleteResubscribeIfEmpty(y)
  <2>0. mc' = z /\ UNCHANGED tokenVars
    BY <1>2 DEF AckUnarmed
  <2>1. Safe(x) /\ NoNewWait(x, mc)
    BY <1>0, DisarmSubscribeAckFacts, SameCoreSafe, BooksKeepWaits
  <2> HIDE DEF x
  <2>2. Safe(y) /\ NoNewWait(y, x)
    BY <2>1, DeferFacts, SameCoreSafe, BooksKeepWaits DEF Safe
  <2> HIDE DEF y
  <2>3. NoNewWait(z, y)
    BY <2>2, BooksKeepWaits
  <2> HIDE DEF z
  <2>4. NoNewWait(mc', mc) /\ NoNewWait(mc, mc)
    BY <2>0, <2>1, <2>2, <2>3 DEF NoNewWait
  <2> QED  BY <2>0, <2>4, KeptOwed
<1>3. ASSUME NEW k \in Keys, AckArmed(k) PROVE RefreshOwed'
  <2> DEFINE y == RemoveDeferred(mc, k)
             z == DisarmSubscribeAck(y, k)
             last == mc.ack_timeouts = {k}
  <2>0. mc' = WireSubscribeAck(y, k, last) /\ UNCHANGED tokenVars
    BY <1>3 DEF AckArmed
  <2>1. Safe(y) /\ NoNewWait(y, mc)
    BY <1>0, DeferFacts, SameCoreSafe, BooksKeepWaits
  <2>9. last \in BOOLEAN
    OBVIOUS
  <2> HIDE DEF y, last
  <2>2. Safe(z) /\ NoNewWait(z, y) /\ z.state = y.state
    BY <2>1, DisarmSubscribeAckFacts, SameCoreSafe, BooksKeepWaits DEF Safe, SameCore
  <2>3. mc' = y \/ mc' = z \/ (y.state = "Resubscribing" /\ mc' = EnterOpen(z))
    <3>1. CASE last
      BY <2>0, <3>1 DEF WireSubscribeAck
    <3>2. CASE ~last
      BY <2>0, <3>2 DEF WireSubscribeAck
    <3> QED  BY <2>9, <3>1, <3>2
  <2> HIDE DEF z
  <2>4. y.state = "Resubscribing" => NoNewWait(EnterOpen(z), z)
    BY <2>2, EnterOpenBooks DEF NoNewWait, SessionStates
  <2>5. NoNewWait(mc', mc) /\ NoNewWait(mc, mc)
    BY <2>1, <2>2, <2>3, <2>4 DEF NoNewWait
  <2> QED  BY <2>0, <2>5, KeptOwed
<1>4. ASSUME NEW k \in Keys, NEW kind \in AuthErrorKinds, RejectInHandshake(k, kind)
      PROVE  RefreshOwed'
  <2> DEFINE x == WireAuthHandshakeFailed(mc, kind)
             c == DisarmSubscribeAck(x, k)
             spawn == c.state = "Authenticating" /\ c.awaiting_token_refresh
  <2>1. Land(c, {}, Unprojected(c), bridge) /\ Spawn(spawn) /\ mc.state = "Authenticating"
    BY <1>4 DEF RejectInHandshake
  <2>2. Safe(x) /\ Filed(x, wire, Registered, LiveKeys) /\ x.state # "Resubscribing"
    BY <1>0, <2>1, WireAuthHandshakeFailedSafe, WireAuthHandshakeFailedFiled
  <2>3. x.state # "Open"
    <3>1. HandshakeRefused(mc).state \notin SessionStates /\ HandshakeTransient(mc).state \notin SessionStates
      BY <1>0, TeardownQuiet DEF HandshakeRefused, HandshakeTransient, Quiet, LifecycleEvents
    <3>2. HandshakeTokenStale(mc).state \notin {"Open"}
      <4> DEFINE n == SaturatingIncrement(mc.auth_handshake_fail_count)
                 d == [mc EXCEPT !.auth_handshake_fail_count = n]
      <4>1. n \in 0..CountMax
        BY <1>0, IncrementType DEF Connection
      <4>2. \/ HandshakeTokenStale(mc) = Fail(ExitHandshakeTeardown(d))
            \/ HandshakeTokenStale(mc) = [d EXCEPT !.awaiting_token_refresh = TRUE,
                                                   !.attempt_count = SaturatingIncrement(@)]
        BY DEF HandshakeTokenStale
      <4> HIDE DEF n
      <4>3. SameCore(d, mc) /\ d.state = "Authenticating"
        BY <1>0, <2>1, <4>1 DEF SameCore, Connection
      <4> HIDE DEF d
      <4>4. Quiet(Fail(ExitHandshakeTeardown(d)))
        BY <1>0, <4>3, SameCoreSafe, TeardownQuiet DEF LifecycleEvents
      <4>5. [d EXCEPT !.awaiting_token_refresh = TRUE,
                      !.attempt_count = SaturatingIncrement(@)].state = "Authenticating"
        BY <4>3 DEF SameCore, Connection
      <4> QED  BY <4>2, <4>4, <4>5 DEF Quiet, SessionStates
    <3> QED  BY <2>1, <3>1, <3>2 DEF WireAuthHandshakeFailed, SessionStates
  <2> HIDE DEF x
  <2>4. c \in Connection /\ c.state = x.state /\ NoNewWait(c, x)
    BY <2>2, DisarmSubscribeAckFacts, BooksKeepWaits DEF Safe, SameCore
  <2> HIDE DEF c
  <2>5. spawn \/ NoNewWait(c, mc)
    <3>1. c.state # "Authenticating" => ~x.awaiting_token_refresh
      BY <2>2, <2>3, <2>4, FiledFacts DEF Quiet, Emptied, SessionStates
    <3> QED  BY <2>4, <3>1 DEF NoNewWait
  <2>6. spawn \in BOOLEAN /\ landed' = landed
    BY <2>1 DEF Spawn
  <2>7. refreshing' = IF spawn THEN RefreshSpawned ELSE refreshing
    BY <2>1 DEF Spawn
  <2> HIDE DEF spawn
  <2> QED  BY <2>1, <2>4, <2>5, <2>6, <2>7, WiredWaits, SpawnOwed
<1>5. ASSUME NEW k \in Keys, NEW transient \in BOOLEAN, Reject(k, transient) PROVE RefreshOwed'
  <2> DEFINE c == WireSubscribeFailed(mc, k, transient)
             z == DisarmSubscribeAck(mc, k)
  <2>1. Land(c, {}, Unprojected(c), bridge) /\ UNCHANGED tokenVars
    BY <1>5 DEF Reject
  <2>2. c \in Connection
    BY <1>0, WireSubscribeFailedSafe DEF Safe
  <2>3. NoNewWait(c, mc)
    <3>1. CASE mc.state \notin {"Resubscribing", "Open"}
      BY <3>1 DEF WireSubscribeFailed, NoNewWait
    <3>2. CASE mc.state \in {"Resubscribing", "Open"} /\ transient
      BY <1>0, <3>2, SessionWaits DEF WireSubscribeFailed, SessionStates
    <3>3. CASE mc.state \in {"Resubscribing", "Open"} /\ ~transient
      <4>1. Safe(z) /\ NoNewWait(z, mc)
        BY <1>0, DisarmSubscribeAckFacts, SameCoreSafe, BooksKeepWaits
      <4>2. c = CompleteResubscribeIfEmpty(z)
        BY <3>3 DEF WireSubscribeFailed, HandleSubscribeFailure, SubscribeTerminated
      <4> HIDE DEF z, c
      <4>3. NoNewWait(CompleteResubscribeIfEmpty(z), z)
        BY <4>1, BooksKeepWaits
      <4> QED  BY <4>1, <4>2, <4>3 DEF NoNewWait
    <3> QED  BY <3>1, <3>2, <3>3
  <2> HIDE DEF c
  <2> QED  BY <2>1, <2>2, <2>3, WiredWaits, KeptOwed
<1>6. ASSUME NEW policy \in BOOLEAN, NEW admit \in BOOLEAN, WireClosed(policy, admit)
      PROVE  RefreshOwed'
  <2> DEFINE c == WireCloseReceived(mc, policy, admit)
  <2>1. /\ IF c.opened THEN Land(c, {}, "cur", TRUE) ELSE Land(c, {}, "none", FALSE)
        /\ UNCHANGED tokenVars
    BY <1>6 DEF WireClosed
  <2>2. Quiet(c)
    BY <1>0, WireCloseReceivedQuiet
  <2> HIDE DEF c
  <2> QED  BY <2>1, <2>2, WaitFacts, WiredWaits, KeptOwed DEF Quiet, Emptied
<1>7. ASSUME NEW k \in Keys, SubAck(k) PROVE RefreshOwed'
  BY <1>2, <1>3, <1>7, HandshakeOwed DEF SubAck
<1> QED  BY <1>1, <1>4, <1>5, <1>6, <1>7, HandshakeOwed DEF WireNext

\* Timers: a teardown or a retry starts no wait, a resend spawns the refresh it defers to.
LEMMA TimersOwed ==
    ASSUME Url = "Auth", OwedInv, TimerNext
    PROVE  RefreshOwed'
<1>0. /\ HeldInv /\ Safe(mc) /\ Held(mc) /\ mc \in Connection
      /\ (mc.state \notin SessionStates => Quiet(mc))
      /\ Filed(mc, wire, Registered, LiveKeys) /\ Worked(mc)
  BY LedgerFacts DEF OwedInv
<1>1. ASSUME NEW t \in TimerNames
      PROVE  /\ Safe(Popped(t)) /\ SameBooks(Popped(t), mc) /\ Popped(t).state = mc.state
             /\ Filed(Popped(t), wire, Registered, LiveKeys) /\ Worked(Popped(t))
  <2>1. SameBooks(Popped(t), mc) /\ Safe(Popped(t))
    BY <1>0, PoppedSafe DEF HeldInv, SameBooks, Popped, Disarm, Connection
  <2> QED  BY <1>0, <2>1, SameBooksFiled DEF SameBooks
<1>2. ASSUME NEW c, Safe(c), NoNewWait(c, mc), Project(c, {}), UNCHANGED tokenVars
      PROVE  RefreshOwed'
  BY <1>2, WiredWaits, KeptOwed DEF Safe
<1>3. ASSUME NEW t \in TimerNames, NEW c, c = Popped(t) \/ Quiet(c)
      PROVE  NoNewWait(c, mc)
  BY <1>1, <1>3, WaitFacts
<1>4. ASSUME NEW admit \in BOOLEAN, BackoffElapsed(admit) \/ RateBudgetWindowAdvanced(admit)
      PROVE  RefreshOwed'
  <2> DEFINE c == TimerBackoffElapsed(Popped("backoff"), admit)
             d == TimerRateBudgetWindowAdvanced(Popped("rate_budget"), admit)
  <2>1. Safe(c) /\ Safe(d)
    BY <1>1, RetryTimersSafe DEF TimerNames
  <2>2. /\ Filed(c, wire, Registered, LiveKeys) /\ Filed(d, wire, Registered, LiveKeys)
    BY <1>1, PoppedTimersFiled DEF TimerNames
  <2>3. c = Popped("backoff") \/ Quiet(c)
    <3>1. CASE mc.state = "BackingOff"
      <4>1. c.state \in {"Connecting", "BackingOff"}
        <5> DEFINE p == Popped("backoff")
        <5>1. p \in Connection /\ p.state = "BackingOff"
          BY <1>1, <3>1 DEF TimerNames, Safe
        <5>2. c = Retry(p, "backoff", admit)
          BY <5>1 DEF TimerBackoffElapsed
        <5> HIDE DEF p, c
        <5> QED  BY <5>1, <5>2 DEF Retry, EnterConnecting, Throttle, Publish, Arm, Disarm, Connection
      <4> QED  BY <2>2, <4>1, FiledFacts DEF SessionStates
    <3>2. CASE mc.state # "BackingOff"
      BY <1>1, <3>2 DEF TimerBackoffElapsed, TimerNames
    <3> QED  BY <3>1, <3>2
  <2>4. d = Popped("rate_budget") \/ Quiet(d)
    <3>1. CASE mc.state = "BackingOff"
      <4>1. d.state \in {"Connecting", "BackingOff"}
        <5> DEFINE p == Popped("rate_budget")
        <5>1. p \in Connection /\ p.state = "BackingOff"
          BY <1>1, <3>1 DEF TimerNames, Safe
        <5>2. d = Retry(p, "rate_budget", admit)
          BY <5>1 DEF TimerRateBudgetWindowAdvanced
        <5> HIDE DEF p, d
        <5> QED  BY <5>1, <5>2 DEF Retry, EnterConnecting, Throttle, Publish, Arm, Disarm, Connection
      <4> QED  BY <2>2, <4>1, FiledFacts DEF SessionStates
    <3>2. CASE mc.state # "BackingOff"
      BY <1>1, <3>2 DEF TimerRateBudgetWindowAdvanced, TimerNames
    <3> QED  BY <3>1, <3>2
  <2>5. NoNewWait(c, mc) /\ NoNewWait(d, mc)
    <3> HIDE DEF c, d
    <3> QED  BY <1>3, <2>3, <2>4 DEF TimerNames
  <2>6. UNCHANGED tokenVars /\ (Project(c, {}) \/ Project(d, {}))
    BY <1>4 DEF BackoffElapsed, RateBudgetWindowAdvanced
  <2> HIDE DEF c, d
  <2> QED  BY <1>2, <2>1, <2>5, <2>6
<1>5. ASSUME NEW admit \in BOOLEAN, CloseTimeout(admit) PROVE RefreshOwed'
  <2> DEFINE c == TimerCloseTimeout(Popped("close"), admit)
  <2>1. Safe(c)
    BY <1>1, TimersSafe DEF TimerNames
  <2>2. c = Popped("close") \/ Quiet(c)
    <3>1. Popped("close").state = "Closing" =>
            Safe(Popped("close")) /\ Quiet(Popped("close"))
      BY <1>1, FiledFacts DEF TimerNames, SessionStates
    <3> QED  BY <3>1, EnterClosedOrReconnectQuiet DEF TimerCloseTimeout
  <2>3. Project(c, {}) /\ UNCHANGED tokenVars
    BY <1>5 DEF CloseTimeout
  <2> HIDE DEF c
  <2>4. NoNewWait(c, mc)
    BY <1>3, <2>2 DEF TimerNames
  <2> QED  BY <1>2, <2>1, <2>3, <2>4
<1>6. CASE UpgradeTimeout
  <2> DEFINE p == Popped("upgrade")
             c == TimerUpgradeTimeout(p)
             d == [p EXCEPT !.socket = FALSE]
             e == Disarm(d, "upgrade")
  <2>0. Safe(p) /\ p.state = mc.state /\ Filed(p, wire, Registered, LiveKeys) /\ Worked(p)
    BY <1>1 DEF TimerNames
  <2>1. Project(c, {}) /\ UNCHANGED tokenVars
    BY <1>6 DEF UpgradeTimeout
  <2> HIDE DEF p
  <2>2. Safe(c)
    BY <2>0, WireUpgradeFailedSafe
  <2>3. c = p \/ Quiet(c)
    <3>1. CASE p.state = "Connecting"
      <4>1. Drained(d) /\ Emptied(d)
        BY <2>0, <3>1, FiledFacts DEF Safe, Drained, Quiet, Emptied, Connection, SessionStates
      <4>2. c = BackOff(e, "attempt_failed")
        BY <3>1 DEF TimerUpgradeTimeout
      <4> HIDE DEF d
      <4>3. Drained(e) /\ Emptied(e)
        BY <4>1 DEF Drained, Emptied, Disarm, Connection
      <4> HIDE DEF e
      <4> QED  BY <4>2, <4>3, BackOffQuiet DEF LifecycleEvents
    <3>2. CASE p.state # "Connecting"
      BY <3>2 DEF TimerUpgradeTimeout
    <3> QED  BY <3>1, <3>2
  <2> HIDE DEF c
  <2>4. NoNewWait(c, mc)
    BY <1>3, <2>3 DEF TimerNames, p
  <2> QED  BY <1>2, <2>1, <2>2, <2>4
<1>7. CASE StalenessElapsed
  <2> DEFINE p == Popped("staleness")
             c == TimerStalenessElapsed(p)
  <2>0. Safe(p)
    BY <1>1 DEF TimerNames
  <2>1. Project(c, {}) /\ UNCHANGED tokenVars
    BY <1>7 DEF StalenessElapsed
  <2>2. Safe(c)
    BY <2>0, TimersSafe
  <2>3. Quiet(BackOff(ExitHandshakeTeardown(p), "attempt_failed")) /\ Quiet(BackOff(ExitOpenTeardown(p), "dropped"))
    BY <2>0, TeardownQuiet DEF LifecycleEvents
  <2>4. c = p \/ Quiet(c)
    BY <2>3 DEF TimerStalenessElapsed
  <2> HIDE DEF c
  <2>5. NoNewWait(c, mc)
    BY <1>3, <2>4 DEF TimerNames
  <2> QED  BY <1>2, <2>1, <2>2, <2>5
<1>8. ASSUME NEW k \in Keys, SubscribeAckTimeout(k) PROVE RefreshOwed'
  <2> DEFINE x == [mc EXCEPT !.ack_timeouts = @ \ {k}]
             c == TimerSubscribeAckTimeout(x, k)
  <2>0. x.state = mc.state /\ x.awaiting_token_refresh = mc.awaiting_token_refresh
    BY <1>0 DEF Connection
  <2>1. Project(c, {}) /\ UNCHANGED tokenVars
    BY <1>8 DEF SubscribeAckTimeout
  <2>2. SameCore(x, mc)
    BY <1>0 DEF SameCore, Connection
  <2> HIDE DEF x
  <2>3. Safe(x)
    BY <1>0, <2>2, SameCoreSafe
  <2>4. Safe(c) /\ NoNewWait(c, x)
    BY <2>3, HandleSubscribeFailureSafe, SessionWaits DEF TimerSubscribeAckTimeout, NoNewWait
  <2> HIDE DEF c
  <2> QED  BY <1>2, <2>0, <2>1, <2>4 DEF NoNewWait
<1>9. ASSUME NEW k \in Keys, SubscribeResendDue(k) PROVE RefreshOwed'
  <2> DEFINE y == [mc EXCEPT !.resend_due = @ \ {k}]
             w == Defer(y, {k})
             d == CompleteResubscribeIfEmpty(w)
  <2>0. y.state = mc.state /\ y.awaiting_token_refresh = mc.awaiting_token_refresh
    BY <1>0 DEF Connection
  <2>1. PICK e \in ResendEffects(y, k) : ProjectLate(e.conn, e.sent) /\ Spawn(e.spawn)
    BY <1>9 DEF SubscribeResendDue
  <2>2. SameCore(y, mc) /\ y.state \in SessionStates
    <3>1. mc.state \in SessionStates
      BY <1>0, <1>9, FiledFacts DEF SubscribeResendDue
    <3> QED  BY <1>0, <3>1 DEF SameCore, Connection
  <2> HIDE DEF y
  <2>3. Safe(y)
    BY <1>0, <2>2, SameCoreSafe
  <2>4. Safe(w) /\ w.awaiting_token_refresh = y.awaiting_token_refresh
    BY <2>3, DeferFacts, SameCoreSafe DEF Safe, Defer, Connection
  <2> HIDE DEF w
  <2>5. Safe(d) /\ d.awaiting_token_refresh = w.awaiting_token_refresh
    BY <2>4, CompleteResubscribeSafe, EnterOpenBooks DEF CompleteResubscribeIfEmpty, SessionStates
  <2>6. ResendEffects(y, k) \in {{Effect(y, {}, FALSE)}, SendOne(y, k),
                                 {Effect(AwaitRefresh(d), {}, ~d.awaiting_token_refresh)}}
    BY DEF ResendEffects, d, w
  <2> HIDE DEF d
  <2>7. e.conn \in Connection /\ e.spawn \in BOOLEAN /\ (e.spawn \/ NoNewWait(e.conn, y))
    <3>1. CASE e \in {Effect(y, {}, FALSE)}
      <4>1. e.conn = y /\ e.spawn = FALSE
        BY <3>1 DEF Effect
      <4> QED  BY <2>3, <4>1 DEF NoNewWait, Safe
    <3>2. CASE e \in SendOne(y, k)
      BY <2>2, <2>3, <3>2, SendOneOwed, SendOneGood DEF OwedEffects, GoodEffects, Safe
    <3>3. CASE e \in {Effect(AwaitRefresh(d), {}, ~d.awaiting_token_refresh)}
      <4>1. e.spawn = ~d.awaiting_token_refresh /\ e.conn = AwaitRefresh(d)
        BY <3>3 DEF Effect
      <4>2. AwaitRefresh(d) \in Connection
        BY <2>5 DEF AwaitRefresh, Safe, Connection
      <4> QED  BY <2>4, <2>5, <4>1, <4>2 DEF NoNewWait
    <3> QED  BY <2>1, <2>6, <3>1, <3>2, <3>3
  <2>8. refreshing' = (IF e.spawn THEN RefreshSpawned ELSE refreshing) /\ landed' = landed
    BY <2>1 DEF Spawn
  <2>9. NoNewWait(mc', e.conn) /\ (e.spawn \/ NoNewWait(e.conn, mc))
    BY <2>0, <2>1, <2>7, WiredWaits DEF NoNewWait
  <2> QED  BY <2>7, <2>8, <2>9, SpawnOwed
<1>10. CASE TokenRefreshDue
  <2>1. mc' \in {mc, Popped("token_refresh")} /\ refreshing' = refreshing /\ landed' = landed
    BY <1>10 DEF TokenRefreshDue
  <2>2. NoNewWait(mc', mc)
    BY <1>1, <2>1, WaitFacts DEF TimerNames, NoNewWait
  <2> QED  BY <2>1, <2>2 DEF RefreshOwed, OwedInv, NoNewWait
<1> QED  BY <1>4, <1>5, <1>6, <1>7, <1>8, <1>9, <1>10 DEF TimerNext

\* Outcomes: a reactive one ends the wait it takes from the queue.
LEMMA TokensOwed ==
    ASSUME OwedInv, TokenNext
    PROVE  RefreshOwed'
<1>0. /\ Safe(mc) /\ mc \in Connection /\ RefreshOwed /\ (mc.state \notin SessionStates => Quiet(mc))
      /\ refreshing \in 0..MaxRefresh /\ MaxRefresh \in Nat \ {0} /\ landed \in SUBSET Outcomes
  BY LedgerFacts, ReactorAssumption DEF OwedInv, IInv, TokenOK
<1>1. ASSUME NEW o \in ReactiveOutcomes, RefreshLands(o) PROVE RefreshOwed'
  BY <1>0, <1>1 DEF RefreshLands, RefreshOwed
<1>2. ASSUME NEW o \in {"proactive_ok", "proactive_err"}, ProactiveLands(o) PROVE RefreshOwed'
  BY <1>0, <1>2 DEF ProactiveLands, RefreshOwed
<1>3. CASE TokenExpires
  BY <1>0, <1>3 DEF TokenExpires, RefreshOwed
<1>4. ASSUME NEW o \in Outcomes, RefreshOutcome(o) PROVE RefreshOwed'
  <2> DEFINE c == DeliverRefresh(o)
  <2>1. PICK e \in RefreshEffects(o, c) :
            /\ ProjectLate(RearmTokenRefresh(o, e.conn), e.sent)
            /\ refreshing' = IF e.spawn THEN RefreshSpawned ELSE refreshing
    BY <1>4 DEF RefreshOutcome
  <2>2. landed' = landed \ {o}
    BY <1>4 DEF RefreshOutcome
  <2>3. Safe(c)
    BY <1>0, BusTokenRefreshSafe DEF DeliverRefresh
  <2>4. NoNewWait(c, mc) /\ (o \in ReactiveOutcomes => ~c.awaiting_token_refresh)
    <3>1. mc.state \notin SessionStates => ~mc.awaiting_token_refresh
      BY <1>0 DEF Quiet, Emptied
    <3>2. ~BusTokenRefreshed(mc).awaiting_token_refresh
      BY <1>0, <3>1 DEF BusTokenRefreshed, Connection
    <3>3. \A b \in BOOLEAN : ~BusTokenRefreshFailed(mc, b).awaiting_token_refresh
      <4> SUFFICES ASSUME NEW b \in BOOLEAN PROVE ~BusTokenRefreshFailed(mc, b).awaiting_token_refresh
        OBVIOUS
      <4>1. Quiet(AuthenticatingRefreshFailed(mc, b))
        BY <1>0, TeardownQuiet DEF AuthenticatingRefreshFailed, LifecycleEvents
      <4>2. ~AuthenticatingRefreshFailed(mc, b).awaiting_token_refresh
        BY <4>1 DEF Quiet, Emptied
      <4> QED  BY <1>0, <3>1, <4>2 DEF BusTokenRefreshFailed, Connection, SessionStates
    <3>4. (o # "fatal") \in BOOLEAN
      OBVIOUS
    <3> QED  BY <3>2, <3>3, <3>4 DEF DeliverRefresh, NoNewWait
  <2> HIDE DEF c
  <2>5. OwedEffects(RefreshEffects(o, c), c) /\ GoodEffects(RefreshEffects(o, c))
    <3>1. OwedEffects({Effect(c, {}, FALSE)}, c) /\ GoodEffects({Effect(c, {}, FALSE)})
      <4>1. OwedEffects({Effect(c, {}, FALSE)}, c)
        BY DEF OwedEffects, Effect, NoNewWait
      <4> QED  BY <2>3, <4>1, OneEffect
    <3>2. AuthenticatingNothingInFlight(c) =>
            /\ OwedEffects(SendFirstSignedSubscribe(c), c)
            /\ GoodEffects(SendFirstSignedSubscribe(c))
      BY <2>3, SignedSendsOwed, SendFirstSignedSubscribeGood
      DEF AuthenticatingNothingInFlight, SessionStates
    <3>3. c.state \in {"Open", "Resubscribing"} =>
            OwedEffects(DrainDeferred(c), c) /\ GoodEffects(DrainDeferred(c))
      <4> DEFINE d == [c EXCEPT !.deferred = {}]
                 F == Reissue(c)
      <4>1. SameCore(d, c) /\ d.awaiting_token_refresh = c.awaiting_token_refresh
        BY <2>3 DEF Safe, SameCore, Connection
      <4>2. F \in SUBSET Keys
        BY <2>3 DEF Reissue, Safe, Connection
      <4>3. d.state = c.state
        BY <2>3 DEF Safe, Connection
      <4>4. DrainDeferred(c) \in {SendMany(d, F), DeferForToken(d, F)}
        BY DEF DrainDeferred
      <4> HIDE DEF d, F
      <4>5. Safe(d)
        BY <2>3, <4>1, SameCoreSafe
      <4>6. c.state \in {"Open", "Resubscribing"} =>
              OwedEffects(SendMany(d, F), d) /\ OwedEffects(DeferForToken(d, F), d)
        BY <4>3, <4>5, SendManyOwed, DeferForTokenOwed DEF SessionStates
      <4>7. GoodEffects(SendMany(d, F)) /\ GoodEffects(DeferForToken(d, F))
        BY <4>2, <4>5, SendManyGood, DeferForTokenGood
      <4>8. \A E : OwedEffects(E, d) => OwedEffects(E, c)
        BY <4>1 DEF OwedEffects, NoNewWait
      <4> QED  BY <4>4, <4>6, <4>7, <4>8
    <3> QED  BY <3>1, <3>2, <3>3 DEF RefreshEffects
  <2> DEFINE x == e.conn
             y == RearmTokenRefresh(o, x)
  <2>6. x \in Connection /\ e.spawn \in BOOLEAN /\ (e.spawn \/ NoNewWait(x, c))
    BY <2>1, <2>5 DEF OwedEffects, GoodEffects, Safe
  <2>7. ProjectLate(y, e.sent)
    BY <2>1
  <2> HIDE DEF x
  <2>8. y \in Connection /\ NoNewWait(y, x)
    <3>1. /\ SameBooks(Disarm(x, "token_refresh"), x) /\ SameBooks(Arm(x, "token_refresh"), x)
          /\ SameBooks(x, x)
      BY <2>6 DEF SameBooks, Arm, Disarm, Connection, TimerNames
    <3>2. y \in {x, Disarm(x, "token_refresh"), Arm(x, "token_refresh")}
      BY DEF RearmTokenRefresh
    <3> HIDE DEF y
    <3> QED  BY <3>1, <3>2, WaitFacts DEF SameBooks
  <2> HIDE DEF y
  <2>9. NoNewWait(mc', x)
    BY <2>7, <2>8, WiredWaits DEF NoNewWait
  <2>10. CASE e.spawn
    <3>1. RefreshSpawned > 0
      BY <1>0 DEF RefreshSpawned
    <3> QED  BY <2>1, <2>10, <3>1 DEF RefreshOwed
  <2>11. CASE ~e.spawn
    <3>1. refreshing' = refreshing /\ NoNewWait(mc', c)
      BY <2>1, <2>6, <2>9, <2>11 DEF NoNewWait
    <3>2. CASE o \in ReactiveOutcomes
      BY <2>4, <3>1, <3>2 DEF NoNewWait, RefreshOwed
    <3>3. CASE o \notin ReactiveOutcomes
      <4>1. landed' \intersect ReactiveOutcomes = landed \intersect ReactiveOutcomes
        BY <2>2, <3>3
      <4> QED  BY <1>0, <2>4, <3>1, <4>1 DEF NoNewWait, RefreshOwed
    <3> QED  BY <3>2, <3>3
  <2> QED  BY <2>6, <2>10, <2>11
<1> QED  BY <1>1, <1>2, <1>3, <1>4 DEF TokenNext

\* Every turn of the reactor of an authenticated connection without orders keeps it.
LEMMA OwedInductive ==
    ASSUME Url = "Auth", ReqIds = {}
    PROVE  OwedInv /\ [Next]_vars => OwedInv'
<1> SUFFICES ASSUME OwedInv, [Next]_vars PROVE RefreshOwed'
  BY LedgerInductive DEF OwedInv
<1>1. CASE UNCHANGED vars
  BY <1>1 DEF OwedInv, RefreshOwed, vars
<1> QED  BY <1>1, CallersOwed, WireOwed, TimersOwed, TokensOwed DEF Next

\* A new reactor satisfies it.
LEMMA OwedInit == Init => OwedInv
<1> SUFFICES ASSUME Init PROVE RefreshOwed
  BY LedgerInit DEF OwedInv
<1> QED  BY DEF Init, NewConnection, RefreshOwed

\* A session of subscriptions that waits for a token refresh always has one in flight or
\* queued: no reject, token miss or expiry leaves it waiting for a refresh nobody started.
THEOREM RefreshAlwaysOwed ==
    ASSUME Url = "Auth", ReqIds = {}
    PROVE  Spec => []RefreshOwed
<1>1. OwedInv => RefreshOwed
  BY DEF OwedInv
<1> QED  BY <1>1, OwedInit, OwedInductive, PTL DEF Spec

=============================================================================
