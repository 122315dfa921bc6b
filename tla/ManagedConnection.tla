-------------------------- MODULE ManagedConnection --------------------------
(***************************************************************************)
(* The connection state machine of conn/managed_connection: one record per *)
(* WebSocket URL, and one operator per arm of handle_event.  The machine   *)
(* has no steps of its own: the I/O Reactor (module IoReactor) is its only *)
(* caller and composes several of these operators in one of its handlers,  *)
(* so the operators are functions from a connection to a connection.       *)
(*                                                                         *)
(* Instants are left out: a timer is armed or not.  The outcome of the     *)
(* connect-rate budget, which both connections share, is the parameter     *)
(* "admit" (see module ConnectionRateBudget).                              *)
(***************************************************************************)
EXTENDS Integers, FiniteSets

CONSTANTS
    Url,                       \* "Public" or "Auth"
    Keys,                      \* subscription keys (channel, pair)
    ReqIds,                    \* correlation ids of WS requests (orders)
    CallIds,                   \* request ids of connect / close calls
    ReactorId,                 \* the id the reactor allocates by itself
    ReconnectAttempts,         \* knob: {} for None, {n} for Some(n)
    SubscribeAckAttempts,      \* knob subscribe_ack_attempts
    MaxAuthHandshakeFailures,  \* knob max_auth_handshake_failures
    CountMax                   \* where the attempt counters saturate (u32::MAX)

ASSUME ConnectionAssumption ==
    /\ Url \in {"Public", "Auth"}
    /\ ReactorId \notin CallIds
    /\ ReconnectAttempts \in SUBSET Nat
    /\ SubscribeAckAttempts \in Nat
    /\ MaxAuthHandshakeFailures \in Nat
    /\ CountMax \in Nat
    /\ MaxAuthHandshakeFailures <= CountMax

States == {"Idle", "Connecting", "Authenticating", "Resubscribing", "Open",
           "BackingOff", "Closing", "Closed", "Failed"}

\* The states in which an upgraded socket carries a session.
SessionStates == {"Authenticating", "Resubscribing", "Open"}

TimerNames == {"backoff", "upgrade", "staleness", "close", "rate_budget",
               "token_refresh"}

\* What lifecycle subscribers are told; "none" before the first event.
LifecycleEvents == {"none", "connecting", "throttled", "attempt_failed", "open",
                    "dropped", "failed", "closed"}

\* The events that announce the end of a session or of an attempt.
DisconnectEvents == {"attempt_failed", "dropped", "failed", "closed"}

Ids == CallIds \union {ReactorId}

\* Option<T>: a set of at most one element.
Opt(S) == {{}} \union {{x} : x \in S}

\* No entry in subscribe_ack_attempts.
Absent == -1

NoAttempts == [k \in Keys |-> Absent]

(***************************************************************************)
(* The last four fields are not in the code: seen is the last lifecycle    *)
(* event published, undrained records that a disconnect event was once     *)
(* published while a request was still in flight, asked_connect and        *)
(* asked_close are the callers whose request id the machine accepted and   *)
(* has not answered.                                                       *)
(***************************************************************************)
Connection == [
    state : States,
    attempt_count : 0..CountMax,
    auth_handshake_fail_count : 0..CountMax,
    has_been_open : BOOLEAN,
    awaiting_token_refresh : BOOLEAN,
    socket : BOOLEAN,
    opened : BOOLEAN,
    pending_requests : SUBSET ReqIds,
    timers : SUBSET TimerNames,
    ack_timeouts : SUBSET Keys,
    resend_due : SUBSET Keys,
    ack_attempts : [Keys -> {Absent} \union (0..SubscribeAckAttempts)],
    deferred : SUBSET Keys,
    pending_connect : Opt(Ids),
    additional_connect : SUBSET Ids,
    pending_close : Opt(Ids),
    additional_close : SUBSET Ids,
    pending_reconnect : Opt(Ids),
    seen : LifecycleEvents,
    undrained : BOOLEAN,
    asked_connect : SUBSET Ids,
    asked_close : SUBSET Ids]

\* A new connection; opened marks a socket opened by the current handler.
NewConnection == [
    state |-> "Idle",
    attempt_count |-> 0,
    auth_handshake_fail_count |-> 0,
    has_been_open |-> FALSE,
    awaiting_token_refresh |-> FALSE,
    socket |-> FALSE,
    opened |-> FALSE,
    pending_requests |-> {},
    timers |-> {},
    ack_timeouts |-> {},
    resend_due |-> {},
    ack_attempts |-> NoAttempts,
    deferred |-> {},
    pending_connect |-> {},
    additional_connect |-> {},
    pending_close |-> {},
    additional_close |-> {},
    pending_reconnect |-> {},
    seen |-> "none",
    undrained |-> FALSE,
    asked_connect |-> {},
    asked_close |-> {}]

----------------------------------------------------------------------------
(* Publishing and draining. *)

\* emit_lifecycle of an event that answers no waiter.
Publish(c, ev) ==
    [c EXCEPT !.seen = ev,
              !.undrained = @ \/ (ev \in DisconnectEvents /\ c.pending_requests # {})]

\* emit_connection_failed: every connect waiter is answered and forgotten.
EmitConnectionFailed(c) ==
    [Publish(c, "failed") EXCEPT
        !.pending_connect = {},
        !.additional_connect = {},
        !.asked_connect = @ \ (c.pending_connect \union c.additional_connect)]

\* PendingRequestMap::drain resolves every request future.
DrainRequests(c) == [c EXCEPT !.pending_requests = {}]

SaturatingIncrement(n) == IF n < CountMax THEN n + 1 ELSE n

SaturatingDecrement(n) == IF n > 0 THEN n - 1 ELSE 0

----------------------------------------------------------------------------
(* Timers and the per-entry subscribe-ack bookkeeping. *)

Arm(c, t) == [c EXCEPT !.timers = @ \union {t}]

Disarm(c, t) == [c EXCEPT !.timers = @ \ {t}]

\* arm_subscribe_ack: the first arm seeds the budget, a re-arm keeps it.
ArmSubscribeAck(c, k) ==
    [c EXCEPT !.ack_timeouts = @ \union {k},
              !.ack_attempts[k] = IF @ = Absent THEN SubscribeAckAttempts ELSE @]

DisarmSubscribeAck(c, k) ==
    [c EXCEPT !.ack_timeouts = @ \ {k},
              !.resend_due = @ \ {k},
              !.ack_attempts[k] = Absent]

ClearSubscribeAckState(c) ==
    [c EXCEPT !.ack_timeouts = {},
              !.resend_due = {},
              !.ack_attempts = NoAttempts,
              !.deferred = {},
              !.awaiting_token_refresh = FALSE]

RemoveDeferred(c, k) == [c EXCEPT !.deferred = @ \ {k}]

Defer(c, S) == [c EXCEPT !.deferred = @ \union S]

AuthenticatingNothingInFlight(c) ==
    /\ c.state = "Authenticating"
    /\ c.ack_timeouts = {}
    /\ c.pending_requests = {}
    /\ ~c.awaiting_token_refresh

----------------------------------------------------------------------------
(* Leaving a session. *)

\* Fault: the requests in flight are not drained.
ExitHandshakeUndrained(c) == ClearSubscribeAckState(Disarm([c EXCEPT !.socket = FALSE], "staleness"))

\* exit_authenticating_teardown and exit_resubscribing_teardown.
ExitHandshakeTeardown(c) ==
    DrainRequests(ClearSubscribeAckState(
        Disarm([c EXCEPT !.socket = FALSE], "staleness")))

\* exit_open_teardown and the clear every caller adds to it.
ExitOpenTeardown(c) ==
    ClearSubscribeAckState(
        Disarm([DrainRequests(c) EXCEPT !.socket = FALSE], "staleness"))

Fail(c) == EmitConnectionFailed([c EXCEPT !.state = "Failed"])

\* cap_exhausted_then_escalate.
CapExhausted(c) == \E n \in ReconnectAttempts : c.attempt_count >= n

Escalate(c) ==
    Fail([c EXCEPT !.socket = FALSE, !.timers = @ \ {"staleness", "upgrade"}])

\* Fault: the end of the session is not announced.
BackOffUnannounced(c, ev) ==
    IF CapExhausted(c) THEN Escalate(c) ELSE Arm([c EXCEPT !.state = "BackingOff"], "backoff")

\* The transient end of an attempt or a session: cap, else back off and say so.
BackOff(c, ev) ==
    IF CapExhausted(c)
    THEN Escalate(c)
    ELSE Publish(Arm([c EXCEPT !.state = "BackingOff"], "backoff"), ev)

----------------------------------------------------------------------------
(* Entering Connecting and Open. *)

\* Fault: no upgrade timer.
EnterConnectingUnarmed(c) ==
    Publish([c EXCEPT !.state = "Connecting", !.socket = TRUE, !.opened = TRUE], "connecting")

EnterConnecting(c) ==
    Publish(Arm([c EXCEPT !.state = "Connecting", !.socket = TRUE, !.opened = TRUE],
                "upgrade"),
            "connecting")

\* The throttled outcome of every consultation of the rate budget.
Throttle(c) == Publish(Arm([c EXCEPT !.state = "BackingOff"], "rate_budget"), "throttled")

ConnectOrThrottle(c, admit) == IF admit THEN EnterConnecting(c) ELSE Throttle(c)

\* reenter_connecting: the latched force_reconnect becomes the connect waiter.
ReenterConnecting(c, rid, admit) ==
    ConnectOrThrottle([c EXCEPT !.socket = FALSE, !.pending_connect = {rid}], admit)

\* enter_open: every connect waiter gets an Open or Reopened event.
EnterOpen(c) ==
    Publish(Arm([c EXCEPT
        !.attempt_count = 0,
        !.has_been_open = TRUE,
        !.state = "Open",
        !.pending_connect = {},
        !.additional_connect = {},
        !.asked_connect = @ \ (c.pending_connect \union c.additional_connect)],
        "staleness"), "open")

\* complete_resubscribe_if_empty.
CompleteResubscribeIfEmpty(c) ==
    IF c.state = "Resubscribing" /\ c.ack_timeouts = {} /\ c.resend_due = {}
    THEN EnterOpen(c)
    ELSE c

----------------------------------------------------------------------------
(* Leaving Closing. *)

CloseWaiters(c) == c.pending_close \union c.additional_close

ForgetCloseWaiters(c) ==
    [c EXCEPT !.pending_close = {},
              !.additional_close = {},
              !.asked_close = @ \ CloseWaiters(c)]

\* Fault: the ConnectionClosedEvent is published before the drain.
AnswerBeforeDrain(c) ==
    ForgetCloseWaiters(DrainRequests(
        IF CloseWaiters(c) # {} THEN Publish(c, "closed") ELSE c))

\* Drain, then one ConnectionClosedEvent per close waiter.
AnswerCloseCohort(c) ==
    ForgetCloseWaiters(
        IF CloseWaiters(c) # {} THEN Publish(DrainRequests(c), "closed") ELSE DrainRequests(c))

\* enter_closed_or_reconnect: the cohort first, then the latched reconnect.
EnterClosedOrReconnect(c, admit) ==
    LET d == [AnswerCloseCohort(Disarm(c, "close")) EXCEPT !.pending_reconnect = {}]
    IN  IF c.pending_reconnect = {}
        THEN [d EXCEPT !.state = "Closed", !.socket = FALSE]
        ELSE ReenterConnecting([d EXCEPT !.attempt_count = 0],
                               CHOOSE rid \in c.pending_reconnect : TRUE, admit)

----------------------------------------------------------------------------
(* A subscribe that failed: handle_subscribe_failure. *)

\* Budget left after one more failure; an absent entry is seeded at budget - 1.
AttemptsLeft(c, k) ==
    SaturatingDecrement(IF c.ack_attempts[k] = Absent THEN SubscribeAckAttempts
                                                      ELSE c.ack_attempts[k])

\* Fault: the last outstanding entry of Resubscribing goes without completing it.
SubscribeTerminatedOnly(c, k) == DisarmSubscribeAck(c, k)

SubscribeTerminated(c, k) == CompleteResubscribeIfEmpty(DisarmSubscribeAck(c, k))

\* Open goes through the reconnect cap; any other state backs off at once.
SubscribeBudgetExhausted(c) ==
    LET torn == ExitHandshakeTeardown(c)
    IN  IF c.state = "Open"
        THEN BackOff(torn, "dropped")
        ELSE Publish(Arm([torn EXCEPT !.state = "BackingOff"], "backoff"), "attempt_failed")

HandleSubscribeFailure(c, k, transient) ==
    LET left == AttemptsLeft(c, k)
        d    == [c EXCEPT !.ack_timeouts = @ \ {k},
                          !.resend_due = IF left > 0 THEN @ \union {k} ELSE @ \ {k},
                          !.ack_attempts[k] = left]
    IN  CASE ~transient -> SubscribeTerminated(c, k)
          [] transient /\ left > 0 -> d
          [] OTHER -> SubscribeBudgetExhausted(d)

----------------------------------------------------------------------------
(* Caller events. *)

Ask(c, rid) == [c EXCEPT !.asked_connect = @ \union {rid}]

\* The two waiter latches of force_reconnect outside a session.
JoinConnect(c, rid) ==
    IF c.pending_connect = {}
    THEN [c EXCEPT !.pending_connect = {rid}]
    ELSE [c EXCEPT !.additional_connect = @ \union {rid}]

JoinReconnect(c, rid) ==
    IF c.pending_reconnect = {}
    THEN [c EXCEPT !.pending_reconnect = {rid}]
    ELSE [c EXCEPT !.additional_connect = @ \union {rid}]

\* Only Idle listens to CallStartConnect; a throttled start is not an attempt.
CallStartConnect(c, rid, admit) ==
    IF c.state # "Idle" THEN c
    ELSE ConnectOrThrottle(
             [c EXCEPT !.pending_connect = {rid},
                       !.attempt_count = IF admit THEN SaturatingIncrement(@) ELSE @],
             admit)

\* Idle, BackingOff and Failed answer a close at once.
CloseAtOnce(c) == Publish([c EXCEPT !.state = "Closed"], "closed")

\* Fault: the close handshake has no deadline.
EnterClosingUnarmed(c) ==
    Disarm([ClearSubscribeAckState(c) EXCEPT !.state = "Closing"], "staleness")

\* A session leaves for Closing with its socket and without its timers.
EnterClosing(c) ==
    Arm(Disarm([ClearSubscribeAckState(c) EXCEPT !.state = "Closing"], "staleness"), "close")

LatchClose(c, rid) ==
    [c EXCEPT !.pending_close = {rid}, !.asked_close = @ \union {rid}]

\* The subscribe-ack state armed before the upgrade is kept.
ConnectingClose(c, rid) ==
    LatchClose(Arm(Disarm([c EXCEPT !.state = "Closing"], "upgrade"), "close"), rid)

\* No drain: the exit of Closing resolves the requests in flight.
AuthenticatingClose(c, rid) == LatchClose(EnterClosing(c), rid)

ResubscribingClose(c, rid) == LatchClose(EnterClosing(c), rid)

OpenClose(c, rid) == LatchClose(EnterClosing(DrainRequests(c)), rid)

\* A second close() joins the cohort.
ClosingClose(c, rid) ==
    IF c.pending_close = {}
    THEN LatchClose(c, rid)
    ELSE [c EXCEPT !.additional_close = @ \union {rid}, !.asked_close = @ \union {rid}]

CallClose(c, rid) ==
    CASE c.state \in {"Idle", "BackingOff", "Failed"} -> CloseAtOnce(c)
      [] c.state = "Connecting" -> ConnectingClose(c, rid)
      [] c.state = "Authenticating" -> AuthenticatingClose(c, rid)
      [] c.state = "Resubscribing" -> ResubscribingClose(c, rid)
      [] c.state = "Open" -> OpenClose(c, rid)
      [] c.state = "Closing" -> ClosingClose(c, rid)
      [] c.state = "Closed" -> c

\* Idle and Failed restart the attempt count and consult the budget.
RestartConnect(c, rid, admit) ==
    Ask(ConnectOrThrottle([c EXCEPT !.attempt_count = 0, !.pending_connect = {rid}], admit), rid)

\* A first bring-up (never opened) does not take the caller into the cohort.
ConnectingForceReconnect(c, rid) ==
    LET d == [c EXCEPT !.attempt_count = 0]
    IN  IF c.has_been_open
        THEN Ask([d EXCEPT !.additional_connect = @ \union {rid}], rid)
        ELSE d

\* Authenticating, Resubscribing and Open close first and latch the reconnect.
SessionForceReconnect(c, rid) ==
    Ask([EnterClosing(IF c.state = "Open" THEN DrainRequests(c) ELSE c)
         EXCEPT !.pending_reconnect = {rid}], rid)

BackingOffForceReconnect(c, rid, admit) ==
    LET d == Ask(JoinConnect(c, rid), rid)
    IN  IF admit
        THEN EnterConnecting(Disarm([d EXCEPT !.attempt_count = 0], "backoff"))
        ELSE Throttle(d)

ClosingForceReconnect(c, rid) == Ask(JoinReconnect(c, rid), rid)

CallForceReconnect(c, rid, admit) ==
    CASE c.state \in {"Idle", "Failed"} -> RestartConnect(c, rid, admit)
      [] c.state = "Connecting" -> ConnectingForceReconnect(c, rid)
      [] c.state \in SessionStates -> SessionForceReconnect(c, rid)
      [] c.state = "BackingOff" -> BackingOffForceReconnect(c, rid, admit)
      [] c.state = "Closing" -> ClosingForceReconnect(c, rid)
      [] c.state = "Closed" -> c

----------------------------------------------------------------------------
(* The upgrade of the socket. *)

WireUpgradeOk(c) ==
    IF c.state # "Connecting" THEN c
    ELSE Arm(Disarm([c EXCEPT !.state = IF Url = "Public" THEN "Resubscribing"
                                                          ELSE "Authenticating"],
                    "upgrade"), "staleness")

\* WireUpgradeFailed and WireConnectError differ in the event's wording only.
WireUpgradeFailed(c, transient) ==
    LET d == Disarm([c EXCEPT !.socket = FALSE], "upgrade")
    IN  CASE c.state # "Connecting" -> c
          [] c.state = "Connecting" /\ transient -> BackOff(d, "attempt_failed")
          [] OTHER -> Fail(d)

TimerUpgradeTimeout(c) ==
    IF c.state # "Connecting" THEN c
    ELSE BackOff(Disarm([c EXCEPT !.socket = FALSE], "upgrade"), "attempt_failed")

----------------------------------------------------------------------------
(* The auth handshake. *)

WireAuthHandshakeOk(c) ==
    IF c.state # "Authenticating" THEN c
    ELSE [c EXCEPT !.awaiting_token_refresh = FALSE,
                   !.auth_handshake_fail_count = 0,
                   !.state = "Resubscribing"]

\* A bare order whose token was accepted opens the connection at once.
WireOrderAuthOk(c) ==
    IF c.state # "Authenticating" THEN c
    ELSE EnterOpen(ClearSubscribeAckState([c EXCEPT !.auth_handshake_fail_count = 0]))

\* A stale token re-enters the handshake until its own cap.
HandshakeTokenStale(c) ==
    LET d == [c EXCEPT !.auth_handshake_fail_count = SaturatingIncrement(@)]
    IN  IF d.auth_handshake_fail_count >= MaxAuthHandshakeFailures
        THEN Fail(ExitHandshakeTeardown(d))
        ELSE [d EXCEPT !.awaiting_token_refresh = TRUE,
                       !.attempt_count = SaturatingIncrement(@)]

\* BadCreds and PermissionDenied.
HandshakeRefused(c) == Fail(ExitHandshakeTeardown(c))

HandshakeTransient(c) == BackOff(ExitHandshakeTeardown(c), "attempt_failed")

AuthErrorKinds == {"TokenStale", "BadCreds", "Transient"}

WireAuthHandshakeFailed(c, kind) ==
    CASE c.state # "Authenticating" -> c
      [] c.state = "Authenticating" /\ kind = "TokenStale" -> HandshakeTokenStale(c)
      [] c.state = "Authenticating" /\ kind = "BadCreds" -> HandshakeRefused(c)
      [] OTHER -> HandshakeTransient(c)

BusTokenRefreshed(c) ==
    IF c.state \in SessionStates THEN [c EXCEPT !.awaiting_token_refresh = FALSE] ELSE c

\* Only a handshake ends on a failed refresh; a session stays up.
AuthenticatingRefreshFailed(c, retryable) ==
    LET d == ExitHandshakeTeardown(c)
    IN  IF retryable THEN BackOff(d, "attempt_failed") ELSE Fail(d)

BusTokenRefreshFailed(c, retryable) ==
    CASE c.state = "Authenticating" -> AuthenticatingRefreshFailed(c, retryable)
      [] c.state \in {"Resubscribing", "Open"} -> [c EXCEPT !.awaiting_token_refresh = FALSE]
      [] OTHER -> c

WireOrderAckTokenStale(c) ==
    IF c.state = "Open" THEN [c EXCEPT !.awaiting_token_refresh = TRUE] ELSE c

----------------------------------------------------------------------------
(* Subscribe acknowledgements. *)

\* The last ack of Resubscribing opens; in any other state there is no arm.
WireSubscribeAck(c, k, last) ==
    CASE c.state = "Resubscribing" /\ last -> EnterOpen(DisarmSubscribeAck(c, k))
      [] c.state = "Resubscribing" /\ ~last -> DisarmSubscribeAck(c, k)
      [] c.state = "Open" -> DisarmSubscribeAck(c, k)
      [] OTHER -> c

WireSubscribeFailed(c, k, transient) ==
    IF c.state \in {"Resubscribing", "Open"}
    THEN HandleSubscribeFailure(c, k, transient)
    ELSE c

TimerSubscribeAckTimeout(c, k) ==
    IF c.state \in SessionStates THEN HandleSubscribeFailure(c, k, TRUE) ELSE c

----------------------------------------------------------------------------
(* The end of the socket.  policy is close code 1008. *)

AuthenticatingClosed(c, policy) ==
    LET d == ExitHandshakeTeardown(c)
    IN  IF policy THEN Fail(d) ELSE BackOff(d, "attempt_failed")

ResubscribingClosed(c, policy) ==
    LET d == ExitHandshakeTeardown(c)
    IN  IF policy THEN Fail(d) ELSE BackOff(d, "attempt_failed")

OpenClosed(c, policy) ==
    LET d == ExitOpenTeardown(c)
    IN  IF policy THEN Fail(d) ELSE BackOff(d, "dropped")

\* WireCloseReceived; Connecting has no arm for it.
WireCloseReceived(c, policy, admit) ==
    CASE c.state = "Authenticating" -> AuthenticatingClosed(c, policy)
      [] c.state = "Resubscribing" -> ResubscribingClosed(c, policy)
      [] c.state = "Open" -> OpenClosed(c, policy)
      [] c.state = "Closing" -> EnterClosedOrReconnect(c, admit)
      [] OTHER -> c

\* An abnormal close is always transient.
WireAbnormalClose(c, admit) == WireCloseReceived(c, FALSE, admit)

\* Every staleness teardown announces WebsocketStaleEvent, then ends the session.
TimerStalenessElapsed(c) ==
    CASE c.state \in {"Authenticating", "Resubscribing"} ->
             BackOff(ExitHandshakeTeardown(c), "attempt_failed")
      [] c.state = "Open" -> BackOff(ExitOpenTeardown(c), "dropped")
      [] OTHER -> c

TimerCloseTimeout(c, admit) ==
    IF c.state = "Closing" THEN EnterClosedOrReconnect(c, admit) ELSE c

----------------------------------------------------------------------------
(* Retrying.  A throttled retry is not counted as an attempt. *)

Retry(c, t, admit) ==
    IF admit
    THEN EnterConnecting(Disarm([c EXCEPT !.attempt_count = SaturatingIncrement(@)], t))
    ELSE Throttle(c)

TimerBackoffElapsed(c, admit) ==
    IF c.state = "BackingOff" THEN Retry(c, "backoff", admit) ELSE c

TimerRateBudgetWindowAdvanced(c, admit) ==
    IF c.state = "BackingOff" THEN Retry(c, "rate_budget", admit) ELSE c

=============================================================================
