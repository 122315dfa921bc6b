------------------------------ MODULE IoReactor ------------------------------
(***************************************************************************)
(* The I/O Reactor of dispatch/io_reactor, for one of its connections: the *)
(* task that owns the state machine of module ManagedConnection, the map   *)
(* of readable sockets, the subscription registry and the token cache.     *)
(* One action is one turn of the reactor's select loop, whole: the FSM     *)
(* event, the frames the handler sends, the socket it projects.  The other *)
(* actors are the callers, the server, the socket tasks and the token      *)
(* refresh tasks.                                                          *)
(*                                                                         *)
(* A subscribe send has three outcomes, chosen by the environment: queued, *)
(* outbox full, writer task gone.                                          *)
(***************************************************************************)
EXTENDS ManagedConnection

CONSTANTS
    CallerEvents,   \* which of "StartConnect", "Close", "ForceReconnect" are posted
    MaxRefresh      \* bound: reactive token refreshes in flight, and outcomes queued

ASSUME ReactorAssumption ==
    /\ CallerEvents \subseteq {"StartConnect", "Close", "ForceReconnect"}
    /\ MaxRefresh \in Nat \ {0}

VARIABLES
    mc,           \* the ManagedConnection
    sockets,      \* the socket the reactor reads: none, the mc's, or one the mc dropped
    bridge,       \* the upgrade outcome of that socket is still to come
    late_failed,  \* an UpgradeFailed of a socket since dropped is queued
    wire,         \* keys with a subscribe frame on that socket
    wire_reqs,    \* requests sent on that socket and not responded to
    reg,          \* state of the registry entry of each key
    token,        \* the cached token
    refreshing,   \* reactive refresh tasks running
    proactive,    \* a proactive refresh task is running
    landed        \* refresh outcomes queued for the reactor

netVars   == <<sockets, bridge, late_failed, wire, wire_reqs>>
tokenVars == <<token, refreshing, proactive, landed>>
vars      == <<mc, sockets, bridge, late_failed, wire, wire_reqs, reg,
               token, refreshing, proactive, landed>>

EntryStates == {"absent", "pending", "acked", "terminated"}

ReactiveOutcomes == {"ok", "transient", "fatal"}

Outcomes == ReactiveOutcomes \union {"proactive_ok", "proactive_err"}

TypeOK ==
    /\ mc \in Connection
    /\ sockets \in {"none", "cur", "old"}
    /\ bridge \in BOOLEAN
    /\ late_failed \in BOOLEAN
    /\ wire \in SUBSET Keys
    /\ wire_reqs \in SUBSET ReqIds
    /\ reg \in [Keys -> EntryStates]
    /\ token \in {"none", "valid", "expired"}
    /\ refreshing \in 0..MaxRefresh
    /\ proactive \in BOOLEAN
    /\ landed \in SUBSET Outcomes

Init ==
    /\ mc = NewConnection
    /\ sockets = "none"
    /\ bridge = FALSE
    /\ late_failed = FALSE
    /\ wire = {}
    /\ wire_reqs = {}
    /\ reg = [k \in Keys |-> "absent"]
    /\ token = "none"
    /\ refreshing = 0
    /\ proactive = FALSE
    /\ landed = {}

----------------------------------------------------------------------------
(* The reactor's socket map. *)

\* The reactor still reads the same socket after a handler that ends so.
SameSocket(c, s) ==
    /\ s # "none"
    /\ sockets = "none" \/ ~(s = "cur" /\ (c.opened \/ sockets = "old"))

\* A dropped bridge may have queued its failure before it went.
LateOutcomes(c, s, b) == IF bridge /\ ~(SameSocket(c, s) /\ b) THEN BOOLEAN ELSE {FALSE}

(***************************************************************************)
(* The end of a handler: c is the connection it leaves, sent the keys it   *)
(* subscribed, done the requests responded to, s and b the socket and the  *)
(* bridge.                                                                 *)
(***************************************************************************)
Wired(c, sent, done, s, b) ==
    /\ mc' = [c EXCEPT !.opened = FALSE]
    /\ sockets' = s
    /\ bridge' = b
    /\ wire' = IF SameSocket(c, s) THEN wire \union sent ELSE {}
    /\ wire_reqs' = IF SameSocket(c, s) THEN wire_reqs \ done ELSE {}

Land(c, sent, s, b) ==
    /\ Wired(c, sent, {}, s, b)
    /\ \E late \in LateOutcomes(c, s, b) : late_failed' = (late_failed \/ late)

\* A handler that leaves the map alone: the mc may drop or replace its socket.
Unprojected(c) ==
    IF sockets = "cur" /\ (c.opened \/ ~c.socket) THEN "old" ELSE sockets

\* project_socket_and_wire_bridge with the id captured before the FSM event.
Project(c, sent) ==
    IF c.socket THEN Land(c, sent, "cur", c.opened \/ bridge)
                ELSE Land(c, sent, "none", FALSE)

\* The same with the id captured after it: a fresh socket gets no bridge.
ProjectLate(c, sent) ==
    IF c.socket THEN Land(c, sent, "cur", bridge /\ ~c.opened)
                ELSE Land(c, sent, "none", FALSE)

----------------------------------------------------------------------------
(* Registry and token. *)

LiveKeys == {k \in Keys : reg[k] \in {"pending", "acked"}}

TokenValid == token = "valid"

\* force_refresh spawns a task each time: reactive refreshes are not single-flight.
RefreshSpawned == IF refreshing < MaxRefresh THEN refreshing + 1 ELSE refreshing

NoteAcked(k) == IF reg[k] = "pending" THEN [reg EXCEPT ![k] = "acked"] ELSE reg

NoteTerminated(k) == IF k \in LiveKeys THEN [reg EXCEPT ![k] = "terminated"] ELSE reg

AwaitRefresh(c) == [c EXCEPT !.awaiting_token_refresh = TRUE]

----------------------------------------------------------------------------
(* Sending subscribe frames.  A send returns the set of its possible effects: *)
(* the connection it leaves, the keys it queued, and whether it spawned a  *)
(* token refresh.                                                          *)

Effect(c, sent, spawn) == [conn |-> c, sent |-> sent, spawn |-> spawn]

\* send_subscribe_frame and the arming of the ack timer that follows it.
SendSubscribe(c, k, result, admit) ==
    CASE result = "sent" -> ArmSubscribeAck(c, k)
      [] result = "full" -> HandleSubscribeFailure(c, k, TRUE)
      [] result = "closed" -> WireAbnormalClose(c, admit)

\* The writer of a socket opened by the same handler cannot be gone yet.
SendResults(c) == IF c.opened THEN {"sent", "full"} ELSE {"sent", "full", "closed"}

SendOutcomes(c, k, admit) ==
    {Effect(SendSubscribe(c, k, result, admit), IF result = "sent" THEN {k} ELSE {}, FALSE) :
        result \in SendResults(c)}

SendOne(c, k) == UNION {SendOutcomes(c, k, admit) : admit \in BOOLEAN}

(***************************************************************************)
(* A loop over the keys F.  The keys of sent were queued and those of full *)
(* met a full outbox; the loop may also stop at a key whose budget is      *)
(* spent or at a dead writer, and both teardowns forget what the earlier   *)
(* turns of the loop armed.                                                *)
(***************************************************************************)
Batches == [sent : SUBSET Keys, full : SUBSET Keys, end : {"done", "exhausted", "dead"}]

BatchPossible(c, F, b) ==
    CASE b.end = "done" ->
            /\ b.sent \union b.full = F
            /\ b.sent \intersect b.full = {}
            /\ \A k \in b.full : AttemptsLeft(c, k) > 0
      [] b.end = "exhausted" ->
            /\ b.full = {}
            /\ \E k \in F : AttemptsLeft(c, k) = 0 /\ b.sent \subseteq F \ {k}
      [] b.end = "dead" ->
            /\ b.full = {}
            /\ b.sent \subseteq F
            /\ b.sent # F

SendBatch(c, b) ==
    CASE b.end = "done" ->
            [c EXCEPT
                !.ack_timeouts = (@ \union b.sent) \ b.full,
                !.resend_due = @ \union b.full,
                !.ack_attempts = [k \in Keys |->
                    CASE k \in b.sent /\ c.ack_attempts[k] = Absent -> SubscribeAckAttempts
                      [] k \in b.full -> AttemptsLeft(c, k)
                      [] OTHER -> c.ack_attempts[k]]]
      [] b.end = "exhausted" -> SubscribeBudgetExhausted(c)
      [] b.end = "dead" -> WireAbnormalClose(c, FALSE)

SendMany(c, F) ==
    {Effect(SendBatch(c, b), b.sent, FALSE) : b \in {bb \in Batches : BatchPossible(c, F, bb)}}

\* A token miss defers the keys and kicks one refresh per awaited answer.
DeferForToken(c, F) ==
    {Effect(AwaitRefresh(Defer(c, F)), {}, ~c.awaiting_token_refresh)}

\* send_first_signed_subscribe: the probe of the auth handshake.
SendFirstSignedSubscribe(c) ==
    CASE ~TokenValid -> {Effect(AwaitRefresh(c), {}, TRUE)}
      [] TokenValid /\ LiveKeys = {} -> {Effect(c, {}, FALSE)}
      [] OTHER -> UNION {SendOne(c, k) : k \in LiveKeys}

SendRemainingSignedSubscribes(c, F) ==
    IF TokenValid THEN SendMany(c, F) ELSE DeferForToken(c, F)

SendSingleSignedSubscribe(c, k) ==
    IF TokenValid THEN SendOne(c, k) ELSE DeferForToken(c, {k})

\* The handshake is accepted: send the rest of the registry, open if it is empty.
ReplayAfterHandshake(c, F) ==
    {Effect(CompleteResubscribeIfEmpty(e.conn), e.sent, e.spawn) :
        e \in SendRemainingSignedSubscribes(c, F)}

\* The refreshes a handler spawned, and the rest of the token state untouched.
Spawn(spawned) ==
    /\ refreshing' = IF spawned THEN RefreshSpawned ELSE refreshing
    /\ UNCHANGED <<token, proactive, landed>>

----------------------------------------------------------------------------
(* Caller messages: CallerInbound.  They win the biased select. *)

\* An id no waiter holds.
FreeId(rid) ==
    rid \notin UNION {mc.asked_connect, mc.asked_close, mc.pending_connect, mc.pending_close,
                      mc.pending_reconnect, mc.additional_connect, mc.additional_close}

PostStartConnect(rid, admit) ==
    /\ "StartConnect" \in CallerEvents
    /\ mc.state = "Idle"
    /\ Project(Ask(CallStartConnect(mc, rid, admit), rid), {})
    /\ UNCHANGED <<reg, tokenVars>>

PostClose(rid) ==
    /\ "Close" \in CallerEvents
    /\ mc.state # "Closed"
    /\ Project(CallClose(mc, rid), {})
    /\ UNCHANGED <<reg, tokenVars>>

PostForceReconnect(rid, admit) ==
    /\ "ForceReconnect" \in CallerEvents
    /\ mc.state # "Closed"
    /\ Project(CallForceReconnect(mc, rid, admit), {})
    /\ UNCHANGED <<reg, tokenVars>>

\* The socket map after the StartConnect that a first Register posts.
RegisterSocket(c) ==
    IF mc.state # "Idle" THEN sockets ELSE IF c.socket THEN "cur" ELSE "none"

\* When a registration puts a subscribe on the wire at once.
RegisterSends(c) ==
    IF Url = "Auth"
    THEN c.state \in {"Open", "Resubscribing"} \/ AuthenticatingNothingInFlight(c)
    ELSE RegisterSocket(c) # "none"

RegisterEffects(c, k) ==
    CASE ~RegisterSends(c) -> {Effect(c, {}, FALSE)}
      [] RegisterSends(c) /\ Url = "Auth" -> SendSingleSignedSubscribe(c, k)
      [] OTHER -> SendOne(c, k)

\* RegisterBatch drops a socket the connection no longer has, and only that.
AfterRegister(c, was) ==
    CASE ~c.socket -> "none"
      [] c.socket /\ mc.state # "Idle" /\ c.opened /\ was = "cur" -> "old"
      [] OTHER -> was

\* A first Register starts the connection by itself.
Started(admit) == IF mc.state = "Idle" THEN CallStartConnect(mc, ReactorId, admit) ELSE mc

\* register_one_and_emit on the 0 -> 1 edge of a key (a tombstone is revived).
Register(k, admit) ==
    /\ reg[k] \in {"absent", "terminated"}
    /\ reg' = [reg EXCEPT ![k] = "pending"]
    /\ \E e \in RegisterEffects(Started(admit), k) :
          /\ Land(e.conn, e.sent, AfterRegister(e.conn, RegisterSocket(Started(admit))),
                  IF mc.state = "Idle" THEN e.conn.socket ELSE bridge /\ e.conn.socket)
          /\ Spawn(e.spawn)

\* teardown_released_key for the keys S, then the empty-resubscribe check.
ReleaseKeys(S) ==
    LET d == [mc EXCEPT !.ack_timeouts = @ \ S,
                        !.resend_due = @ \ S,
                        !.ack_attempts = [k \in Keys |-> IF k \in S THEN Absent ELSE @[k]],
                        !.deferred = @ \ S]
    IN  /\ reg' = [k \in Keys |-> IF k \in S THEN "absent" ELSE reg[k]]
        /\ Land(CompleteResubscribeIfEmpty(d), {}, sockets, bridge)
        /\ UNCHANGED tokenVars

DeregisterOne(k) == reg[k] # "absent" /\ ReleaseKeys({k})

DeregisterAll ==
    LET S == {k \in Keys : reg[k] # "absent"}
    IN  S # {} /\ ReleaseKeys(S)

\* handle_ws_request_frame: a refused request changes nothing.
RequestAdmitted ==
    \/ mc.state = "Open"
    \/ mc.state = "Authenticating" /\ LiveKeys = {}

\* No valid token: refresh for the next order, reject this one.
WsRequestNoToken ==
    /\ Url = "Auth" /\ ReqIds # {}
    /\ RequestAdmitted
    /\ ~TokenValid
    /\ mc' = AwaitRefresh(mc)
    /\ token' = "none"
    /\ refreshing' = RefreshSpawned
    /\ UNCHANGED <<netVars, reg, proactive, landed>>

\* The pending entry is recorded before the send; a failed send fails it again.
WsRequestFrame(r) ==
    /\ Url = "Auth"
    /\ r \notin mc.pending_requests \union wire_reqs
    /\ RequestAdmitted
    /\ TokenValid
    /\ mc' = [mc EXCEPT !.pending_requests = @ \union {r}]
    /\ wire_reqs' = wire_reqs \union {r}
    /\ UNCHANGED <<sockets, bridge, late_failed, wire, reg, tokenVars>>

\* AbandonWsRequest: the caller's own timeout.
AbandonWsRequest(r) ==
    /\ r \in mc.pending_requests
    /\ mc' = [mc EXCEPT !.pending_requests = @ \ {r}]
    /\ UNCHANGED <<netVars, reg, tokenVars>>

----------------------------------------------------------------------------
(* Upgrade outcomes.  A queued outcome wins over frames, refreshes and timers. *)

\* The replay of a reconnect; a first bring-up sends nothing here.
ResubscribeReplay(c) ==
    {Effect(CompleteResubscribeIfEmpty(e.conn), e.sent, FALSE) : e \in SendMany(c, LiveKeys)}

\* Public after a reconnect: replay the registry, then project the socket.
UpgradeOkReplay ==
    LET c == WireUpgradeOk(mc)
    IN  /\ c.state = "Resubscribing" /\ c.has_been_open
        /\ \E e \in ResubscribeReplay(c) :
              IF e.conn.socket THEN Land(e.conn, e.sent, "cur", FALSE)
                               ELSE Land(e.conn, {}, "none", FALSE)
        /\ UNCHANGED tokenVars

\* Public, first bring-up: the frames sent by Register carry the acks.
UpgradeOkFirst ==
    LET c == WireUpgradeOk(mc)
    IN  /\ c.state = "Resubscribing" /\ ~c.has_been_open
        /\ Land(c, {}, sockets, FALSE)
        /\ UNCHANGED tokenVars

\* Auth: the first signed subscribe probes the token; the map is left alone.
UpgradeOkAuth ==
    LET c == WireUpgradeOk(mc)
    IN  /\ c.state = "Authenticating"
        /\ \E e \in SendFirstSignedSubscribe(c) :
              /\ Land(e.conn, e.sent, Unprojected(e.conn), FALSE)
              /\ Spawn(e.spawn)

\* Fault: the outcome is not matched with the socket the reactor reads.
UpgradeOkUnchecked ==
    /\ ~late_failed
    /\ mc.state = "Connecting"
    /\ UpgradeOkReplay \/ UpgradeOkFirst \/ UpgradeOkAuth
    /\ UNCHANGED reg

UpgradeOk ==
    /\ ~late_failed
    /\ bridge /\ sockets = "cur"
    /\ mc.state = "Connecting"
    /\ UpgradeOkReplay \/ UpgradeOkFirst \/ UpgradeOkAuth
    /\ UNCHANGED reg

\* UpgradeOutcome::Failed of the socket the reactor reads.
UpgradeFailed(transient) ==
    /\ ~late_failed
    /\ bridge
    /\ LET c == WireUpgradeFailed(mc, transient)
       IN  Wired(c, {}, {}, IF c.socket THEN sockets ELSE "none", FALSE)
    /\ UNCHANGED <<late_failed, reg, tokenVars>>

\* The same arm for a socket since dropped: no connection id is compared.
LateUpgradeFailed(transient) ==
    /\ late_failed
    /\ LET c == WireUpgradeFailed(mc, transient)
           s == IF c.socket THEN sockets ELSE "none"
           b == bridge /\ c.socket
       IN  /\ Wired(c, {}, {}, s, b)
           /\ late_failed' \in LateOutcomes(c, s, b)
    /\ UNCHANGED <<reg, tokenVars>>

----------------------------------------------------------------------------
(* Token refreshes. *)

\* The bound on the channel of refresh outcomes.
QueueHasRoom == Cardinality(landed) < MaxRefresh

\* A reactive task ends: a fetched token is cached before the outcome is queued.
RefreshLands(o) ==
    /\ refreshing > 0
    /\ QueueHasRoom
    /\ refreshing' = refreshing - 1
    /\ landed' = landed \union {o}
    /\ token' = IF o = "ok" THEN "valid" ELSE token
    /\ UNCHANGED <<mc, netVars, reg, proactive>>

ProactiveLands(o) ==
    /\ proactive
    /\ QueueHasRoom
    /\ proactive' = FALSE
    /\ landed' = landed \union {o}
    /\ token' = IF o = "proactive_ok" THEN "valid" ELSE token
    /\ UNCHANGED <<mc, netVars, reg, refreshing>>

TokenExpires ==
    /\ token = "valid"
    /\ token' = "expired"
    /\ UNCHANGED <<mc, netVars, reg, refreshing, proactive, landed>>

RefreshOk(o) == o \in {"ok", "proactive_ok"}

\* A proactive outcome reaches the FSM only in Open and Resubscribing.
DeliverRefresh(o) ==
    CASE o \notin ReactiveOutcomes /\ mc.state \notin {"Open", "Resubscribing"} -> mc
      [] RefreshOk(o) -> BusTokenRefreshed(mc)
      [] OTHER -> BusTokenRefreshFailed(mc, o # "fatal")

\* Deferred keys still worth a subscribe.
Reissue(c) == {k \in c.deferred : k \in LiveKeys /\ k \notin c.ack_timeouts}

\* Fault: the deferred keys are forgotten when the token has expired again.
DrainDeferredOnce(c) ==
    IF TokenValid THEN SendMany([c EXCEPT !.deferred = {}], Reissue(c))
                  ELSE {Effect([c EXCEPT !.deferred = {}], {}, FALSE)}

DrainDeferred(c) ==
    LET d == [c EXCEPT !.deferred = {}]
    IN  IF TokenValid \/ Reissue(c) = {} THEN SendMany(d, Reissue(c))
                                         ELSE DeferForToken(d, Reissue(c))

\* Re-issue the probe of an idle handshake, or the deferred subscribes of a session.
RefreshEffects(o, c) ==
    CASE RefreshOk(o) /\ AuthenticatingNothingInFlight(c) /\ o \in ReactiveOutcomes ->
             SendFirstSignedSubscribe(c)
      [] RefreshOk(o) /\ c.state \in {"Open", "Resubscribing"} /\ ~c.awaiting_token_refresh ->
             DrainDeferred(c)
      [] OTHER -> {Effect(c, {}, FALSE)}

\* rearm_token_refresh, skipped after a failure with a token still cached.
RearmTokenRefresh(o, c) ==
    CASE token = "none" -> Disarm(c, "token_refresh")
      [] token # "none" /\ RefreshOk(o) -> Arm(c, "token_refresh")
      [] OTHER -> c

RefreshOutcome(o) ==
    /\ ~late_failed
    /\ o \in landed
    /\ landed' = landed \ {o}
    /\ \E e \in RefreshEffects(o, DeliverRefresh(o)) :
          /\ ProjectLate(RearmTokenRefresh(o, e.conn), e.sent)
          /\ refreshing' = IF e.spawn THEN RefreshSpawned ELSE refreshing
    /\ UNCHANGED <<reg, token, proactive>>

----------------------------------------------------------------------------
(* Frames and the end of the socket. *)

Readable == ~late_failed /\ sockets # "none"

\* A success ack, by what the key was waiting for.
AckInHandshake(k) ==
    /\ mc.state = "Authenticating"
    /\ reg' = NoteAcked(k)
    /\ LET c == RemoveDeferred(DisarmSubscribeAck(WireAuthHandshakeOk(mc), k), k)
       IN  \E e \in ReplayAfterHandshake(c, LiveKeys \ {k}) :
              /\ Land(e.conn, e.sent, Unprojected(e.conn), bridge)
              /\ Spawn(e.spawn)

\* A late ack kills the retry chain and the deferral record.
AckUnarmed(k) ==
    /\ mc.state # "Authenticating" /\ k \notin mc.ack_timeouts
    /\ mc' = CompleteResubscribeIfEmpty(RemoveDeferred(DisarmSubscribeAck(mc, k), k))
    /\ UNCHANGED <<netVars, reg, tokenVars>>

\* last counts the armed ack timers only.
AckArmed(k) ==
    /\ mc.state # "Authenticating" /\ k \in mc.ack_timeouts
    /\ reg' = NoteAcked(k)
    /\ mc' = WireSubscribeAck(RemoveDeferred(mc, k), k, mc.ack_timeouts = {k})
    /\ UNCHANGED <<netVars, tokenVars>>

SubAck(k) ==
    /\ Readable
    /\ k \in wire
    /\ AckInHandshake(k) \/ AckUnarmed(k) \/ AckArmed(k)

\* Fault: the stale token is left to be refreshed by someone else.
RejectInHandshakeUnrefreshed(k, kind) ==
    /\ Readable
    /\ k \in wire
    /\ mc.state = "Authenticating"
    /\ LET c == DisarmSubscribeAck(WireAuthHandshakeFailed(mc, kind), k)
       IN  Land(c, {}, Unprojected(c), bridge)
    /\ UNCHANGED <<reg, tokenVars>>

\* A reject mid-handshake; a stale token must spawn the refresh here.
RejectInHandshake(k, kind) ==
    /\ Readable
    /\ k \in wire
    /\ mc.state = "Authenticating"
    /\ LET c == DisarmSubscribeAck(WireAuthHandshakeFailed(mc, kind), k)
       IN  /\ Land(c, {}, Unprojected(c), bridge)
           /\ Spawn(c.state = "Authenticating" /\ c.awaiting_token_refresh)
    /\ UNCHANGED reg

\* A rate-limit reject is retried; any other tombstones the entry.
Reject(k, transient) ==
    /\ Readable
    /\ k \in wire
    /\ mc.state # "Authenticating" /\ k \in mc.ack_timeouts
    /\ reg' = IF transient THEN reg ELSE NoteTerminated(k)
    /\ LET c == WireSubscribeFailed(mc, k, transient)
       IN  Land(c, {}, Unprojected(c), bridge)
    /\ UNCHANGED tokenVars

\* The response to request r resolves it, whatever else it drives.
Resolved(c, r) == [c EXCEPT !.pending_requests = @ \ {r}]

Responded(r) ==
    /\ Readable
    /\ r \in wire_reqs

LandResponse(c, r, sent) ==
    /\ Wired(c, sent, {r}, Unprojected(c), bridge)
    /\ UNCHANGED <<late_failed, reg>>

\* A token accepted mid-handshake: replay the registry, or open with none.
ResponseAuthenticates(r) ==
    /\ Responded(r)
    /\ mc.state = "Authenticating"
    /\ LET effects == IF LiveKeys # {}
                      THEN ReplayAfterHandshake(WireAuthHandshakeOk(mc), LiveKeys)
                      ELSE {Effect(WireOrderAuthOk(mc), {}, FALSE)}
       IN  \E e \in effects :
              /\ LandResponse(Resolved(e.conn, r), r, e.sent)
              /\ Spawn(e.spawn)

\* A token refused mid-handshake: the FSM event, and nothing else.
ResponseRefused(r, kind) ==
    /\ Responded(r)
    /\ mc.state = "Authenticating"
    /\ LandResponse(Resolved(WireAuthHandshakeFailed(mc, kind), r), r, {})
    /\ UNCHANGED tokenVars

\* A stale token in Open: stay, drop the token, refresh for the next order.
ResponseStaleInOpen(r) ==
    /\ Responded(r)
    /\ mc.state = "Open"
    /\ LandResponse(Resolved(WireOrderAckTokenStale(mc), r), r, {})
    /\ token' = "none"
    /\ refreshing' = RefreshSpawned
    /\ UNCHANGED <<proactive, landed>>

ResponseResolves(r) ==
    /\ Responded(r)
    /\ mc.state # "Authenticating"
    /\ LandResponse(Resolved(mc, r), r, {})
    /\ UNCHANGED tokenVars

\* drive_wire_close: the dead socket leaves the map before the FSM event.
WireClosed(policy, admit) ==
    /\ Readable
    /\ LET c == WireCloseReceived(mc, policy, admit)
       IN  IF c.opened THEN Land(c, {}, "cur", TRUE) ELSE Land(c, {}, "none", FALSE)
    /\ UNCHANGED <<reg, tokenVars>>

----------------------------------------------------------------------------
(* Timers: popped before the event is dispatched. *)

Fires(t) == ~late_failed /\ t \in mc.timers

Popped(t) == Disarm(mc, t)

BackoffElapsed(admit) ==
    /\ Fires("backoff")
    /\ Project(TimerBackoffElapsed(Popped("backoff"), admit), {})
    /\ UNCHANGED <<reg, tokenVars>>

RateBudgetWindowAdvanced(admit) ==
    /\ Fires("rate_budget")
    /\ Project(TimerRateBudgetWindowAdvanced(Popped("rate_budget"), admit), {})
    /\ UNCHANGED <<reg, tokenVars>>

UpgradeTimeout ==
    /\ Fires("upgrade")
    /\ Project(TimerUpgradeTimeout(Popped("upgrade")), {})
    /\ UNCHANGED <<reg, tokenVars>>

StalenessElapsed ==
    /\ Fires("staleness")
    /\ Project(TimerStalenessElapsed(Popped("staleness")), {})
    /\ UNCHANGED <<reg, tokenVars>>

CloseTimeout(admit) ==
    /\ Fires("close")
    /\ Project(TimerCloseTimeout(Popped("close"), admit), {})
    /\ UNCHANGED <<reg, tokenVars>>

SubscribeAckTimeout(k) ==
    /\ ~late_failed
    /\ k \in mc.ack_timeouts
    /\ Project(TimerSubscribeAckTimeout([mc EXCEPT !.ack_timeouts = @ \ {k}], k), {})
    /\ UNCHANGED <<reg, tokenVars>>

\* handle_subscribe_resend; params_for also finds a tombstone.
ResendEffects(c, k) ==
    CASE reg[k] = "absent" -> {Effect(c, {}, FALSE)}
      [] reg[k] # "absent" /\ Url = "Auth" /\ ~TokenValid ->
             LET d == CompleteResubscribeIfEmpty(Defer(c, {k}))
             IN  {Effect(AwaitRefresh(d), {}, ~d.awaiting_token_refresh)}
      [] reg[k] # "absent" /\ (Url = "Public" \/ TokenValid) /\ sockets = "none" ->
             {Effect(c, {}, FALSE)}
      [] OTHER -> SendOne(c, k)

SubscribeResendDue(k) ==
    /\ ~late_failed
    /\ k \in mc.resend_due
    /\ \E e \in ResendEffects([mc EXCEPT !.resend_due = @ \ {k}], k) :
          /\ ProjectLate(e.conn, e.sent)
          /\ Spawn(e.spawn)
    /\ UNCHANGED reg

\* The proactive refresh is single-flight and re-arms its own timer.
TokenRefreshDue ==
    /\ Fires("token_refresh")
    /\ LET live == mc.state \notin {"Closed", "Failed"}
       IN  /\ mc' = IF live THEN mc ELSE Popped("token_refresh")
           /\ proactive' = (proactive \/ live)
    /\ UNCHANGED <<netVars, reg, token, refreshing, landed>>

----------------------------------------------------------------------------
CallerNext ==
    \/ \E rid \in CallIds, admit \in BOOLEAN :
          FreeId(rid) /\ (PostStartConnect(rid, admit) \/ PostForceReconnect(rid, admit))
    \/ \E rid \in CallIds : FreeId(rid) /\ PostClose(rid)
    \/ \E k \in Keys, admit \in BOOLEAN : Register(k, admit)
    \/ \E k \in Keys : DeregisterOne(k)
    \/ DeregisterAll
    \/ WsRequestNoToken
    \/ \E r \in ReqIds : WsRequestFrame(r) \/ AbandonWsRequest(r)

WireNext ==
    \/ UpgradeOk
    \/ \E transient \in BOOLEAN : UpgradeFailed(transient) \/ LateUpgradeFailed(transient)
    \/ \E k \in Keys : SubAck(k)
    \/ \E k \in Keys, kind \in AuthErrorKinds : RejectInHandshake(k, kind)
    \/ \E k \in Keys, transient \in BOOLEAN : Reject(k, transient)
    \/ \E r \in ReqIds : \/ ResponseAuthenticates(r)
                         \/ ResponseStaleInOpen(r)
                         \/ ResponseResolves(r)
                         \/ \E kind \in {"TokenStale", "BadCreds"} : ResponseRefused(r, kind)
    \/ \E policy, admit \in BOOLEAN : WireClosed(policy, admit)

TimerNext ==
    \/ \E admit \in BOOLEAN : \/ BackoffElapsed(admit)
                              \/ RateBudgetWindowAdvanced(admit)
                              \/ CloseTimeout(admit)
    \/ UpgradeTimeout
    \/ StalenessElapsed
    \/ \E k \in Keys : SubscribeAckTimeout(k) \/ SubscribeResendDue(k)
    \/ TokenRefreshDue

TokenNext ==
    \/ \E o \in ReactiveOutcomes : RefreshLands(o)
    \/ \E o \in {"proactive_ok", "proactive_err"} : ProactiveLands(o)
    \/ TokenExpires
    \/ \E o \in Outcomes : RefreshOutcome(o)

Next == CallerNext \/ WireNext \/ TimerNext \/ TokenNext

Spec == Init /\ [][Next]_vars

----------------------------------------------------------------------------
(* Fairness.  The reactor always fires a timer that stays armed, the queued *)
(* messages it polls are delivered, and a refresh task ends.  The budget's  *)
(* window slides, so a retry that keeps being throttled is one day admitted. *)
(* Nothing is assumed of the server, the callers or the staleness timer,    *)
(* which any inbound frame pushes back.                                     *)

Fairness ==
    /\ WF_vars(CloseTimeout(TRUE) \/ CloseTimeout(FALSE))
    /\ WF_vars(UpgradeTimeout)
    /\ WF_vars(BackoffElapsed(TRUE) \/ BackoffElapsed(FALSE))
    /\ WF_vars(RateBudgetWindowAdvanced(TRUE))
    /\ WF_vars(LateUpgradeFailed(TRUE) \/ LateUpgradeFailed(FALSE))
    /\ WF_vars(\E o \in ReactiveOutcomes : RefreshLands(o))
    /\ \A o \in ReactiveOutcomes : WF_vars(RefreshOutcome(o))
    /\ \A k \in Keys : WF_vars(SubscribeAckTimeout(k)) /\ WF_vars(SubscribeResendDue(k))

FairSpec == Spec /\ Fairness

----------------------------------------------------------------------------
(* Properties. *)

\* A request in flight has the socket of a live session, or of a session being
\* closed, to be answered on: no teardown leaves an order future behind.
RequestsHaveSession ==
    mc.pending_requests # {} => mc.socket /\ mc.state \in SessionStates \union {"Closing"}

\* Every teardown drains the in-flight requests before it publishes the event
\* that announces the end of the session or the attempt (drain-before-emit).
DrainBeforeEmit == ~mc.undrained

\* No state that waits for the outside world is left without the timer that
\* ends the wait: a lost upgrade, close or retry cannot wedge the connection.
NoWedge ==
    /\ mc.state = "Connecting" => "upgrade" \in mc.timers
    /\ mc.state \in SessionStates => "staleness" \in mc.timers
    /\ mc.state = "Closing" => "close" \in mc.timers
    /\ mc.state = "BackingOff" => mc.timers \intersect {"backoff", "rate_budget"} # {}

\* A session's frames are sent on and read from the connection's own socket,
\* through all the handlers that project the socket map and all that do not.
SessionSocketWired == mc.state \in SessionStates => mc.socket /\ sockets = "cur"

\* What subscribers were last told is what the connection is: Open is never
\* announced for a connection that is down, nor kept from one that is up.
EventsTellState ==
    /\ mc.state = "Open" => mc.seen = "open"
    /\ mc.seen = "open" => mc.state \in {"Open", "Closing"}
    /\ mc.state = "Failed" <=> mc.seen = "failed"
    /\ mc.seen = "dropped" => mc.state = "BackingOff"

\* Every close() waiter is latched until its ConnectionClosedEvent, and only a
\* connection that is closing holds one.  CloseAnswered is checked instead, which
\* needs it; with a subscription to resend the code does not keep it (README,
\* observations).
CloseWaitersHeld ==
    /\ mc.asked_close = CloseWaiters(mc)
    /\ mc.asked_close # {} => mc.state = "Closing"

\* A connect or force_reconnect waiter that was accepted stays latched until
\* its Open, Reopened or Failed event.  reenter_connecting does not keep this
\* (README, observations): no configuration checks it.
ConnectWaitersHeld ==
    mc.asked_connect \subseteq
        UNION {mc.pending_connect, mc.additional_connect, mc.pending_reconnect}

\* Resubscribing always has an ack or a resend outstanding to leave it by.
ResubscribingHasWork ==
    mc.state = "Resubscribing" => mc.ack_timeouts \union mc.resend_due # {}

\* No live entry is forgotten by a session that replays or is open: its subscribe
\* is on this socket, or it has a resend, or it is deferred to a token refresh.
NoLostSubscription ==
    mc.state \in {"Resubscribing", "Open"} =>
        LiveKeys \subseteq UNION {wire, mc.resend_due, mc.deferred}

\* A connection that awaits a token refresh has one in flight or landed.
RefreshOwed ==
    mc.awaiting_token_refresh => refreshing > 0 \/ landed \intersect ReactiveOutcomes # {}

\* Closing, Connecting and BackingOff always end.
WaitsEnd ==
    /\ mc.state = "Closing" ~> mc.state # "Closing"
    /\ mc.state = "Connecting" ~> mc.state # "Connecting"
    /\ mc.state = "BackingOff" ~> mc.state # "BackingOff"

\* Every accepted close() is answered.
CloseAnswered == \A rid \in CallIds : rid \in mc.asked_close ~> rid \notin mc.asked_close

=============================================================================
