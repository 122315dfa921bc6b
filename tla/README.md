# Verification of the Kraken SDK

TLA+ models, TLC runs and TLAPS proofs for the Rust SDK under `src/rust/src`
(paths below are relative to it). Every definition that models code names its
lines in `PROJECT.json`, under `map`.

## The system

The SDK is a client of Kraken's REST and WebSocket APIs. It keeps at most two
WebSocket connections, `Public` (market data) and `Auth` (orders, executions,
balances). One task, the **I/O Reactor**, owns everything a connection has: the
state machine, the sockets, the subscription registry, the books and the timers.
Callers talk to it through a bounded queue of `CallerInbound` messages; socket
tasks, upgrade bridges and token-refresh tasks talk to it through channels of their
own. A second loop, the dispatch loop of the event bus, delivers lifecycle and data
events to subscribers and completes the awaits that callers hold. Orders go over
either transport: over REST directly from the caller's task, over the WebSocket as
a request the reactor correlates.

| Component | State it keeps | Operations | Hard behaviour |
|---|---|---|---|
| Connection machine, `conn/managed_connection` | state, attempt counters, socket, timers, per-entry ack timers and budgets, deferred subscribes, waiter latches, requests in flight | one arm of `handle_event` per (state, event) | teardown order, waiters of several callers, retries |
| I/O Reactor, `dispatch/io_reactor` | socket map, upgrade guards, registry, close marker | one select arm per source | stale outcomes, a handler that sends and fails half way, two views of the socket |
| Connect-rate budget, `conn/rate_budget.rs` | queue of attempts | `try_consume`, `prune` | shared by two connections, boundary of the window |
| Subscription registry, `conn/subscription_registry.rs` | entries, refcounts, guard generations, tombstones, mirror | register, release, terminate, deregister_all | guards dropped after the entry was revived |
| Token lifecycle, `auth/token_lifecycle.rs` | cached token, single-flight flag | reactive and proactive refresh, invalidate | expiry between check and use, outcomes out of order |
| Transport, `transport/ws.rs` | outbox of 256 frames, reader and writer task | open, send, receive | writer dead while reader lives, full outbox before the upgrade |
| Order book, `book/` | levels, checksum state, gap streak | snapshot, update, reseed | lost update, reseed timeout, change of depth |
| Event bus, `dispatch/event_bus` | ring, correlated waiters, miss buffer, parked teardowns, death latch | publish, deliver, subscribe, teardown | eviction before the waiter, an await cancelled between capture and firing, loop death |
| Handlers and callers, `api/ws_surface`, `dispatch/handler_registry.rs` | presence counts, handles, guards | on, on_for, subscribe, unsubscribe, drop | a full queue met by a drop, two posts of one call |
| Client lifecycle, `build/client` | handles of both loops, completions | ready, close, drop, await | death of a loop at any await |
| Order executors, `api/trade` | pending orders, index of client order ids | place, amend, cancel, batch | ambiguous outcome, a future dropped by its caller |
| Order composition, `api/trade/types`, `api/trade/ws_compose.rs` | the request | setters, validate, compose | a field one transport cannot carry |
| REST, `rest/` | nonce gate | gated send, retry loop, reconciliation | a retry of a request that was executed |
| Nonces, `auth/nonce.rs` | last nonce | next | concurrent callers, clock steps back |
| Rate-limit trackers, `rate_limit/` | decaying counters, LRU of pairs, order ages | charge, refund, snap, decay | instants read before the lock |
| Builder and configuration, `build/` | none | validate knobs | - |
| Endpoint wrappers and decoding, `api/market`, `api/account`, `api/ws_decode.rs` | none | call, decode | - |

What makes each of them correct: a connection answers every waiter, resolves
every request, tells subscribers what it is, and never waits without a timer; the
reactor reads the socket its machine owns and forgets no subscription; the budget
admits at most its cap in any window and delays no one needlessly; the registry
unsubscribes exactly when its last holder goes; a book that passes its checksum is
the exchange's book, and one that waits for a snapshot does not wait for ever; no
completion is lost on the bus and no await hangs; a handle that was dropped is torn
down though the queue was full; an order is never sent twice, its fate is told, and
what is on the wire is what the caller described; nonces increase.

## Modules

| Module | Models | Extends |
|---|---|---|
| `ManagedConnection` | the connection state machine, as operators | |
| `IoReactor` | the reactor of one connection | `ManagedConnection` |
| `ConnectionRateBudget` | the connect-rate budget two connections share | |
| `RateLimits` | the rate-limit trackers, beside the budget | `ConnectionRateBudget` |
| `SubscriptionRegistry` | the life of one (channel, pair) | |
| `EventBus` | ring, correlated registry, loop death, as actions of a thread | |
| `ClientLifecycle` | a client from `ready()` to `close()` or drop, on the bus | `EventBus` |
| `AwaitContract` | abstract: what an await promises | |
| `CallerSurface` | callers, the queue to the reactor, parked teardowns, handlers | |
| `OrderBook` | a maintained book, the exchange's stream, gaps and reseeds | |
| `RestSurface` | one REST call: charge, gate, nonce, wire, retry | |
| `OrderRequests` | order calls on both transports, their answers and events | `RestSurface` |
| `OrderComposition` | building, validating and composing a request, and reading it back | |
| `...Proofs` (8) | the proofs, of the module in their name | |
| `MC...` (8) | constants and symmetry sets for TLC | |

Operators marked "Fault" are faulty forms of the definition that follows them; no
specification uses them, and each property is known to fail when one is put in.

### Connection and reactor

`ManagedConnection` is a record per connection and one operator
per arm of `handle_event` (or per group of arms that do the same), from a
connection to a connection. Operators and not actions, because the reactor runs
several of them in one handler: an ack in the handshake accepts the token, sends
the rest of the registry, each send may fail and tear the session down, and the
empty check may open the connection, all before the next message is looked at.

`IoReactor`: one action is one turn
of the select loop, whole. Its variables are the connection `mc`, the reactor's
view of the socket (`sockets` is the machine's own socket, one the machine has
dropped, or none), the upgrade `bridge` of that socket and the failure of an older
one still queued (`late_failed`), the keys and requests sent on the socket
(`wire`, `wire_reqs`), the registry entries (`reg`), and the token: the cache, the
refresh tasks running, and the outcomes queued (`landed`).

| Select arm or handler | Actions |
|---|---|
| `caller_rx` (`inbound_dispatch.rs`) | `PostStartConnect`, `PostClose`, `PostForceReconnect`, `Register`, `DeregisterOne`, `DeregisterAll`, `WsRequestFrame`, `WsRequestNoToken`, `AbandonWsRequest` |
| `upgrade_rx` | `UpgradeOk` (replay, first bring-up, auth probe), `UpgradeFailed`, `LateUpgradeFailed` |
| `refresh_rx` | `RefreshOutcome`; the tasks themselves are `RefreshLands`, `ProactiveLands`, `TokenExpires` |
| frames (`frame_routing.rs`) | `SubAck`, `RejectInHandshake`, `Reject`, `ResponseAuthenticates`, `ResponseRefused`, `ResponseStaleInOpen`, `ResponseResolves`, `WireClosed` |
| timers | `BackoffElapsed`, `RateBudgetWindowAdvanced`, `UpgradeTimeout`, `StalenessElapsed`, `CloseTimeout`, `SubscribeAckTimeout`, `SubscribeResendDue`, `TokenRefreshDue` |

A handler that sends subscribe frames is a set of possible effects (the connection
it leaves, the keys queued, whether it spawned a refresh), one per outcome of the
sends: queued, outbox full, writer dead. A loop over the registry may stop at any
key. The select is biased, so a queued `UpgradeFailed` wins over frames, refreshes
and timers; only callers' messages come before it.

Four fields of the record are history, marked as such: the last lifecycle event
published, whether an end was ever announced with a request in flight, and the
callers accepted and not yet answered.

`ConnectionRateBudget` is the shared budget with explicit instants: the queue, and
for each connection the timer it arms when refused. `ManagedConnection` sees only
the answer, as the parameter `admit`.

### Registry

`SubscriptionRegistry` is the entry of one key with its count,
generation, tombstone holders and release credits; the guard refs; the mirror row
and the cached hint callers read; the ack timer; and the frames and answers on the
socket, each tagged with the lifetime its subscribe belonged to. Holders are
guards, which the registry knows by handler id, and plain calls, which it only
counts: `plain` remembers, for the properties, which lifetime each of them joined.

| Code | Actions |
|---|---|
| `register_one_and_emit`, `register`, `record_guard_ref` | `Subscribe`, `SubscribeGuarded` |
| `deregister_one`, `release` | `Unsubscribe`, `UnsubscribeSurplus` |
| `SubscriptionGuardDrop`, `release_guard_ref` | `DropGuard` |
| `deregister_all` | `DeregisterAll` |
| `handle_sub_ack`, `note_acked`, `note_terminated` | `SubAck`, `SubReject` |
| end of a session, replay | `Disconnect`, `Reconnect` |
| the exchange (external) | `Server` |

### Event bus and client

`EventBus` is the state of the bus and what one thread does to it between two lock
releases: `Publish` pushes on the drop-oldest ring; `DeliverCorrelated` captures
the matching one-shots under the lock and leaves the thread a `job`, which
`FireCorrelated` sends one receiver at a time and `RelatchCorrelated` gives back to
the next waiter or the miss buffer when nobody took it; `SubscribeCorrelated` takes
a latched completion or registers. A loop's death is four steps (`DeathCommits`,
`DeathObserved`, `DeathResolves`, `DeathAnnounced`), because awaits arm and other
threads fire between them.

`ClientLifecycle` adds the threads: the caller in `ready()` (`Ready`,
`ReadyAnswers`, `ReadySpawns`), `close()` (`Close`, `CloseReadies`, `CloseArms`,
`ClosePosts`, `CloseRejected`) or drop; the reactor (`IoStarts`, `IoAnnounces`,
`IoPublishes`, `IoTakesMarker`, `IoCloses`, `IoShutsDispatch`, `IoExits`, `IoDies`),
whose connections appear as `ConnectionsClose`; the dispatch loop (`Dequeue`,
`Correlate`, `CallSubscribers`, `DispatchExits`, `DispatchDies`); and the awaits
(`Arm`, `ArmFault`, `FirstPoll`, `Woken`, `Unarm`, `Release`, `Observe`).

`AwaitContract` is what remains when the bus is taken away: an await begins,
succeeds, fails or is released; it fails only after a death and, begun after a
genuine one, never succeeds. `ClientLifecycle` implements it: `died` is
`death_committed`, `genuine` is `death_purged`, and the outcome of an await is
`OutcomeOf`. The mapping is the property `KeepsContract`.

### Callers

`CallerSurface` has callers on threads of their own. A call is a sequence of steps,
one per lock or atomic it takes: bump the presence, post, compensate, read the
gate, post again. A drop posts a teardown or, when the queue is full, parks it in
`pending_teardowns`; every later call and every turn of the reactor flushes what is
parked, and a flush itself is four steps (look at the flag, take the items, send
them one by one, put the rest back), so that several run at once. The reactor
applies messages to `handlers` and `subs` and may shut down or die between any two
steps.

### Orders

`RestSurface` is one signed call: `PassCharge`, `SignAndSend` behind the nonce
gate, then an answer, an error or the backstop, then the retry decision by the
policy of the operation. A request that timed out may stay in `net` and reach the
exchange later. `OtherSigner` is another program with the same key.
`OrderRequests` adds the WebSocket path (`WsPosted`, `WsRefused`, `WsSent`,
`WsAnswered`, `WsDrained`, `WsDeadline`, `WsForgotten`, `LoopDies`), the exchange
(external), the drop of the caller's future with its guard (`Drops`), the events
that announce the fate of a call (`Concludes`), the reconciliation read in two legs
(`NextLeg`) and the index of placed batch rows.

`OrderComposition` is a request under construction: `Set`, `PostOnly`, `SetAmend`,
`SetValidate`, `SetDeadline`, `AddEntry`, `PadBatch`, then `Submit` (client order
ids) and `Await` (validate, refuse what the transport cannot represent, compose).
`ReadRest`, `ReadWs` and `ReadAmend` are the exchange's reading of a composed row;
dates are read back by counting days, the reference for the code's own
`civil_from_days`.

`RateLimits` has the decaying counters of the API and of each pair, with their LRU,
refunds, snaps and age-priced amends. A thread first samples the clock and then
takes the lock, so instants arrive out of order. Two auxiliary variables stand beside them:
`level` is what the exchange counts for each scope, which no step of the client makes it
forget, and `uncounted` is the part of it that no counter here vouches for. It grows when
`touch_lru` evicts a pair, when `cancel_all` charges a pair that is at its cap or has no
counter (which pairs had orders is the exchange's to know), when an amend or a cancel
names an order the index does not know, and when the retry loop sends a cancel again, which
was priced once before the loop; it decays with the level.

### Book

`OrderBook` is one symbol: the exchange's book and its stream, the frames on their
way in both directions, the registry entry, the builder and the connection's
timers for it. `DataFrame` applies and validates a frame and recovers from a gap;
`ReseedTimeout`, `AckTimeout`, `ResendDue`, `Reject`, `TearDown`, `BringUp`,
`Subscribe` and `Unsubscribe` are the reactor's other handlers that touch a book. Loss,
garbling and delay are actions of the exchange's side.

### Abstractions

- A timer is armed or not; when it fires is nondeterministic. The consequence is
  that any order of the timers of one connection is explored. `ConnectionRateBudget`
  and `RateLimits`, which are about instants, have a clock.
- A key stands for a (channel, pair), a request id for an order, a call id for a
  caller's handle. `ReactorId` is the id the reactor draws when a registration
  starts the connection.
- Reject strings are reduced to their class (`classify_auth_class`,
  `subscribe_rejection_is_transient`), REST errors to the classes the retry loop and
  `is_sent_ambiguous` tell apart.
- `Reconnect cap` is `{}` for none and `{n}` for `Some(n)`.
- `MaxRefresh` bounds the reactive refreshes in flight and the outcomes queued:
  the code has no bound on the first and 16 on the second.
- `IoReactor` leaves out the req_id correlation of channel-less rejects and the
  send_ready hints; refcounts are in `SubscriptionRegistry`, reseed timers in
  `OrderBook`.
- `SubscriptionRegistry` is one key on a connection that has been open once, so that
  every later session replays it; its subscribe frames are always queued. First
  bring-ups, handshakes, full outboxes, dead writers, resends and transient rejects
  are in `IoReactor`. `MaxGen` bounds the registrations. A forced teardown counts as
  the matching unsubscribe of the plain calls it ends: a later one is a surplus call.
  The unsubscribe frame is best-effort in the code, so it may be lost.
- In `ClientLifecycle` the connections are the single moment at which all are Closed.
- A checksum is the levels it covers: CRC collisions are left out. Prices are
  ordered numbers, quantities wire texts, one of which a Decimal rounds to zero.
- The exchange prices an amend or a cancel by the age the client computed: time in the
  network is left out of `RateLimits`.
- Amounts and their decimal formatting are left out of `OrderComposition`; units,
  signs, legs, flags, dates and identifiers are not.

## Runs

| Run | Instance | Checks |
|---|---|---|
| `auth_orders` | Auth, 1 key, 1 order, 1 caller with every event | `RequestsHaveSession`, `DrainBeforeEmit`, `EventsTellState` |
| `auth_subscriptions` | Auth, 2 keys, close | `ResubscribingHasWork`, `NoLostSubscription`, `RefreshOwed`, `NoWedge` |
| `public_reconnect` | Public, 1 key, 1 caller with every event, fairness | `SessionSocketWired`, `WaitsEnd` |
| `auth_close` | Auth, 3 callers with every event, fairness | `CloseAnswered` |
| `registry` | 2 guards, 2 plain calls, 4 registrations, surplus unsubscribes, both kinds of reject | `GuardKeepsAlive`, `NoOrphan`, `TerminalOnce`, `ProjectionsAgree`, `PendingIsTimed` |
| `client_lifecycle` | 2 `ready()`, 1 `close()`, 1 observer, ring of 1, miss buffer of 1, 6 scenarios, fairness | `CloseAnnounced`, `NoLostTerminal`, `KeepsContract`, `ReadyNeverHangs`, `CloseReturns` |
| `caller_surface` | 2 threads, 1 channel, 2 handler ids, queue of 2, 4 plans of calls, fairness | `PresenceAccounts`, `GuardsHeard`, `NoLostTeardown`, `CrashNotClean`, `TeardownsApplied` |
| `order_requests` | 2 calls, 2 attempts, a clock that stands at 2 and another signer that leaps by 2, fairness | `PlacedOnce`, `FateAnnounced`, `NonceRefusedByOthers`, `ReconcileFinds`, `CallsReturn` |
| `order_composition` | up to 3, 2 and 5 setters on an order, a batch and an amend, 4 dates | `WireMeansOrder`, `SomeTransportTakesIt` |
| `rate_limits` | 2 threads, 2 pairs, LRU of 1, index of 1; 2 connections, budget 2, window 3, clock to 9, levels of the pairs to 4 | `WindowCap`, `NoNeedlessWait`, `BurstBounded`, `BackoffFits` |
| `order_book` | 3 prices, 2 quantities (one underflows), checksum depth 1, tiers 1 and 2, 2 changes, 1 fault, 1 teardown, 2 subscribe calls, fairness | `DeliveredValid`, `NoFalseGap`, `DeliveredExact`, `ResyncEnds` |
| `retryable_unsent` | as `order_requests` | `RetryableMeansUnsent`, violated |

What the properties say:

- *Connection.* A request in flight always has the session it will be answered on, and
  is resolved before any event says that the session ended. What subscribers were
  told last is what the connection is. No session forgets a live subscription, a
  handshake that waits for a token has a refresh to wait for, each waiting state has
  its timer, frames are read from the machine's own socket, and Connecting, Closing
  and BackingOff end whatever the server does. Every accepted `close()` is answered.
- *Registry.* A guard's stream lives as long as the guard; nothing streams without a
  holder; a lifetime publishes its end once; the mirror and the hints agree with the
  entry; an unacknowledged subscribe has a timer.
- *Client.* A completion that left the ring is not lost by cancellation, by a dropped
  completion or by a late observer; `ready()` and `close()` return whatever dies;
  a dispatch loop that drained had delivered the close; awaits keep `AwaitContract`.
- *Callers.* The presence count is exact; a teardown is never lost to a full queue
  and never overtakes its own registration; no guard streams without its handler; a
  crash never reads as a clean close; and every teardown is applied in the end.
- *Orders.* No placement is executed twice; an executed add or amend is announced;
  a nonce is refused only if another signer used the key; a reconciliation that says
  "not placed" is right about the moment it began; every call returns. What is on the
  wire means what the caller described, and what validates can be sent.
- *Limits.* At most the budget of connects per window, and exact waits; what the
  trackers admit stays within the exchange's cap up to the staleness of the instants
  they were given and to what they forgot with an evicted pair or were never asked for; a throttled read sleeps neither too long nor too short.
- *Book.* What `on_book` is given is the exchange's book, as far as the checksum
  reaches after a fault and all of it on an intact stream; an intact stream is never
  declared broken; a wait for a snapshot ends.

### Bounds

Connection: reconnect cap 1, subscribe budget 2, handshake cap 2, counters saturating
at 2. A cap of 1 is reached on the second failure and reset by an open or a
force_reconnect, so the runs contain sessions that drop, retry, reopen, exhaust
the cap and are restarted from `Failed`. A subscribe budget of 2 gives one resend
and then exhaustion. Two keys are what the replay needs: one that probes the
handshake or succeeds and one that fails. Three callers are what the latches need:
one holds the slot, one joins, one reconnects.

Registry: four registrations are two
holders of each kind, or a lifetime that is rejected, revived, rejected and revived
again while guards and plain calls of the first are still to be released.

Client: a ring and a miss buffer of one evict at the second item, so every
completion can be evicted or overwritten. A scenario says which awaits exist and
whether a loop dies unasked or an unrelated listener and event are there: two awaits
meet without a death, one await meets a death. Deaths that an abort asked for are in
all of them.

Callers: with a queue of two a thread finds it full behind the other one's
registration and subscribe. The plans are two guards and a connect that fills the
queue; a bare handler and a guard; a guard and a forced unsubscribe; a handler with a
plain subscription.

Orders: the two calls are any operation on any transport beside a query, and a WS
placement beside its reconciliation; on REST a cancel stands for every call with its
policy. Two attempts give one retry. The clock that stands still is the hard case for
nonces: only `last + 1` separates two signatures.

Composition: a trailing-stop-limit takes three setters; margin meets leverage or a
relative close in two. Batches are padded to their limit of 15. The dates are the
epoch, a leap day, and both sides of 2100-02-28.

Limits: an LRU of one evicts at the second pair. Three windows of the budget let an
attempt be recorded, expire and be replaced, with both connections asleep on the
same instant. Budget and trackers share only the clock, so the constraint `Apart`
looks at one while the other is idle; the trackers' clock goes to 2, which decays
a counter from its cap of one to zero and back. `MaxLevel` bounds what the exchange
counts for the two pairs together, by 4: a pair can be charged to its cap, evicted,
charged again, and charged beyond both by a `cancel_all` and by an amend of an order the
index does not know.

Book: a checksum that covers one level leaves one level of the tier-2 book that it
does not, which is where a wrong trim or a stale level hides; with two gaps allowed
the streak reaches its cap.

Symmetry is used in runs without liveness properties only. `auth_close`,
`caller_surface`, `order_requests`, `order_composition`, `order_book` and
`retryable_unsent` switch the deadlock check off, because their system really stops: a
client or connection is closed, a program has made its calls, the exchange its
changes. The others check it.

### Fairness

- `IoReactor`: weak fairness of the timers that stay armed (close, upgrade,
  backoff, subscribe ack, resend), of the delivery of queued outcomes, and of the
  end of a refresh task: the reactor always polls its channels and its earliest
  timer, and `TokenRefreshTask::run` ends with an outcome. Of the rate timer it is
  assumed that one of its firings finds a slot: by `NoNeedlessWait` the timer is set
  to the instant at which the window frees one, and only the other connection can
  take it. Nothing is assumed of the server, of the callers, or of the staleness
  timer, which any frame pushes back.
- `ClientLifecycle`: the runtime polls every task that can go on, the caller finishes
  the call it began, an aborted reactor ends. Nobody is obliged to die, to close or to
  call, and no connection to reach Closed.
- `CallerSurface`: threads run on, and something wakes the reactor now and then. The
  code has no wake-up for a parked teardown (see the observations); an open
  connection has heartbeats and timers, and any call flushes.
- `OrderRequests`: the client timeout, the backoff, the bring-up timeout and the
  response deadline fire, and the gate is handed on in order. The exchange owes nothing.
- `OrderBook`: the reseed timer fires and a lost connection is brought up again.

### Where the code disagrees with its documentation

`retryable_unsent` ends in a violation of `RetryableMeansUnsent`.
`docs/guides/error-handling.md:86` says that `retryable()` is true only when the
request was never sent. `ws_conn_error_to_trade` (`api/trade/mod.rs:112`) maps a
connection lost with the request in flight to a transient transport error, and a
transient HTTP status becomes one too; `is_sent_ambiguous` is false for both. In the
trace a placement is sent, executed, and returned to its caller as retryable.

### Observations

What modelling met in the code beside that. The first six can be reproduced by
running the property named on the instance named; the runs above avoid those
instances, and the hazards in `PROJECT.json` say so.

- `CloseWaitersHeld` (and `CloseAnswered`) with a key on `Public`: the outbox is full, a
  close comes during the upgrade, the resend fires in `Closing` and meets a full outbox
  again. The exhausted budget takes the connection to `BackingOff`
  (`conn/managed_connection/mod.rs:323`), it reconnects, and `close()` is not answered;
  the comment at `mod.rs:725` promises every waiter its event.
- `NoLostSubscription` on `Public`: a subscription registered while the first bring-up
  is throttled finds no socket and relies on the replay, which
  `dispatch/io_reactor/mod.rs:271` skips on a connection that has never been open
  (`subscribe_send.rs:419`: "reconnect-replay recovers the entry").
- `ConnectWaitersHeld` on `Auth` with two callers: a connect waiter present when a
  force_reconnect takes a handshake to `Closing` is overwritten by
  `reenter_connecting` (`conn/managed_connection/mod.rs:815`); `handle_event.rs:975`
  explains why other paths do not overwrite.
- `RefreshOwed` on `Auth` with an order and no key: a token-stale answer to the order
  that probes the handshake sets `awaiting_token_refresh`, but no refresh is started
  (`frame_routing.rs:249`); the trace at `handle_event.rs:331` says one is in flight.
  Staleness of the socket ends the wait.
- `ActiveFlows` with two plain calls and two registrations: the ack of an unsubscribed
  lifetime finds the timer of the next one armed and marks it `Acked`
  (`frame_routing.rs:542` compares the key, not the frame). The subscription reads
  `Active`, "data flowing" (`api/subscription_types.rs:82`), though its own frame may
  yet be rejected.
- `PlainKeepsAlive` on the same instance, without surplus calls: a plain subscriber who
  revives a rejected key is presumed to be the first one coming back
  (`subscription_registry.rs:386`), so the first one's matched unsubscribe ends the
  second one's stream. `docs/guides/streaming.md:144` says this of surplus calls only;
  `conn/subscription_registry_sweep_tests.rs:490` pins it as known.
- A parked teardown has no wake-up of its own: an idle reactor applies it at the next
  message or timer. `docs/guides/streaming.md:133` says it is "queued and retried".
- The replay of a resyncing book that the outbox refuses arms no reseed watch
  (`dispatch/io_reactor/mod.rs:305`), and the later resend does not either: `ResyncEnds`
  excepts such a session (`link.refused`). `send_book_reseed` (`frame_routing.rs:896`)
  arms the watch even when its own send tore the session down.
- `BookLevel.qty` is documented "never zero" (`book/builder.rs:32`); a quantity that
  underflows the Decimal type is kept, rightly, and reads as zero.
- A negative `Price::Absolute` is not refused by validation, and on REST it renders like a
  negative quote offset (`api/trade/types/requests.rs:117`), on WS as a negative static
  price. `WireMeansOrder` says nothing of an entry with such a price on REST, and reads it
  back exactly on the WS.
- A book first subscribed raw is not maintained for a later `on_book` subscriber of the
  same pair.
- `snap_to_cap` of a pair (`rate_limit/trading.rs:288`) inserts without evicting, so the LRU
  may pass its cap by one.
- The exchange may count more for a pair than its cap while the tracker shows headroom:
  a pair that `touch_lru` evicts starts again from zero when it is next charged
  (`rate_limit/trading.rs:217`), `charge_account_wide` never passes the cap and creates no
  counter, an amend or a cancel the index does not know is not charged at all
  (`api/trade/executors.rs:75`), and a cancel is charged once though the retry loop may
  send it again. `docs/events.md:467` says "the exchange remains
  authoritative", and a throttle error snaps the counter; `BurstBounded` adds up what these
  cases amount to (`uncounted`) and bounds the rest. The API key has no such case.
- REST amends and cancels are charged once by the executor though a cancel is retried; a
  retried cancel may report `UnknownOrder` for its own success.
- An HTTP 5xx or an answer that is no envelope, after the order was executed, is taken for
  a refusal: neither ambiguous nor announced as sent. `FateAnnounced` excepts both.
- `NotPlaced` is right about the moment the reconciliation began; an order that arrives
  later is not seen.
- `system_status_snapshot` of the trade namespace (`api/trade/mod.rs:198`) always answers
  "online", so the status gate of the executors refuses nothing.
- `await_open_by_url` (`api/ws_surface/connect.rs:71`) may see the event before the mirror
  is written and then waits for its 30 s backstop.
- A clean close leaves an await of a `SubscriptionTerminatedEvent` that never came
  pending; `docs/guides/error-handling.md:242` speaks of loop death only.
  `DeadmanDisarmFailedEvent` may be published after the ring was closed.
- Entries deferred in Open whose refresh fails wait for some later refresh, which nothing
  schedules (`docs/events.md:385`).
- The handler gate of `subscribe_*` is read before the post; a handler dropped in between
  leaves a subscription that streams to nobody.

## Proofs

Eight modules prove, for every value of the constants that satisfies the named
assumptions, each safety property that the passing runs check: 33 theorems, some under a
hypothesis named below, beside 15 on the invariants they rest on and on how modules
compose. Each proof has the same layout: an inductive invariant, a lemma that `Init`
establishes it, a lemma per action (or per operator of the machine) that a step keeps it,
and the theorems as its consequences.

**Connect-rate budget.** `RateLimitsProofs`, which proves about the budget and the
trackers, proves `WindowCap` and
`NoNeedlessWait` for every budget of at least one, every window, every set of
connections. `WindowCap` is not inductive. Its strengthening says that the queue is the
tail of the log of all admitted attempts, that the log is in order, and that what was
dropped from the queue is older than the window: an attempt `Budget` places later was
admitted when the queue was shorter than `Budget`, so its predecessor had been dropped.
`NoNeedlessWait` adds that while some connection's timer is still to come prune drops
nothing, so the queue, full when the timer was set, is the same queue.

**Rate-limit trackers.** `RateLimitsProofs` proves `BurstBounded` for any threads, pairs,
tier and `Stale` (how long a thread may be held up between reading the clock and taking
the lock). `RateInv` is an account of the client's counter against the exchange's: a
sample in a caller's hands is at most `Stale` old (`SamplesFresh`), a counter is within
its cap and not ahead of the clock (`CountersFit`), a counter decayed up to now, except
for `Stale` instants, is not below the exchange's level but for what is `uncounted`
(`LevelsCovered`), and nothing is uncounted for the API key (`ApiCounted`). Charges move
both sides by the same amount, a refund gives back what was charged, an instant that went
backwards costs at most `Stale` instants of decay, and an eviction moves the whole level
to `uncounted` as it empties the counter. `BackoffFits` is arithmetic
on the ceiling of `time_until_headroom`; it assumes `Decay[Api] # 0`, as every tier of the
code has, since a counter that does not decay has no such instant. `TrackersKeepBudget`
is a refinement, `RateSpec => Spec` of the budget they run beside, so the two theorems of
the budget hold of the composition (`BudgetHoldsBesideTrackers`).

**Connection and reactor.** `IoReactorProofs` has four invariants, each on top of the
last, for every set of keys, requests and callers and every value of the knobs.
- `IInv` adds to the types that a session or an attempt has its socket (`Safe`): without
  it an order admitted in a handshake could not be shown to have one. It gives `TypeOK`,
  `RequestsHaveSession` and `DrainBeforeEmit`. The work is on the operators of the
  machine: each maps a `Safe` connection to a `Safe` one; teardowns go through records
  that are not `Safe` (the socket is gone, the state not yet left) but `Drained`, and every
  way out of a session starts from a `Drained` connection. `GoodEffects` lifts this to the
  sets of effects of a send, and one lemma per handler to the reactor.
- `HeldInv` adds the timer each waiting state has, the event that was last published in
  each state, and that a session is on the socket in the reactor's map. It gives `NoWedge`,
  `EventsTellState` and `SessionSocketWired`, on both URLs.
- `LedgerInv` is the account of the subscriptions of a connection, kept in its armed
  acks, pending resends and deferred keys: outside a session they are empty; in a session
  every armed ack is for a frame on this socket and every live key is in one of them or
  on the wire (`Filed`), and a replay that has nothing left has not stayed in
  `Resubscribing` (`Worked`). It gives `NoLostSubscription` and `ResubscribingHasWork` under
  the hypothesis `Url = "Auth"`: on `Public` the first is false (the observation on a
  throttled bring-up).
- `OwedInv` adds that a wait for a token has a refresh in flight or queued, `RefreshOwed`,
  under `Url = "Auth"` and `ReqIds = {}`: with an order that probes the handshake it is
  false (the observation on token-stale answers). Both hypotheses are instances the runs
  use, and neither restricts the keys, the callers or the failures.

**Registry.** `SubscriptionRegistryProofs` proves all of its safety properties for any
finite sets of guards and plain calls and any number of registrations. None but the type
is inductive. They rest on `RegistryInv` (theorem `RegistryLedgers`), two ledgers over the
entry's counters: every guard ref of the current lifetime stands for a slot of its own
(`GuardSlots`), and the other slots plus the credits are at most the plain calls not
matched yet (`PlainLedger`); with them go the shape of the entry in each state and the
fact that no holder is from a later generation. A plain release that removes the entry
needs a slot no guard stands for, and a guard's drop removes it only when its own row was
the last: `GuardKeepsAlive`. With no plain call outstanding and no row the second ledger
leaves no slot: `NoOrphan`. `ProjectionsAgree` (the mirror row and the auth hint callers
read agree with the registry) and `PendingIsTimed` (in a session, an entry that waits for
an ack has its timer) follow from the same invariant, and `TerminalOnce` from its generations.

**Callers.** `CallerSurfaceProofs` proves `TypeOK`, `GuardsHeard`, `NoLostTeardown`,
`CrashNotClean` and `PresenceAccounts` for any threads, channels, handler ids and capacity
of the queue. `IInv` adds
- what a thread holds at each step of a flush (`HandShape`) and of a call (`WorkShape`),
  and that one thread opens an id (`OneOpener`): a teardown in nobody's hands is a lost one;
- that every teardown anywhere follows the release of its id (`ItemsShaped`) and every
  handler and guard is on the channel of its handle (`Placed`);
- that an id nobody has posted yet has left no trace (`NewSilent`, `UnpostedSilent`), so
  that a teardown posted when a call is taken back has nothing to overtake;
- that an id deregistered alone has no subscription (`PlainUnsubscribed`,
  `CallsUnsubscribed`, `ItemsUnsubscribed`): a guard's teardown removes both at once;
- that the registration of a guard is applied or ahead of its subscribe in the queue
  (`CallsAnchored`), and the subscribe ahead of the teardown (`SubscribesOrdered`):
  with them the reactor never applies a subscribe without its handler;
- that a reactor that crashed has latched it before its queue closed (`DeathLatched`).

`PresenceAccounts` is an equation of cardinalities and has an invariant of its own,
`PresenceInv`: no id is registered twice, in the queue or in the map (`RegisteredOnce`), so
each step moves one element from one of the three counted sets to another (`Counts`).

**Client and event bus.** `ClientLifecycleProofs` proves `TypeOK`, `CloseAnnounced`, the
action property `NoLostTerminal` and the refinement `KeepsContract`, for any awaits,
scenarios and capacities of the ring and of the buffer of missed completions. The parts of
`IInv` are: whose turn it is and what each thread may owe at each of its points (`Held`);
what an await may have received before it was armed or after it was dropped (`Births`);
nobody speaks of a death before it is committed, and an await begun after a genuine one
hears of nothing else (`Deaths`), nor does what the registry and the jobs captured from it
hold (`Registry`) or the ring (`Ring`); and the order in which reactor, ring and dispatch
loop begin and end (`Lives`). The refinement maps `death_committed` and `death_purged` to
`died` and `genuine`, and each await to the outcome its caller can see; every action is then
a step of `AwaitContract` or a stutter. What the mapping rests on is `Deaths`: without it
the failure of an await could precede the death it tells. `NoLostTerminal` is proved
action by action: a completion in transit (taken off the ring, latched, captured, received)
is in transit after the step, or one of the named ways out was taken.

**Order calls.** `OrderRequestsProofs` proves `PlacedOnce`, `FateAnnounced`,
`NonceRefusedByOthers` and `ReconcileFinds` for any number of concurrent calls on both
transports, any budget of attempts, any wall clock, and loss or delay of any message.
`IInv` has seven parts: the types of a call (`CallTypes`) and what its stage says of its
operation and attempts (`Stages`: one re-sign beyond the budget); a call on the wire is at
the head of the nonce gate (`GateHeld`), so the nonce it carries is the last one drawn and,
unless somebody else signs, above the exchange's (`NoncesOrdered`); a placement has at most
one request in the network or one execution, and none before its wire stage (`SentOnce`); an
answer that tells nothing is only given to a call that left nothing on the wire
(`FateKept`); an order that existed when a reconciliation began, and was not in the open
list, has closed, and is then in the closed one (`SoughtKept`).

**Order composition.** `OrderCompositionProofs` proves `WireMeansOrder` and
`SomeTransportTakesIt` for any prices, leverages, instants and number of setters. `Inv` is
that the request under construction is well formed (`Built`) and that a row on the wire was
composed of it, for a transport that takes it, after it was validated (`Composed`). Each
composed row gives a key at most one value, so the exchange's reading of a field is what
was put there (`OptReads`, `RestGets`, `WsGets`), and a field the transport has no key for
is one the order type does not use or validation refused (`RestMeans`, `WsMeans`,
`RestAmendReads`, `WsAmendReads`). Timestamps read back for every day from the epoch on
(`TimeReads`): the code's closed form of the date against leap years that are counted one by
one. That the count equals the arithmetic is an induction over the years, which is done by
taking the least year for which it fails (`LeastNatural`, `AllGood`).

**Book.** `OrderBookProofs` proves `DeliveredValid`, `NoFalseGap` and `DeliveredExact` for
any prices, quantities, depths and checksum depth, under losses, garbled frames, late
answers, rejections and reconnects. `BookInv` relates the client to what is on its way:
each frame carries the checksum of the exchange's book, and an intact one with headroom
shows all the checksum covers (`Telling`); each whole delta takes what a client in step
holds to what the frame shows (`Chain`), and at the end of the stream such a client holds
what the exchange published (`Tip`), together `StreamSound`; a link that is down has no
stream and no requests (`LinkSound`); the builder keeps at most its depth, more than the
checksum covers, and is not chained while it resyncs (`BuilderSound`). The lemmas under it
are about the top of a side: the top of a top (`TopOfTop`), a change below the depth is not
seen (`ChangeBelow`), a change applied to the top is the top of the changed side
(`ChangeApplies`) except for what slides in or out at the last level (`MovedIsLast`,
`WithheldUnseen`), and the pigeonhole that a top has at most its depth (`TopFits`). The
checksum is the top levels it covers, as in the model, so collisions of the CRC are left
out.

The assumptions are `ConnectionAssumption`, `ReactorAssumption`, `BudgetAssumption`,
`RateAssumption`, `RegistryAssumption`, `SurfaceAssumption`, `BusAssumption`,
`LifecycleAssumption`, `RestAssumption`, `BookAssumption`, `PricesAssumption`,
`TimesAssumption` and `NoneAssumption`, each stated in the module that declares the
constants and evaluated by TLC in every run of that module. They say which values the
builder and the constants of the code allow: capacities and budgets of at least one,
disjoint names, a depth tier above the checksum's, instants not before the epoch, and a `None`
that is no value of a field.

Model-checked only:
- the liveness properties `ReadyNeverHangs`, `CloseReturns`, `WaitsEnd`, `CloseAnswered`,
  `CallsReturn`, `ResyncEnds` and `TeardownsApplied`: fairness and ENABLED are beyond the
  prover;
- the refutation `RetryableMeansUnsent`, which a trace settles.

## Theorems worth proving next

- `NoLostSubscription` and `ResubscribingHasWork` on `Public`, with the keys registered
  during a throttled first bring-up excepted; `RefreshOwed` with orders, the probe that was
  answered token-stale excepted.
- A refinement of `OrderRequests` to an abstract service that takes each order at most once
  and tells its caller so, as `AwaitContract` is for the client.

## Not modelled

- Wire formats, JSON decoding, signing, decimal formatting, logging and metrics are data
  conversions with no state; the endpoint wrappers under `api/market` and `api/account`
  only call REST. Builder validation is represented by the assumptions on the constants.
- The reader and writer tasks of a socket: they move bytes between two channels and a
  stream; the reactor's view of them is in `IoReactor`.
- The fan-out of a data frame to the handlers of a channel changes no state.
- Two connections interleaved in one reactor: they share the rate budget, which
  `ConnectionRateBudget` has, and the close of the client, which `ClientLifecycle` has
  as the moment both are Closed.
- The req_id correlation of channel-less rejects, the send_ready hints and the sequence
  tracker of channels other than the book.
- Await of an Open by URL (`api/ws_surface/connect.rs`), beyond the observation above.
