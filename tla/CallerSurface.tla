---------------------------- MODULE CallerSurface ----------------------------
(***************************************************************************)
(* Callers of WsSurface on threads of their own, the bounded caller_to_io  *)
(* queue, the teardowns that found it full (pending_teardowns of the event *)
(* bus), and the I/O reactor that applies what arrives to the handler and  *)
(* the subscription registry.  Handlers are registered bare (on_*, a       *)
(* HandlerHandle) or with a subscription (on_*_for, a SubscriptionGuard);  *)
(* dropping either only posts.  The presence counts are bumped by callers  *)
(* and lowered by the reactor.                                             *)
(*                                                                         *)
(* A call is a sequence of steps, one per lock or atomic it takes.  What a *)
(* registry entry does on the wire is module SubscriptionRegistry; here a  *)
(* channel has its plain subscribers and its guards.                       *)
(***************************************************************************)
EXTENDS Integers, Sequences, FiniteSets

CONSTANTS
    Callers,       \* caller threads
    Channels,
    Ids,           \* handler_id_alloc: the ids it will hand out
    QueueCap,      \* capacity of caller_to_io
    Plans          \* bound: how often each call may be made

CallKinds == {"on", "on_for", "subscribe", "unsubscribe", "unsubscribe_all", "connect"}

ASSUME SurfaceAssumption ==
    /\ "io" \notin Callers
    /\ Channels # {}
    /\ Ids \subseteq Nat \ {0}
    /\ QueueCap \in Nat \ {0}
    /\ Plans \subseteq [CallKinds -> Nat]

VARIABLES
    queue,         \* caller_to_io
    closed,        \* its receiver is gone
    shutting_down, \* is_shutting_down: close() has begun the teardown
    loop_failed,   \* is_loop_failed
    io,            \* the reactor: at the top of its loop, on its way to and in its select,
                   \* dying, gone
    reserve,       \* slots its flush leaves free
    crashed,       \* history: it ended abnormally, outside a teardown
    pending,       \* pending_teardowns
    has_pending,   \* has_pending_teardowns
    presence,      \* the presence mirror
    handlers,      \* HandlerRegistry: the ids of each channel
    subs,          \* the subscription of each channel: plain subscribers, guards
    handle,        \* what became of the handle or guard of an id
    at,            \* where each thread is
    work,          \* what it is doing
    hand,          \* the teardowns it has taken out of pending_teardowns
    calls          \* the calls left in the plan

queueVars == <<queue, closed>>
pendingVars == <<pending, has_pending, hand>>
registryVars == <<handlers, subs>>
lifeVars == <<shutting_down, loop_failed, io, reserve, crashed>>
vars == <<queueVars, lifeVars, pendingVars, presence, registryVars, handle, at, work, calls>>

Threads == Callers \union {"io"}

\* CallerInbound: an operation on a channel, of a handler (0 for none).
Item(op, id, ch) == [op |-> op, id |-> id, ch |-> ch]

Ops == {"register", "deregister", "subscribe", "unsubscribe", "unsubscribe_all", "guard_drop",
        "connect"}

NoWork == [call |-> "none", step |-> "none", id |-> 0, ch |-> CHOOSE c \in Channels : TRUE]

Items == [op : Ops, id : Ids \union {0}, ch : Channels]

Works ==
    [call : CallKinds \union {"drop", "drop_guard", "none"},
     step : {"none", "register", "post_register", "compensate", "gate", "post", "teardown"},
     id : Ids \union {0},
     ch : Channels]

Handles == [state : {"new", "opening", "held", "released"}, guard : BOOLEAN, ch : Channels]

Init ==
    /\ queue = <<>>
    /\ closed = FALSE
    /\ shutting_down = FALSE
    /\ loop_failed = FALSE
    /\ io = "top"
    /\ reserve = 0
    /\ crashed = FALSE
    /\ pending = <<>>
    /\ has_pending = FALSE
    /\ presence = [c \in Channels |-> 0]
    /\ handlers = [c \in Channels |-> {}]
    /\ subs = [c \in Channels |-> [plain |-> 0, guards |-> {}]]
    /\ handle = [i \in Ids |-> [state |-> "new", guard |-> FALSE, ch |-> NoWork.ch]]
    /\ at = [t \in Threads |-> "idle"]
    /\ work = [t \in Threads |-> NoWork]
    /\ hand = [t \in Threads |-> <<>>]
    /\ calls \in Plans

-----------------------------------------------------------------------------
(* The queue.                                                              *)

Room == QueueCap - Len(queue)

\* try_post_caller_inbound_recovering_kind: accepted, Full or Closed.
Accepts == ~closed /\ Room > 0

Posts(item) == queue' = Append(queue, item) /\ UNCHANGED closed

\* post_reject_to_error, of a post to a receiver that is gone.
ClosedError == IF loop_failed THEN "LoopDead" ELSE "ClientClosed"

-----------------------------------------------------------------------------
(* flush_pending_teardowns_leaving.                                        *)

\* Where a flush is called from, thread t goes on.
Resume(t) == at' = [at EXCEPT ![t] = IF t = "io" THEN "select" ELSE "work"]

Reserve(t) == IF t = "io" THEN reserve ELSE 0

FlushChecks(t) ==
    /\ at[t] = "flush"
    /\ \/ /\ ~has_pending \/ Room <= Reserve(t)
          /\ Resume(t)
       \/ /\ has_pending
          /\ Room > Reserve(t)
          /\ at' = [at EXCEPT ![t] = "take"]
    /\ UNCHANGED <<queueVars, lifeVars, pendingVars, presence, registryVars, handle, work, calls>>

\* Under the lock: everything is taken and the flag cleared.
FlushTakes(t) ==
    /\ at[t] = "take"
    /\ hand' = [hand EXCEPT ![t] = pending]
    /\ pending' = <<>>
    /\ has_pending' = FALSE
    /\ at' = [at EXCEPT ![t] = "send"]
    /\ UNCHANGED <<queueVars, lifeVars, presence, registryVars, handle, work, calls>>

\* Fault: what the queue has no room for is forgotten.
KeepsRestNever(t) == Resume(t) /\ hand' = [hand EXCEPT ![t] = <<>>]

\* What the queue has no room for goes back.
KeepsRest(t) == at' = [at EXCEPT ![t] = "requeue"] /\ UNCHANGED hand

FlushSends(t) ==
    /\ at[t] = "send"
    /\ \/ /\ hand[t] = <<>>
          /\ Resume(t)
          /\ UNCHANGED <<queueVars, hand>>
       \/ /\ hand[t] # <<>>
          /\ ~closed
          /\ Room <= Reserve(t)
          /\ KeepsRest(t)
          /\ UNCHANGED queueVars
       \/ /\ hand[t] # <<>>
          /\ ~closed
          /\ Room > Reserve(t)
          /\ Posts(Head(hand[t]))
          /\ hand' = [hand EXCEPT ![t] = Tail(@)]
          /\ UNCHANGED at
       \/ /\ hand[t] # <<>>
          /\ closed
          /\ hand' = [hand EXCEPT ![t] = <<>>]
          /\ Resume(t)
          /\ UNCHANGED queueVars
    /\ UNCHANGED <<lifeVars, pending, has_pending, presence, registryVars, handle, work, calls>>

\* Fault: the flag is computed before the items are back.
FlagAfterStale(items) == pending # <<>>

\* requeue_pending_teardowns: the flag says whether there are any.
FlagAfter(items) == pending \o items # <<>>

Requeue(t) ==
    /\ pending' = pending \o hand[t]
    /\ has_pending' = FlagAfter(hand[t])
    /\ hand' = [hand EXCEPT ![t] = <<>>]

FlushRequeues(t) ==
    /\ at[t] = "requeue"
    /\ Requeue(t)
    /\ Resume(t)
    /\ UNCHANGED <<queueVars, lifeVars, presence, registryVars, handle, work, calls>>

-----------------------------------------------------------------------------
(* Calls.                                                                  *)

\* One more call, as far as the plan goes.
Plays(call) == calls[call] > 0 /\ calls' = [calls EXCEPT ![call] = @ - 1]

Begins(t, call, step, id, ch, first) ==
    /\ at[t] = "idle"
    /\ work' = [work EXCEPT ![t] = [call |-> call, step |-> step, id |-> id, ch |-> ch]]
    /\ at' = [at EXCEPT ![t] = first]

At(t, step) == at[t] = "work" /\ work[t].step = step

Goes(t, step) == work' = [work EXCEPT ![t].step = step] /\ UNCHANGED at

Flushes(t, step) ==
    /\ work' = [work EXCEPT ![t].step = step]
    /\ at' = [at EXCEPT ![t] = "flush"]

Returns(t) ==
    /\ work' = [work EXCEPT ![t] = NoWork]
    /\ at' = [at EXCEPT ![t] = "idle"]

BecomesOf(id, state) == handle' = [handle EXCEPT ![id].state = state]

\* register_handler, and on_*_for, which subscribes too.
On(t, ch, guard) ==
    \E id \in Ids :
        /\ Plays(IF guard THEN "on_for" ELSE "on")
        /\ \A i \in Ids : handle[i].state = "new" <=> i >= id
        /\ Begins(t, IF guard THEN "on_for" ELSE "on", "register", id, ch, "flush")
        /\ handle' = [handle EXCEPT ![id] = [state |-> "opening", guard |-> guard, ch |-> ch]]
        /\ UNCHANGED <<queueVars, lifeVars, pendingVars, presence, registryVars>>

\* register_handler_id_checked: presence first.
Bumps(t) ==
    /\ At(t, "register")
    /\ presence' = [presence EXCEPT ![work[t].ch] = @ + 1]
    /\ Goes(t, "post_register")
    /\ UNCHANGED <<queueVars, lifeVars, pendingVars, registryVars, handle, calls>>

PostsRegister(t) ==
    /\ At(t, "post_register")
    /\ \/ /\ Accepts
          /\ Posts(Item("register", work[t].id, work[t].ch))
          /\ IF work[t].call = "on"
             THEN Returns(t) /\ BecomesOf(work[t].id, "held")
             ELSE Goes(t, "gate") /\ UNCHANGED handle
       \/ /\ ~Accepts
          /\ Goes(t, "compensate")
          /\ UNCHANGED <<queueVars, handle>>
    /\ UNCHANGED <<lifeVars, pendingVars, presence, registryVars, calls>>

\* Fault: a rejected registration keeps its count.
LoweredNever(ch) == presence

Lowered(ch) == [presence EXCEPT ![ch] = IF @ > 0 THEN @ - 1 ELSE 0]

\* The bare on_* returns its handle all the same; on_*_for an error.
Compensates(t) ==
    /\ At(t, "compensate")
    /\ presence' = Lowered(work[t].ch)
    /\ BecomesOf(work[t].id, IF work[t].call = "on" THEN "held" ELSE "released")
    /\ Returns(t)
    /\ UNCHANGED <<queueVars, lifeVars, pendingVars, registryVars, calls>>

\* subscribe_*, unsubscribe_*, unsubscribe_all, and connect, which only posts.
Calls(t, call, ch) ==
    /\ Plays(call)
    /\ Begins(t, call, IF call = "connect" THEN "post" ELSE "gate", 0, ch, "work")
    /\ UNCHANGED <<queueVars, lifeVars, pendingVars, presence, registryVars, handle>>

\* The choke of subscribe and unsubscribe: no dead loop, and a plain subscriber
\* has a handler.  What is refused of an on_*_for takes its handler down.
Gate(t) ==
    /\ At(t, "gate")
    /\ LET refused == loop_failed \/ (work[t].call = "subscribe" /\ presence[work[t].ch] = 0)
       IN  \/ /\ ~refused
              /\ Flushes(t, "post")
              /\ UNCHANGED handle
           \/ /\ refused
              /\ IF work[t].call = "on_for"
                 THEN Flushes(t, "teardown") /\ BecomesOf(work[t].id, "released")
                 ELSE Returns(t) /\ UNCHANGED handle
    /\ UNCHANGED <<queueVars, lifeVars, pendingVars, presence, registryVars, calls>>

\* subscribe_with_ref, unsubscribe, post_deregister_all, connect.
PostsCall(t) ==
    /\ At(t, "post")
    /\ LET op == IF work[t].call = "on_for" THEN "subscribe" ELSE work[t].call
       IN  \/ /\ Accepts
              /\ Posts(Item(op, work[t].id, work[t].ch))
              /\ Returns(t)
              /\ IF work[t].call = "on_for" THEN BecomesOf(work[t].id, "held") ELSE UNCHANGED handle
           \/ /\ ~Accepts
              /\ UNCHANGED queueVars
              /\ IF work[t].call = "on_for"
                 THEN Flushes(t, "teardown") /\ BecomesOf(work[t].id, "released")
                 ELSE Returns(t) /\ UNCHANGED handle
    /\ UNCHANGED <<lifeVars, pendingVars, presence, registryVars, calls>>

\* A handle or a guard is dropped.
Drops(t, id) ==
    /\ handle[id].state = "held"
    /\ Begins(t, IF handle[id].guard THEN "drop_guard" ELSE "drop", "teardown", id,
              handle[id].ch, "flush")
    /\ BecomesOf(id, "released")
    /\ UNCHANGED <<queueVars, lifeVars, pendingVars, presence, registryVars, calls>>

\* The one message that takes an id down: a guard's takes its subscription too.
TeardownOf(t) ==
    Item(IF work[t].call = "drop_guard" THEN "guard_drop" ELSE "deregister", work[t].id, work[t].ch)

\* post_teardown
PostsTeardown(t) ==
    /\ At(t, "teardown")
    /\ \/ /\ Accepts
          /\ Posts(TeardownOf(t))
          /\ Returns(t)
          /\ UNCHANGED hand
       \/ /\ closed
          /\ Returns(t)
          /\ UNCHANGED <<queueVars, hand>>
       \/ /\ ~closed /\ Room <= 0
          /\ hand' = [hand EXCEPT ![t] = <<TeardownOf(t)>>]
          /\ at' = [at EXCEPT ![t] = "retire"]
          /\ UNCHANGED <<queueVars, work>>
    /\ UNCHANGED <<lifeVars, pending, has_pending, presence, registryVars, handle, calls>>

Retires(t) ==
    /\ at[t] = "retire"
    /\ Requeue(t)
    /\ Returns(t)
    /\ UNCHANGED <<queueVars, lifeVars, presence, registryVars, handle, calls>>

-----------------------------------------------------------------------------
(* The reactor.                                                            *)

\* The top of its loop, once per item or other event: a flush, which leaves a
\* slot to the callers if something is to be received.
LoopsAround ==
    /\ io = "top"
    /\ io' = "select"
    /\ reserve' = IF queue # <<>> THEN 1 ELSE 0
    /\ at' = [at EXCEPT !["io"] = "flush"]
    /\ UNCHANGED <<queueVars, shutting_down, loop_failed, crashed, pendingVars, presence, registryVars,
                   handle, work, calls>>

\* HandlerRegistry::deregister: presence follows a removal only.
RemovesHandler(item) ==
    /\ handlers' = [handlers EXCEPT ![item.ch] = @ \ {item.id}]
    /\ presence' = IF item.id \in handlers[item.ch] THEN Lowered(item.ch) ELSE presence

\* Fault: a guard's drop leaves its reference behind.
ReleasedNever(item) == subs

\* release_guard_ref
Released(item) == [subs EXCEPT ![item.ch].guards = @ \ {item.id}]

\* handle_inbound
Applies(item) ==
    \/ /\ item.op = "register"
       /\ handlers' = [handlers EXCEPT ![item.ch] = @ \union {item.id}]
       /\ UNCHANGED <<presence, subs>>
    \/ /\ item.op = "deregister"
       /\ RemovesHandler(item)
       /\ UNCHANGED subs
    \/ /\ item.op = "guard_drop"
       /\ RemovesHandler(item)
       /\ subs' = Released(item)
    \/ /\ item.op = "subscribe"
       /\ subs' = IF item.id = 0 THEN [subs EXCEPT ![item.ch].plain = @ + 1]
                  ELSE [subs EXCEPT ![item.ch].guards = @ \union {item.id}]
       /\ UNCHANGED <<presence, handlers>>
    \/ /\ item.op = "unsubscribe"
       /\ subs' = [subs EXCEPT ![item.ch].plain = IF @ > 0 THEN @ - 1 ELSE 0]
       /\ UNCHANGED <<presence, handlers>>
    \/ /\ item.op = "unsubscribe_all"
       /\ subs' = [c \in Channels |-> [plain |-> 0, guards |-> {}]]
       /\ UNCHANGED <<presence, handlers>>
    \/ /\ item.op = "connect"
       /\ UNCHANGED <<presence, handlers, subs>>

Receives ==
    /\ io = "select" /\ at["io"] = "select"
    /\ queue # <<>>
    /\ queue' = Tail(queue)
    /\ Applies(Head(queue))
    /\ io' = "top"
    /\ reserve' = 0
    /\ at' = [at EXCEPT !["io"] = "idle"]
    /\ UNCHANGED <<closed, shutting_down, loop_failed, crashed, pendingVars, handle, work, calls>>

\* Something else wakes the select: a frame, a timer.  Received items go first.
Wakes ==
    /\ io = "select" /\ at["io"] = "select"
    /\ queue = <<>>
    /\ io' = "top"
    /\ reserve' = 0
    /\ at' = [at EXCEPT !["io"] = "idle"]
    /\ UNCHANGED <<queueVars, shutting_down, loop_failed, crashed, pendingVars, presence,
                   registryVars, handle, work, calls>>

\* begin_shutdown
Shuts ==
    /\ ~shutting_down
    /\ shutting_down' = TRUE
    /\ UNCHANGED <<queueVars, loop_failed, io, reserve, crashed, pendingVars, presence, registryVars,
                   handle, at, work, calls>>

\* The reactor leaves its loop once both connections are Closed; its guard is disarmed.
Exits ==
    /\ io = "select" /\ at["io"] = "select"
    /\ shutting_down
    /\ io' = "gone"
    /\ closed' = TRUE
    /\ queue' = <<>>
    /\ reserve' = 0
    /\ at' = [at EXCEPT !["io"] = "idle"]
    /\ UNCHANGED <<shutting_down, loop_failed, crashed, pendingVars, presence, registryVars,
                   handle, work, calls>>

\* Fault: the receiver goes before the death guard.
DropsFirstReceiver == closed' = TRUE /\ queue' = <<>> /\ UNCHANGED loop_failed

\* A panic or an abort drops the reactor's locals, the death guard before the
\* receiver, which was there first (on_loop_death: no latch in a teardown).
DropsFirst == loop_failed' = (loop_failed \/ ~shutting_down) /\ UNCHANGED queueVars

Dies ==
    /\ io \in {"top", "select"}
    /\ at["io"] \in {"idle", "select"}
    /\ io' = "dying"
    /\ crashed' = ~shutting_down
    /\ at' = [at EXCEPT !["io"] = "idle"]
    /\ reserve' = 0
    /\ DropsFirst
    /\ UNCHANGED <<shutting_down, pendingVars, presence, registryVars, handle, work, calls>>

IsDead ==
    /\ io = "dying"
    /\ io' = "gone"
    /\ loop_failed' = (loop_failed \/ crashed)
    /\ closed' = TRUE
    /\ queue' = <<>>
    /\ UNCHANGED <<shutting_down, reserve, crashed, pendingVars, presence, registryVars, handle, at,
                   work, calls>>

\* The dispatch loop dies: the I/O reactor goes on.
DispatchDies ==
    /\ ~loop_failed
    /\ ~shutting_down
    /\ loop_failed' = TRUE
    /\ UNCHANGED <<queueVars, shutting_down, io, reserve, crashed, pendingVars, presence, registryVars,
                   handle, at, work, calls>>

-----------------------------------------------------------------------------
FlushStep(t) == FlushChecks(t) \/ FlushTakes(t) \/ FlushSends(t) \/ FlushRequeues(t)

CallStep(t) ==
    Bumps(t) \/ PostsRegister(t) \/ Compensates(t) \/ Gate(t) \/ PostsCall(t) \/ PostsTeardown(t)
    \/ Retires(t)

Begin(t) ==
    \/ \E ch \in Channels, guard \in BOOLEAN : On(t, ch, guard)
    \/ \E ch \in Channels, call \in {"subscribe", "unsubscribe"} : Calls(t, call, ch)
    \/ \E call \in {"unsubscribe_all", "connect"} : Calls(t, call, NoWork.ch)
    \/ \E id \in Ids : Drops(t, id)

Reacts == LoopsAround \/ Receives \/ Wakes

Next ==
    \/ \E t \in Callers : Begin(t) \/ CallStep(t)
    \/ \E t \in Threads : FlushStep(t)
    \/ Reacts \/ Shuts \/ Exits \/ Dies \/ IsDead \/ DispatchDies

\* Threads run on, and something wakes the reactor now and then: an open
\* connection has heartbeats and timers.
Spec ==
    /\ Init /\ [][Next]_vars
    /\ \A t \in Callers : WF_vars(CallStep(t))
    /\ \A t \in Threads : WF_vars(FlushStep(t))
    /\ WF_vars(Reacts) /\ WF_vars(IsDead)

-----------------------------------------------------------------------------
(* Properties.                                                             *)

TypeOK ==
    /\ queue \in Seq(Items) /\ Len(queue) <= QueueCap
    /\ closed \in BOOLEAN
    /\ shutting_down \in BOOLEAN /\ loop_failed \in BOOLEAN /\ crashed \in BOOLEAN
    /\ io \in {"top", "select", "dying", "gone"}
    /\ reserve \in {0, 1}
    /\ pending \in Seq(Items) /\ has_pending \in BOOLEAN
    /\ hand \in [Threads -> Seq(Items)]
    /\ presence \in [Channels -> Nat]
    /\ handlers \in [Channels -> SUBSET Ids]
    /\ subs \in [Channels -> [plain : Nat, guards : SUBSET Ids]]
    /\ handle \in [Ids -> Handles]
    /\ at \in [Threads -> {"idle", "flush", "take", "send", "requeue", "work", "retire", "select"}]
    /\ work \in [Threads -> Works]
    /\ calls \in [CallKinds -> Nat]

Queued(op, id) == \E n \in DOMAIN queue : queue[n].op = op /\ queue[n].id = id

\* The presence count of a channel is exactly its handlers, those still in the
\* queue and those whose call has not been posted or taken back: callers bump
\* and compensate it, the reactor lowers it, and has_handlers never answers for
\* a handler that will not come (register_handler_id_checked, deregister).
PresenceAccounts ==
    ~closed =>
        \A c \in Channels :
            presence[c] =
                Cardinality(handlers[c])
                + Cardinality({n \in DOMAIN queue : queue[n].op = "register" /\ queue[n].ch = c})
                + Cardinality({t \in Callers : work[t].step \in {"post_register", "compensate"}
                                               /\ work[t].ch = c})

\* Id i is in a registry, or will be.
Alive(i) ==
    \/ \E c \in Channels : i \in handlers[c] \union subs[c].guards
    \/ Queued("register", i) \/ Queued("subscribe", i)

Teardowns == {"deregister", "guard_drop"}

\* Its teardown is with a call, taken by a flush, in pending_teardowns, or
\* behind everything else of it in the queue.
WithCall(i) == \E t \in Callers : work[t].step = "teardown" /\ work[t].id = i

InHand(i) == \E t \in Threads : \E n \in DOMAIN hand[t] : hand[t][n].id = i

InPending(i) == \E n \in DOMAIN pending : pending[n].id = i

InQueue(i) ==
    \E n \in DOMAIN queue :
        /\ queue[n].id = i
        /\ queue[n].op \in Teardowns
        /\ \A k \in DOMAIN queue : queue[k].id = i => k <= n

TeardownUnderway(i) == WithCall(i) \/ InHand(i) \/ InPending(i) \/ InQueue(i)

\* A dropped handle or guard, or the handler of an on_*_for that failed, is
\* never forgotten by a full queue and never overtakes its own registration
\* (post_teardown, flush_pending_teardowns_leaving).
NoLostTeardown ==
    ~closed => \A i \in Ids : (handle[i].state = "released" /\ Alive(i)) => TeardownUnderway(i)

\* A guard's subscription never streams without its handler: the handler is
\* registered before and both go in one message (register_and_subscribe_guarded,
\* SubscriptionGuardDrop).
GuardsHeard == \A c \in Channels : subs[c].guards \subseteq handlers[c]

\* "A crash must never read as a clean close": a call that finds the queue
\* closed by the reactor's death is told LoopDead (post_reject_to_error).
CrashNotClean == (closed /\ crashed) => ClosedError = "LoopDead"

\* A released id is gone from both registries in the end, however full the
\* queue was (has_pending_teardowns, the reactor's own flush).
TeardownsApplied ==
    \A i \in Ids : (handle[i].state = "released") ~> (closed \/ ~Alive(i))

=============================================================================
