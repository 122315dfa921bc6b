------------------------------ MODULE EventBus ------------------------------
(***************************************************************************)
(* The event bus of dispatch/event_bus: the drop-oldest ring between the   *)
(* I/O reactor and the dispatch loop, the registry of correlated one-shot  *)
(* waiters with its buffer of missed completions, and the handler of a     *)
(* loop's death.  The registry has one lock; a one-shot is fired after the *)
(* lock is released, so between the capture of a waiter and its firing the *)
(* waiter may have been cancelled, and a declined event is latched again.  *)
(*                                                                         *)
(* Several threads of control use the bus: the two reactor loops, the      *)
(* client's caller and every await (the module's Waiters), which arms,     *)
(* claims and releases its own one-shots.  What a thread still has to do   *)
(* after releasing the lock is its job.  An event is its type and the      *)
(* request it completes; its payload, version and instant are left out.    *)
(***************************************************************************)
EXTENDS Naturals, Sequences, FiniteSets, SequencesExt

CONSTANTS
    Waiters,     \* the awaits of completion events
    Tasks,       \* the other threads: the reactor loops and the client's caller
    Requests,    \* request ids
    RingCap,     \* io_to_dispatch_capacity
    MissedCap    \* CORRELATED_MISS_BUFFER_CAP

NoReq == "none"

ASSUME BusAssumption ==
    /\ Waiters \intersect Tasks = {}
    /\ NoReq \notin Requests
    /\ RingCap \in Nat \ {0}
    /\ MissedCap \in Nat \ {0}

VARIABLES
    io_to_dispatch,       \* the ring of events and data
    ring_closed,
    subscribers,          \* event types with a long-lived subscriber
    live,                 \* registered one-shots
    missed,               \* completions that found no waiter
    death_committed,
    death_purged,
    loop_death_observed,
    loop_failed,
    shutting_down,
    dispatch_state,
    cell,                 \* the sender both one-shots of an await race to claim
    inbox,                \* its receiver: empty, filled or dropped
    job,                  \* what each thread owes after releasing the registry lock
    dying                 \* the step of on_loop_death each thread is at

ringVars == <<io_to_dispatch, ring_closed>>
registryVars == <<live, missed, death_committed, death_purged>>
flagVars == <<loop_death_observed, loop_failed, shutting_down, dispatch_state>>
awaitVars == <<cell, inbox>>
busVars == <<io_to_dispatch, ring_closed, subscribers, live, missed, death_committed,
             death_purged, loop_death_observed, loop_failed, shutting_down, dispatch_state,
             cell, inbox, job, dying>>

Threads == Tasks \union Waiters

IncidentTypes == {"ClientFailed", "LoopFailedEvent"}

CompletionTypes == {"ClientReady", "ClientClosedEvent", "SubscriptionTerminatedEvent"}

ObservabilityTypes ==
    {"QueueFullWarning", "LoopFailedEvent", "SlowCallbackWarning", "HandlerPanicWarning",
     "QueueDepthSample", "CallbackLatency"}

EventTypes == IncidentTypes \union CompletionTypes \union ObservabilityTypes
              \union {"DeadmanDisarmFailedEvent", "ConfigChangedEvent"}

\* One item of the ring: an event, or a data delivery (type "Data").
Items == [type : EventTypes \union {"Data"}, req : Requests \union {NoReq}]

Event(type, req) == [type |-> type, req |-> req]

Broadcast(type) == Event(type, NoReq)

\* An open receiver with nothing in it, and a receiver that was dropped.
Empty == Event("empty", NoReq)
Dropped == Event("dropped", NoReq)

\* A registered one-shot: the event type and request it waits for, and its await.
Arms == [type : EventTypes, req : Requests, waiter : Waiters]

NoJob == [op |-> "none", env |-> Empty, arms |-> {}, hit |-> FALSE]

Jobs == [op : {"none", "fire", "relatch", "drain"}, env : Items \union {Empty},
         arms : SUBSET Arms, hit : BOOLEAN]

DeathSteps == {"no", "commit", "observe", "resolve", "announce"}

BusTypeOK ==
    /\ io_to_dispatch \in Seq(Items) /\ Len(io_to_dispatch) <= RingCap
    /\ ring_closed \in BOOLEAN
    /\ subscribers \subseteq EventTypes
    /\ live \subseteq Arms
    /\ missed \in Seq(Items) /\ Len(missed) <= MissedCap
    /\ death_committed \in BOOLEAN
    /\ death_purged \in BOOLEAN
    /\ loop_death_observed \in BOOLEAN
    /\ loop_failed \in BOOLEAN
    /\ shutting_down \in BOOLEAN
    /\ dispatch_state \in {"NotStarted", "Running", "Stopped", "Failed"}
    /\ cell \in [Waiters -> BOOLEAN]
    /\ inbox \in [Waiters -> Items \union {Empty, Dropped}]
    /\ job \in [Threads -> Jobs]
    /\ dying \in [Threads -> [step : DeathSteps, intended : BOOLEAN]]

BusInit ==
    /\ io_to_dispatch = <<>>
    /\ ring_closed = FALSE
    /\ subscribers = {}
    /\ live = {}
    /\ missed = <<>>
    /\ death_committed = FALSE
    /\ death_purged = FALSE
    /\ loop_death_observed = FALSE
    /\ loop_failed = FALSE
    /\ shutting_down = FALSE
    /\ dispatch_state = "NotStarted"
    /\ cell = [w \in Waiters |-> FALSE]
    /\ inbox = [w \in Waiters |-> Empty]
    /\ job = [t \in Threads |-> NoJob]
    /\ dying = [t \in Threads |-> [step |-> "no", intended |-> FALSE]]

-----------------------------------------------------------------------------
(* The ring.                                                               *)

\* The queue after the items are pushed one after the other: each push drops the oldest item
\* of a full queue.
Pushed(queue, cap, items) ==
    LET all == queue \o items
        evicted == IF Len(all) > cap THEN Len(all) - cap ELSE 0
    IN  SubSeq(all, evicted + 1, Len(all))

PushAll(items) == io_to_dispatch' = Pushed(io_to_dispatch, RingCap, items)

\* publish and publish_data: an eviction is followed by a QueueFullWarning, unless the last
\* one is within the debounce interval.
Publish(item) ==
    \/ PushAll(<<item>>)
    \/ /\ Len(io_to_dispatch) >= RingCap
       /\ PushAll(<<item, Broadcast("QueueFullWarning")>>)

-----------------------------------------------------------------------------
(* The correlated registry.                                                *)

Matching(arms, event) == {a \in arms : a.type = event.type /\ a.req = event.req}

\* Under the lock: the waiters of the event are taken to be fired, or the event is
\* latched because there are none.
Capture(thread, event) ==
    LET waiting == Matching(live, event)
    IN  IF waiting # {}
        THEN /\ live' = live \ waiting
             /\ job' = [job EXCEPT ![thread] =
                            [op |-> "fire", env |-> event, arms |-> waiting, hit |-> FALSE]]
             /\ UNCHANGED missed
        ELSE /\ missed' = Pushed(missed, MissedCap, <<event>>)
             /\ job' = [job EXCEPT ![thread] = NoJob]
             /\ UNCHANGED live

\* Fault: a success is delivered after the death that outranks it.
DeliverCorrelatedAlways(thread, event) ==
    /\ Capture(thread, event)
    /\ UNCHANGED <<death_committed, death_purged>>

\* Past a committed death only the incident's own terminals are delivered.
DeliverCorrelated(thread, event) ==
    /\ IF death_committed /\ event.type \notin IncidentTypes
       THEN UNCHANGED <<live, missed, job>>
       ELSE Capture(thread, event)
    /\ UNCHANGED <<death_committed, death_purged>>

\* subscribe_correlated: a latched completion is taken, or the one-shot is registered.
SubscribeCorrelated(waiter, type, req) ==
    LET event == Event(type, req)
        arm == [type |-> type, req |-> req, waiter |-> waiter]
    IN  \/ \E i \in DOMAIN missed :
            /\ missed[i] = event
            /\ \A j \in 1..(i - 1) : missed[j] # event
            /\ missed' = RemoveAt(missed, i)
            /\ job' = [job EXCEPT ![waiter] =
                           [op |-> "fire", env |-> event, arms |-> {arm}, hit |-> FALSE]]
            /\ UNCHANGED live
        \/ /\ event \notin ToSet(missed)
           /\ live' = live \union {arm}
           /\ UNCHANGED <<missed, job>>

Unsubscribe(waiter) == live' = {a \in live : a.waiter # waiter}

\* The death envelope of a drained one-shot.
DeathEnvelope(arm) ==
    Event(IF arm.type \in {"ClientReady", "ClientFailed"} THEN "ClientFailed" ELSE "LoopFailedEvent",
          arm.req)

\* What a thread owes when its captured one-shots are fired: an event that nobody
\* accepted is latched again.
AfterFire(current, rest, hit) ==
    IF rest # {} THEN [current EXCEPT !.arms = rest, !.hit = hit]
    ELSE IF current.op = "fire" /\ ~hit THEN [current EXCEPT !.op = "relatch", !.arms = {}]
    ELSE NoJob

\* One captured one-shot is fired: it claims the sender, and the event is accepted if the
\* receiver is still there.
FireCorrelated(thread) ==
    /\ job[thread].op \in {"fire", "drain"}
    /\ \E arm \in job[thread].arms :
        LET event == IF job[thread].op = "drain" THEN DeathEnvelope(arm) ELSE job[thread].env
            accepted == cell[arm.waiter] /\ inbox[arm.waiter] = Empty
        IN  /\ cell' = [cell EXCEPT ![arm.waiter] = FALSE]
            /\ inbox' = IF accepted THEN [inbox EXCEPT ![arm.waiter] = event] ELSE inbox
            /\ job' = [job EXCEPT ![thread] = AfterFire(@, @.arms \ {arm}, @.hit \/ accepted)]
    /\ UNCHANGED <<ringVars, subscribers, registryVars, flagVars, dying>>

\* relatch_correlated: refused once a genuine death has purged the buffer.
RelatchCorrelated(thread) ==
    /\ job[thread].op = "relatch"
    /\ IF death_purged
       THEN /\ job' = [job EXCEPT ![thread] = NoJob]
            /\ UNCHANGED <<live, missed>>
       ELSE Capture(thread, job[thread].env)
    /\ UNCHANGED <<ringVars, subscribers, death_committed, death_purged, flagVars, awaitVars,
                   dying>>

-----------------------------------------------------------------------------
(* The death of a loop, step by step: the handler runs on the thread that  *)
(* reports it and takes the registry lock twice.                           *)

AtDeathStep(thread, step) == dying[thread].step = step

ToDeathStep(thread, step) == dying' = [dying EXCEPT ![thread].step = step]

\* A dispatch loop that stop_reactors ended is not a death; only tests call it, so the early
\* return for it is left out.
\* shutting_down is read and the death committed under the registry lock.  Nothing but this
\* handler reads the flag, so a close() between the two is the same as one after them.
DeathCommits(thread) ==
    /\ AtDeathStep(thread, "commit")
    /\ death_committed' = TRUE
    /\ IF shutting_down
       THEN UNCHANGED <<missed, death_purged>>
       ELSE missed' = <<>> /\ death_purged' = TRUE
    /\ dying' = [dying EXCEPT ![thread] = [step |-> "observe", intended |-> shutting_down]]
    /\ UNCHANGED <<ringVars, subscribers, live, flagVars, awaitVars, job>>

\* Only the first genuine death drains and announces.
DeathObserved(thread, is_dispatch) ==
    /\ AtDeathStep(thread, "observe")
    /\ loop_death_observed' = TRUE
    /\ IF dying[thread].intended
       THEN /\ ToDeathStep(thread, "resolve")
            /\ UNCHANGED <<loop_failed, dispatch_state>>
       ELSE /\ loop_failed' = TRUE
            /\ dispatch_state' = IF ~loop_failed /\ is_dispatch THEN "Failed" ELSE dispatch_state
            /\ ToDeathStep(thread, IF loop_failed THEN "no" ELSE "resolve")
    /\ UNCHANGED <<ringVars, subscribers, registryVars, shutting_down, awaitVars, job>>

\* resolve_live_correlated_on_death: every registered one-shot is drained.
DeathResolves(thread) ==
    /\ AtDeathStep(thread, "resolve")
    /\ live' = {}
    /\ job' = [job EXCEPT ![thread] = IF live = {} THEN NoJob
                                      ELSE [op |-> "drain", env |-> Empty, arms |-> live, hit |-> FALSE]]
    /\ ToDeathStep(thread, "announce")
    /\ UNCHANGED <<ringVars, subscribers, missed, death_committed, death_purged, flagVars,
                   awaitVars>>

DeathAnnounced(thread) ==
    /\ AtDeathStep(thread, "announce")
    /\ job[thread] = NoJob
    /\ IF dying[thread].intended THEN UNCHANGED io_to_dispatch
       ELSE PushAll(<<Broadcast("LoopFailedEvent")>>)
    /\ dying' = [dying EXCEPT ![thread] = [step |-> "no", intended |-> FALSE]]
    /\ UNCHANGED <<ring_closed, subscribers, registryVars, flagVars, awaitVars, job>>

OnLoopDeath(thread, is_dispatch) ==
    \/ DeathCommits(thread)
    \/ DeathObserved(thread, is_dispatch)
    \/ DeathResolves(thread)
    \/ DeathAnnounced(thread)

\* The handler is entered; its steps follow.
EnterLoopDeath(thread) == ToDeathStep(thread, "commit")

Owes(thread) == job[thread] # NoJob \/ dying[thread].step # "no"

-----------------------------------------------------------------------------

\* The completions the registry answers for: latched, or captured and not yet
\* accepted by any receiver.
HeldByRegistry ==
    ToSet(missed)
    \union {job[t].env : t \in {u \in Threads : job[u].op \in {"fire", "relatch"} /\ ~job[u].hit}}

\* The oldest latched completion is the one a full buffer gives up.
NextToEvict == IF Len(missed) >= MissedCap THEN {Head(missed)} ELSE {}

=============================================================================
