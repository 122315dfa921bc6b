--------------------------- MODULE ClientLifecycle ---------------------------
(***************************************************************************)
(* A client from ready() to close() or drop, over the event bus: the       *)
(* caller that starts and ends it, the completions it hands out            *)
(* (build/client/completion), bare awaits of the same handles              *)
(* (api/await_handle), the I/O reactor's own life (started, running, told  *)
(* to close, draining) and the dispatch loop.  The connections, which      *)
(* module IoReactor describes, appear only as the moment they have all     *)
(* reached Closed.  Either loop may die at any await, and close and drop   *)
(* race with it.                                                           *)
(*                                                                         *)
(* A request id is the name of the completion that ready() or close()      *)
(* returned for it.  close() on a client that was never ready calls        *)
(* ready() itself and discards that completion (request "inner").          *)
(***************************************************************************)
EXTENDS EventBus

CONSTANTS
    Readies,       \* the completions of ready()
    Closes,        \* the completion of close(), at most one
    Observers,     \* awaits of a handle by await_request_handle
    Listened,      \* event types the application may listen to
    Scenarios      \* bound: which awaits there are, how many deaths that nobody asked for
                   \* and how many listeners and events other than the lifecycle's own

VARIABLES
    caller,        \* where the caller is in ready(), close() or drop
    calling,       \* the completion it is working for
    has_handle,    \* io_reactor_handle is Some
    io,            \* the I/O reactor task
    io_abort,      \* its abort was requested
    ready_for,     \* the request its ready signal answers
    marker,        \* the ClientClose marker: the request it carries, or NoReq
    conns_closed,  \* every connection is Closed
    dispatch,      \* the dispatch task
    dispatch_abort,
    current,       \* the ring item it is handling
    await,         \* where each await is
    observes,      \* the request each await is for
    handle_taken,  \* the caller took the handle of a completion
    outcome,       \* what an await returned
    late,          \* history: the await was armed after a genuine death
    faults,        \* deaths left in the scenario
    extras         \* listeners and other events left in the scenario

clientVars == <<caller, calling, has_handle>>
ioVars == <<io, io_abort, ready_for, marker, conns_closed>>
dispatchVars == <<dispatch, dispatch_abort, current>>
waitVars == <<await, observes, handle_taken, outcome, late>>
boundVars == <<faults, extras>>
vars == <<busVars, clientVars, ioVars, dispatchVars, waitVars, boundVars>>

None == "nobody"

Completions == Readies \union Closes

ASSUME LifecycleAssumption ==
    /\ Waiters = Readies \union Closes \union Observers
    /\ Readies \intersect Closes = {}
    /\ (Readies \union Closes) \intersect Observers = {}
    /\ Tasks = {"io", "dispatch", "caller"}
    /\ Requests = Readies \union Closes \union {"sub", "inner"}
    /\ Listened \subseteq EventTypes
    /\ Scenarios \subseteq [awaits : SUBSET Waiters, faults : Nat, extras : Nat]

\* The one-shots of an await: a ready() handle has a fault arm as well.
SuccessType(req) ==
    IF req \in Readies THEN "ClientReady"
    ELSE IF req \in Closes THEN "ClientClosedEvent"
    ELSE "SubscriptionTerminatedEvent"

HasFaultArm(req) == req \in Readies

AwaitStates == {"unused", "idle", "arm", "arm_fault", "armed", "parked", "done", "release", "dropped"}

CallerSteps == {"free", "ready_answer", "ready_spawn", "close_ready", "close_arm", "close_post",
                "close_reject", "drop", "drop_death", "gone"}

IoStates == {"none", "spawned", "announce", "running", "closing", "closed", "drain", "exited", "dead"}

TypeOK ==
    /\ BusTypeOK
    /\ caller \in CallerSteps
    /\ calling \in Completions \union {None}
    /\ has_handle \in BOOLEAN
    /\ io \in IoStates
    /\ io_abort \in BOOLEAN
    /\ ready_for \in Requests \union {NoReq}
    /\ marker \in Requests \union {NoReq}
    /\ conns_closed \in BOOLEAN
    /\ dispatch \in {"none", "running", "correlate", "broadcast", "exited", "dead"}
    /\ dispatch_abort \in BOOLEAN
    /\ current \in Items \union {Empty}
    /\ await \in [Waiters -> AwaitStates]
    /\ observes \in [Waiters -> Requests \union {NoReq}]
    /\ handle_taken \subseteq Completions
    /\ outcome \in [Waiters -> {"none", "success", "failure"}]
    /\ late \subseteq Waiters
    /\ faults \in Nat
    /\ extras \in Nat

Init ==
    /\ BusInit
    /\ caller = "free"
    /\ calling = None
    /\ has_handle = FALSE
    /\ io = "none"
    /\ io_abort = FALSE
    /\ ready_for = NoReq
    /\ marker = NoReq
    /\ conns_closed = FALSE
    /\ dispatch = "none"
    /\ dispatch_abort = FALSE
    /\ current = Empty
    /\ observes = [w \in Waiters |-> IF w \in Completions THEN w ELSE NoReq]
    /\ handle_taken = {}
    /\ outcome = [w \in Waiters |-> "none"]
    /\ late = {}
    /\ \E scenario \in Scenarios :
        /\ await = [w \in Waiters |-> IF w \in scenario.awaits THEN "idle" ELSE "unused"]
        /\ faults = scenario.faults
        /\ extras = scenario.extras

-----------------------------------------------------------------------------
(* An await: arm_correlated, resolve_armed and the release of its arms.    *)

BeginAwait(w) == await' = [await EXCEPT ![w] = "arm"]

Arm(w) ==
    /\ await[w] = "arm"
    /\ ~Owes(w)
    /\ cell' = [cell EXCEPT ![w] = TRUE]
    /\ SubscribeCorrelated(w, SuccessType(observes[w]), observes[w])
    /\ await' = [await EXCEPT ![w] = IF HasFaultArm(observes[w]) THEN "arm_fault" ELSE "armed"]
    /\ late' = IF death_purged THEN late \union {w} ELSE late
    /\ UNCHANGED <<ringVars, subscribers, death_committed, death_purged, flagVars, inbox, dying, clientVars, ioVars, dispatchVars, observes, handle_taken,
                   outcome, boundVars>>

ArmFault(w) ==
    /\ await[w] = "arm_fault"
    /\ ~Owes(w)
    /\ SubscribeCorrelated(w, "ClientFailed", observes[w])
    /\ await' = [await EXCEPT ![w] = "armed"]
    /\ UNCHANGED <<ringVars, subscribers, death_committed, death_purged, flagVars, awaitVars,
                   dying, clientVars, ioVars, dispatchVars, observes, handle_taken,
                   outcome, late, boundVars>>

\* await_request_handle on an unsubscribe's handle, or on the handle of a completion, which
\* the caller takes from a completion it still holds.
Observe(w, req) ==
    /\ w \in Observers
    /\ await[w] = "idle"
    /\ req \in {"sub"} \union handle_taken \union {c \in Completions : await[c] = "armed"}
    /\ observes' = [observes EXCEPT ![w] = req]
    /\ handle_taken' = handle_taken \union ({req} \intersect Completions)
    /\ BeginAwait(w)
    /\ UNCHANGED <<busVars, clientVars, ioVars, dispatchVars, outcome, late, boundVars>>

\* Fault: the await does not look at loop_death_observed.
SelfResolvesNever(w) == FALSE

\* The first poll: a death that was observed resolves an await whose sender is unclaimed.
SelfResolves(w) == loop_death_observed /\ cell[w]

FirstPoll(w) ==
    /\ await[w] = "armed"
    /\ ~Owes(w)
    /\ calling # w
    /\ IF SelfResolves(w)
       THEN /\ cell' = [cell EXCEPT ![w] = FALSE]
            /\ outcome' = [outcome EXCEPT ![w] = "failure"]
            /\ await' = [await EXCEPT ![w] = "done"]
       ELSE /\ await' = [await EXCEPT ![w] = "parked"]
            /\ UNCHANGED <<cell, outcome>>
    /\ UNCHANGED <<ringVars, subscribers, registryVars, flagVars, inbox, job, dying,
                   clientVars, ioVars, dispatchVars, observes, handle_taken, late,
                   boundVars>>

\* The parked await is woken by the event in its receiver.
Woken(w) ==
    /\ await[w] = "parked"
    /\ inbox[w] \notin {Empty, Dropped}
    /\ outcome' = [outcome EXCEPT ![w] =
                      IF inbox[w].type \in IncidentTypes THEN "failure" ELSE "success"]
    /\ await' = [await EXCEPT ![w] = "done"]
    /\ UNCHANGED <<busVars, clientVars, ioVars, dispatchVars, observes, handle_taken, late, boundVars>>

\* The await is dropped, returned or not: both arms are released first.
Unarm(w) ==
    /\ await[w] \in {"armed", "parked", "done"}
    /\ ~Owes(w)
    /\ calling # w
    /\ Unsubscribe(w)
    /\ await' = [await EXCEPT ![w] = "release"]
    /\ UNCHANGED <<ringVars, subscribers, missed, death_committed, death_purged, flagVars,
                   awaitVars, job, dying, clientVars, ioVars, dispatchVars,
                   observes, handle_taken, outcome, late, boundVars>>

\* Fault: the completion is dropped with what its receiver holds.
HandsBackNever(w) == FALSE

\* A dropped completion hands back the terminal it captured, if its handle was taken.
HandsBack(w) ==
    /\ w \in handle_taken
    /\ ~cell[w]
    /\ inbox[w] # Empty
    /\ outcome[w] = "none"

Release(w) ==
    /\ await[w] = "release"
    /\ job' = IF HandsBack(w)
              THEN [job EXCEPT ![w] = [op |-> "relatch", env |-> inbox[w], arms |-> {}, hit |-> FALSE]]
              ELSE job
    /\ cell' = [cell EXCEPT ![w] = IF w \in handle_taken THEN FALSE ELSE @]
    /\ inbox' = [inbox EXCEPT ![w] = Dropped]
    /\ await' = [await EXCEPT ![w] = "dropped"]
    /\ UNCHANGED <<ringVars, subscribers, registryVars, flagVars, dying, clientVars, ioVars,
                   dispatchVars, observes, handle_taken, outcome, late, boundVars>>

-----------------------------------------------------------------------------
(* The caller: ready(), close() and drop.                                  *)

CallerFree == caller = "free" /\ ~Owes("caller")

StartDispatch ==
    IF dispatch_state = "NotStarted"
    THEN /\ dispatch_state' = "Running"
         /\ dispatch' = "running"
    ELSE UNCHANGED <<dispatch_state, dispatch>>

\* events().on(): refused once a loop has failed; starts the dispatch loop lazily.
On(type) ==
    /\ type \in Listened \ subscribers
    /\ extras > 0
    /\ extras' = extras - 1
    /\ caller # "gone"
    /\ ~loop_failed
    /\ subscribers' = subscribers \union {type}
    /\ StartDispatch
    /\ UNCHANGED <<ringVars, registryVars, loop_death_observed, loop_failed, shutting_down,
                   awaitVars, job, dying, clientVars, ioVars, dispatch_abort,
                   current, waitVars, faults>>

\* The guard of a long-lived subscriber is dropped.
Off(type) ==
    /\ type \in subscribers
    /\ subscribers' = subscribers \ {type}
    /\ UNCHANGED <<ringVars, registryVars, flagVars, awaitVars, job, dying,
                   clientVars, ioVars, dispatchVars, waitVars, boundVars>>

\* set_knob publishes ConfigChangedEvent; so does anything else that fills the ring.
SetKnob ==
    /\ caller # "gone"
    /\ extras > 0
    /\ extras' = extras - 1
    /\ Publish(Broadcast("ConfigChangedEvent"))
    /\ UNCHANGED <<ring_closed, subscribers, registryVars, flagVars, awaitVars, job, dying, clientVars,
                   ioVars, dispatchVars, waitVars, faults>>

\* ready() arms its completion before anything can answer it.  A client whose reactor was
\* started answers for it; else the reactor is spawned, after the dispatch loop.
Ready(w) ==
    /\ CallerFree
    /\ w \in Readies
    /\ await[w] = "idle"
    /\ calling' = w
    /\ BeginAwait(w)
    /\ IF has_handle
       THEN /\ caller' = "ready_answer"
            /\ UNCHANGED <<dispatch_state, dispatch>>
       ELSE /\ caller' = "ready_spawn"
            /\ StartDispatch
    /\ UNCHANGED <<ringVars, subscribers, registryVars, loop_death_observed, loop_failed,
                   shutting_down, awaitVars, job, dying, has_handle, ioVars,
                   dispatch_abort, current, observes, handle_taken, outcome,
                   late, boundVars>>

Returns == caller' = "free" /\ calling' = None

\* A second ready(): the recorded death answers, else the client is ready.
ReadyAnswers ==
    /\ caller = "ready_answer"
    /\ await[calling] = "armed"
    /\ ~Owes(calling)
    /\ DeliverCorrelated("caller",
           Event(IF loop_death_observed THEN "ClientFailed" ELSE "ClientReady", calling))
    /\ Returns
    /\ UNCHANGED <<ringVars, subscribers, flagVars, awaitVars, dying, has_handle, ioVars,
                   dispatchVars, waitVars, boundVars>>

ReadySpawns ==
    /\ caller = "ready_spawn"
    /\ await[calling] = "armed"
    /\ ~Owes(calling)
    /\ io' = "spawned"
    /\ ready_for' = calling
    /\ has_handle' = TRUE
    /\ Returns
    /\ UNCHANGED <<busVars, io_abort, marker, conns_closed, dispatchVars, waitVars,
                   boundVars>>

\* close() latches the teardown first, and starts a reactor that was never started.
Close(w) ==
    /\ CallerFree
    /\ w \in Closes
    /\ await[w] = "idle"
    /\ shutting_down' = TRUE
    /\ calling' = w
    /\ caller' = IF has_handle THEN "close_arm" ELSE "close_ready"
    /\ UNCHANGED <<ringVars, subscribers, registryVars, loop_death_observed, loop_failed,
                   dispatch_state, awaitVars, job, dying, has_handle,
                   ioVars, dispatchVars, waitVars, boundVars>>

CloseReadies ==
    /\ caller = "close_ready"
    /\ caller' = "close_arm"
    /\ StartDispatch
    /\ io' = "spawned"
    /\ ready_for' = "inner"
    /\ has_handle' = TRUE
    /\ UNCHANGED <<ringVars, subscribers, registryVars, loop_death_observed, loop_failed,
                   shutting_down, awaitVars, job, dying, calling, io_abort, marker,
                   conns_closed, dispatch_abort, current, waitVars, boundVars>>

CloseArms ==
    /\ caller = "close_arm"
    /\ caller' = "close_post"
    /\ BeginAwait(calling)
    /\ UNCHANGED <<busVars, calling, has_handle, ioVars, dispatchVars, observes,
                   handle_taken, outcome, late, boundVars>>

\* The reactor's receiver is gone once its task has ended and reported the end.
ReactorReceives == io \notin {"exited", "dead"} \/ Owes("io")

\* The marker is posted and the reactor detached, or the queue rejects it: full, which
\* other callers may cause at any time, or closed.
ClosePosts ==
    /\ caller = "close_post"
    /\ await[calling] = "armed"
    /\ ~Owes(calling)
    /\ \/ /\ ReactorReceives
          /\ marker' = calling
          /\ has_handle' = FALSE
          /\ caller' = "drop"
          /\ UNCHANGED dying
       \/ /\ caller' = "close_reject"
          /\ EnterLoopDeath("caller")
          /\ UNCHANGED <<marker, has_handle>>
    /\ UNCHANGED <<ringVars, subscribers, registryVars, flagVars, awaitVars, job,
                   calling, io, io_abort, ready_for, conns_closed, dispatchVars,
                   waitVars, boundVars>>

CloseRejected ==
    /\ caller = "close_reject"
    /\ ~Owes("caller")
    /\ caller' = "drop"
    /\ UNCHANGED <<busVars, calling, has_handle, ioVars, dispatchVars, waitVars, boundVars>>

\* The client is dropped without close().
DropClient ==
    /\ CallerFree
    /\ caller' = "drop"
    /\ UNCHANGED <<busVars, calling, has_handle, ioVars, dispatchVars, waitVars, boundVars>>

\* Fault: dropping the client aborts the reactor and leaves the rest to its guard.
DropSilently ==
    /\ caller = "drop"
    /\ shutting_down' = TRUE
    /\ io_abort' = (io_abort \/ has_handle)
    /\ has_handle' = FALSE
    /\ caller' = "gone"
    /\ calling' = None
    /\ UNCHANGED <<ringVars, subscribers, registryVars, loop_death_observed, loop_failed,
                   dispatch_state, awaitVars, job, dying, io, ready_for,
                   marker, conns_closed, dispatchVars, waitVars, boundVars>>

\* Client::drop: a reactor whose handle is still held is aborted, and the death handler
\* runs for it, because a task that was never polled has no guard to run it.
Drop ==
    /\ caller = "drop"
    /\ shutting_down' = TRUE
    /\ IF has_handle
       THEN /\ io_abort' = TRUE
            /\ has_handle' = FALSE
            /\ EnterLoopDeath("caller")
       ELSE UNCHANGED <<io_abort, has_handle, dying>>
    /\ caller' = "gone"
    /\ calling' = None
    /\ UNCHANGED <<ringVars, subscribers, registryVars, loop_death_observed, loop_failed,
                   dispatch_state, awaitVars, job, io, ready_for, marker,
                   conns_closed, dispatchVars, waitVars, boundVars>>

\* The detached dead-man disarm of close() fails: its event may come after the ring closed.
DeadmanFails ==
    /\ \E w \in Closes : await[w] \notin {"unused", "idle"}
    /\ extras > 0
    /\ extras' = extras - 1
    /\ Publish(Broadcast("DeadmanDisarmFailedEvent"))
    /\ UNCHANGED <<ring_closed, subscribers, registryVars, flagVars, awaitVars, job, dying, clientVars,
                   ioVars, dispatchVars, waitVars, faults>>

-----------------------------------------------------------------------------
(* The I/O reactor's life.                                                 *)

IoIdle == ~Owes("io")

\* The first poll: the death guard is armed and the ready waiter is answered directly.
IoStarts ==
    /\ io = "spawned"
    /\ io' = "announce"
    /\ DeliverCorrelated("io", Event("ClientReady", ready_for))
    /\ UNCHANGED <<ringVars, subscribers, flagVars, awaitVars, dying, clientVars, io_abort,
                   ready_for, marker, conns_closed, dispatchVars, waitVars, boundVars>>

IoAnnounces ==
    /\ io = "announce"
    /\ IoIdle
    /\ io' = "running"
    /\ Publish(Broadcast("ClientReady"))
    /\ UNCHANGED <<ring_closed, subscribers, registryVars, flagVars, awaitVars, job, dying, clientVars,
                   io_abort, ready_for, marker, conns_closed, dispatchVars, waitVars, boundVars>>

\* A decoded frame's delivery, or the terminal event of an unsubscribe, goes onto the ring.
IoPublishes(item) ==
    /\ io \in {"running", "closing"}
    /\ extras > 0
    /\ extras' = extras - 1
    /\ Publish(item)
    /\ UNCHANGED <<ring_closed, subscribers, registryVars, flagVars, awaitVars, job, dying, clientVars,
                   ioVars, dispatchVars, waitVars, faults>>

IoTakesMarker ==
    /\ io = "running"
    /\ marker # NoReq
    /\ io' = "closing"
    /\ UNCHANGED <<busVars, clientVars, io_abort, ready_for, marker, conns_closed, dispatchVars,
                   waitVars, boundVars>>

ConnectionsClose ==
    /\ io = "closing"
    /\ ~conns_closed
    /\ conns_closed' = TRUE
    /\ UNCHANGED <<busVars, clientVars, io, io_abort, ready_for, marker, dispatchVars, waitVars,
                   boundVars>>

\* Every connection is Closed: the close waiter is answered directly.
IoCloses ==
    /\ io = "closing"
    /\ conns_closed
    /\ io' = "closed"
    /\ DeliverCorrelated("io", Event("ClientClosedEvent", marker))
    /\ UNCHANGED <<ringVars, subscribers, flagVars, awaitVars, dying, clientVars, io_abort,
                   ready_for, marker, conns_closed, dispatchVars, waitVars, boundVars>>

\* The broadcast copy, and then close_dispatch_and_drain up to its wait.
IoShutsDispatch ==
    /\ io = "closed"
    /\ IoIdle
    /\ io' = "drain"
    /\ Publish(Broadcast("ClientClosedEvent"))
    /\ ring_closed' = TRUE
    /\ shutting_down' = TRUE
    /\ dispatch_state' = "Stopped"
    /\ UNCHANGED <<subscribers, registryVars, loop_death_observed, loop_failed, awaitVars, job,
                   dying, clientVars, io_abort, ready_for, marker, conns_closed,
                   dispatchVars, waitVars, boundVars>>

\* The dispatch task has ended, or CLOSE_DRAIN_TIMEOUT elapses and it is aborted.
IoExits ==
    /\ io = "drain"
    /\ io' = "exited"
    /\ dispatch_abort' = (dispatch \notin {"exited", "dead"})
    /\ UNCHANGED <<busVars, clientVars, io_abort, ready_for, marker, conns_closed, dispatch,
                   current, waitVars, boundVars>>

\* Any await of the reactor may end it: a panic, or the abort of Client::drop.  A task that
\* was never polled has no death guard yet.
IoDies ==
    /\ io \in {"spawned", "running", "closing", "drain"}
    /\ \/ io_abort /\ UNCHANGED faults
       \/ io # "spawned" /\ faults > 0 /\ faults' = faults - 1
    /\ io' = "dead"
    /\ IF io = "spawned" THEN UNCHANGED dying ELSE EnterLoopDeath("io")
    /\ UNCHANGED <<ringVars, subscribers, registryVars, flagVars, awaitVars, job,
                   clientVars, io_abort, ready_for, marker, conns_closed, dispatchVars, waitVars, extras>>

-----------------------------------------------------------------------------
(* The dispatch loop.                                                      *)

\* The next item is taken; when the sampling interval has elapsed a queue-depth sample goes
\* onto the ring.
Dequeue ==
    /\ dispatch = "running"
    /\ io_to_dispatch # <<>>
    /\ current' = Head(io_to_dispatch)
    /\ dispatch' = IF Head(io_to_dispatch).req # NoReq THEN "correlate" ELSE "broadcast"
    /\ \/ io_to_dispatch' = Tail(io_to_dispatch) /\ UNCHANGED extras
       \/ /\ extras > 0
          /\ extras' = extras - 1
          /\ io_to_dispatch' = Append(Tail(io_to_dispatch), Broadcast("QueueDepthSample"))
    /\ UNCHANGED <<ring_closed, subscribers, registryVars, flagVars, awaitVars, job,
                   dying, clientVars, ioVars, dispatch_abort, waitVars,
                   faults>>

Correlate ==
    /\ dispatch = "correlate"
    /\ dispatch' = "broadcast"
    /\ DeliverCorrelated("dispatch", current)
    /\ UNCHANGED <<ringVars, subscribers, flagVars, awaitVars, dying, clientVars, ioVars,
                   dispatch_abort, current, waitVars, boundVars>>

\* What the loop pushes about a callback that returned in time, late, or panicked.
CallbackReports(type) ==
    IF type \in ObservabilityTypes THEN {<<>>}
    ELSE LET latency == IF type # "Data" \/ "CallbackLatency" \in subscribers
                        THEN <<Broadcast("CallbackLatency")>> ELSE <<>>
         IN  {latency, Append(latency, Broadcast("SlowCallbackWarning")),
              <<Broadcast("HandlerPanicWarning")>>}

\* The subscribers of the event, or the data callback, are called.
CallSubscribers ==
    /\ dispatch = "broadcast"
    /\ ~Owes("dispatch")
    /\ dispatch' = "running"
    /\ current' = Empty
    /\ IF current.type \in subscribers \union {"Data"}
       THEN \E reports \in CallbackReports(current.type) : PushAll(reports)
       ELSE UNCHANGED io_to_dispatch
    /\ UNCHANGED <<ring_closed, subscribers, registryVars, flagVars, awaitVars, job,
                   dying, clientVars, ioVars, dispatch_abort, waitVars, boundVars>>

\* Fault: recv stops at the close and leaves what is queued.
RingEndsAtClose == ring_closed

\* recv returns None only when the ring is closed and drained.
RingEnds == ring_closed /\ io_to_dispatch = <<>>

DispatchExits ==
    /\ dispatch = "running"
    /\ RingEnds
    /\ dispatch' = "exited"
    /\ UNCHANGED <<busVars, clientVars, ioVars, dispatch_abort, current,
                   waitVars, boundVars>>

DispatchDies ==
    /\ dispatch = "running"
    /\ \/ dispatch_abort /\ UNCHANGED faults
       \/ faults > 0 /\ faults' = faults - 1
    /\ dispatch' = "dead"
    /\ EnterLoopDeath("dispatch")
    /\ UNCHANGED <<ringVars, subscribers, registryVars, flagVars, awaitVars, job,
                   clientVars, ioVars, dispatch_abort, current, waitVars, extras>>

-----------------------------------------------------------------------------

Outside == <<clientVars, ioVars, dispatchVars, waitVars, boundVars>>

\* What a thread owes the bus.
Settle(t) ==
    /\ FireCorrelated(t) \/ RelatchCorrelated(t) \/ OnLoopDeath(t, t = "dispatch")
    /\ UNCHANGED Outside

CallerGoesOn ==
    ReadyAnswers \/ ReadySpawns \/ CloseReadies \/ CloseArms \/ ClosePosts \/ CloseRejected \/ Drop

IoSteps == IoStarts \/ IoAnnounces \/ IoTakesMarker \/ IoCloses \/ IoShutsDispatch \/ IoExits

DispatchSteps == Dequeue \/ Correlate \/ CallSubscribers \/ DispatchExits

Polls(w) == Arm(w) \/ ArmFault(w) \/ FirstPoll(w) \/ Woken(w)

\* Every call has returned and both loops have ended.
Terminated ==
    /\ caller = "gone"
    /\ io \in {"none", "exited", "dead"}
    /\ UNCHANGED vars

Next ==
    \/ \E w \in Readies : Ready(w)
    \/ \E w \in Closes : Close(w)
    \/ CallerGoesOn
    \/ DropClient
    \/ DeadmanFails
    \/ SetKnob
    \/ \E type \in Listened : On(type) \/ Off(type)
    \/ IoSteps
    \/ \E item \in {Broadcast("Data"), Event("SubscriptionTerminatedEvent", "sub")} : IoPublishes(item)
    \/ ConnectionsClose
    \/ IoDies
    \/ DispatchSteps
    \/ DispatchDies
    \/ \E t \in Threads : Settle(t)
    \/ \E w \in Waiters :
        \/ Polls(w)
        \/ Unarm(w)
        \/ Release(w)
        \/ \E req \in Completions \union {"sub"} : Observe(w, req)
    \/ Terminated

\* The runtime polls every task that can go on; the caller finishes what it began; what a
\* thread owes the bus it does before anything else.  Nothing obliges a loop to die, a
\* connection to close or the application to call, drop or release.
Fairness ==
    /\ WF_vars(CallerGoesOn)
    /\ WF_vars(IoSteps)
    /\ WF_vars(DispatchSteps)
    /\ WF_vars(io_abort /\ IoDies)
    /\ \A t \in Threads : WF_vars(Settle(t))
    /\ \A w \in Waiters : WF_vars(Polls(w)) /\ WF_vars(Release(w))

Spec == Init /\ [][Next]_vars /\ Fairness

-----------------------------------------------------------------------------

\* A completion on its way to an await: taken off the ring, held by the registry, or in a
\* receiver that is still polled or may still hand it back.
InTransit ==
    HeldByRegistry
    \union (IF dispatch = "correlate" THEN {current} ELSE {})
    \union {inbox[w] : w \in {v \in Waiters : outcome[v] = "none" /\ inbox[v] \notin {Empty, Dropped}}}

\* What may end the transit of an event: an await returns it, a full buffer gives it up, a
\* death outranks it, or the only holder of its handle is dropped.
Accounted(event) ==
    \/ \E w \in Waiters : inbox[w] = event /\ outcome'[w] # "none"
    \/ event \in NextToEvict
    \/ death_committed'
    \/ \E w \in Waiters : inbox[w] = event /\ inbox'[w] = Dropped /\ w \notin handle_taken

(***************************************************************************)
(* A completion on its way to an await is never lost: awaits that are      *)
(* cancelled between capture and firing, completions dropped with a        *)
(* terminal in them and observers that arm late hand it on                 *)
(* (deliver_correlated, relatch_correlated, ArmedState::drop).             *)
(***************************************************************************)
NoLostTerminal == [][\A event \in InTransit : event \in InTransit' \/ Accounted(event)]_vars

(***************************************************************************)
(* A dispatch loop that ended by draining told its listeners of the close: *)
(* ClientClosedEvent was dispatched before the exit unless the ring        *)
(* evicted it (close_dispatch_and_drain, DropOldestRing::recv).            *)
(***************************************************************************)
CloseAnnounced ==
    dispatch = "exited" =>
        Broadcast("ClientClosedEvent") \notin ToSet(io_to_dispatch)

(***************************************************************************)
(* ready() never hangs: an awaited completion of it returns, whatever      *)
(* dies, is dropped or is aborted, even before the reactor's first poll.   *)
(***************************************************************************)
ReadyNeverHangs ==
    \A w \in Readies : await[w] = "parked" ~> await[w] # "parked"

(***************************************************************************)
(* An awaited close() returns once the connections are closed or any loop  *)
(* has died, in whatever order the marker, the death and the await came.   *)
(***************************************************************************)
CloseReturns ==
    \A w \in Closes :
        (await[w] = "parked" /\ (loop_death_observed \/ conns_closed)) ~> await[w] # "parked"

(***************************************************************************)
(* The bus keeps the contract of AwaitContract: under the mapping below    *)
(* every step of the client is a step of the contract or leaves it alone.  *)
(***************************************************************************)
OutcomeOf(w) ==
    IF await[w] \in {"unused", "idle", "arm"} THEN "unborn"
    ELSE IF await[w] = "dropped" THEN "released"
    ELSE IF outcome[w] # "none" THEN outcome[w]
    ELSE IF w \in late THEN "late" ELSE "pending"

Contract ==
    INSTANCE AwaitContract WITH
        Awaits <- Waiters,
        died <- death_committed,
        genuine <- death_purged,
        outcome <- [w \in Waiters |-> OutcomeOf(w)]

KeepsContract == Contract!Spec

=============================================================================
