------------------------ MODULE ClientLifecycleProofs ------------------------
(***************************************************************************)
(* Proofs about ClientLifecycle, for any completions, observers, ring and  *)
(* buffer capacities and scenarios: the client is type correct, a dispatch *)
(* loop that drained announced the close, no completion is lost on its way *)
(* to an await, and the bus implements AwaitContract.                      *)
(*                                                                         *)
(* They rest on one inductive invariant.  Its parts say what each thread   *)
(* may still owe the bus (Held), which awaits have begun and what their    *)
(* senders and receivers hold (Births), that no receiver, one-shot or      *)
(* latched event speaks of a death before it is committed and that nothing *)
(* on its way to an await that began after a genuine death speaks of       *)
(* anything else (Deaths, Registry, Ring), and in which order the reactor, *)
(* the ring and the dispatch loop end (Lives).                             *)
(***************************************************************************)
EXTENDS ClientLifecycle, TLAPS

\* Not armed yet.
Unborn(w) == await[w] \in {"unused", "idle", "arm"}

\* Whose turn it is and what the threads may owe at each point of theirs.
Held ==
    /\ \A w \in Waiters : dying[w].step = "no"
    /\ dying["io"].step # "no" => io = "dead"
    /\ dying["caller"].step # "no" => caller \in {"close_reject", "gone"}
    /\ dying["dispatch"].step # "no" => dispatch = "dead"
    /\ io \in {"none", "spawned", "running", "closing"} => job["io"] = NoJob
    /\ caller = "ready_answer" => job["caller"] = NoJob
    /\ dispatch \in {"none", "running", "correlate"} => job["dispatch"] = NoJob
    /\ \A w \in Waiters : await[w] = "release" => job[w] = NoJob

\* What the caller and the awaits work for, and the state of an await at each of its points.
Births ==
    /\ caller \in {"ready_answer", "ready_spawn"} => calling \in Readies
    /\ caller \in {"close_ready", "close_arm", "close_post"} => calling \in Closes
    /\ caller \in {"close_ready", "close_arm"} => await[calling] = "idle"
    /\ \A w \in Completions : observes[w] = w
    /\ \A w \in Waiters :
        /\ await[w] \notin {"unused", "idle"} => observes[w] \in Requests
        /\ Unborn(w) => inbox[w] = Empty /\ ~cell[w] /\ w \notin late
        /\ await[w] \in {"unused", "idle", "arm", "arm_fault", "armed", "parked"} => outcome[w] = "none"
        /\ inbox[w] = Dropped <=> await[w] = "dropped"
        /\ cell[w] => outcome[w] = "none" /\ inbox[w] \in {Empty, Dropped}

\* No receiver speaks of a death before it is committed, and that of an await that began
\* after a genuine one speaks of nothing else.
Deaths ==
    /\ death_purged \/ loop_death_observed => death_committed
    /\ \A t \in Threads : dying[t].step \in {"observe", "resolve", "announce"} => death_committed
    /\ ~death_committed => \A w \in Waiters : inbox[w].type \notin IncidentTypes
    /\ late # {} => death_purged
    /\ \A w \in late : inbox[w] \notin {Empty, Dropped} => inbox[w].type \in IncidentTypes

\* Nor does what the registry holds for them; its one-shots belong to awaits that began.
Registry ==
    /\ \A arm \in live : ~Unborn(arm.waiter)
    /\ \A i \in DOMAIN missed : missed[i].type \in IncidentTypes => death_committed
    /\ \A i \in DOMAIN missed : death_purged => missed[i].type \in IncidentTypes
    /\ \A t \in Threads :
        /\ job[t].op \in {"fire", "relatch"} => job[t].env \in Items
        /\ job[t].op = "drain" \/ job[t].env.type \in IncidentTypes => death_committed
        /\ \A arm \in job[t].arms : ~Unborn(arm.waiter)
        /\ job[t].op = "fire" =>
            \A arm \in job[t].arms : arm.waiter \in late => job[t].env.type \in IncidentTypes

\* The ring carries no death for the registry: those of its events that complete a request
\* are not incidents.
Ring ==
    /\ \A i \in DOMAIN io_to_dispatch :
        io_to_dispatch[i].req # NoReq => io_to_dispatch[i].type \notin IncidentTypes
    /\ dispatch = "correlate" => current.type \notin IncidentTypes
    /\ dispatch \in {"correlate", "broadcast"} => current \in Items

\* The reactor is started once, the ring is closed by its end, and the dispatch loop is
\* started once and drains a closed ring.
Lives ==
    /\ caller \in {"ready_spawn", "close_ready"} => ~has_handle
    /\ ~has_handle /\ caller \notin {"drop", "gone"} => io = "none"
    /\ ring_closed => io \in {"drain", "exited", "dead"}
    /\ dispatch # "none" => dispatch_state # "NotStarted"
    /\ dispatch = "exited" => ring_closed
    /\ CloseAnnounced

IInv == TypeOK /\ Held /\ Births /\ Deaths /\ Registry /\ Ring /\ Lives


-----------------------------------------------------------------------------
(* The queues.                                                             *)

\* A push keeps a queue within its capacity and invents no item.
LEMMA PushedType ==
    ASSUME NEW S, NEW queue \in Seq(S), NEW items \in Seq(S), NEW cap \in Nat
    PROVE  /\ Pushed(queue, cap, items) \in Seq(S)
           /\ Len(Pushed(queue, cap, items)) <= cap
           /\ \A i \in DOMAIN Pushed(queue, cap, items) :
                  \/ \E j \in DOMAIN queue : Pushed(queue, cap, items)[i] = queue[j]
                  \/ \E j \in DOMAIN items : Pushed(queue, cap, items)[i] = items[j]
<1> DEFINE all == queue \o items
           evicted == IF Len(all) > cap THEN Len(all) - cap ELSE 0
<1>1. all \in Seq(S) /\ Len(all) = Len(queue) + Len(items)
  OBVIOUS
<1>2. /\ \A i \in 1..Len(queue) : all[i] = queue[i]
      /\ \A i \in 1..Len(items) : all[Len(queue) + i] = items[i]
  OBVIOUS
<1>3. evicted \in Nat /\ evicted <= Len(all) /\ Len(all) - evicted <= cap
  BY <1>1
<1> HIDE DEF all, evicted
<1>4. SubSeq(all, evicted + 1, Len(all)) \in Seq(S)
  BY <1>1, <1>3
<1>5. Len(SubSeq(all, evicted + 1, Len(all))) = Len(all) - evicted
  BY <1>1, <1>3
<1>6. \A i \in 1..(Len(all) - evicted) : SubSeq(all, evicted + 1, Len(all))[i] = all[evicted + i]
  BY <1>1, <1>3
<1>7. Pushed(queue, cap, items) = SubSeq(all, evicted + 1, Len(all))
  BY DEF Pushed, all, evicted
<1>8. ASSUME NEW i \in 1..(Len(all) - evicted)
      PROVE  \/ \E j \in DOMAIN queue : all[evicted + i] = queue[j]
             \/ \E j \in DOMAIN items : all[evicted + i] = items[j]
  <2>1. evicted + i \in 1..Len(all) /\ Len(queue) \in Nat /\ Len(items) \in Nat
    BY <1>1, <1>3
  <2>2. CASE evicted + i <= Len(queue)
    BY <2>1, <2>2, <1>2, <1>1
  <2>3. CASE ~(evicted + i <= Len(queue))
    <3>1. PICK j \in 1..Len(items) : evicted + i = Len(queue) + j
      <4>1. evicted + i - Len(queue) \in 1..Len(items) /\ evicted + i = Len(queue) + (evicted + i - Len(queue))
        BY <2>1, <2>3, <1>1, <1>3
      <4> QED
        BY <4>1
    <3>2. all[evicted + i] = items[j] /\ j \in DOMAIN items
      BY <3>1, <1>2
    <3> QED
      BY <3>2
  <2> QED
    BY <2>2, <2>3
<1>9. DOMAIN SubSeq(all, evicted + 1, Len(all)) = 1..(Len(all) - evicted)
  BY <1>4, <1>5
<1> QED
  BY <1>3, <1>4, <1>5, <1>6, <1>7, <1>8, <1>9

\* One more item is in the queue after its push, and so is every other but the oldest of a
\* full queue.
LEMMA PushedKeeps ==
    ASSUME NEW S, NEW queue \in Seq(S), NEW item \in S, NEW cap \in Nat \ {0}, Len(queue) <= cap
    PROVE  /\ \E i \in DOMAIN Pushed(queue, cap, <<item>>) : Pushed(queue, cap, <<item>>)[i] = item
           /\ \A j \in DOMAIN queue :
                  \/ \E i \in DOMAIN Pushed(queue, cap, <<item>>) : Pushed(queue, cap, <<item>>)[i] = queue[j]
                  \/ Len(queue) >= cap /\ j = 1
<1> DEFINE all == queue \o <<item>>
           evicted == IF Len(all) > cap THEN Len(all) - cap ELSE 0
<1>1. all \in Seq(S) /\ Len(all) = Len(queue) + 1 /\ Len(queue) \in Nat
  OBVIOUS
<1>2. (\A i \in 1..Len(queue) : all[i] = queue[i]) /\ all[Len(queue) + 1] = item
  OBVIOUS
<1>3. evicted = IF Len(queue) >= cap THEN 1 ELSE 0
  BY <1>1
<1> HIDE DEF all, evicted
<1> evicted \in Nat /\ evicted <= Len(all)
  BY <1>1, <1>3
<1>4. Len(SubSeq(all, evicted + 1, Len(all))) = Len(all) - evicted
  BY <1>1
<1>5. \A i \in 1..(Len(all) - evicted) : SubSeq(all, evicted + 1, Len(all))[i] = all[evicted + i]
  BY <1>1
<1>6. Pushed(queue, cap, <<item>>) = SubSeq(all, evicted + 1, Len(all))
  BY DEF Pushed, all, evicted
<1>7. SubSeq(all, evicted + 1, Len(all)) \in Seq(S)
  BY <1>1, <1>3
<1>8. DOMAIN SubSeq(all, evicted + 1, Len(all)) = 1..(Len(all) - evicted)
  BY <1>4, <1>7
<1>9. SubSeq(all, evicted + 1, Len(all))[Len(all) - evicted] = item /\ Len(all) - evicted \in 1..(Len(all) - evicted)
  BY <1>1, <1>2, <1>3, <1>5
<1>10. ASSUME NEW j \in DOMAIN queue, ~(Len(queue) >= cap /\ j = 1)
       PROVE  j - evicted \in 1..(Len(all) - evicted) /\ SubSeq(all, evicted + 1, Len(all))[j - evicted] = queue[j]
  <2>1. j \in 1..Len(queue)
    OBVIOUS
  <2>2. j - evicted \in 1..(Len(all) - evicted)
    BY <2>1, <1>1, <1>3, <1>10
  <2>3. evicted + (j - evicted) = j
    BY <2>1, <1>3
  <2> QED
    BY <2>1, <2>2, <2>3, <1>2, <1>5
<1> QED
  BY <1>6, <1>8, <1>9, <1>10

\* Taking an item out of the buffer invents none, and leaves every other one in it.
LEMMA RemovedType ==
    ASSUME NEW S, NEW queue \in Seq(S), NEW k \in DOMAIN queue
    PROVE  /\ RemoveAt(queue, k) \in Seq(S)
           /\ Len(RemoveAt(queue, k)) <= Len(queue)
           /\ \A i \in DOMAIN RemoveAt(queue, k) : \E j \in DOMAIN queue : RemoveAt(queue, k)[i] = queue[j]
           /\ \A j \in DOMAIN queue :
                  j # k => \E i \in DOMAIN RemoveAt(queue, k) : RemoveAt(queue, k)[i] = queue[j]
<1> DEFINE a == SubSeq(queue, 1, k - 1)
           b == SubSeq(queue, k + 1, Len(queue))
<1>1. k \in 1..Len(queue) /\ Len(queue) \in Nat
  OBVIOUS
<1>2. a \in Seq(S) /\ Len(a) = k - 1 /\ \A i \in 1..(k - 1) : a[i] = queue[i]
  BY <1>1
<1>3. b \in Seq(S) /\ Len(b) = Len(queue) - k /\ \A i \in 1..(Len(queue) - k) : b[i] = queue[k + i]
  BY <1>1
<1> HIDE DEF a, b
<1>4. a \o b \in Seq(S) /\ Len(a \o b) = Len(queue) - 1
  BY <1>1, <1>2, <1>3
<1>5. /\ \A i \in 1..Len(a) : (a \o b)[i] = a[i]
      /\ \A i \in 1..Len(b) : (a \o b)[Len(a) + i] = b[i]
  <2>1. a \in Seq(S) /\ b \in Seq(S)
    BY <1>2, <1>3
  <2> QED
    BY <2>1
<1>6. /\ \A i \in 1..(k - 1) : (a \o b)[i] = queue[i]
      /\ \A i \in k..(Len(queue) - 1) : (a \o b)[i] = queue[i + 1]
  <2>1. ASSUME NEW i \in 1..(k - 1) PROVE (a \o b)[i] = queue[i]
    BY <1>2, <1>5
  <2>2. ASSUME NEW i \in k..(Len(queue) - 1) PROVE (a \o b)[i] = queue[i + 1]
    <3>1. PICK j \in 1..(Len(queue) - k) : i = (k - 1) + j /\ k + j = i + 1
      <4>1. i - (k - 1) \in 1..(Len(queue) - k) /\ i = (k - 1) + (i - (k - 1)) /\ k + (i - (k - 1)) = i + 1
        BY <1>1
      <4> QED
        BY <4>1
    <3>2. b[j] = queue[i + 1]
      BY <3>1, <1>3
    <3>3. (a \o b)[i] = b[j]
      BY <3>1, <1>2, <1>3, <1>5
    <3> QED
      BY <3>2, <3>3
  <2> QED
    BY <2>1, <2>2
<1>7. RemoveAt(queue, k) = a \o b
  BY DEF RemoveAt, a, b
<1>8. DOMAIN (a \o b) = 1..(Len(queue) - 1)
  BY <1>4
<1>9. ASSUME NEW i \in 1..(Len(queue) - 1)
      PROVE  \E j \in DOMAIN queue : (a \o b)[i] = queue[j]
  <2>1. CASE i <= k - 1
    <3>1. i \in 1..(k - 1) /\ i \in DOMAIN queue
      BY <2>1, <1>1
    <3> QED
      BY <3>1, <1>6
  <2>2. CASE ~(i <= k - 1)
    <3>1. i \in k..(Len(queue) - 1) /\ i + 1 \in DOMAIN queue
      BY <2>2, <1>1
    <3> QED
      BY <3>1, <1>6
  <2> QED
    BY <2>1, <2>2, <1>1
<1>10. ASSUME NEW j \in DOMAIN queue, j # k
       PROVE  \E i \in 1..(Len(queue) - 1) : (a \o b)[i] = queue[j]
  <2>0. j \in 1..Len(queue)
    OBVIOUS
  <2>1. CASE j < k
    <3>1. j \in 1..(k - 1) /\ j \in 1..(Len(queue) - 1)
      BY <2>1, <1>1
    <3> QED
      BY <3>1, <1>6
  <2>2. CASE j > k
    <3>1. j - 1 \in k..(Len(queue) - 1) /\ j - 1 \in 1..(Len(queue) - 1) /\ (j - 1) + 1 = j
      BY <2>2, <1>1
    <3> QED
      BY <3>1, <1>6
  <2>3. j < k \/ j > k
    BY <2>0, <1>1, <1>10
  <2> QED
    BY <2>1, <2>2, <2>3
<1>11. Len(queue) - 1 <= Len(queue)
  BY <1>1
<1> QED
  BY <1>4, <1>7, <1>8, <1>9, <1>10, <1>11

-----------------------------------------------------------------------------
(* The ring and the registry under the operations of the bus.              *)

\* The types of the ring and of what it carries for the registry.
RingTypes ==
    /\ io_to_dispatch \in Seq(Items) /\ Len(io_to_dispatch) <= RingCap
    /\ \A i \in DOMAIN io_to_dispatch :
        io_to_dispatch[i].req # NoReq => io_to_dispatch[i].type \notin IncidentTypes

\* The types of the registry.
RegistryTypes ==
    /\ live \subseteq Arms
    /\ missed \in Seq(Items) /\ Len(missed) <= MissedCap
    /\ job \in [Threads -> Jobs]

Closed == Broadcast("ClientClosedEvent")

LEMMA BroadcastType ==
    ASSUME NEW type \in EventTypes \union {"Data"}
    PROVE  Broadcast(type) \in Items /\ Broadcast(type).type = type /\ Broadcast(type).req = NoReq
BY DEF Broadcast, Event, Items

\* Pushing events that are not for the registry keeps the ring sound.
LEMMA PushAllKeeps ==
    ASSUME RingTypes, NEW items \in Seq(Items), PushAll(items),
           \A j \in DOMAIN items : items[j].req # NoReq => items[j].type \notin IncidentTypes
    PROVE  /\ RingTypes'
           /\ Closed \in ToSet(io_to_dispatch)' =>
                  Closed \in ToSet(io_to_dispatch) \/ \E j \in DOMAIN items : items[j] = Closed
<1> DEFINE q == Pushed(io_to_dispatch, RingCap, items)
<1>1. RingCap \in Nat /\ io_to_dispatch \in Seq(Items) /\ io_to_dispatch' = q
  BY BusAssumption DEF RingTypes, PushAll
<1>2. /\ q \in Seq(Items)
      /\ Len(q) <= RingCap
      /\ \A i \in DOMAIN q :
             (\E j \in DOMAIN io_to_dispatch : q[i] = io_to_dispatch[j]) \/ (\E j \in DOMAIN items : q[i] = items[j])
  BY <1>1, PushedType
<1> HIDE DEF q
<1>3. RingTypes'
  BY <1>1, <1>2 DEF RingTypes
<1>4. Closed \in ToSet(q) => Closed \in ToSet(io_to_dispatch) \/ \E j \in DOMAIN items : items[j] = Closed
  <2> SUFFICES ASSUME NEW i \in DOMAIN q, q[i] = Closed
               PROVE  Closed \in ToSet(io_to_dispatch) \/ \E j \in DOMAIN items : items[j] = Closed
    BY DEF ToSet
  <2> QED
    BY <1>2 DEF ToSet
<1>5. ToSet(io_to_dispatch)' = ToSet(q)
  BY <1>1 DEF ToSet
<1> QED
  BY <1>3, <1>4, <1>5

LEMMA PublishKeeps ==
    ASSUME RingTypes, NEW item \in Items, Publish(item),
           item.req # NoReq => item.type \notin IncidentTypes
    PROVE  /\ RingTypes'
           /\ Closed \in ToSet(io_to_dispatch)' => Closed \in ToSet(io_to_dispatch) \/ item = Closed
<1> DEFINE warning == Broadcast("QueueFullWarning")
<1>1. warning \in Items /\ warning.req = NoReq /\ warning # Closed
  BY BroadcastType DEF EventTypes, ObservabilityTypes, Broadcast, Event, Closed
<1> HIDE DEF warning
<1>2. CASE PushAll(<<item>>)
  <2>1. <<item>> \in Seq(Items) /\ DOMAIN <<item>> = {1} /\ <<item>>[1] = item
    OBVIOUS
  <2> QED
    BY <1>2, <2>1, PushAllKeeps
<1>3. CASE PushAll(<<item, warning>>)
  <2>1. <<item, warning>> \in Seq(Items) /\ DOMAIN <<item, warning>> = {1, 2}
    BY <1>1
  <2>2. <<item, warning>>[1] = item /\ <<item, warning>>[2] = warning
    OBVIOUS
  <2>3. \A j \in DOMAIN <<item, warning>> : <<item, warning>>[j].req # NoReq => <<item, warning>>[j].type \notin IncidentTypes
    BY <2>1, <2>2, <1>1
  <2>4. /\ RingTypes'
        /\ Closed \in ToSet(io_to_dispatch)' =>
               Closed \in ToSet(io_to_dispatch) \/ \E j \in DOMAIN <<item, warning>> : <<item, warning>>[j] = Closed
    BY <1>3, <2>1, <2>3, PushAllKeeps
  <2> QED
    BY <2>1, <2>2, <2>4, <1>1
<1> QED
  BY <1>2, <1>3 DEF Publish, warning

\* Capturing the waiters of an event, or latching it, keeps the registry sound when the
\* event speaks of a death exactly after one.
LEMMA CaptureKeeps ==
    ASSUME RegistryTypes, Registry, NEW t \in Threads, NEW event \in Items,
           event.type \in IncidentTypes => death_committed,
           death_purged => event.type \in IncidentTypes,
           late # {} => death_purged,
           Capture(t, event), UNCHANGED <<death_committed, death_purged, await, late>>
    PROVE  RegistryTypes' /\ Registry'
<1> DEFINE waiting == Matching(live, event)
           fire == [op |-> "fire", env |-> event, arms |-> waiting, hit |-> FALSE]
           q == Pushed(missed, MissedCap, <<event>>)
<1>1. waiting \subseteq live
  BY DEF Matching
<1>2. \A w : Unborn(w)' <=> Unborn(w)
  BY DEF Unborn
<1>3. CASE waiting # {}
  <2>1. live' = live \ waiting /\ job' = [job EXCEPT ![t] = fire] /\ missed' = missed
    BY <1>3 DEF Capture
  <2>2. fire \in Jobs /\ fire.op = "fire" /\ fire.env = event /\ fire.arms = waiting
    BY <1>1 DEF Jobs, RegistryTypes
  <2> HIDE DEF fire, waiting
  <2>3. \A u \in Threads : job'[u] = IF u = t THEN fire ELSE job[u]
    BY <2>1 DEF RegistryTypes
  <2>4. RegistryTypes'
    BY <2>1, <2>2 DEF RegistryTypes
  <2>5. Registry'
    <3>1. \A arm \in waiting : ~Unborn(arm.waiter) /\ (arm.waiter \in late => event.type \in IncidentTypes)
      BY <1>1 DEF Registry
    <3> QED
      BY <1>2, <2>1, <2>2, <2>3, <3>1 DEF Registry
  <2> QED
    BY <2>4, <2>5
<1>4. CASE waiting = {}
  <2>1. live' = live /\ job' = [job EXCEPT ![t] = NoJob] /\ missed' = q
    BY <1>4 DEF Capture
  <2>2. NoJob \in Jobs /\ NoJob.op = "none" /\ NoJob.env.type \notin IncidentTypes /\ NoJob.arms = {}
    BY DEF Jobs, NoJob, Empty, Event, IncidentTypes
  <2>3. \A u \in Threads : job'[u] = IF u = t THEN NoJob ELSE job[u]
    BY <2>1 DEF RegistryTypes
  <2>4. <<event>> \in Seq(Items) /\ DOMAIN <<event>> = {1} /\ <<event>>[1] = event
    OBVIOUS
  <2>5. /\ q \in Seq(Items)
        /\ Len(q) <= MissedCap
        /\ \A i \in DOMAIN q : (\E j \in DOMAIN missed : q[i] = missed[j]) \/ q[i] = event
    <3>1. missed \in Seq(Items) /\ MissedCap \in Nat
      BY BusAssumption DEF RegistryTypes
    <3> DEFINE one == <<event>>
    <3>2. one \in Seq(Items) /\ DOMAIN one = {1} /\ one[1] = event /\ q = Pushed(missed, MissedCap, one)
      BY <2>4
    <3> HIDE DEF one, q
    <3>3. /\ q \in Seq(Items)
          /\ Len(q) <= MissedCap
          /\ \A i \in DOMAIN q :
                (\E j \in DOMAIN missed : q[i] = missed[j]) \/ (\E j \in DOMAIN one : q[i] = one[j])
      BY <3>1, <3>2, PushedType
    <3> QED
      BY <3>2, <3>3
  <2> HIDE DEF q
  <2>6. RegistryTypes'
    BY <2>1, <2>2, <2>5 DEF RegistryTypes
  <2>7. Registry'
    BY <1>2, <2>1, <2>2, <2>3, <2>5 DEF Registry
  <2> QED
    BY <2>6, <2>7
<1> QED
  BY <1>3, <1>4

LEMMA DeliverKeeps ==
    ASSUME RegistryTypes, Registry, Deaths, NEW t \in Threads, NEW event \in Items,
           event.type \in IncidentTypes => death_committed,
           DeliverCorrelated(t, event), UNCHANGED <<await, late>>
    PROVE  RegistryTypes' /\ Registry'
<1>1. UNCHANGED <<death_committed, death_purged>> /\ (death_purged => death_committed) /\ (late # {} => death_purged)
  BY DEF DeliverCorrelated, Deaths
<1>2. CASE death_committed /\ event.type \notin IncidentTypes
  <2>1. UNCHANGED <<live, missed, job>>
    BY <1>2 DEF DeliverCorrelated
  <2> QED
    BY <1>1, <2>1 DEF RegistryTypes, Registry, Unborn
<1>3. CASE ~(death_committed /\ event.type \notin IncidentTypes)
  <2>1. Capture(t, event)
    BY <1>3 DEF DeliverCorrelated
  <2> QED
    BY <1>1, <1>3, <2>1, CaptureKeeps
<1> QED
  BY <1>2, <1>3

\* Arming a one-shot keeps the registry sound: a latched event it takes is a death if its
\* await began after one.
LEMMA SubscribeKeeps ==
    ASSUME RegistryTypes, Registry, NEW w \in Waiters, NEW type \in EventTypes, NEW req \in Requests,
           SubscribeCorrelated(w, type, req), UNCHANGED <<death_committed, death_purged>>,
           ~Unborn(w)', \A v \in Waiters : ~Unborn(v) => ~Unborn(v)',
           late' \subseteq late \union {w},
           w \in late' => death_purged /\ (w \in late \/ Unborn(w))
    PROVE  RegistryTypes' /\ Registry'
<1> DEFINE event == Event(type, req)
           arm == [type |-> type, req |-> req, waiter |-> w]
           fire == [op |-> "fire", env |-> event, arms |-> {arm}, hit |-> FALSE]
<1>1. event \in Items /\ arm \in Arms /\ arm.waiter = w
  BY DEF Event, Items, Arms
<1>2. fire \in Jobs /\ fire.op = "fire" /\ fire.env = event /\ fire.arms = {arm}
  BY <1>1 DEF Jobs
<1>3. w \in Threads
  BY DEF Threads
<1>4. ASSUME NEW u \in Threads, job'[u] = job[u]
      PROVE  /\ \A a \in job'[u].arms : ~Unborn(a.waiter)'
             /\ job'[u].op = "fire" =>
                   \A a \in job'[u].arms : a.waiter \in late' => job'[u].env.type \in IncidentTypes
  <2>1. \A a \in job[u].arms : a.waiter \in Waiters /\ ~Unborn(a.waiter)
    BY DEF RegistryTypes, Jobs, Arms, Registry
  <2> QED
    BY <1>4, <2>1 DEF Registry
<1>5. \A a \in live : ~Unborn(a.waiter)'
  BY DEF RegistryTypes, Arms, Registry
<1> HIDE DEF event, arm, fire
<1>6. CASE \E i \in DOMAIN missed :
               /\ missed[i] = event
               /\ missed' = RemoveAt(missed, i)
               /\ job' = [job EXCEPT ![w] = fire]
               /\ live' = live
  <2>1. PICK i \in DOMAIN missed :
            missed[i] = event /\ missed' = RemoveAt(missed, i) /\ job' = [job EXCEPT ![w] = fire] /\ live' = live
    BY <1>6
  <2>2. missed \in Seq(Items)
    BY DEF RegistryTypes
  <2>3. /\ missed' \in Seq(Items)
        /\ Len(missed') <= Len(missed)
        /\ \A k \in DOMAIN missed' : \E j \in DOMAIN missed : missed'[k] = missed[j]
    BY <2>1, <2>2, RemovedType
  <2>4. Len(missed') <= MissedCap
    BY <2>2, <2>3, BusAssumption DEF RegistryTypes
  <2>5. RegistryTypes'
    BY <2>1, <2>3, <2>4, <1>2 DEF RegistryTypes
  <2>6. \A u \in Threads : job'[u] = IF u = w THEN fire ELSE job[u]
    BY <2>1 DEF RegistryTypes
  <2>7. event.type \in IncidentTypes => death_committed
    BY <2>1 DEF Registry
  <2>8. death_purged => event.type \in IncidentTypes
    BY <2>1 DEF Registry
  <2>9. \A u \in Threads :
            /\ job'[u].op \in {"fire", "relatch"} => job'[u].env \in Items
            /\ job'[u].op = "drain" \/ job'[u].env.type \in IncidentTypes => death_committed
            /\ \A a \in job'[u].arms : ~Unborn(a.waiter)'
            /\ job'[u].op = "fire" =>
                  \A a \in job'[u].arms : a.waiter \in late' => job'[u].env.type \in IncidentTypes
    <3> TAKE u \in Threads
    <3>1. CASE u = w
      <4>1. w \in late' => event.type \in IncidentTypes
        BY <2>8
      <4> QED
        BY <3>1, <4>1, <2>6, <2>7, <1>1, <1>2
    <3>2. CASE u # w
      BY <3>2, <2>6, <1>4 DEF Registry
    <3> QED
      BY <3>1, <3>2
  <2>10. /\ \A k \in DOMAIN missed' : missed'[k].type \in IncidentTypes => death_committed
         /\ \A k \in DOMAIN missed' : death_purged => missed'[k].type \in IncidentTypes
    BY <2>3 DEF Registry
  <2> QED
    BY <2>1, <2>5, <2>9, <2>10, <1>5 DEF Registry
<1>7. CASE live' = live \union {arm} /\ UNCHANGED <<missed, job>>
  <2>1. RegistryTypes'
    BY <1>7, <1>1 DEF RegistryTypes
  <2>2. \A a \in live' : ~Unborn(a.waiter)'
    BY <1>7, <1>1, <1>5
  <2>3. \A u \in Threads : job'[u] = job[u]
    BY <1>7
  <2>4. \A u \in Threads :
            /\ \A a \in job'[u].arms : ~Unborn(a.waiter)'
            /\ job'[u].op = "fire" =>
                  \A a \in job'[u].arms : a.waiter \in late' => job'[u].env.type \in IncidentTypes
    BY <2>3, <1>4
  <2> QED
    BY <1>7, <2>1, <2>2, <2>3, <2>4 DEF Registry
<1> QED
  BY <1>6, <1>7 DEF SubscribeCorrelated, event, arm, fire

\* What a thread owes after firing one of its one-shots.
LEMMA AfterFireType ==
    ASSUME NEW owed \in Jobs, NEW rest, rest \subseteq owed.arms, NEW hit \in BOOLEAN
    PROVE  /\ AfterFire(owed, rest, hit) \in Jobs
           /\ AfterFire(owed, rest, hit).arms \subseteq owed.arms
           /\ AfterFire(owed, rest, hit).op \in {"none", owed.op} \/ (owed.op = "fire" /\ AfterFire(owed, rest, hit).op = "relatch")
           /\ AfterFire(owed, rest, hit).env \in {Empty, owed.env}
           /\ AfterFire(owed, rest, hit).op # "none" => AfterFire(owed, rest, hit).env = owed.env
           /\ AfterFire(owed, rest, hit).op = "none" => AfterFire(owed, rest, hit) = NoJob \/ owed.op = "none"
<1>1. CASE rest # {}
  <2>1. AfterFire(owed, rest, hit) = [owed EXCEPT !.arms = rest, !.hit = hit]
    BY <1>1 DEF AfterFire
  <2> QED
    BY <2>1 DEF Jobs
<1>2. CASE rest = {} /\ owed.op = "fire" /\ ~hit
  <2>1. AfterFire(owed, rest, hit) = [owed EXCEPT !.op = "relatch", !.arms = {}]
    BY <1>2 DEF AfterFire
  <2> QED
    BY <1>2, <2>1 DEF Jobs
<1>3. CASE rest = {} /\ ~(owed.op = "fire" /\ ~hit)
  <2>1. AfterFire(owed, rest, hit) = NoJob
    BY <1>3 DEF AfterFire
  <2> QED
    BY <2>1 DEF Jobs, NoJob
<1> QED
  BY <1>1, <1>2, <1>3

-----------------------------------------------------------------------------
(* What a thread owes the bus.                                             *)

LEMMA TasksAreThreads ==
    /\ "io" \in Threads /\ "dispatch" \in Threads /\ "caller" \in Threads
    /\ "io" \notin Waiters /\ "dispatch" \notin Waiters /\ "caller" \notin Waiters
    /\ Waiters \subseteq Threads
BY LifecycleAssumption, BusAssumption DEF Threads

LEMMA NoJobFacts ==
    NoJob \in Jobs /\ NoJob.op = "none" /\ NoJob.env = Empty /\ NoJob.arms = {} /\ NoJob.hit = FALSE
BY DEF NoJob, Jobs

LEMMA EmptyFacts ==
    /\ Empty.type = "empty" /\ Dropped.type = "dropped" /\ Empty # Dropped
    /\ Empty \notin Items /\ Dropped \notin Items
    /\ Empty.type \notin IncidentTypes /\ Dropped.type \notin IncidentTypes
BY DEF Empty, Dropped, Event, Items, IncidentTypes, EventTypes, CompletionTypes, ObservabilityTypes

\* The death envelope of a one-shot is an incident.
LEMMA DeathEnvelopeType ==
    ASSUME NEW arm \in Arms
    PROVE  DeathEnvelope(arm) \in Items /\ DeathEnvelope(arm).type \in IncidentTypes
BY DEF DeathEnvelope, Arms, Event, Items, IncidentTypes, EventTypes

LEMMA FireKeeps ==
    ASSUME IInv, NEW t \in Threads, FireCorrelated(t), UNCHANGED Outside
    PROVE  IInv'
<1>1. PICK arm \in job[t].arms :
          LET event == IF job[t].op = "drain" THEN DeathEnvelope(arm) ELSE job[t].env
              accepted == cell[arm.waiter] /\ inbox[arm.waiter] = Empty
          IN  /\ cell' = [cell EXCEPT ![arm.waiter] = FALSE]
              /\ inbox' = IF accepted THEN [inbox EXCEPT ![arm.waiter] = event] ELSE inbox
              /\ job' = [job EXCEPT ![t] = AfterFire(@, @.arms \ {arm}, @.hit \/ accepted)]
  BY DEF FireCorrelated
<1> DEFINE w == arm.waiter
           event == IF job[t].op = "drain" THEN DeathEnvelope(arm) ELSE job[t].env
           accepted == cell[w] /\ inbox[w] = Empty
           owes == AfterFire(job[t], job[t].arms \ {arm}, job[t].hit \/ accepted)
<1>2. job \in [Threads -> Jobs] /\ inbox \in [Waiters -> Items \union {Empty, Dropped}] /\ cell \in [Waiters -> BOOLEAN]
  BY DEF IInv, TypeOK, BusTypeOK
<1>3. job[t] \in Jobs /\ job[t].arms \subseteq Arms /\ arm \in Arms /\ w \in Waiters /\ job[t].op \in {"fire", "drain"}
  BY <1>2, <1>1 DEF Jobs, Arms, FireCorrelated
<1>4. event \in Items
  BY <1>3, DeathEnvelopeType DEF IInv, Registry
<1>5. event.type \in IncidentTypes => death_committed
  BY <1>3, DeathEnvelopeType DEF IInv, Registry
<1>6. w \in late => event.type \in IncidentTypes
  BY <1>1, <1>3, DeathEnvelopeType DEF IInv, Registry
<1>7. ~Unborn(w)
  BY <1>1 DEF IInv, Registry
<1>8. (job[t].hit \/ accepted) \in BOOLEAN /\ job[t].arms \ {arm} \subseteq job[t].arms
  OBVIOUS
<1>9. /\ owes \in Jobs
      /\ owes.arms \subseteq job[t].arms
      /\ owes.op \in {"none", job[t].op} \/ (job[t].op = "fire" /\ owes.op = "relatch")
      /\ owes.env \in {Empty, job[t].env}
      /\ owes.op # "none" => owes.env = job[t].env
  <2> HIDE DEF accepted
  <2> QED
    BY <1>3, <1>8, AfterFireType, ZenonT(60)
<1> HIDE DEF event, owes, accepted
<1>10. cell' = [cell EXCEPT ![w] = FALSE] /\ job' = [job EXCEPT ![t] = owes]
  BY <1>1 DEF owes, accepted
<1>11. inbox' = IF accepted THEN [inbox EXCEPT ![w] = event] ELSE inbox
  BY <1>1 DEF event, accepted
<1>12. \A u \in Threads : job'[u] = IF u = t THEN owes ELSE job[u]
  BY <1>2, <1>10
<1>13. \A v \in Waiters : cell'[v] = IF v = w THEN FALSE ELSE cell[v]
  BY <1>2, <1>10
<1>14. \A v \in Waiters : inbox'[v] = IF v = w /\ accepted THEN event ELSE inbox[v]
  BY <1>2, <1>11
<1>15. UNCHANGED <<io_to_dispatch, ring_closed, subscribers, live, missed, death_committed, death_purged,
                   loop_death_observed, loop_failed, shutting_down, dispatch_state, dying>>
  BY DEF FireCorrelated, ringVars, registryVars, flagVars
<1>16. UNCHANGED <<caller, calling, has_handle, io, io_abort, ready_for, marker, conns_closed, dispatch,
                   dispatch_abort, current, await, observes, handle_taken, outcome, late, faults, extras>>
  BY DEF Outside, clientVars, ioVars, dispatchVars, waitVars, boundVars
<1>17. \A v : Unborn(v)' <=> Unborn(v)
  BY <1>16 DEF Unborn
<1>18. TypeOK'
  <2>1. cell' \in [Waiters -> BOOLEAN] /\ job' \in [Threads -> Jobs]
    BY <1>2, <1>9, <1>10
  <2>2. inbox' \in [Waiters -> Items \union {Empty, Dropped}]
    BY <1>2, <1>4, <1>11
  <2>3. BusTypeOK'
    BY <2>1, <2>2, <1>15 DEF IInv, TypeOK, BusTypeOK
  <2> QED
    BY <2>3, <1>16 DEF IInv, TypeOK
<1>19. Held'
  <2>1. job[t] # NoJob
    BY <1>3, NoJobFacts
  <2> QED
    BY <2>1, <1>12, <1>15, <1>16, TasksAreThreads DEF IInv, Held
<1>20. Births'
  <2> USE <1>16 DEF IInv, Births
  <2>1. ASSUME NEW v \in Waiters
        PROVE  /\ Unborn(v)' => inbox'[v] = Empty /\ ~cell'[v] /\ v \notin late'
               /\ inbox'[v] = Dropped <=> await'[v] = "dropped"
               /\ cell'[v] => outcome'[v] = "none" /\ inbox'[v] \in {Empty, Dropped}
    <3>1. CASE v = w
      <4>1. accepted => inbox[v] = Empty
        BY <3>1 DEF accepted
      <4> QED
        BY <3>1, <4>1, <1>4, <1>7, <1>13, <1>14, <1>17, EmptyFacts
    <3>2. CASE v # w
      BY <3>2, <1>13, <1>14, <1>17
    <3> QED
      BY <3>1, <3>2
  <2>2. \A v \in Waiters :
            /\ await'[v] \notin {"unused", "idle"} => observes'[v] \in Requests
            /\ await'[v] \in {"unused", "idle", "arm", "arm_fault", "armed", "parked"} => outcome'[v] = "none"
    OBVIOUS
  <2>3. /\ caller' \in {"ready_answer", "ready_spawn"} => calling' \in Readies
        /\ caller' \in {"close_ready", "close_arm", "close_post"} => calling' \in Closes
        /\ caller' \in {"close_ready", "close_arm"} => await'[calling'] = "idle"
        /\ \A v \in Completions : observes'[v] = v
    OBVIOUS
  <2> QED
    BY <2>1, <2>2, <2>3
<1>21. Deaths'
  BY <1>5, <1>6, <1>14, <1>15, <1>16 DEF IInv, Deaths, TypeOK
<1>22. Registry'
  <2>1. /\ owes.op \in {"fire", "relatch"} => owes.env \in Items
        /\ owes.op = "drain" \/ owes.env.type \in IncidentTypes => death_committed
        /\ \A a \in owes.arms : ~Unborn(a.waiter)
        /\ owes.op = "fire" => \A a \in owes.arms : a.waiter \in late => owes.env.type \in IncidentTypes
    BY <1>3, <1>9, EmptyFacts DEF IInv, Registry
  <2> QED
    BY <2>1, <1>12, <1>15, <1>16, <1>17 DEF IInv, Registry
<1>23. Ring'
  BY <1>15, <1>16 DEF IInv, Ring
<1>24. Lives'
  BY <1>15, <1>16 DEF IInv, Lives, CloseAnnounced
<1> QED
  BY <1>18, <1>19, <1>20, <1>21, <1>22, <1>23, <1>24 DEF IInv

LEMMA RelatchKeeps ==
    ASSUME IInv, NEW t \in Threads, RelatchCorrelated(t), UNCHANGED Outside
    PROVE  IInv'
<1>1. UNCHANGED <<io_to_dispatch, ring_closed, subscribers, death_committed, death_purged, loop_death_observed,
                  loop_failed, shutting_down, dispatch_state, cell, inbox, dying>>
  BY DEF RelatchCorrelated, ringVars, flagVars, awaitVars
<1>2. UNCHANGED <<caller, calling, has_handle, io, io_abort, ready_for, marker, conns_closed, dispatch,
                  dispatch_abort, current, await, observes, handle_taken, outcome, late, faults, extras>>
  BY DEF Outside, clientVars, ioVars, dispatchVars, waitVars, boundVars
<1>3. RegistryTypes /\ Registry /\ job[t] \in Jobs /\ job[t].op = "relatch"
  BY DEF IInv, TypeOK, BusTypeOK, RegistryTypes, RelatchCorrelated
<1>4. RegistryTypes' /\ Registry' /\ \A u \in Threads \ {t} : job'[u] = job[u]
  <2>1. CASE death_purged
    <3>1. job' = [job EXCEPT ![t] = NoJob] /\ UNCHANGED <<live, missed>>
      BY <2>1 DEF RelatchCorrelated
    <3>2. \A u \in Threads : job'[u] = IF u = t THEN NoJob ELSE job[u]
      BY <3>1, <1>3 DEF RegistryTypes
    <3>3. RegistryTypes'
      BY <3>1, <1>3, NoJobFacts DEF RegistryTypes
    <3>4. Registry'
      BY <3>1, <3>2, <1>1, <1>2, <1>3, NoJobFacts, EmptyFacts DEF Registry, Unborn
    <3> QED
      BY <3>2, <3>3, <3>4
  <2>2. CASE ~death_purged
    <3>1. Capture(t, job[t].env) /\ job[t].env \in Items
      BY <2>2, <1>3 DEF RelatchCorrelated, Registry
    <3>2. job[t].env.type \in IncidentTypes => death_committed
      BY <1>3 DEF Registry
    <3>3. late # {} => death_purged
      BY DEF IInv, Deaths
    <3>4. RegistryTypes' /\ Registry'
      BY <2>2, <3>1, <3>2, <3>3, <1>1, <1>2, <1>3, CaptureKeeps
    <3>5. \A u \in Threads \ {t} : job'[u] = job[u]
      BY <3>1, <1>3 DEF Capture, RegistryTypes
    <3> QED
      BY <3>4, <3>5
  <2> QED
    BY <2>1, <2>2
<1>5. TypeOK'
  <2>1. BusTypeOK'
    BY <1>1, <1>4 DEF IInv, TypeOK, BusTypeOK, RegistryTypes
  <2> QED
    BY <2>1, <1>2 DEF IInv, TypeOK
<1>6. Held'
  <2>1. job[t] # NoJob
    BY <1>3, NoJobFacts
  <2> QED
    BY <2>1, <1>4, <1>1, <1>2, TasksAreThreads DEF IInv, Held
<1>7. Births'
  BY <1>1, <1>2 DEF IInv, Births, Unborn
<1>8. Deaths'
  BY <1>1, <1>2 DEF IInv, Deaths
<1>9. Ring' /\ Lives'
  BY <1>1, <1>2 DEF IInv, Ring, Lives, CloseAnnounced
<1> QED
  BY <1>4, <1>5, <1>6, <1>7, <1>8, <1>9 DEF IInv

LEMMA DeathKeeps ==
    ASSUME IInv, NEW t \in Threads, OnLoopDeath(t, t = "dispatch"), UNCHANGED Outside
    PROVE  IInv'
<1>1. UNCHANGED <<ring_closed, subscribers, shutting_down, cell, inbox>>
  BY DEF OnLoopDeath, DeathCommits, DeathObserved, DeathResolves, DeathAnnounced, ringVars, flagVars, awaitVars
<1>2. UNCHANGED <<caller, calling, has_handle, io, io_abort, ready_for, marker, conns_closed, dispatch,
                  dispatch_abort, current, await, observes, handle_taken, outcome, late, faults, extras>>
  BY DEF Outside, clientVars, ioVars, dispatchVars, waitVars, boundVars
<1>3. Births'
  BY <1>1, <1>2 DEF IInv, Births, Unborn
<1>4. /\ live \subseteq Arms /\ missed \in Seq(Items) /\ Len(missed) <= MissedCap /\ job \in [Threads -> Jobs]
      /\ dying \in [Threads -> [step : DeathSteps, intended : BOOLEAN]]
      /\ io_to_dispatch \in Seq(Items) /\ Len(io_to_dispatch) <= RingCap
  BY DEF IInv, TypeOK, BusTypeOK
<1>5. t \notin Waiters /\ dying[t].step # "no"
  BY DEF IInv, Held, OnLoopDeath, DeathCommits, DeathObserved, DeathResolves, DeathAnnounced, AtDeathStep
<1>6. ASSUME NEW s \in DeathSteps, NEW b \in BOOLEAN,
             dying' = [dying EXCEPT ![t] = [step |-> s, intended |-> b]]
      PROVE  /\ dying' \in [Threads -> [step : DeathSteps, intended : BOOLEAN]]
             /\ \A u \in Threads : dying'[u].step = IF u = t THEN s ELSE dying[u].step
  BY <1>4, <1>6
<1>7. ASSUME NEW s \in DeathSteps, ToDeathStep(t, s)
      PROVE  /\ dying' \in [Threads -> [step : DeathSteps, intended : BOOLEAN]]
             /\ \A u \in Threads : dying'[u].step = IF u = t THEN s ELSE dying[u].step
  BY <1>4, <1>7 DEF ToDeathStep
<1>8. CASE DeathCommits(t)
  <2>1. UNCHANGED <<io_to_dispatch, live, loop_death_observed, loop_failed, dispatch_state, job>> /\ death_committed' = TRUE
    BY <1>8 DEF DeathCommits, ringVars, flagVars
  <2>2. dying' \in [Threads -> [step : DeathSteps, intended : BOOLEAN]]
        /\ \A u \in Threads : dying'[u].step = IF u = t THEN "observe" ELSE dying[u].step
    <3>1. dying' = [dying EXCEPT ![t] = [step |-> "observe", intended |-> shutting_down]]
      BY <1>8 DEF DeathCommits
    <3>2. shutting_down \in BOOLEAN /\ "observe" \in DeathSteps
      BY DEF IInv, TypeOK, BusTypeOK, DeathSteps
    <3> QED
      BY <3>1, <3>2, <1>6
  <2>3. (missed' = missed /\ death_purged' = death_purged) \/ (missed' = <<>> /\ death_purged' = TRUE)
    BY <1>8 DEF DeathCommits
  <2>4. missed' \in Seq(Items) /\ Len(missed') <= MissedCap /\ death_purged' \in BOOLEAN
    <3>1. <<>> \in Seq(Items) /\ Len(<<>>) = 0 /\ 0 <= MissedCap
      BY BusAssumption
    <3>2. death_purged \in BOOLEAN
      BY DEF IInv, TypeOK, BusTypeOK
    <3> QED
      BY <3>1, <3>2, <2>3, <1>4
  <2>5. TypeOK'
    <3>1. BusTypeOK'
      BY <2>1, <2>2, <2>4, <1>1 DEF IInv, TypeOK, BusTypeOK
    <3> QED
      BY <3>1, <1>2 DEF IInv, TypeOK
  <2>6. Held'
    BY <2>1, <2>2, <1>2, <1>5, TasksAreThreads DEF IInv, Held
  <2>7. Deaths'
    BY <2>1, <2>2, <2>3, <1>1, <1>2 DEF IInv, Deaths
  <2>8. Registry'
    BY <2>1, <2>3, <1>2 DEF IInv, Registry, Unborn
  <2>9. Ring' /\ Lives'
    BY <2>1, <1>1, <1>2 DEF IInv, Ring, Lives, CloseAnnounced
  <2> QED
    BY <2>5, <2>6, <2>7, <2>8, <2>9, <1>3 DEF IInv
<1>9. CASE DeathObserved(t, t = "dispatch")
  <2>1. UNCHANGED <<io_to_dispatch, live, missed, death_committed, death_purged, job>> /\ loop_death_observed' = TRUE
    BY <1>9 DEF DeathObserved, ringVars, registryVars
  <2>2. PICK s \in {"no", "resolve"} : ToDeathStep(t, s)
    BY <1>9 DEF DeathObserved
  <2>3. dying' \in [Threads -> [step : DeathSteps, intended : BOOLEAN]]
        /\ \A u \in Threads : dying'[u].step = IF u = t THEN s ELSE dying[u].step
    BY <2>2, <1>7 DEF DeathSteps
  <2>4. loop_failed' \in BOOLEAN /\ dispatch_state' \in {dispatch_state, "Failed"}
    BY <1>9 DEF DeathObserved, IInv, TypeOK, BusTypeOK
  <2>5. dying[t].step = "observe"
    BY <1>9 DEF DeathObserved, AtDeathStep
  <2>6. TypeOK'
    <3>1. BusTypeOK'
      BY <2>1, <2>3, <2>4, <1>1 DEF IInv, TypeOK, BusTypeOK
    <3> QED
      BY <3>1, <1>2 DEF IInv, TypeOK
  <2>7. Held'
    BY <2>1, <2>3, <2>2, <1>2, <1>5, TasksAreThreads DEF IInv, Held
  <2>8. Deaths'
    BY <2>1, <2>3, <2>5, <1>1, <1>2 DEF IInv, Deaths
  <2>9. Registry'
    BY <2>1, <1>2 DEF IInv, Registry, Unborn
  <2>10. Ring' /\ Lives'
    BY <2>1, <2>4, <1>1, <1>2 DEF IInv, Ring, Lives, CloseAnnounced
  <2> QED
    BY <2>6, <2>7, <2>8, <2>9, <2>10, <1>3 DEF IInv
<1>10. CASE DeathResolves(t)
  <2> DEFINE drain == [op |-> "drain", env |-> Empty, arms |-> live, hit |-> FALSE]
             owes == IF live = {} THEN NoJob ELSE drain
  <2>1. UNCHANGED <<io_to_dispatch, missed, death_committed, death_purged, loop_death_observed, loop_failed,
                    dispatch_state>> /\ live' = {} /\ job' = [job EXCEPT ![t] = owes]
    BY <1>10 DEF DeathResolves, ringVars, flagVars
  <2>2. dying' \in [Threads -> [step : DeathSteps, intended : BOOLEAN]]
        /\ \A u \in Threads : dying'[u].step = IF u = t THEN "announce" ELSE dying[u].step
    BY <1>10, <1>7 DEF DeathResolves, DeathSteps
  <2>3. dying[t].step = "resolve" /\ death_committed
    BY <1>10 DEF DeathResolves, AtDeathStep, IInv, Deaths
  <2>4. drain \in Jobs /\ drain.op = "drain" /\ drain.env = Empty /\ drain.arms = live
    BY <1>4 DEF Jobs
  <2> HIDE DEF drain
  <2>5. owes \in Jobs /\ owes.op \in {"none", "drain"} /\ owes.env = Empty /\ owes.arms \subseteq live
    BY <2>4, NoJobFacts
  <2> HIDE DEF owes
  <2>6. \A u \in Threads : job'[u] = IF u = t THEN owes ELSE job[u]
    BY <2>1, <1>4
  <2>7. TypeOK'
    <3>1. job' \in [Threads -> Jobs]
      BY <2>1, <2>5, <1>4
    <3>2. BusTypeOK'
      BY <2>1, <2>2, <3>1, <1>1 DEF IInv, TypeOK, BusTypeOK
    <3> QED
      BY <3>2, <1>2 DEF IInv, TypeOK
  <2>8. Held'
    BY <2>1, <2>2, <2>6, <1>2, <1>5, TasksAreThreads DEF IInv, Held
  <2>9. Deaths'
    BY <2>1, <2>2, <2>3, <1>1, <1>2 DEF IInv, Deaths
  <2>10. Registry'
    BY <2>1, <2>3, <2>5, <2>6, <1>2 DEF IInv, Registry, Unborn
  <2>11. Ring' /\ Lives'
    BY <2>1, <1>1, <1>2 DEF IInv, Ring, Lives, CloseAnnounced
  <2> QED
    BY <2>7, <2>8, <2>9, <2>10, <2>11, <1>3 DEF IInv
<1>11. CASE DeathAnnounced(t)
  <2>1. UNCHANGED <<live, missed, death_committed, death_purged, loop_death_observed, loop_failed,
                    dispatch_state, job>>
    BY <1>11 DEF DeathAnnounced, registryVars, flagVars
  <2>2. dying' \in [Threads -> [step : DeathSteps, intended : BOOLEAN]]
        /\ \A u \in Threads : dying'[u].step = IF u = t THEN "no" ELSE dying[u].step
    BY <1>11, <1>6 DEF DeathAnnounced, DeathSteps
  <2>3. RingTypes' /\ (Closed \in ToSet(io_to_dispatch)' => Closed \in ToSet(io_to_dispatch))
    <3>1. CASE UNCHANGED io_to_dispatch
      BY <3>1, <1>4 DEF RingTypes, ToSet, IInv, Ring
    <3>2. CASE PushAll(<<Broadcast("LoopFailedEvent")>>)
      <4> DEFINE failed == Broadcast("LoopFailedEvent")
      <4>1. failed \in Items /\ failed.req = NoReq /\ failed # Closed
        BY BroadcastType DEF EventTypes, IncidentTypes, Broadcast, Event, Closed
      <4> HIDE DEF failed
      <4>2. <<failed>> \in Seq(Items) /\ DOMAIN <<failed>> = {1} /\ <<failed>>[1] = failed
        BY <4>1
      <4>3. RingTypes
        BY <1>4 DEF RingTypes, IInv, Ring
      <4> QED
        BY <3>2, <4>1, <4>2, <4>3, PushAllKeeps DEF failed
    <3> QED
      BY <3>1, <3>2, <1>11 DEF DeathAnnounced
  <2>4. TypeOK'
    <3>1. BusTypeOK'
      BY <2>1, <2>2, <2>3, <1>1 DEF IInv, TypeOK, BusTypeOK, RingTypes
    <3> QED
      BY <3>1, <1>2 DEF IInv, TypeOK
  <2>5. Held'
    BY <2>1, <2>2, <1>2, <1>5, TasksAreThreads DEF IInv, Held
  <2>6. Deaths'
    BY <2>1, <2>2, <1>1, <1>2 DEF IInv, Deaths
  <2>7. Registry'
    BY <2>1, <1>2 DEF IInv, Registry, Unborn
  <2>8. Ring' /\ Lives'
    BY <2>1, <2>3, <1>1, <1>2 DEF IInv, Ring, RingTypes, Lives, CloseAnnounced, Closed
  <2> QED
    BY <2>4, <2>5, <2>6, <2>7, <2>8, <1>3 DEF IInv
<1> QED
  BY <1>8, <1>9, <1>10, <1>11 DEF OnLoopDeath

LEMMA SettleKeeps ==
    ASSUME IInv, NEW t \in Threads, Settle(t)
    PROVE  IInv'
BY FireKeeps, RelatchKeeps, DeathKeeps DEF Settle

-----------------------------------------------------------------------------
(* Steps that leave the ring alone and deliver nothing.                    *)

\* A thread enters the death handler.
LEMMA EnterDeath ==
    ASSUME TypeOK, NEW t \in Threads, EnterLoopDeath(t)
    PROVE  /\ dying' \in [Threads -> [step : DeathSteps, intended : BOOLEAN]]
           /\ \A u \in Threads : dying'[u].step = IF u = t THEN "commit" ELSE dying[u].step
BY DEF TypeOK, BusTypeOK, EnterLoopDeath, ToDeathStep, DeathSteps

LEMMA ObserveKeeps ==
    ASSUME IInv, NEW w \in Waiters, NEW req \in Completions \union {"sub"}, Observe(w, req)
    PROVE  IInv'
<1> USE LifecycleAssumption, TasksAreThreads DEF IInv, Observe, BeginAwait, Completions, busVars, ringVars, registryVars, flagVars, awaitVars, clientVars, ioVars, dispatchVars, waitVars, boundVars
<1>1. TypeOK'
  <2>1. BusTypeOK'
    BY DEF TypeOK, BusTypeOK
  <2>2. /\ req \in Requests /\ observes' \in [Waiters -> Requests \union {NoReq}]
        /\ await' \in [Waiters -> AwaitStates] /\ handle_taken' \subseteq Completions
    BY DEF TypeOK, Births, AwaitStates
  <2> QED
    BY <2>1, <2>2 DEF TypeOK, CallerSteps, IoStates
<1>2. Held'
  BY DEF Held, TypeOK, BusTypeOK
<1>3. Births'
  BY DEF Births, Unborn, TypeOK, BusTypeOK
<1>4. Deaths'
  BY DEF Deaths, TypeOK, BusTypeOK
<1>5. Registry'
  BY DEF Registry, Unborn, TypeOK, BusTypeOK
<1>6. Ring'
  BY DEF Ring
<1>7. Lives'
  BY DEF Lives, CloseAnnounced, ToSet
<1> QED
  BY <1>1, <1>2, <1>3, <1>4, <1>5, <1>6, <1>7

LEMMA FirstPollKeeps ==
    ASSUME IInv, NEW w \in Waiters, FirstPoll(w)
    PROVE  IInv'
<1> USE LifecycleAssumption, TasksAreThreads DEF IInv, FirstPoll, SelfResolves, busVars, ringVars, registryVars, flagVars, awaitVars, clientVars, ioVars, dispatchVars, waitVars, boundVars
<1>0. \A v \in Waiters : ~Unborn(v) => ~Unborn(v)'
  BY DEF Unborn, TypeOK
<1>1. TypeOK'
  <2>1. CASE SelfResolves(w)
    <3>1. BusTypeOK'
      BY <2>1 DEF TypeOK, BusTypeOK
    <3> QED
      BY <2>1, <3>1 DEF TypeOK, AwaitStates
  <2>2. CASE ~SelfResolves(w)
    <3>1. BusTypeOK'
      BY <2>2 DEF TypeOK, BusTypeOK
    <3> QED
      BY <2>2, <3>1 DEF TypeOK, AwaitStates
  <2> QED
    BY <2>1, <2>2
<1>2. Held'
  BY DEF Held, TypeOK, BusTypeOK
<1>3. Births'
  BY DEF Births, Unborn, TypeOK, BusTypeOK
<1>4. Deaths'
  BY DEF Deaths, TypeOK, BusTypeOK
<1>5. Registry'
  <2>1. /\ \A arm \in live : arm.waiter \in Waiters
        /\ \A t \in Threads : \A arm \in job[t].arms : arm.waiter \in Waiters
    BY DEF TypeOK, BusTypeOK, Arms, Jobs
  <2> QED
    BY <2>1, <1>0 DEF Registry
<1>6. Ring'
  BY DEF Ring
<1>7. Lives'
  BY DEF Lives, CloseAnnounced, ToSet
<1> QED
  BY <1>1, <1>2, <1>3, <1>4, <1>5, <1>6, <1>7

LEMMA WokenKeeps ==
    ASSUME IInv, NEW w \in Waiters, Woken(w)
    PROVE  IInv'
<1> USE LifecycleAssumption, TasksAreThreads DEF IInv, Woken, busVars, ringVars, registryVars, flagVars, awaitVars, clientVars, ioVars, dispatchVars, waitVars, boundVars
<1>1. TypeOK'
  BY DEF TypeOK, BusTypeOK, CallerSteps, IoStates, AwaitStates
<1>2. Held'
  BY DEF Held, TypeOK, BusTypeOK
<1>3. Births'
  BY DEF Births, Unborn, TypeOK, BusTypeOK
<1>4. Deaths'
  BY DEF Deaths, TypeOK, BusTypeOK
<1>5. Registry'
  BY DEF Registry, Unborn, TypeOK, BusTypeOK
<1>6. Ring'
  BY DEF Ring
<1>7. Lives'
  BY DEF Lives, CloseAnnounced, ToSet
<1> QED
  BY <1>1, <1>2, <1>3, <1>4, <1>5, <1>6, <1>7

LEMMA UnarmKeeps ==
    ASSUME IInv, NEW w \in Waiters, Unarm(w)
    PROVE  IInv'
<1> USE LifecycleAssumption, TasksAreThreads DEF IInv, Unarm, Unsubscribe, Owes, busVars, ringVars, registryVars, flagVars, awaitVars, clientVars, ioVars, dispatchVars, waitVars, boundVars
<1>1. TypeOK'
  BY DEF TypeOK, BusTypeOK, CallerSteps, IoStates, AwaitStates
<1>2. Held'
  BY DEF Held, TypeOK, BusTypeOK
<1>3. Births'
  BY DEF Births, Unborn, TypeOK, BusTypeOK
<1>4. Deaths'
  BY DEF Deaths, TypeOK, BusTypeOK
<1>5. Registry'
  BY DEF Registry, Unborn, TypeOK, BusTypeOK
<1>6. Ring'
  BY DEF Ring
<1>7. Lives'
  BY DEF Lives, CloseAnnounced, ToSet
<1> QED
  BY <1>1, <1>2, <1>3, <1>4, <1>5, <1>6, <1>7

LEMMA OnKeeps ==
    ASSUME IInv, NEW type \in Listened, On(type)
    PROVE  IInv'
<1> USE LifecycleAssumption, TasksAreThreads DEF IInv, On, StartDispatch, busVars, ringVars, registryVars, flagVars, awaitVars, clientVars, ioVars, dispatchVars, waitVars, boundVars
<1>1. TypeOK'
  BY DEF TypeOK, BusTypeOK, CallerSteps, IoStates, AwaitStates
<1>2. Held'
  BY DEF Held, Lives, TypeOK, BusTypeOK
<1>3. Births'
  BY DEF Births, Unborn, TypeOK, BusTypeOK
<1>4. Deaths'
  BY DEF Deaths, TypeOK, BusTypeOK
<1>5. Registry'
  BY DEF Registry, Unborn, TypeOK, BusTypeOK
<1>6. Ring'
  BY DEF Ring
<1>7. Lives'
  BY DEF Lives, CloseAnnounced, ToSet
<1> QED
  BY <1>1, <1>2, <1>3, <1>4, <1>5, <1>6, <1>7

LEMMA OffKeeps ==
    ASSUME IInv, NEW type \in Listened, Off(type)
    PROVE  IInv'
<1> USE LifecycleAssumption, TasksAreThreads DEF IInv, Off, busVars, ringVars, registryVars, flagVars, awaitVars, clientVars, ioVars, dispatchVars, waitVars, boundVars
<1>1. TypeOK'
  BY DEF TypeOK, BusTypeOK, CallerSteps, IoStates, AwaitStates
<1>2. Held'
  BY DEF Held, TypeOK, BusTypeOK
<1>3. Births'
  BY DEF Births, Unborn, TypeOK, BusTypeOK
<1>4. Deaths'
  BY DEF Deaths, TypeOK, BusTypeOK
<1>5. Registry'
  BY DEF Registry, Unborn, TypeOK, BusTypeOK
<1>6. Ring'
  BY DEF Ring
<1>7. Lives'
  BY DEF Lives, CloseAnnounced, ToSet
<1> QED
  BY <1>1, <1>2, <1>3, <1>4, <1>5, <1>6, <1>7

LEMMA ReadyKeeps ==
    ASSUME IInv, NEW w \in Readies, Ready(w)
    PROVE  IInv'
<1> USE LifecycleAssumption, TasksAreThreads DEF IInv, Ready, StartDispatch, BeginAwait, CallerFree, Owes, Completions, busVars, ringVars, registryVars, flagVars, awaitVars, clientVars, ioVars, dispatchVars, waitVars, boundVars
<1>1. TypeOK'
  BY DEF TypeOK, BusTypeOK, CallerSteps, IoStates, AwaitStates
<1>2. Held'
  BY DEF Held, Lives, TypeOK, BusTypeOK
<1>3. Births'
  BY DEF Births, Unborn, TypeOK, BusTypeOK
<1>4. Deaths'
  BY DEF Deaths, TypeOK, BusTypeOK
<1>5. Registry'
  BY DEF Registry, Unborn, TypeOK, BusTypeOK
<1>6. Ring'
  BY DEF Ring
<1>7. Lives'
  BY DEF Lives, CloseAnnounced, ToSet
<1> QED
  BY <1>1, <1>2, <1>3, <1>4, <1>5, <1>6, <1>7

LEMMA ReadySpawnsKeeps ==
    ASSUME IInv, ReadySpawns
    PROVE  IInv'
<1> USE LifecycleAssumption, TasksAreThreads DEF IInv, ReadySpawns, Returns, Completions, busVars, ringVars, registryVars, flagVars, awaitVars, clientVars, ioVars, dispatchVars, waitVars, boundVars
<1>1. TypeOK'
  <2>1. BusTypeOK'
    BY DEF TypeOK, BusTypeOK
  <2>2. calling \in Completions /\ ready_for' \in Requests
    BY DEF TypeOK, Births, AwaitStates
  <2> QED
    BY <2>1, <2>2 DEF TypeOK, CallerSteps, IoStates
<1>2. Held'
  BY DEF Held, Lives, TypeOK, BusTypeOK
<1>3. Births'
  BY DEF Births, Unborn, TypeOK, BusTypeOK
<1>4. Deaths'
  BY DEF Deaths, TypeOK, BusTypeOK
<1>5. Registry'
  BY DEF Registry, Unborn, TypeOK, BusTypeOK
<1>6. Ring'
  BY DEF Ring
<1>7. Lives'
  BY DEF Lives, CloseAnnounced, ToSet
<1> QED
  BY <1>1, <1>2, <1>3, <1>4, <1>5, <1>6, <1>7

LEMMA CloseKeeps ==
    ASSUME IInv, NEW w \in Closes, Close(w)
    PROVE  IInv'
<1> USE LifecycleAssumption, TasksAreThreads DEF IInv, Close, CallerFree, Owes, Completions, busVars, ringVars, registryVars, flagVars, awaitVars, clientVars, ioVars, dispatchVars, waitVars, boundVars
<1>1. TypeOK'
  BY DEF TypeOK, BusTypeOK, CallerSteps, IoStates, AwaitStates
<1>2. Held'
  BY DEF Held, TypeOK, BusTypeOK
<1>3. Births'
  BY DEF Births, Unborn, TypeOK, BusTypeOK
<1>4. Deaths'
  BY DEF Deaths, TypeOK, BusTypeOK
<1>5. Registry'
  BY DEF Registry, Unborn, TypeOK, BusTypeOK
<1>6. Ring'
  BY DEF Ring
<1>7. Lives'
  BY DEF Lives, CloseAnnounced, ToSet
<1> QED
  BY <1>1, <1>2, <1>3, <1>4, <1>5, <1>6, <1>7

LEMMA CloseReadiesKeeps ==
    ASSUME IInv, CloseReadies
    PROVE  IInv'
<1> USE LifecycleAssumption, TasksAreThreads DEF IInv, CloseReadies, StartDispatch, busVars, ringVars, registryVars, flagVars, awaitVars, clientVars, ioVars, dispatchVars, waitVars, boundVars
<1>1. TypeOK'
  BY DEF TypeOK, BusTypeOK, CallerSteps, IoStates, AwaitStates
<1>2. Held'
  BY DEF Held, Lives, TypeOK, BusTypeOK
<1>3. Births'
  BY DEF Births, Unborn, TypeOK, BusTypeOK
<1>4. Deaths'
  BY DEF Deaths, TypeOK, BusTypeOK
<1>5. Registry'
  BY DEF Registry, Unborn, TypeOK, BusTypeOK
<1>6. Ring'
  BY DEF Ring
<1>7. Lives'
  BY DEF Lives, CloseAnnounced, ToSet
<1> QED
  BY <1>1, <1>2, <1>3, <1>4, <1>5, <1>6, <1>7

LEMMA CloseArmsKeeps ==
    ASSUME IInv, CloseArms
    PROVE  IInv'
<1> USE LifecycleAssumption, TasksAreThreads DEF IInv, CloseArms, BeginAwait, Completions, busVars, ringVars, registryVars, flagVars, awaitVars, clientVars, ioVars, dispatchVars, waitVars, boundVars
<1>0. \A v \in Waiters : ~Unborn(v) => ~Unborn(v)'
  BY DEF Unborn, TypeOK, Births
<1>1. TypeOK'
  <2>1. BusTypeOK'
    BY DEF TypeOK, BusTypeOK
  <2>2. await' \in [Waiters -> AwaitStates]
    BY DEF TypeOK, Births, AwaitStates
  <2> QED
    BY <2>1, <2>2 DEF TypeOK, CallerSteps, IoStates
<1>2. Held'
  BY DEF Held, TypeOK, BusTypeOK
<1>3. Births'
  BY DEF Births, Unborn, TypeOK, BusTypeOK
<1>4. Deaths'
  BY DEF Deaths, TypeOK, BusTypeOK
<1>5. Registry'
  <2>1. /\ \A arm \in live : arm.waiter \in Waiters
        /\ \A t \in Threads : \A arm \in job[t].arms : arm.waiter \in Waiters
    BY DEF TypeOK, BusTypeOK, Arms, Jobs
  <2> QED
    BY <2>1, <1>0 DEF Registry
<1>6. Ring'
  BY DEF Ring
<1>7. Lives'
  BY DEF Lives, CloseAnnounced, ToSet
<1> QED
  BY <1>1, <1>2, <1>3, <1>4, <1>5, <1>6, <1>7

LEMMA ClosePostsKeeps ==
    ASSUME IInv, ClosePosts
    PROVE  IInv'
<1> USE LifecycleAssumption, TasksAreThreads DEF IInv, ClosePosts, Completions, busVars, ringVars, registryVars, flagVars, awaitVars, clientVars, ioVars, dispatchVars, waitVars, boundVars
<1>0. /\ dying' \in [Threads -> [step : DeathSteps, intended : BOOLEAN]]
      /\ \A u \in Threads : dying'[u].step = IF u = "caller" /\ caller' = "close_reject" THEN "commit" ELSE dying[u].step
  <2>1. CASE caller' = "close_reject"
    BY <2>1, EnterDeath
  <2>2. CASE ~(caller' = "close_reject")
    BY <2>2 DEF TypeOK, BusTypeOK
  <2> QED
    BY <2>1, <2>2
<1>1. TypeOK'
  <2>1. BusTypeOK'
    BY <1>0 DEF TypeOK, BusTypeOK
  <2>2. calling \in Requests
    BY DEF Births
  <2>3. marker' \in Requests \union {NoReq}
    BY <2>2 DEF TypeOK
  <2>4. has_handle' \in BOOLEAN
    BY DEF TypeOK
  <2>5. caller' \in CallerSteps
    BY DEF CallerSteps
  <2> QED
    BY <2>1, <2>3, <2>4, <2>5 DEF TypeOK
<1>2. Held'
  BY <1>0 DEF Held
<1>3. Births'
  BY DEF Births, Unborn, TypeOK, BusTypeOK
<1>4. Deaths'
  BY <1>0 DEF Deaths
<1>5. Registry'
  BY DEF Registry, Unborn, TypeOK, BusTypeOK
<1>6. Ring'
  BY DEF Ring
<1>7. Lives'
  BY DEF Lives, CloseAnnounced, ToSet
<1> QED
  BY <1>1, <1>2, <1>3, <1>4, <1>5, <1>6, <1>7

LEMMA CloseRejectedKeeps ==
    ASSUME IInv, CloseRejected
    PROVE  IInv'
<1> USE LifecycleAssumption, TasksAreThreads DEF IInv, CloseRejected, Owes, busVars, ringVars, registryVars, flagVars, awaitVars, clientVars, ioVars, dispatchVars, waitVars, boundVars
<1>1. TypeOK'
  BY DEF TypeOK, BusTypeOK, CallerSteps, IoStates, AwaitStates
<1>2. Held'
  BY DEF Held, TypeOK, BusTypeOK
<1>3. Births'
  BY DEF Births, Unborn, TypeOK, BusTypeOK
<1>4. Deaths'
  BY DEF Deaths, TypeOK, BusTypeOK
<1>5. Registry'
  BY DEF Registry, Unborn, TypeOK, BusTypeOK
<1>6. Ring'
  BY DEF Ring
<1>7. Lives'
  BY DEF Lives, CloseAnnounced, ToSet
<1> QED
  BY <1>1, <1>2, <1>3, <1>4, <1>5, <1>6, <1>7

LEMMA DropClientKeeps ==
    ASSUME IInv, DropClient
    PROVE  IInv'
<1> USE LifecycleAssumption, TasksAreThreads DEF IInv, DropClient, CallerFree, Owes, busVars, ringVars, registryVars, flagVars, awaitVars, clientVars, ioVars, dispatchVars, waitVars, boundVars
<1>1. TypeOK'
  BY DEF TypeOK, BusTypeOK, CallerSteps, IoStates, AwaitStates
<1>2. Held'
  BY DEF Held, TypeOK, BusTypeOK
<1>3. Births'
  BY DEF Births, Unborn, TypeOK, BusTypeOK
<1>4. Deaths'
  BY DEF Deaths, TypeOK, BusTypeOK
<1>5. Registry'
  BY DEF Registry, Unborn, TypeOK, BusTypeOK
<1>6. Ring'
  BY DEF Ring
<1>7. Lives'
  BY DEF Lives, CloseAnnounced, ToSet
<1> QED
  BY <1>1, <1>2, <1>3, <1>4, <1>5, <1>6, <1>7

LEMMA DropKeeps ==
    ASSUME IInv, Drop
    PROVE  IInv'
<1> USE LifecycleAssumption, TasksAreThreads DEF IInv, Drop, busVars, ringVars, registryVars, flagVars, awaitVars, clientVars, ioVars, dispatchVars, waitVars, boundVars
<1>0. /\ dying' \in [Threads -> [step : DeathSteps, intended : BOOLEAN]]
      /\ \A u \in Threads : dying'[u].step = IF u = "caller" /\ has_handle THEN "commit" ELSE dying[u].step
  <2>1. CASE has_handle
    BY <2>1, EnterDeath
  <2>2. CASE ~(has_handle)
    BY <2>2 DEF TypeOK, BusTypeOK
  <2> QED
    BY <2>1, <2>2
<1>1. TypeOK'
  <2>1. BusTypeOK'
    BY <1>0 DEF TypeOK, BusTypeOK
  <2>2. has_handle' \in BOOLEAN
    BY DEF TypeOK
  <2>3. io_abort' \in BOOLEAN
    BY DEF TypeOK
  <2> QED
    BY <2>1, <2>2, <2>3 DEF TypeOK, CallerSteps
<1>2. Held'
  BY <1>0 DEF Held
<1>3. Births'
  BY DEF Births, Unborn, TypeOK, BusTypeOK
<1>4. Deaths'
  BY <1>0 DEF Deaths
<1>5. Registry'
  BY DEF Registry, Unborn, TypeOK, BusTypeOK
<1>6. Ring'
  BY DEF Ring
<1>7. Lives'
  BY DEF Lives, CloseAnnounced, ToSet
<1> QED
  BY <1>1, <1>2, <1>3, <1>4, <1>5, <1>6, <1>7

LEMMA IoTakesMarkerKeeps ==
    ASSUME IInv, IoTakesMarker
    PROVE  IInv'
<1> USE LifecycleAssumption, TasksAreThreads DEF IInv, IoTakesMarker, busVars, ringVars, registryVars, flagVars, awaitVars, clientVars, ioVars, dispatchVars, waitVars, boundVars
<1>1. TypeOK'
  BY DEF TypeOK, BusTypeOK, CallerSteps, IoStates, AwaitStates
<1>2. Held'
  BY DEF Held, TypeOK, BusTypeOK
<1>3. Births'
  BY DEF Births, Unborn, TypeOK, BusTypeOK
<1>4. Deaths'
  BY DEF Deaths, TypeOK, BusTypeOK
<1>5. Registry'
  BY DEF Registry, Unborn, TypeOK, BusTypeOK
<1>6. Ring'
  BY DEF Ring
<1>7. Lives'
  BY DEF Lives, CloseAnnounced, ToSet
<1> QED
  BY <1>1, <1>2, <1>3, <1>4, <1>5, <1>6, <1>7

LEMMA ConnectionsCloseKeeps ==
    ASSUME IInv, ConnectionsClose
    PROVE  IInv'
<1> USE LifecycleAssumption, TasksAreThreads DEF IInv, ConnectionsClose, busVars, ringVars, registryVars, flagVars, awaitVars, clientVars, ioVars, dispatchVars, waitVars, boundVars
<1>1. TypeOK'
  BY DEF TypeOK, BusTypeOK, CallerSteps, IoStates, AwaitStates
<1>2. Held'
  BY DEF Held, TypeOK, BusTypeOK
<1>3. Births'
  BY DEF Births, Unborn, TypeOK, BusTypeOK
<1>4. Deaths'
  BY DEF Deaths, TypeOK, BusTypeOK
<1>5. Registry'
  BY DEF Registry, Unborn, TypeOK, BusTypeOK
<1>6. Ring'
  BY DEF Ring
<1>7. Lives'
  BY DEF Lives, CloseAnnounced, ToSet
<1> QED
  BY <1>1, <1>2, <1>3, <1>4, <1>5, <1>6, <1>7

LEMMA IoExitsKeeps ==
    ASSUME IInv, IoExits
    PROVE  IInv'
<1> USE LifecycleAssumption, TasksAreThreads DEF IInv, IoExits, busVars, ringVars, registryVars, flagVars, awaitVars, clientVars, ioVars, dispatchVars, waitVars, boundVars
<1>1. TypeOK'
  BY DEF TypeOK, BusTypeOK, CallerSteps, IoStates, AwaitStates
<1>2. Held'
  BY DEF Held, TypeOK, BusTypeOK
<1>3. Births'
  BY DEF Births, Unborn, TypeOK, BusTypeOK
<1>4. Deaths'
  BY DEF Deaths, TypeOK, BusTypeOK
<1>5. Registry'
  BY DEF Registry, Unborn, TypeOK, BusTypeOK
<1>6. Ring'
  BY DEF Ring
<1>7. Lives'
  BY DEF Lives, CloseAnnounced, ToSet
<1> QED
  BY <1>1, <1>2, <1>3, <1>4, <1>5, <1>6, <1>7

LEMMA IoDiesKeeps ==
    ASSUME IInv, IoDies
    PROVE  IInv'
<1> USE LifecycleAssumption, TasksAreThreads DEF IInv, IoDies, busVars, ringVars, registryVars, flagVars, awaitVars, clientVars, ioVars, dispatchVars, waitVars, boundVars
<1>0. /\ dying' \in [Threads -> [step : DeathSteps, intended : BOOLEAN]]
      /\ \A u \in Threads : dying'[u].step = IF u = "io" /\ io # "spawned" THEN "commit" ELSE dying[u].step
  <2>1. CASE io # "spawned"
    BY <2>1, EnterDeath
  <2>2. CASE ~(io # "spawned")
    BY <2>2 DEF TypeOK, BusTypeOK
  <2> QED
    BY <2>1, <2>2
<1>1. TypeOK'
  <2>1. BusTypeOK'
    BY <1>0 DEF TypeOK, BusTypeOK
  <2> QED
    BY <2>1 DEF TypeOK, Births, CallerSteps, IoStates
<1>2. Held'
  BY <1>0 DEF Held
<1>3. Births'
  BY DEF Births, Unborn, TypeOK, BusTypeOK
<1>4. Deaths'
  BY <1>0 DEF Deaths
<1>5. Registry'
  BY DEF Registry, Unborn, TypeOK, BusTypeOK
<1>6. Ring'
  BY DEF Ring
<1>7. Lives'
  BY DEF Lives, CloseAnnounced, ToSet
<1> QED
  BY <1>1, <1>2, <1>3, <1>4, <1>5, <1>6, <1>7

LEMMA DispatchExitsKeeps ==
    ASSUME IInv, DispatchExits
    PROVE  IInv'
<1> USE LifecycleAssumption, TasksAreThreads DEF IInv, DispatchExits, RingEnds, busVars, ringVars, registryVars, flagVars, awaitVars, clientVars, ioVars, dispatchVars, waitVars, boundVars
<1>1. TypeOK'
  BY DEF TypeOK, BusTypeOK, CallerSteps, IoStates, AwaitStates
<1>2. Held'
  BY DEF Held, TypeOK, BusTypeOK
<1>3. Births'
  BY DEF Births, Unborn, TypeOK, BusTypeOK
<1>4. Deaths'
  BY DEF Deaths, TypeOK, BusTypeOK
<1>5. Registry'
  BY DEF Registry, Unborn, TypeOK, BusTypeOK
<1>6. Ring'
  BY DEF Ring
<1>7. Lives'
  BY DEF Lives, CloseAnnounced, ToSet
<1> QED
  BY <1>1, <1>2, <1>3, <1>4, <1>5, <1>6, <1>7

LEMMA DispatchDiesKeeps ==
    ASSUME IInv, DispatchDies
    PROVE  IInv'
<1> USE LifecycleAssumption, TasksAreThreads DEF IInv, DispatchDies, busVars, ringVars, registryVars, flagVars, awaitVars, clientVars, ioVars, dispatchVars, waitVars, boundVars
<1>0. /\ dying' \in [Threads -> [step : DeathSteps, intended : BOOLEAN]]
      /\ \A u \in Threads : dying'[u].step = IF u = "dispatch" /\ TRUE THEN "commit" ELSE dying[u].step
  <2>1. CASE TRUE
    BY <2>1, EnterDeath
  <2>2. CASE ~(TRUE)
    BY <2>2 DEF TypeOK, BusTypeOK
  <2> QED
    BY <2>1, <2>2
<1>1. TypeOK'
  <2>1. BusTypeOK'
    BY <1>0 DEF TypeOK, BusTypeOK
  <2> QED
    BY <2>1 DEF TypeOK, Births, CallerSteps, IoStates
<1>2. Held'
  BY <1>0 DEF Held
<1>3. Births'
  BY DEF Births, Unborn, TypeOK, BusTypeOK
<1>4. Deaths'
  BY <1>0 DEF Deaths
<1>5. Registry'
  BY DEF Registry, Unborn, TypeOK, BusTypeOK
<1>6. Ring'
  BY DEF Ring
<1>7. Lives'
  BY DEF Lives, CloseAnnounced, ToSet
<1> QED
  BY <1>1, <1>2, <1>3, <1>4, <1>5, <1>6, <1>7

-----------------------------------------------------------------------------
(* Steps that deliver a completion.                                        *)

\* A delivery is the job of the thread that makes it.
LEMMA DeliverFrame ==
    ASSUME RegistryTypes, NEW t \in Threads, NEW event, DeliverCorrelated(t, event)
    PROVE  UNCHANGED <<death_committed, death_purged>> /\ \A u \in Threads \ {t} : job'[u] = job[u]
BY DEF DeliverCorrelated, Capture, RegistryTypes

LEMMA ReadyAnswersKeeps ==
    ASSUME IInv, ReadyAnswers
    PROVE  IInv'
<1> USE LifecycleAssumption, TasksAreThreads DEF IInv
<1> DEFINE event == Event(IF loop_death_observed THEN "ClientFailed" ELSE "ClientReady", calling)
<1>1. event \in Items /\ (event.type \in IncidentTypes => death_committed)
  BY DEF ReadyAnswers, TypeOK, Births, Deaths, Completions, Event, Items, EventTypes, IncidentTypes, CompletionTypes
<1>2. RegistryTypes /\ DeliverCorrelated("caller", event) /\ UNCHANGED <<await, late>>
  BY DEF ReadyAnswers, TypeOK, BusTypeOK, RegistryTypes, waitVars
<1> HIDE DEF event
<1>3. RegistryTypes' /\ Registry'
  BY <1>1, <1>2, DeliverKeeps
<1>4. UNCHANGED <<death_committed, death_purged>> /\ \A u \in Threads \ {"caller"} : job'[u] = job[u]
  BY <1>2, DeliverFrame
<1> USE DEF ReadyAnswers, Returns, busVars, ringVars, registryVars, flagVars, awaitVars, clientVars, ioVars, dispatchVars, waitVars, boundVars
<1>5. TypeOK'
  <2>1. BusTypeOK'
    BY <1>3, <1>4 DEF TypeOK, BusTypeOK, RegistryTypes
  <2> QED
    BY <2>1 DEF TypeOK, CallerSteps, IoStates
<1>6. Held'
  BY <1>4 DEF Held
<1>7. Births'
  BY DEF Births, Unborn
<1>8. Deaths'
  BY <1>4 DEF Deaths
<1>9. Ring'
  BY DEF Ring
<1>10. Lives'
  BY DEF Lives, CloseAnnounced, ToSet
<1> QED
  BY <1>3, <1>5, <1>6, <1>7, <1>8, <1>9, <1>10

LEMMA IoStartsKeeps ==
    ASSUME IInv, IoStarts
    PROVE  IInv'
<1> USE LifecycleAssumption, TasksAreThreads DEF IInv
<1> DEFINE event == Event("ClientReady", ready_for)
<1>1. event \in Items /\ (event.type \in IncidentTypes => death_committed)
  BY DEF IoStarts, TypeOK, Event, Items, EventTypes, IncidentTypes, CompletionTypes
<1>2. RegistryTypes /\ DeliverCorrelated("io", event) /\ UNCHANGED <<await, late>>
  BY DEF IoStarts, TypeOK, BusTypeOK, RegistryTypes, waitVars
<1> HIDE DEF event
<1>3. RegistryTypes' /\ Registry'
  BY <1>1, <1>2, DeliverKeeps
<1>4. UNCHANGED <<death_committed, death_purged>> /\ \A u \in Threads \ {"io"} : job'[u] = job[u]
  BY <1>2, DeliverFrame
<1> USE DEF IoStarts, busVars, ringVars, registryVars, flagVars, awaitVars, clientVars, ioVars, dispatchVars, waitVars, boundVars
<1>5. TypeOK'
  <2>1. BusTypeOK'
    BY <1>3, <1>4 DEF TypeOK, BusTypeOK, RegistryTypes
  <2> QED
    BY <2>1 DEF TypeOK, CallerSteps, IoStates
<1>6. Held'
  BY <1>4 DEF Held
<1>7. Births'
  BY DEF Births, Unborn
<1>8. Deaths'
  BY <1>4 DEF Deaths
<1>9. Ring'
  BY DEF Ring
<1>10. Lives'
  BY DEF Lives, CloseAnnounced, ToSet
<1> QED
  BY <1>3, <1>5, <1>6, <1>7, <1>8, <1>9, <1>10

LEMMA IoClosesKeeps ==
    ASSUME IInv, IoCloses
    PROVE  IInv'
<1> USE LifecycleAssumption, TasksAreThreads DEF IInv
<1> DEFINE event == Event("ClientClosedEvent", marker)
<1>1. event \in Items /\ (event.type \in IncidentTypes => death_committed)
  BY DEF IoCloses, TypeOK, Event, Items, EventTypes, IncidentTypes, CompletionTypes
<1>2. RegistryTypes /\ DeliverCorrelated("io", event) /\ UNCHANGED <<await, late>>
  BY DEF IoCloses, TypeOK, BusTypeOK, RegistryTypes, waitVars
<1> HIDE DEF event
<1>3. RegistryTypes' /\ Registry'
  BY <1>1, <1>2, DeliverKeeps
<1>4. UNCHANGED <<death_committed, death_purged>> /\ \A u \in Threads \ {"io"} : job'[u] = job[u]
  BY <1>2, DeliverFrame
<1> USE DEF IoCloses, busVars, ringVars, registryVars, flagVars, awaitVars, clientVars, ioVars, dispatchVars, waitVars, boundVars
<1>5. TypeOK'
  <2>1. BusTypeOK'
    BY <1>3, <1>4 DEF TypeOK, BusTypeOK, RegistryTypes
  <2> QED
    BY <2>1 DEF TypeOK, CallerSteps, IoStates
<1>6. Held'
  BY <1>4 DEF Held
<1>7. Births'
  BY DEF Births, Unborn
<1>8. Deaths'
  BY <1>4 DEF Deaths
<1>9. Ring'
  BY DEF Ring
<1>10. Lives'
  BY DEF Lives, CloseAnnounced, ToSet
<1> QED
  BY <1>3, <1>5, <1>6, <1>7, <1>8, <1>9, <1>10

LEMMA CorrelateKeeps ==
    ASSUME IInv, Correlate
    PROVE  IInv'
<1> USE LifecycleAssumption, TasksAreThreads DEF IInv
<1> DEFINE event == current
<1>1. event \in Items /\ (event.type \in IncidentTypes => death_committed)
  BY DEF Correlate, TypeOK, Ring, Event, Items, EventTypes, IncidentTypes, CompletionTypes
<1>2. RegistryTypes /\ DeliverCorrelated("dispatch", event) /\ UNCHANGED <<await, late>>
  BY DEF Correlate, TypeOK, BusTypeOK, RegistryTypes, waitVars
<1> HIDE DEF event
<1>3. RegistryTypes' /\ Registry'
  BY <1>1, <1>2, DeliverKeeps
<1>4. UNCHANGED <<death_committed, death_purged>> /\ \A u \in Threads \ {"dispatch"} : job'[u] = job[u]
  BY <1>2, DeliverFrame
<1> USE DEF Correlate, busVars, ringVars, registryVars, flagVars, awaitVars, clientVars, ioVars, dispatchVars, waitVars, boundVars
<1>5. TypeOK'
  <2>1. BusTypeOK'
    BY <1>3, <1>4 DEF TypeOK, BusTypeOK, RegistryTypes
  <2> QED
    BY <2>1 DEF TypeOK, CallerSteps, IoStates
<1>6. Held'
  BY <1>4 DEF Held
<1>7. Births'
  BY DEF Births, Unborn
<1>8. Deaths'
  BY <1>4 DEF Deaths
<1>9. Ring'
  BY DEF Ring
<1>10. Lives'
  BY DEF Lives, CloseAnnounced, ToSet
<1> QED
  BY <1>3, <1>5, <1>6, <1>7, <1>8, <1>9, <1>10

-----------------------------------------------------------------------------
(* Steps that put something onto the ring or take something off it.        *)

LEMMA SetKnobKeeps ==
    ASSUME IInv, SetKnob
    PROVE  IInv'
<1> USE LifecycleAssumption, TasksAreThreads DEF IInv
<1> DEFINE pushed == Broadcast("ConfigChangedEvent")
<1>1. pushed \in Items /\ (pushed.req # NoReq => pushed.type \notin IncidentTypes) /\ pushed # Closed
  BY DEF Closed, Broadcast, Event, Items, EventTypes, IncidentTypes, CompletionTypes
<1>2. RingTypes /\ Publish(pushed)
  BY DEF SetKnob, TypeOK, BusTypeOK, Ring, RingTypes, Closed
<1> HIDE DEF pushed
<1>3. RingTypes' /\ (Closed \in ToSet(io_to_dispatch)' => Closed \in ToSet(io_to_dispatch))
  BY <1>1, <1>2, PublishKeeps
<1> USE DEF SetKnob, busVars, ringVars, registryVars, flagVars, awaitVars, clientVars, ioVars, dispatchVars, waitVars, boundVars
<1>4. TypeOK'
  <2>1. BusTypeOK'
    BY <1>3 DEF TypeOK, BusTypeOK, RingTypes
  <2> QED
    BY <2>1 DEF TypeOK, IoStates
<1>5. Held'
  BY DEF Held
<1>6. Births'
  BY DEF Births, Unborn
<1>7. Deaths'
  BY DEF Deaths
<1>8. Registry'
  BY DEF Registry, Unborn
<1>9. Ring'
  BY <1>3 DEF Ring, RingTypes
<1>10. Lives'
  BY <1>3 DEF Lives, CloseAnnounced, Closed
<1> QED
  BY <1>4, <1>5, <1>6, <1>7, <1>8, <1>9, <1>10

LEMMA DeadmanFailsKeeps ==
    ASSUME IInv, DeadmanFails
    PROVE  IInv'
<1> USE LifecycleAssumption, TasksAreThreads DEF IInv
<1> DEFINE pushed == Broadcast("DeadmanDisarmFailedEvent")
<1>1. pushed \in Items /\ (pushed.req # NoReq => pushed.type \notin IncidentTypes) /\ pushed # Closed
  BY DEF Closed, Broadcast, Event, Items, EventTypes, IncidentTypes, CompletionTypes
<1>2. RingTypes /\ Publish(pushed)
  BY DEF DeadmanFails, TypeOK, BusTypeOK, Ring, RingTypes, Closed
<1> HIDE DEF pushed
<1>3. RingTypes' /\ (Closed \in ToSet(io_to_dispatch)' => Closed \in ToSet(io_to_dispatch))
  BY <1>1, <1>2, PublishKeeps
<1> USE DEF DeadmanFails, busVars, ringVars, registryVars, flagVars, awaitVars, clientVars, ioVars, dispatchVars, waitVars, boundVars
<1>4. TypeOK'
  <2>1. BusTypeOK'
    BY <1>3 DEF TypeOK, BusTypeOK, RingTypes
  <2> QED
    BY <2>1 DEF TypeOK, IoStates
<1>5. Held'
  BY DEF Held
<1>6. Births'
  BY DEF Births, Unborn
<1>7. Deaths'
  BY DEF Deaths
<1>8. Registry'
  BY DEF Registry, Unborn
<1>9. Ring'
  BY <1>3 DEF Ring, RingTypes
<1>10. Lives'
  BY <1>3 DEF Lives, CloseAnnounced, Closed
<1> QED
  BY <1>4, <1>5, <1>6, <1>7, <1>8, <1>9, <1>10

LEMMA IoAnnouncesKeeps ==
    ASSUME IInv, IoAnnounces
    PROVE  IInv'
<1> USE LifecycleAssumption, TasksAreThreads DEF IInv
<1> DEFINE pushed == Broadcast("ClientReady")
<1>1. pushed \in Items /\ (pushed.req # NoReq => pushed.type \notin IncidentTypes) /\ pushed # Closed
  BY DEF Closed, Broadcast, Event, Items, EventTypes, IncidentTypes, CompletionTypes
<1>2. RingTypes /\ Publish(pushed)
  BY DEF IoAnnounces, TypeOK, BusTypeOK, Ring, RingTypes, Closed
<1> HIDE DEF pushed
<1>3. RingTypes' /\ (Closed \in ToSet(io_to_dispatch)' => Closed \in ToSet(io_to_dispatch))
  BY <1>1, <1>2, PublishKeeps
<1> USE DEF IoAnnounces, IoIdle, Owes, busVars, ringVars, registryVars, flagVars, awaitVars, clientVars, ioVars, dispatchVars, waitVars, boundVars
<1>4. TypeOK'
  <2>1. BusTypeOK'
    BY <1>3 DEF TypeOK, BusTypeOK, RingTypes
  <2> QED
    BY <2>1 DEF TypeOK, IoStates
<1>5. Held'
  BY DEF Held
<1>6. Births'
  BY DEF Births, Unborn
<1>7. Deaths'
  BY DEF Deaths
<1>8. Registry'
  BY DEF Registry, Unborn
<1>9. Ring'
  BY <1>3 DEF Ring, RingTypes
<1>10. Lives'
  BY <1>3 DEF Lives, CloseAnnounced, Closed
<1> QED
  BY <1>4, <1>5, <1>6, <1>7, <1>8, <1>9, <1>10

LEMMA IoPublishesKeeps ==
    ASSUME IInv, NEW item \in {Broadcast("Data"), Event("SubscriptionTerminatedEvent", "sub")}, IoPublishes(item)
    PROVE  IInv'
<1> USE LifecycleAssumption, TasksAreThreads DEF IInv
<1> DEFINE pushed == item
<1>1. pushed \in Items /\ (pushed.req # NoReq => pushed.type \notin IncidentTypes) /\ pushed # Closed
  BY DEF Closed, Broadcast, Event, Items, EventTypes, IncidentTypes, CompletionTypes
<1>2. RingTypes /\ Publish(pushed)
  BY DEF IoPublishes, TypeOK, BusTypeOK, Ring, RingTypes, Closed
<1> HIDE DEF pushed
<1>3. RingTypes' /\ (Closed \in ToSet(io_to_dispatch)' => Closed \in ToSet(io_to_dispatch))
  BY <1>1, <1>2, PublishKeeps
<1> USE DEF IoPublishes, busVars, ringVars, registryVars, flagVars, awaitVars, clientVars, ioVars, dispatchVars, waitVars, boundVars
<1>4. TypeOK'
  <2>1. BusTypeOK'
    BY <1>3 DEF TypeOK, BusTypeOK, RingTypes
  <2> QED
    BY <2>1 DEF TypeOK, IoStates
<1>5. Held'
  BY DEF Held
<1>6. Births'
  BY DEF Births, Unborn
<1>7. Deaths'
  BY DEF Deaths
<1>8. Registry'
  BY DEF Registry, Unborn
<1>9. Ring'
  BY <1>3 DEF Ring, RingTypes
<1>10. Lives'
  BY <1>3 DEF Lives, CloseAnnounced, Closed
<1> QED
  BY <1>4, <1>5, <1>6, <1>7, <1>8, <1>9, <1>10

LEMMA IoShutsDispatchKeeps ==
    ASSUME IInv, IoShutsDispatch
    PROVE  IInv'
<1> USE LifecycleAssumption, TasksAreThreads DEF IInv
<1> DEFINE pushed == Closed
<1>1. pushed \in Items /\ (pushed.req # NoReq => pushed.type \notin IncidentTypes)
  BY DEF Closed, Broadcast, Event, Items, EventTypes, IncidentTypes, CompletionTypes
<1>2. RingTypes /\ Publish(pushed)
  BY DEF IoShutsDispatch, TypeOK, BusTypeOK, Ring, RingTypes, Closed
<1> HIDE DEF pushed
<1>3. RingTypes'
  BY <1>1, <1>2, PublishKeeps
<1> USE DEF IoShutsDispatch, IoIdle, Owes, busVars, ringVars, registryVars, flagVars, awaitVars, clientVars, ioVars, dispatchVars, waitVars, boundVars
<1>4. TypeOK'
  <2>1. BusTypeOK'
    BY <1>3 DEF TypeOK, BusTypeOK, RingTypes
  <2> QED
    BY <2>1 DEF TypeOK, IoStates
<1>5. Held'
  BY DEF Held
<1>6. Births'
  BY DEF Births, Unborn
<1>7. Deaths'
  BY DEF Deaths
<1>8. Registry'
  BY DEF Registry, Unborn
<1>9. Ring'
  BY <1>3 DEF Ring, RingTypes
<1>10. Lives'
  BY <1>3 DEF Lives, CloseAnnounced, Closed
<1> QED
  BY <1>4, <1>5, <1>6, <1>7, <1>8, <1>9, <1>10

LEMMA DequeueKeeps ==
    ASSUME IInv, Dequeue
    PROVE  IInv'
<1> USE LifecycleAssumption, TasksAreThreads DEF IInv
<1> DEFINE sample == Broadcast("QueueDepthSample")
           item == Head(io_to_dispatch)
           rest == Tail(io_to_dispatch)
<1>1. io_to_dispatch \in Seq(Items) /\ Len(io_to_dispatch) <= RingCap /\ io_to_dispatch # <<>>
  BY DEF TypeOK, BusTypeOK, Dequeue
<1>2. item \in Items /\ (item.req # NoReq => item.type \notin IncidentTypes)
  BY <1>1 DEF Ring
<1>3. /\ rest \in Seq(Items) /\ Len(rest) = Len(io_to_dispatch) - 1 /\ Len(io_to_dispatch) \in Nat \ {0}
      /\ \A i \in 1..(Len(io_to_dispatch) - 1) : rest[i] = io_to_dispatch[i + 1] /\ i + 1 \in DOMAIN io_to_dispatch
  BY <1>1
<1>4. sample \in Items /\ sample.req = NoReq
  BY BroadcastType DEF EventTypes, ObservabilityTypes
<1>5. io_to_dispatch' \in {rest, Append(rest, sample)} /\ current' = item
  BY DEF Dequeue
<1>6. dispatch = "running" /\ dispatch' = (IF item.req # NoReq THEN "correlate" ELSE "broadcast")
  BY DEF Dequeue
<1> HIDE DEF sample, item, rest
<1>7. \A i \in DOMAIN rest : rest[i].req # NoReq => rest[i].type \notin IncidentTypes
  BY <1>3 DEF Ring
<1>8. RingTypes'
  <2>1. RingCap \in Nat
    BY BusAssumption
  <2>2. CASE io_to_dispatch' = rest
    BY <2>1, <2>2, <1>1, <1>3, <1>7 DEF RingTypes
  <2>3. CASE io_to_dispatch' = Append(rest, sample)
    <3>1. /\ Append(rest, sample) \in Seq(Items) /\ Len(Append(rest, sample)) = Len(rest) + 1
          /\ \A i \in DOMAIN Append(rest, sample) : i \in DOMAIN rest \/ i = Len(rest) + 1
          /\ \A i \in DOMAIN rest : Append(rest, sample)[i] = rest[i]
          /\ Append(rest, sample)[Len(rest) + 1] = sample
      BY <1>3, <1>4
    <3>2. \A i \in DOMAIN Append(rest, sample) :
              Append(rest, sample)[i].req # NoReq => Append(rest, sample)[i].type \notin IncidentTypes
      BY <3>1, <1>4, <1>7
    <3> QED
      BY <2>1, <2>3, <3>1, <3>2, <1>1, <1>3 DEF RingTypes
  <2> QED
    BY <2>2, <2>3, <1>5
<1> USE DEF busVars, ringVars, registryVars, flagVars, awaitVars, clientVars, ioVars, dispatchVars, waitVars, boundVars
<1>9. TypeOK'
  <2>1. BusTypeOK'
    BY <1>8 DEF TypeOK, BusTypeOK, RingTypes, Dequeue
  <2>2. extras' \in Nat
    BY DEF TypeOK, Dequeue
  <2> QED
    BY <2>1, <2>2, <1>2, <1>5, <1>6 DEF TypeOK, Dequeue
<1>10. Held'
  BY <1>6 DEF Held, Dequeue
<1>11. Births'
  BY DEF Births, Unborn, Dequeue
<1>12. Deaths'
  BY DEF Deaths, Dequeue
<1>13. Registry'
  BY DEF Registry, Unborn, Dequeue
<1>14. Ring'
  BY <1>2, <1>5, <1>6, <1>8 DEF Ring, RingTypes
<1>15. Lives'
  BY <1>6 DEF Lives, CloseAnnounced, Dequeue
<1> QED
  BY <1>9, <1>10, <1>11, <1>12, <1>13, <1>14, <1>15

\* The reports about a callback are events for the listeners, never the close.
LEMMA ReportsType ==
    ASSUME NEW type, NEW reports \in CallbackReports(type)
    PROVE  /\ reports \in Seq(Items)
           /\ \A j \in DOMAIN reports : reports[j].req = NoReq /\ reports[j] # Closed
<1> DEFINE a == Broadcast("CallbackLatency")
           b == Broadcast("SlowCallbackWarning")
           c == Broadcast("HandlerPanicWarning")
<1>1. a \in Items /\ b \in Items /\ c \in Items
  BY BroadcastType DEF EventTypes, ObservabilityTypes
<1>2. a.req = NoReq /\ b.req = NoReq /\ c.req = NoReq /\ a # Closed /\ b # Closed /\ c # Closed
  BY DEF Broadcast, Event, Closed
<1> HIDE DEF a, b, c
<1>3. reports \in {<<>>, <<a>>, Append(<<>>, b), Append(<<a>>, b), <<c>>}
  BY DEF CallbackReports, a, b, c
<1> DEFINE Sound(s) == s \in Seq(Items) /\ \A j \in DOMAIN s : s[j].req = NoReq /\ s[j] # Closed
<1>4. Sound(<<>>)
  OBVIOUS
<1>5. ASSUME NEW x \in {a, c} PROVE Sound(<<x>>)
  <2>1. <<x>> \in Seq(Items) /\ DOMAIN <<x>> = {1} /\ <<x>>[1] = x
    BY <1>1
  <2> QED
    BY <2>1, <1>2
<1>6. ASSUME NEW s, Sound(s) PROVE Sound(Append(s, b))
  <2>1. /\ Append(s, b) \in Seq(Items)
        /\ \A j \in DOMAIN Append(s, b) : j \in DOMAIN s \/ j = Len(s) + 1
        /\ \A j \in DOMAIN s : Append(s, b)[j] = s[j]
        /\ Append(s, b)[Len(s) + 1] = b
    BY <1>1, <1>6
  <2> QED
    BY <2>1, <1>2, <1>6
<1> HIDE DEF Sound
<1>7. Sound(reports)
  BY <1>3, <1>4, <1>5, <1>6
<1> QED
  BY <1>7 DEF Sound

LEMMA CallSubscribersKeeps ==
    ASSUME IInv, CallSubscribers
    PROVE  IInv'
<1> USE LifecycleAssumption, TasksAreThreads DEF IInv
<1>1. RingTypes
  BY DEF TypeOK, BusTypeOK, Ring, RingTypes
<1>2. RingTypes' /\ (Closed \in ToSet(io_to_dispatch)' => Closed \in ToSet(io_to_dispatch))
  <2>1. CASE UNCHANGED io_to_dispatch
    BY <2>1, <1>1 DEF RingTypes, ToSet
  <2>2. CASE \E reports \in CallbackReports(current.type) : PushAll(reports)
    <3>1. PICK reports \in CallbackReports(current.type) : PushAll(reports)
      BY <2>2
    <3>2. /\ reports \in Seq(Items)
          /\ \A j \in DOMAIN reports : reports[j].req = NoReq /\ reports[j] # Closed
      BY ReportsType
    <3> QED
      BY <3>1, <3>2, <1>1, PushAllKeeps
  <2> QED
    BY <2>1, <2>2 DEF CallSubscribers
<1> USE DEF CallSubscribers, Owes, busVars, ringVars, registryVars, flagVars, awaitVars, clientVars, ioVars, dispatchVars, waitVars, boundVars
<1>4. TypeOK'
  <2>1. BusTypeOK'
    BY <1>2 DEF TypeOK, BusTypeOK, RingTypes
  <2> QED
    BY <2>1 DEF TypeOK
<1>5. Held'
  BY DEF Held
<1>6. Births'
  BY DEF Births, Unborn
<1>7. Deaths'
  BY DEF Deaths
<1>8. Registry'
  BY DEF Registry, Unborn
<1>9. Ring'
  BY <1>2 DEF Ring, RingTypes
<1>10. Lives'
  BY <1>2 DEF Lives, CloseAnnounced, Closed
<1> QED
  BY <1>4, <1>5, <1>6, <1>7, <1>8, <1>9, <1>10

-----------------------------------------------------------------------------
(* An await is armed and released.                                         *)

LEMMA ArmKeeps ==
    ASSUME IInv, NEW w \in Waiters, Arm(w)
    PROVE  IInv'
<1> USE LifecycleAssumption, TasksAreThreads DEF IInv
<1>1. await[w] = "arm" /\ Unborn(w) /\ observes[w] \in Requests /\ outcome[w] = "none" /\ inbox[w] = Empty /\ w \notin late
  BY DEF Arm, Births, Unborn
<1>2. SuccessType(observes[w]) \in EventTypes
  BY DEF SuccessType, EventTypes, CompletionTypes
<1>3. RegistryTypes /\ SubscribeCorrelated(w, SuccessType(observes[w]), observes[w])
  BY DEF Arm, TypeOK, BusTypeOK, RegistryTypes
<1>4. UNCHANGED <<io_to_dispatch, ring_closed, subscribers, death_committed, death_purged, loop_death_observed,
                  loop_failed, shutting_down, dispatch_state, inbox, dying, caller, calling, has_handle, io,
                  io_abort, ready_for, marker, conns_closed, dispatch, dispatch_abort, current, observes,
                  handle_taken, outcome, faults, extras>>
  BY DEF Arm, ringVars, flagVars, clientVars, ioVars, dispatchVars, boundVars
<1>5. await' \in [Waiters -> AwaitStates] /\ await'[w] \in {"arm_fault", "armed"}
      /\ \A v \in Waiters \ {w} : await'[v] = await[v]
  BY DEF Arm, TypeOK, AwaitStates
<1>6. cell' \in [Waiters -> BOOLEAN] /\ cell'[w] = TRUE /\ \A v \in Waiters \ {w} : cell'[v] = cell[v]
  BY DEF Arm, TypeOK, BusTypeOK
<1>7. late' = IF death_purged THEN late \union {w} ELSE late
  BY DEF Arm
<1>8. RegistryTypes' /\ Registry'
  <2>1. ~Unborn(w)' /\ \A v \in Waiters : ~Unborn(v) => ~Unborn(v)'
    BY <1>5 DEF Unborn
  <2>2. late' \subseteq late \union {w} /\ (w \in late' => death_purged /\ (w \in late \/ Unborn(w)))
    BY <1>1, <1>7
  <2> QED
    BY <1>1, <1>2, <1>3, <1>4, <2>1, <2>2, SubscribeKeeps
<1>9. \A u \in Threads \ {w} : job'[u] = job[u]
  BY <1>3 DEF SubscribeCorrelated, RegistryTypes
<1>10. TypeOK'
  <2>1. BusTypeOK'
    BY <1>4, <1>6, <1>8 DEF TypeOK, BusTypeOK, RegistryTypes
  <2>2. late' \subseteq Waiters
    BY <1>7 DEF TypeOK
  <2> QED
    BY <2>1, <2>2, <1>4, <1>5 DEF TypeOK
<1>11. Held'
  BY <1>4, <1>5, <1>9 DEF Held
<1>12. Births'
  <2>1. ASSUME NEW v \in Waiters
        PROVE  /\ await'[v] \notin {"unused", "idle"} => observes'[v] \in Requests
               /\ Unborn(v)' => inbox'[v] = Empty /\ ~cell'[v] /\ v \notin late'
               /\ await'[v] \in {"unused", "idle", "arm", "arm_fault", "armed", "parked"} => outcome'[v] = "none"
               /\ inbox'[v] = Dropped <=> await'[v] = "dropped"
               /\ cell'[v] => outcome'[v] = "none" /\ inbox'[v] \in {Empty, Dropped}
    <3>1. CASE v = w
      BY <3>1, <1>1, <1>4, <1>5, EmptyFacts DEF Unborn
    <3>2. CASE v # w
      BY <3>2, <1>4, <1>5, <1>6, <1>7 DEF Births, Unborn
    <3> QED
      BY <3>1, <3>2
  <2>2. caller' \in {"close_ready", "close_arm"} => await'[calling'] = "idle"
    BY <1>1, <1>4, <1>5 DEF Births
  <2> QED
    BY <2>1, <2>2, <1>4 DEF Births
<1>13. Deaths'
  BY <1>1, <1>4, <1>7 DEF Deaths
<1>14. Ring' /\ Lives'
  BY <1>4 DEF Ring, Lives, CloseAnnounced
<1> QED
  BY <1>8, <1>10, <1>11, <1>12, <1>13, <1>14

LEMMA ArmFaultKeeps ==
    ASSUME IInv, NEW w \in Waiters, ArmFault(w)
    PROVE  IInv'
<1> USE LifecycleAssumption, TasksAreThreads DEF IInv
<1>1. await[w] = "arm_fault" /\ ~Unborn(w) /\ observes[w] \in Requests /\ outcome[w] = "none" /\ inbox[w] # Dropped
  BY DEF ArmFault, Births, Unborn
<1>2. "ClientFailed" \in EventTypes
  BY DEF EventTypes, IncidentTypes
<1>3. RegistryTypes /\ SubscribeCorrelated(w, "ClientFailed", observes[w])
  BY DEF ArmFault, TypeOK, BusTypeOK, RegistryTypes
<1>4. UNCHANGED <<io_to_dispatch, ring_closed, subscribers, death_committed, death_purged, loop_death_observed,
                  loop_failed, shutting_down, dispatch_state, cell, inbox, dying, caller, calling, has_handle, io,
                  io_abort, ready_for, marker, conns_closed, dispatch, dispatch_abort, current, observes,
                  handle_taken, outcome, late, faults, extras>>
  BY DEF ArmFault, ringVars, flagVars, awaitVars, clientVars, ioVars, dispatchVars, boundVars
<1>5. await' \in [Waiters -> AwaitStates] /\ await'[w] = "armed" /\ \A v \in Waiters \ {w} : await'[v] = await[v]
  BY DEF ArmFault, TypeOK, AwaitStates
<1>8. RegistryTypes' /\ Registry'
  <2>1. ~Unborn(w)' /\ \A v \in Waiters : ~Unborn(v) => ~Unborn(v)'
    BY <1>5 DEF Unborn
  <2>2. late' \subseteq late \union {w} /\ (w \in late' => death_purged /\ (w \in late \/ Unborn(w)))
    BY <1>4 DEF Deaths
  <2> QED
    BY <1>1, <1>2, <1>3, <1>4, <2>1, <2>2, SubscribeKeeps
<1>9. \A u \in Threads \ {w} : job'[u] = job[u]
  BY <1>3 DEF SubscribeCorrelated, RegistryTypes
<1>10. TypeOK'
  <2>1. BusTypeOK'
    BY <1>4, <1>8 DEF TypeOK, BusTypeOK, RegistryTypes
  <2> QED
    BY <2>1, <1>4, <1>5 DEF TypeOK
<1>11. Held'
  BY <1>4, <1>5, <1>9 DEF Held
<1>12. Births'
  BY <1>1, <1>4, <1>5 DEF Births, Unborn
<1>13. Deaths'
  BY <1>4 DEF Deaths
<1>14. Ring' /\ Lives'
  BY <1>4 DEF Ring, Lives, CloseAnnounced
<1> QED
  BY <1>8, <1>10, <1>11, <1>12, <1>13, <1>14

LEMMA ReleaseKeeps ==
    ASSUME IInv, NEW w \in Waiters, Release(w)
    PROVE  IInv'
<1> USE LifecycleAssumption, TasksAreThreads DEF IInv
<1>1. await[w] = "release" /\ ~Unborn(w) /\ inbox[w] # Dropped /\ observes[w] \in Requests
  BY DEF Release, Births, Unborn
<1>2. UNCHANGED <<io_to_dispatch, ring_closed, subscribers, live, missed, death_committed, death_purged,
                  loop_death_observed, loop_failed, shutting_down, dispatch_state, dying, caller, calling,
                  has_handle, io, io_abort, ready_for, marker, conns_closed, dispatch, dispatch_abort, current,
                  observes, handle_taken, outcome, late, faults, extras>>
  BY DEF Release, ringVars, registryVars, flagVars, clientVars, ioVars, dispatchVars, boundVars
<1>3. await' \in [Waiters -> AwaitStates] /\ await'[w] = "dropped" /\ \A v \in Waiters \ {w} : await'[v] = await[v]
  BY DEF Release, TypeOK, AwaitStates
<1>4. /\ inbox \in [Waiters -> Items \union {Empty, Dropped}]
      /\ inbox' \in [Waiters -> Items \union {Empty, Dropped}]
      /\ inbox'[w] = Dropped /\ \A v \in Waiters \ {w} : inbox'[v] = inbox[v]
  BY DEF Release, TypeOK, BusTypeOK
<1>5. cell' \in [Waiters -> BOOLEAN] /\ (cell'[w] => cell[w]) /\ \A v \in Waiters \ {w} : cell'[v] = cell[v]
  <2>1. cell \in [Waiters -> BOOLEAN]
    BY DEF TypeOK, BusTypeOK
  <2>2. cell' = [cell EXCEPT ![w] = IF w \in handle_taken THEN FALSE ELSE cell[w]]
    BY DEF Release
  <2>3. CASE w \in handle_taken
    BY <2>1, <2>2, <2>3
  <2>4. CASE w \notin handle_taken
    BY <2>1, <2>2, <2>4
  <2> QED
    BY <2>3, <2>4
<1> DEFINE back == [op |-> "relatch", env |-> inbox[w], arms |-> {}, hit |-> FALSE]
<1>6. job' = IF HandsBack(w) THEN [job EXCEPT ![w] = back] ELSE job
  BY DEF Release
<1>7. HandsBack(w) => inbox[w] \in Items
  BY <1>1, <1>4 DEF HandsBack
<1>8. HandsBack(w) => back \in Jobs
  BY <1>7 DEF Jobs
<1>9. back.op = "relatch" /\ back.env = inbox[w] /\ back.arms = {}
  OBVIOUS
<1> HIDE DEF back
<1>10. job \in [Threads -> Jobs] /\ job' \in [Threads -> Jobs] /\ w \in Threads
  BY <1>6, <1>8 DEF TypeOK, BusTypeOK
<1>11. \A u \in Threads : job'[u] = IF u = w /\ HandsBack(w) THEN back ELSE job[u]
  BY <1>6, <1>10
<1>12. TypeOK'
  <2>1. BusTypeOK'
    BY <1>2, <1>4, <1>5, <1>10 DEF TypeOK, BusTypeOK
  <2> QED
    BY <2>1, <1>2, <1>3 DEF TypeOK
<1>13. Held'
  BY <1>2, <1>3, <1>11 DEF Held
<1>14. Births'
  <2>1. ASSUME NEW v \in Waiters
        PROVE  /\ await'[v] \notin {"unused", "idle"} => observes'[v] \in Requests
               /\ Unborn(v)' => inbox'[v] = Empty /\ ~cell'[v] /\ v \notin late'
               /\ await'[v] \in {"unused", "idle", "arm", "arm_fault", "armed", "parked"} => outcome'[v] = "none"
               /\ inbox'[v] = Dropped <=> await'[v] = "dropped"
               /\ cell'[v] => outcome'[v] = "none" /\ inbox'[v] \in {Empty, Dropped}
    <3>1. CASE v = w
      BY <3>1, <1>1, <1>2, <1>3, <1>4, <1>5 DEF Births, Unborn
    <3>2. CASE v # w
      BY <3>2, <1>2, <1>3, <1>4, <1>5 DEF Births, Unborn
    <3> QED
      BY <3>1, <3>2
  <2>2. caller' \in {"close_ready", "close_arm"} => await'[calling'] = "idle"
    BY <1>1, <1>2, <1>3 DEF Births
  <2> QED
    BY <2>1, <2>2, <1>2 DEF Births
<1>15. Deaths'
  BY <1>2, <1>4, EmptyFacts DEF Deaths, TypeOK
<1>16. Registry'
  <2>1. \A v \in Waiters : ~Unborn(v) => ~Unborn(v)'
    BY <1>1, <1>3 DEF Unborn
  <2>2. /\ \A arm \in live : arm.waiter \in Waiters
        /\ \A t \in Threads : \A arm \in job[t].arms : arm.waiter \in Waiters
    BY DEF TypeOK, BusTypeOK, Arms, Jobs
  <2>3. HandsBack(w) /\ inbox[w].type \in IncidentTypes => death_committed
    BY DEF Deaths
  <2>4. ASSUME NEW u \in Threads
        PROVE  /\ job'[u].op \in {"fire", "relatch"} => job'[u].env \in Items
               /\ job'[u].op = "drain" \/ job'[u].env.type \in IncidentTypes => death_committed'
               /\ \A arm \in job'[u].arms : ~Unborn(arm.waiter)'
               /\ job'[u].op = "fire" =>
                    \A arm \in job'[u].arms : arm.waiter \in late' => job'[u].env.type \in IncidentTypes
    <3>1. CASE u = w /\ HandsBack(w)
      BY <3>1, <2>3, <1>2, <1>7, <1>9, <1>11
    <3>2. CASE ~(u = w /\ HandsBack(w))
      BY <3>2, <2>1, <2>2, <1>2, <1>11 DEF Registry
    <3> QED
      BY <3>1, <3>2
  <2> QED
    BY <2>1, <2>2, <2>4, <1>2 DEF Registry
<1>17. Ring' /\ Lives'
  BY <1>2 DEF Ring, Lives, CloseAnnounced
<1> QED
  BY <1>12, <1>13, <1>14, <1>15, <1>16, <1>17

-----------------------------------------------------------------------------
(* The invariant.                                                          *)

LEMMA InitHolds == Init => IInv
<1> SUFFICES ASSUME Init PROVE IInv
  OBVIOUS
<1> USE LifecycleAssumption, BusAssumption, TasksAreThreads DEF Init, BusInit
<1>1. TypeOK
  <2>1. NoJob \in Jobs
    BY NoJobFacts
  <2>2. [step |-> "no", intended |-> FALSE] \in [step : DeathSteps, intended : BOOLEAN]
    BY DEF DeathSteps
  <2>3. <<>> \in Seq(Items) /\ Len(<<>>) = 0 /\ 0 <= RingCap /\ 0 <= MissedCap
    OBVIOUS
  <2>4. BusTypeOK
    BY <2>1, <2>2, <2>3 DEF BusTypeOK
  <2>5. observes \in [Waiters -> Requests \union {NoReq}]
    BY DEF Completions
  <2>6. await \in [Waiters -> AwaitStates] /\ faults \in Nat /\ extras \in Nat
    BY DEF AwaitStates
  <2> QED
    BY <2>4, <2>5, <2>6 DEF TypeOK, CallerSteps, IoStates, Completions
<1>2. Held
  BY DEF Held
<1>3. Births
  BY EmptyFacts DEF Births, Unborn, Completions
<1>4. Deaths
  BY EmptyFacts DEF Deaths
<1>5. Registry
  BY NoJobFacts, EmptyFacts DEF Registry
<1>6. Ring
  BY DEF Ring
<1>7. Lives
  BY DEF Lives, CloseAnnounced
<1> QED
  BY <1>1, <1>2, <1>3, <1>4, <1>5, <1>6, <1>7 DEF IInv

LEMMA NextKeeps == IInv /\ [Next]_vars => IInv'
<1> SUFFICES ASSUME IInv, [Next]_vars PROVE IInv'
  OBVIOUS
<1>1. CASE UNCHANGED vars
  <2> USE <1>1 DEF vars, busVars, clientVars, ioVars, dispatchVars, waitVars, boundVars
  <2>1. TypeOK'
    BY DEF IInv, TypeOK, BusTypeOK
  <2>2. Held' /\ Births' /\ Deaths'
    BY DEF IInv, Held, Births, Deaths, Unborn
  <2>3. Registry' /\ Ring' /\ Lives'
    BY DEF IInv, Registry, Ring, Lives, CloseAnnounced, Unborn
  <2> QED
    BY <2>1, <2>2, <2>3 DEF IInv
<1>2. CASE CallerGoesOn
  BY <1>2, ReadyAnswersKeeps, ReadySpawnsKeeps, CloseReadiesKeeps, CloseArmsKeeps, ClosePostsKeeps,
     CloseRejectedKeeps, DropKeeps DEF CallerGoesOn
<1>3. CASE IoSteps
  BY <1>3, IoStartsKeeps, IoAnnouncesKeeps, IoTakesMarkerKeeps, IoClosesKeeps, IoShutsDispatchKeeps,
     IoExitsKeeps DEF IoSteps
<1>4. CASE DispatchSteps
  BY <1>4, DequeueKeeps, CorrelateKeeps, CallSubscribersKeeps, DispatchExitsKeeps DEF DispatchSteps
<1>5. ASSUME NEW w \in Waiters, Polls(w) PROVE IInv'
  BY <1>5, ArmKeeps, ArmFaultKeeps, FirstPollKeeps, WokenKeeps DEF Polls
<1>6. CASE Next
  BY <1>1, <1>2, <1>3, <1>4, <1>5, <1>6, ReadyKeeps, CloseKeeps, DropClientKeeps, DeadmanFailsKeeps,
     SetKnobKeeps, OnKeeps, OffKeeps, IoPublishesKeeps, ConnectionsCloseKeeps, IoDiesKeeps,
     DispatchDiesKeeps, SettleKeeps, UnarmKeeps, ReleaseKeeps, ObserveKeeps DEF Next, Terminated
<1> QED
  BY <1>1, <1>6

\* Every reachable state of the client satisfies the inductive invariant.
THEOREM InductiveInvariant == Spec => []IInv
BY InitHolds, NextKeeps, PTL DEF Spec

\* Every variable of the client and of its bus keeps its type, the ring and the buffer of
\* missed completions within their capacities included (DropOldestRing::push,
\* deliver_correlated).
THEOREM TypeCorrect == Spec => []TypeOK
<1>1. IInv => TypeOK
  BY DEF IInv
<1> QED
  BY <1>1, InductiveInvariant, PTL

\* A dispatch loop that ended by draining has no ClientClosedEvent left to announce
\* (close_dispatch_and_drain, DropOldestRing::recv).
THEOREM CloseAlwaysAnnounced == Spec => []CloseAnnounced
<1>1. IInv => CloseAnnounced
  BY DEF IInv, Lives
<1> QED
  BY <1>1, InductiveInvariant, PTL

-----------------------------------------------------------------------------
(* The refinement of AwaitContract.                                        *)

\* The outcomes as the contract sees them.
Mapped == [w \in Waiters |-> OutcomeOf(w)]

\* A step that changes neither the deaths nor an await is no step of the contract.
LEMMA Stutters ==
    ASSUME UNCHANGED <<death_committed, death_purged>>, \A w \in Waiters : OutcomeOf(w)' = OutcomeOf(w)
    PROVE  UNCHANGED Contract!contractVars
<1>1. Mapped' = Mapped
  BY DEF Mapped
<1> QED
  BY <1>1 DEF Contract!contractVars, Mapped

LEMMA SameAwaits ==
    ASSUME UNCHANGED <<await, outcome, late>>
    PROVE  \A w \in Waiters : OutcomeOf(w)' = OutcomeOf(w)
BY DEF OutcomeOf

\* A step that changes one await.
LEMMA OneAwait ==
    ASSUME NEW w \in Waiters, \A v \in Waiters \ {w} : OutcomeOf(v)' = OutcomeOf(v)
    PROVE  /\ Mapped' = [Mapped EXCEPT ![w] = OutcomeOf(w)']
           /\ Mapped[w] = OutcomeOf(w)
BY DEF Mapped

LEMMA ArmBegins ==
    ASSUME IInv, NEW w \in Waiters, Arm(w)
    PROVE  Contract!Begin(w)
<1>1. /\ await[w] = "arm" /\ await'[w] \in {"arm_fault", "armed"} /\ \A v \in Waiters \ {w} : await'[v] = await[v]
      /\ UNCHANGED <<outcome, death_committed, death_purged>>
      /\ late' = IF death_purged THEN late \union {w} ELSE late
  BY DEF Arm, IInv, TypeOK
<1>2. outcome[w] = "none" /\ w \notin late
  BY <1>1 DEF IInv, Births, Unborn
<1>3. OutcomeOf(w) = "unborn" /\ OutcomeOf(w)' = IF death_purged THEN "late" ELSE "pending"
  BY <1>1, <1>2 DEF OutcomeOf
<1>4. \A v \in Waiters \ {w} : OutcomeOf(v)' = OutcomeOf(v)
  BY <1>1 DEF OutcomeOf
<1>5. Mapped' = [Mapped EXCEPT ![w] = OutcomeOf(w)'] /\ Mapped[w] = OutcomeOf(w)
  BY <1>4, OneAwait
<1> QED
  BY <1>1, <1>3, <1>5 DEF Contract!Begin, Mapped

LEMMA PollResolves ==
    ASSUME IInv, NEW w \in Waiters, FirstPoll(w)
    PROVE  Contract!Fail(w) \/ UNCHANGED Contract!contractVars
<1>1. /\ await[w] = "armed" /\ await'[w] \in {"done", "parked"} /\ \A v \in Waiters \ {w} : await'[v] = await[v]
      /\ UNCHANGED <<late, death_committed, death_purged>> /\ outcome \in [Waiters -> {"none", "success", "failure"}]
  BY DEF FirstPoll, IInv, TypeOK, AwaitStates, registryVars
<1>2. outcome[w] = "none"
  BY <1>1 DEF IInv, Births
<1>3. CASE SelfResolves(w)
  <2>1. outcome'[w] = "failure" /\ \A v \in Waiters \ {w} : outcome'[v] = outcome[v]
    BY <1>1, <1>3 DEF FirstPoll
  <2>2. death_committed
    BY <1>3 DEF SelfResolves, IInv, Deaths
  <2>3. OutcomeOf(w) \in {"pending", "late"} /\ OutcomeOf(w)' = "failure"
    BY <1>1, <1>2, <2>1 DEF OutcomeOf
  <2>4. \A v \in Waiters \ {w} : OutcomeOf(v)' = OutcomeOf(v)
    BY <1>1, <2>1 DEF OutcomeOf
  <2>5. Mapped' = [Mapped EXCEPT ![w] = OutcomeOf(w)'] /\ Mapped[w] = OutcomeOf(w)
    BY <2>4, OneAwait
  <2> QED
    BY <1>1, <2>2, <2>3, <2>5 DEF Contract!Fail, Mapped
<1>4. CASE ~SelfResolves(w)
  <2>1. await'[w] = "parked" /\ outcome' = outcome
    BY <1>4 DEF FirstPoll, IInv, TypeOK
  <2>2. \A v \in Waiters : OutcomeOf(v)' = OutcomeOf(v)
    BY <1>1, <2>1 DEF OutcomeOf
  <2> QED
    BY <1>1, <2>2, Stutters
<1> QED
  BY <1>3, <1>4

LEMMA WokenResolves ==
    ASSUME IInv, NEW w \in Waiters, Woken(w)
    PROVE  Contract!Succeed(w) \/ Contract!Fail(w)
<1>1. /\ await[w] = "parked" /\ await'[w] = "done" /\ \A v \in Waiters \ {w} : await'[v] = await[v]
      /\ UNCHANGED <<late, death_committed, death_purged>> /\ inbox[w] \notin {Empty, Dropped}
  BY DEF Woken, IInv, TypeOK, AwaitStates, busVars
<1>2. /\ outcome'[w] = (IF inbox[w].type \in IncidentTypes THEN "failure" ELSE "success")
      /\ \A v \in Waiters \ {w} : outcome'[v] = outcome[v]
  BY DEF Woken, IInv, TypeOK
<1>3. outcome[w] = "none"
  BY <1>1 DEF IInv, Births
<1>4. inbox[w].type \in IncidentTypes => death_committed
  BY DEF IInv, Deaths
<1>5. w \in late => inbox[w].type \in IncidentTypes
  BY <1>1 DEF IInv, Deaths
<1>6. OutcomeOf(w)' = outcome'[w] /\ OutcomeOf(w) = IF w \in late THEN "late" ELSE "pending"
  BY <1>1, <1>2, <1>3 DEF OutcomeOf
<1>7. \A v \in Waiters \ {w} : OutcomeOf(v)' = OutcomeOf(v)
  BY <1>1, <1>2 DEF OutcomeOf
<1>8. Mapped' = [Mapped EXCEPT ![w] = OutcomeOf(w)'] /\ Mapped[w] = OutcomeOf(w)
  BY <1>7, OneAwait
<1>9. CASE inbox[w].type \in IncidentTypes
  BY <1>1, <1>2, <1>4, <1>6, <1>8, <1>9 DEF Contract!Fail, Mapped
<1>10. CASE inbox[w].type \notin IncidentTypes
  BY <1>1, <1>2, <1>5, <1>6, <1>8, <1>10 DEF Contract!Succeed, Mapped
<1> QED
  BY <1>9, <1>10

LEMMA ReleaseReleases ==
    ASSUME IInv, NEW w \in Waiters, Release(w)
    PROVE  Contract!Release(w)
<1>1. /\ await[w] = "release" /\ await'[w] = "dropped" /\ \A v \in Waiters \ {w} : await'[v] = await[v]
      /\ UNCHANGED <<late, outcome, death_committed, death_purged>>
  BY DEF Release, IInv, TypeOK, AwaitStates, registryVars
<1>2. OutcomeOf(w)' = "released" /\ OutcomeOf(w) \in {"pending", "late", "success", "failure"}
  <2>1. outcome[w] \in {"none", "success", "failure"}
    BY DEF IInv, TypeOK
  <2> QED
    BY <1>1, <2>1 DEF OutcomeOf
<1>3. \A v \in Waiters \ {w} : OutcomeOf(v)' = OutcomeOf(v)
  BY <1>1 DEF OutcomeOf
<1>4. Mapped' = [Mapped EXCEPT ![w] = OutcomeOf(w)'] /\ Mapped[w] = OutcomeOf(w)
  BY <1>3, OneAwait
<1> QED
  BY <1>1, <1>2, <1>4 DEF Contract!Release, Mapped

\* Only the commit of a death is seen by the contract of what a thread owes the bus.
LEMMA SettleMaps ==
    ASSUME IInv, NEW t \in Threads, Settle(t)
    PROVE  Contract!Die \/ UNCHANGED Contract!contractVars
<1>1. UNCHANGED <<await, outcome, late>>
  BY DEF Settle, Outside, waitVars
<1>2. \A w \in Waiters : OutcomeOf(w)' = OutcomeOf(w)
  BY <1>1, SameAwaits
<1>3. Mapped' = Mapped
  BY <1>2 DEF Mapped
<1>4. CASE DeathCommits(t)
  <2>1. death_committed' = TRUE /\ death_purged' \in {death_purged, TRUE}
    BY <1>4 DEF DeathCommits
  <2> QED
    BY <2>1, <1>3 DEF Contract!Die, Mapped
<1>5. CASE ~DeathCommits(t)
  <2>1. UNCHANGED <<death_committed, death_purged>>
    BY <1>5 DEF Settle, FireCorrelated, RelatchCorrelated, OnLoopDeath, DeathObserved, DeathResolves,
       DeathAnnounced, registryVars
  <2> QED
    BY <2>1, <1>2, Stutters
<1> QED
  BY <1>4, <1>5

\* Steps that leave every await where it is, or move it between points the contract does not
\* tell apart.
LEMMA RestStutters ==
    ASSUME IInv,
           \/ \E w \in Readies : Ready(w)
           \/ \E w \in Closes : Close(w)
           \/ CallerGoesOn
           \/ DropClient
           \/ DeadmanFails
           \/ SetKnob
           \/ \E type \in Listened : On(type) \/ Off(type)
           \/ IoSteps
           \/ \E item \in {Broadcast("Data"), Event("SubscriptionTerminatedEvent", "sub")} : IoPublishes(item)
           \/ ConnectionsClose
           \/ IoDies
           \/ DispatchSteps
           \/ DispatchDies
           \/ \E w \in Waiters : \/ ArmFault(w) \/ Unarm(w)
                                 \/ \E req \in Completions \union {"sub"} : Observe(w, req)
    PROVE  UNCHANGED Contract!contractVars
<1> USE LifecycleAssumption
<1>1. UNCHANGED <<death_committed, death_purged, outcome, late>>
  <2> USE DEF busVars, registryVars, waitVars, boundVars
  <2>1. CASE CallerGoesOn
    BY <2>1 DEF CallerGoesOn, ReadyAnswers, ReadySpawns, CloseReadies, CloseArms, ClosePosts, CloseRejected, Drop,
       DeliverCorrelated
  <2>2. CASE IoSteps
    BY <2>2 DEF IoSteps, IoStarts, IoAnnounces, IoTakesMarker, IoCloses, IoShutsDispatch, IoExits, DeliverCorrelated
  <2>3. CASE DispatchSteps
    BY <2>3 DEF DispatchSteps, Dequeue, Correlate, CallSubscribers, DispatchExits, DeliverCorrelated
  <2>4. CASE ~CallerGoesOn /\ ~IoSteps /\ ~DispatchSteps
    BY <2>4 DEF Ready, Close, DropClient, DeadmanFails, SetKnob, On, Off, IoPublishes, ConnectionsClose, IoDies,
       DispatchDies, ArmFault, Unarm, Observe
  <2> QED
    BY <2>1, <2>2, <2>3, <2>4
<1>2. \A w \in Waiters : OutcomeOf(w)' = OutcomeOf(w)
  <2>1. CASE UNCHANGED await
    BY <2>1, <1>1, SameAwaits
  <2>2. ASSUME NEW w \in Waiters, NEW s \in AwaitStates, await' = [await EXCEPT ![w] = s],
               \/ Unborn(w) /\ s \in {"idle", "arm"}
               \/ ~Unborn(w) /\ await[w] # "dropped" /\ s \in {"armed", "release"}
        PROVE  \A v \in Waiters : OutcomeOf(v)' = OutcomeOf(v)
    <3>1. \A v \in Waiters : await'[v] = IF v = w THEN s ELSE await[v]
      BY <2>2 DEF IInv, TypeOK
    <3> QED
      BY <3>1, <2>2, <1>1 DEF OutcomeOf, Unborn
  <2>3. ASSUME NEW w \in Readies, Ready(w) PROVE \A v \in Waiters : OutcomeOf(v)' = OutcomeOf(v)
    BY <2>3, <2>2 DEF Ready, BeginAwait, Unborn, AwaitStates
  <2>4. CASE CloseArms
    <3>1. calling \in Waiters /\ await[calling] = "idle"
      BY <2>4 DEF CloseArms, IInv, Births
    <3> QED
      BY <3>1, <2>4, <2>2 DEF CloseArms, BeginAwait, Unborn, AwaitStates
  <2>5. ASSUME NEW w \in Waiters, ArmFault(w) PROVE \A v \in Waiters : OutcomeOf(v)' = OutcomeOf(v)
    BY <2>5, <2>2 DEF ArmFault, Unborn, AwaitStates
  <2>6. ASSUME NEW w \in Waiters, Unarm(w) PROVE \A v \in Waiters : OutcomeOf(v)' = OutcomeOf(v)
    BY <2>6, <2>2 DEF Unarm, Unborn, AwaitStates
  <2>7. ASSUME NEW w \in Waiters, NEW req, Observe(w, req) PROVE \A v \in Waiters : OutcomeOf(v)' = OutcomeOf(v)
    BY <2>7, <2>2 DEF Observe, BeginAwait, Unborn, AwaitStates
  <2>8. CASE CallerGoesOn
    <3>1. CASE CloseArms
      BY <3>1, <2>4
    <3>2. CASE ~CloseArms
      BY <2>8, <3>2, <2>1 DEF CallerGoesOn, ReadyAnswers, ReadySpawns, CloseReadies, ClosePosts, CloseRejected, Drop,
         waitVars
    <3> QED
      BY <3>1, <3>2
  <2>9. CASE IoSteps
    BY <2>9, <2>1 DEF IoSteps, IoStarts, IoAnnounces, IoTakesMarker, IoCloses, IoShutsDispatch, IoExits, waitVars
  <2>10. CASE DispatchSteps
    BY <2>10, <2>1 DEF DispatchSteps, Dequeue, Correlate, CallSubscribers, DispatchExits, waitVars
  <2>11. CASE \/ \E w \in Closes : Close(w)
              \/ DropClient \/ DeadmanFails \/ SetKnob \/ ConnectionsClose \/ IoDies \/ DispatchDies
              \/ \E type \in Listened : On(type) \/ Off(type)
              \/ \E item \in {Broadcast("Data"), Event("SubscriptionTerminatedEvent", "sub")} : IoPublishes(item)
    <3>1. UNCHANGED await
      BY <2>11 DEF Close, DropClient, DeadmanFails, SetKnob, On, Off, IoPublishes, ConnectionsClose, IoDies,
         DispatchDies, waitVars
    <3> QED
      BY <3>1, <2>1
  <2> QED
    BY <2>3, <2>5, <2>6, <2>7, <2>8, <2>9, <2>10, <2>11
<1> QED
  BY <1>1, <1>2, Stutters

LEMMA StepMaps == IInv /\ [Next]_vars => [Contract!Next]_(Contract!contractVars)
<1> SUFFICES ASSUME IInv, [Next]_vars PROVE [Contract!Next]_(Contract!contractVars)
  OBVIOUS
<1>1. CASE UNCHANGED vars
  <2>1. UNCHANGED <<death_committed, death_purged, await, outcome, late>>
    BY <1>1 DEF vars, busVars, waitVars
  <2>2. UNCHANGED Contract!contractVars
    BY <2>1, SameAwaits, Stutters
  <2> QED
    BY <2>2
<1>2. ASSUME NEW t \in Threads, Settle(t) PROVE [Contract!Next]_(Contract!contractVars)
  BY <1>2, SettleMaps DEF Contract!Next
<1>3. ASSUME NEW w \in Waiters, Polls(w) PROVE [Contract!Next]_(Contract!contractVars)
  <2>1. CASE Arm(w)
    BY <2>1, ArmBegins DEF Contract!Next
  <2>2. CASE ArmFault(w)
    BY <2>2, RestStutters
  <2>3. CASE FirstPoll(w)
    BY <2>3, PollResolves DEF Contract!Next
  <2>4. CASE Woken(w)
    BY <2>4, WokenResolves DEF Contract!Next
  <2> QED
    BY <1>3, <2>1, <2>2, <2>3, <2>4 DEF Polls
<1>4. ASSUME NEW w \in Waiters, Release(w) PROVE [Contract!Next]_(Contract!contractVars)
  BY <1>4, ReleaseReleases DEF Contract!Next
<1>5. CASE Next
  BY <1>1, <1>2, <1>3, <1>4, <1>5, RestStutters DEF Next, Terminated
<1> QED
  BY <1>1, <1>5

\* The client implements the contract of an await: whatever loop dies, and however awaits,
\* deliveries and deaths interleave, an await resolves at most once, fails only after a death
\* was committed, and never succeeds when it began after a genuine one (deliver_correlated,
\* resolve_armed, resolve_live_correlated_on_death).
THEOREM ContractKept == Spec => KeepsContract
<1>1. Init => Contract!Init
  <2> SUFFICES ASSUME Init PROVE Contract!Init
    OBVIOUS
  <2>1. \A w \in Waiters : OutcomeOf(w) = "unborn"
    BY DEF Init, OutcomeOf
  <2> QED
    BY <2>1 DEF Init, BusInit, Contract!Init
<1> QED
  BY <1>1, StepMaps, InductiveInvariant, PTL DEF Spec, KeepsContract, Contract!Spec

-----------------------------------------------------------------------------
(* No completion is lost on its way to an await.                           *)

\* A thread holds the event it captured until some receiver accepts it.
Holds(t, event) == job[t].op \in {"fire", "relatch"} /\ ~job[t].hit /\ job[t].env = event

\* A receiver holds the event until its await returns.
Receives(w, event) == outcome[w] = "none" /\ inbox[w] \notin {Empty, Dropped} /\ inbox[w] = event

LEMMA HeldMeans ==
    ASSUME NEW event
    PROVE  event \in HeldByRegistry <=>
               \/ \E i \in DOMAIN missed : missed[i] = event
               \/ \E t \in Threads : Holds(t, event)
BY DEF HeldByRegistry, ToSet, Holds

LEMMA TransitMeans ==
    ASSUME NEW event
    PROVE  event \in InTransit <=>
               \/ event \in HeldByRegistry
               \/ dispatch = "correlate" /\ current = event
               \/ \E w \in Waiters : Receives(w, event)
BY DEF InTransit, Receives

\* Capturing or latching an event holds it, and gives up nothing but what a full buffer
\* evicts, when its thread held nothing else.
LEMMA CaptureHolds ==
    ASSUME RegistryTypes, NEW t \in Threads, NEW event \in Items, Capture(t, event),
           \A e : Holds(t, e) => e = event
    PROVE  /\ event \in HeldByRegistry'
           /\ \A e \in HeldByRegistry : e \in HeldByRegistry' \/ e \in NextToEvict
<1> DEFINE waiting == Matching(live, event)
           fire == [op |-> "fire", env |-> event, arms |-> waiting, hit |-> FALSE]
           q == Pushed(missed, MissedCap, <<event>>)
<1>1. \A u \in Threads \ {t} : job'[u] = job[u]
  BY DEF Capture, RegistryTypes
<1>2. \A u \in Threads \ {t} : \A e : Holds(u, e) => Holds(u, e)'
  BY <1>1 DEF Holds
<1>3. CASE waiting # {}
  <2>1. missed' = missed /\ job' = [job EXCEPT ![t] = fire]
    BY <1>3 DEF Capture
  <2>2. job'[t] = fire
    BY <2>1 DEF RegistryTypes
  <2>3. fire.op = "fire" /\ fire.env = event /\ fire.hit = FALSE
    OBVIOUS
  <2> HIDE DEF fire
  <2>4. Holds(t, event)'
    BY <2>2, <2>3 DEF Holds
  <2>5. event \in HeldByRegistry'
    BY <2>4 DEF HeldByRegistry, Holds
  <2>6. ASSUME NEW e \in HeldByRegistry PROVE e \in HeldByRegistry'
    <3>1. CASE \E i \in DOMAIN missed : missed[i] = e
      BY <3>1, <2>1 DEF HeldByRegistry, ToSet
    <3>2. CASE \E u \in Threads : Holds(u, e)
      <4>1. PICK u \in Threads : Holds(u, e)
        BY <3>2
      <4>2. CASE u = t
        BY <4>1, <4>2, <2>5
      <4>3. CASE u # t
        <5>1. Holds(u, e)'
          BY <4>1, <4>3, <1>2
        <5> QED
          BY <5>1 DEF HeldByRegistry, Holds
      <4> QED
        BY <4>2, <4>3
    <3> QED
      BY <3>1, <3>2, HeldMeans
  <2> QED
    BY <2>5, <2>6
<1>4. CASE waiting = {}
  <2>1. missed' = q
    BY <1>4 DEF Capture
  <2>2. /\ \E i \in DOMAIN q : q[i] = event
        /\ \A j \in DOMAIN missed :
               (\E i \in DOMAIN q : q[i] = missed[j]) \/ (Len(missed) >= MissedCap /\ j = 1)
    BY BusAssumption, PushedKeeps DEF RegistryTypes
  <2> HIDE DEF q
  <2>3. event \in HeldByRegistry'
    BY <2>1, <2>2 DEF HeldByRegistry, ToSet
  <2>4. ASSUME NEW e \in HeldByRegistry PROVE e \in HeldByRegistry' \/ e \in NextToEvict
    <3>1. CASE \E j \in DOMAIN missed : missed[j] = e
      <4>1. PICK j \in DOMAIN missed : missed[j] = e
        BY <3>1
      <4>2. CASE \E i \in DOMAIN q : q[i] = missed[j]
        BY <4>1, <4>2, <2>1 DEF HeldByRegistry, ToSet
      <4>3. CASE Len(missed) >= MissedCap /\ j = 1
        <5>1. e = Head(missed)
          BY <4>1, <4>3 DEF RegistryTypes
        <5> QED
          BY <4>3, <5>1 DEF NextToEvict
      <4> QED
        BY <4>2, <4>3, <2>2
    <3>2. CASE \E u \in Threads : Holds(u, e)
      <4>1. PICK u \in Threads : Holds(u, e)
        BY <3>2
      <4>2. CASE u = t
        BY <4>1, <4>2, <2>3
      <4>3. CASE u # t
        <5>1. Holds(u, e)'
          BY <4>1, <4>3, <1>2
        <5> QED
          BY <5>1 DEF HeldByRegistry, Holds
      <4> QED
        BY <4>2, <4>3
    <3> QED
      BY <3>1, <3>2, HeldMeans
  <2> QED
    BY <2>3, <2>4
<1> QED
  BY <1>3, <1>4

\* Arming takes an event from the buffer into the hands of its await.
LEMMA SubscribeHolds ==
    ASSUME RegistryTypes, NEW w \in Waiters, NEW type, NEW req, SubscribeCorrelated(w, type, req),
           job[w] = NoJob, NEW e \in HeldByRegistry
    PROVE  e \in HeldByRegistry'
<1> DEFINE event == Event(type, req)
           arm == [type |-> type, req |-> req, waiter |-> w]
           fire == [op |-> "fire", env |-> event, arms |-> {arm}, hit |-> FALSE]
<1>0. fire.op = "fire" /\ fire.env = event /\ fire.hit = FALSE /\ w \in Threads
  BY DEF Threads
<1> HIDE DEF event, fire
<1>1. CASE \E i \in DOMAIN missed :
               missed[i] = event /\ missed' = RemoveAt(missed, i) /\ job' = [job EXCEPT ![w] = fire]
  <2>1. PICK i \in DOMAIN missed :
            missed[i] = event /\ missed' = RemoveAt(missed, i) /\ job' = [job EXCEPT ![w] = fire]
    BY <1>1
  <2>2. \A j \in DOMAIN missed : j # i => \E k \in DOMAIN missed' : missed'[k] = missed[j]
    BY <2>1, RemovedType DEF RegistryTypes
  <2>3. \A u \in Threads : job'[u] = IF u = w THEN fire ELSE job[u]
    BY <2>1 DEF RegistryTypes
  <2>4. Holds(w, event)'
    BY <2>3, <1>0 DEF Holds
  <2>5. event \in HeldByRegistry'
    BY <2>4, <1>0 DEF HeldByRegistry, Holds
  <2>6. CASE \E j \in DOMAIN missed : missed[j] = e
    <3>1. PICK j \in DOMAIN missed : missed[j] = e
      BY <2>6
    <3>2. CASE j = i
      BY <3>1, <3>2, <2>1, <2>5
    <3>3. CASE j # i
      BY <3>1, <3>3, <2>2 DEF HeldByRegistry, ToSet
    <3> QED
      BY <3>2, <3>3
  <2>7. CASE \E u \in Threads : Holds(u, e)
    <3>1. PICK u \in Threads : Holds(u, e)
      BY <2>7
    <3>2. u # w
      BY <3>1, NoJobFacts DEF Holds
    <3>3. Holds(u, e)'
      BY <3>1, <3>2, <2>3 DEF Holds
    <3> QED
      BY <3>3 DEF HeldByRegistry, Holds
  <2> QED
    BY <2>6, <2>7, HeldMeans
<1>2. CASE UNCHANGED <<missed, job>>
  BY <1>2 DEF HeldByRegistry, ToSet
<1> QED
  BY <1>1, <1>2 DEF SubscribeCorrelated, event, fire

\* Whatever leaves the receivers alone and loses nothing the registry or the dispatch loop
\* holds loses nothing in transit.
LEMMA TransitKept ==
    ASSUME UNCHANGED <<inbox, outcome>>, NEW event \in InTransit,
           event \in HeldByRegistry => event \in HeldByRegistry' \/ event \in NextToEvict,
           dispatch = "correlate" /\ current = event =>
               \/ dispatch' = "correlate" /\ current' = event
               \/ event \in HeldByRegistry'
               \/ death_committed'
    PROVE  event \in InTransit' \/ Accounted(event)
<1>1. CASE \E w \in Waiters : Receives(w, event)
  <2>1. \E w \in Waiters : Receives(w, event)'
    BY <1>1 DEF Receives
  <2> QED
    BY <2>1 DEF InTransit, Receives
<1>2. CASE event \in HeldByRegistry
  BY <1>2 DEF InTransit, Accounted
<1>3. CASE dispatch = "correlate" /\ current = event
  BY <1>3 DEF InTransit, Accounted
<1> QED
  BY <1>1, <1>2, <1>3, TransitMeans

Kept(event) == event \in InTransit' \/ Accounted(event)

LEMMA QuietKept ==
    ASSUME UNCHANGED <<missed, job, inbox, outcome>>,
           dispatch = "correlate" => dispatch' = "correlate" /\ current' = current,
           NEW event \in InTransit
    PROVE  Kept(event)
<1>1. event \in HeldByRegistry => event \in HeldByRegistry'
  BY DEF HeldByRegistry, ToSet
<1> QED
  BY <1>1, TransitKept DEF Kept

\* Steps outside the registry and the receivers.
LEMMA OthersKept ==
    ASSUME IInv, NEW event \in InTransit,
           \/ \E w \in Readies : Ready(w)
           \/ \E w \in Closes : Close(w)
           \/ ReadySpawns \/ CloseReadies \/ CloseArms \/ ClosePosts \/ CloseRejected \/ Drop
           \/ DropClient
           \/ DeadmanFails
           \/ SetKnob
           \/ \E type \in Listened : On(type) \/ Off(type)
           \/ IoAnnounces \/ IoTakesMarker \/ IoShutsDispatch \/ IoExits
           \/ \E item \in {Broadcast("Data"), Event("SubscriptionTerminatedEvent", "sub")} : IoPublishes(item)
           \/ ConnectionsClose
           \/ IoDies
           \/ Dequeue \/ CallSubscribers \/ DispatchExits
           \/ DispatchDies
           \/ \E w \in Waiters : Unarm(w) \/ \E req \in Completions \union {"sub"} : Observe(w, req)
    PROVE  Kept(event)
<1> USE DEF busVars, registryVars, awaitVars, dispatchVars, waitVars
<1>0. dispatch = "correlate" => dispatch_state # "NotStarted"
  BY DEF IInv, Lives
<1>1. CASE \/ \E w \in Readies : Ready(w)
           \/ CloseReadies
           \/ \E type \in Listened : On(type)
  <2>1. UNCHANGED <<missed, job, inbox, outcome>>
    BY <1>1 DEF Ready, CloseReadies, On
  <2>2. dispatch = "correlate" => dispatch' = "correlate" /\ current' = current
    BY <1>0, <1>1 DEF Ready, CloseReadies, On, StartDispatch
  <2> QED
    BY <2>1, <2>2, QuietKept
<1>2. CASE \/ \E w \in Closes : Close(w)
           \/ ReadySpawns \/ CloseArms \/ ClosePosts \/ CloseRejected \/ Drop \/ DropClient
           \/ DeadmanFails \/ SetKnob \/ \E type \in Listened : Off(type)
  <2>1. UNCHANGED <<missed, job, inbox, outcome, dispatch, current>>
    BY <1>2 DEF Close, ReadySpawns, CloseArms, ClosePosts, CloseRejected, Drop, DropClient, DeadmanFails, SetKnob, Off
  <2> QED
    BY <2>1, QuietKept
<1>3. CASE \/ IoAnnounces \/ IoTakesMarker \/ IoShutsDispatch \/ IoExits \/ ConnectionsClose \/ IoDies
           \/ \E item \in {Broadcast("Data"), Event("SubscriptionTerminatedEvent", "sub")} : IoPublishes(item)
           \/ \E w \in Waiters : Unarm(w) \/ \E req \in Completions \union {"sub"} : Observe(w, req)
  <2>1. UNCHANGED <<missed, job, inbox, outcome, dispatch, current>>
    BY <1>3 DEF IoAnnounces, IoTakesMarker, IoShutsDispatch, IoExits, ConnectionsClose, IoDies, IoPublishes, Unarm,
       Observe
  <2> QED
    BY <2>1, QuietKept
<1>4. CASE Dequeue \/ CallSubscribers \/ DispatchExits \/ DispatchDies
  <2>1. UNCHANGED <<missed, job, inbox, outcome>> /\ dispatch # "correlate"
    BY <1>4 DEF Dequeue, CallSubscribers, DispatchExits, DispatchDies
  <2> QED
    BY <2>1, QuietKept
<1> QED
  BY <1>1, <1>2, <1>3, <1>4

\* A delivery before any death is captured or latched; its thread held nothing.
LEMMA DeliverHolds ==
    ASSUME RegistryTypes, NEW t \in Threads, NEW item \in Items, DeliverCorrelated(t, item), job[t] = NoJob
    PROVE  \/ death_committed'
           \/ /\ item \in HeldByRegistry'
              /\ \A e \in HeldByRegistry : e \in HeldByRegistry' \/ e \in NextToEvict
<1>1. CASE death_committed
  BY <1>1 DEF DeliverCorrelated
<1>2. CASE ~death_committed
  <2>1. Capture(t, item)
    BY <1>2 DEF DeliverCorrelated
  <2>2. \A e : Holds(t, e) => e = item
    BY NoJobFacts DEF Holds
  <2> QED
    BY <2>1, <2>2, CaptureHolds
<1> QED
  BY <1>1, <1>2

LEMMA DeliveriesKept ==
    ASSUME IInv, NEW event \in InTransit, ReadyAnswers \/ IoStarts \/ IoCloses \/ Correlate
    PROVE  Kept(event)
<1> USE LifecycleAssumption, TasksAreThreads DEF IInv
<1>1. RegistryTypes
  BY DEF TypeOK, BusTypeOK, RegistryTypes
<1>2. UNCHANGED <<inbox, outcome>>
  BY DEF ReadyAnswers, IoStarts, IoCloses, Correlate, awaitVars, waitVars
<1>3. CASE death_committed'
  BY <1>3 DEF Kept, Accounted
<1>4. CASE ~death_committed'
  <2>1. CASE ReadyAnswers
    <3> DEFINE item == Event(IF loop_death_observed THEN "ClientFailed" ELSE "ClientReady", calling)
    <3>1. item \in Items
      BY <2>1 DEF ReadyAnswers, Births, Event, Items, EventTypes, IncidentTypes, CompletionTypes
    <3>2. DeliverCorrelated("caller", item) /\ job["caller"] = NoJob /\ UNCHANGED <<dispatch, current>>
      BY <2>1 DEF ReadyAnswers, Held, dispatchVars
    <3> HIDE DEF item
    <3>3. \A e \in HeldByRegistry : e \in HeldByRegistry' \/ e \in NextToEvict
      BY <1>1, <1>4, <3>1, <3>2, DeliverHolds
    <3> QED
      BY <1>2, <3>2, <3>3, TransitKept DEF Kept
  <2>2. CASE IoStarts
    <3> DEFINE item == Event("ClientReady", ready_for)
    <3>1. item \in Items
      BY DEF TypeOK, Event, Items, EventTypes, CompletionTypes
    <3>2. DeliverCorrelated("io", item) /\ job["io"] = NoJob /\ UNCHANGED <<dispatch, current>>
      BY <2>2 DEF IoStarts, Held, dispatchVars
    <3> HIDE DEF item
    <3>3. \A e \in HeldByRegistry : e \in HeldByRegistry' \/ e \in NextToEvict
      BY <1>1, <1>4, <3>1, <3>2, DeliverHolds
    <3> QED
      BY <1>2, <3>2, <3>3, TransitKept DEF Kept
  <2>3. CASE IoCloses
    <3> DEFINE item == Event("ClientClosedEvent", marker)
    <3>1. item \in Items
      BY DEF TypeOK, Event, Items, EventTypes, CompletionTypes
    <3>2. DeliverCorrelated("io", item) /\ job["io"] = NoJob /\ UNCHANGED <<dispatch, current>>
      BY <2>3 DEF IoCloses, Held, dispatchVars
    <3> HIDE DEF item
    <3>3. \A e \in HeldByRegistry : e \in HeldByRegistry' \/ e \in NextToEvict
      BY <1>1, <1>4, <3>1, <3>2, DeliverHolds
    <3> QED
      BY <1>2, <3>2, <3>3, TransitKept DEF Kept
  <2>4. CASE Correlate
    <3>1. DeliverCorrelated("dispatch", current) /\ job["dispatch"] = NoJob /\ current \in Items
      BY <2>4 DEF Correlate, Held, Ring
    <3>2. /\ current \in HeldByRegistry'
          /\ \A e \in HeldByRegistry : e \in HeldByRegistry' \/ e \in NextToEvict
      BY <1>1, <1>4, <3>1, DeliverHolds
    <3> QED
      BY <1>2, <3>2, TransitKept DEF Kept
  <2> QED
    BY <2>1, <2>2, <2>3, <2>4
<1> QED
  BY <1>3, <1>4

LEMMA ArmsKept ==
    ASSUME IInv, NEW event \in InTransit, NEW w \in Waiters, Arm(w) \/ ArmFault(w)
    PROVE  Kept(event)
<1>1. RegistryTypes
  BY DEF IInv, TypeOK, BusTypeOK, RegistryTypes
<1>2. UNCHANGED <<inbox, outcome, dispatch, current>> /\ job[w] = NoJob
  BY DEF Arm, ArmFault, Owes, awaitVars, dispatchVars
<1>3. \E type : SubscribeCorrelated(w, type, observes[w])
  BY DEF Arm, ArmFault
<1>4. event \in HeldByRegistry => event \in HeldByRegistry'
  BY <1>1, <1>2, <1>3, SubscribeHolds
<1> QED
  BY <1>2, <1>4, TransitKept DEF Kept

\* An await that returns accounts for what it received; one that resolves itself received
\* nothing.
LEMMA PollsKept ==
    ASSUME IInv, NEW event \in InTransit, NEW w \in Waiters, FirstPoll(w) \/ Woken(w)
    PROVE  Kept(event)
<1>1. UNCHANGED <<missed, job, inbox, dispatch, current>>
  BY DEF FirstPoll, Woken, busVars, registryVars, dispatchVars
<1>2. event \in HeldByRegistry => event \in HeldByRegistry'
  BY <1>1 DEF HeldByRegistry, ToSet
<1>3. \A v \in Waiters \ {w} : outcome'[v] = outcome[v]
  BY DEF FirstPoll, Woken, IInv, TypeOK
<1>4. CASE \E v \in Waiters : Receives(v, event)
  <2>1. PICK v \in Waiters : Receives(v, event)
    BY <1>4
  <2>2. CASE outcome'[v] = outcome[v]
    <3>1. Receives(v, event)'
      BY <2>1, <2>2, <1>1 DEF Receives
    <3> QED
      BY <3>1 DEF Kept, InTransit, Receives
  <2>3. CASE outcome'[v] # outcome[v]
    <3>1. outcome'[v] # "none" /\ inbox[v] = event
      BY <2>1, <2>3 DEF Receives
    <3> QED
      BY <3>1 DEF Kept, Accounted
  <2> QED
    BY <2>2, <2>3
<1>5. CASE event \in HeldByRegistry \/ (dispatch = "correlate" /\ current = event)
  BY <1>1, <1>2, <1>5 DEF Kept, InTransit
<1> QED
  BY <1>4, <1>5, TransitMeans

\* A dropped await hands back what it received if anyone else may wait for it.
LEMMA ReleaseKept ==
    ASSUME IInv, NEW event \in InTransit, NEW w \in Waiters, Release(w)
    PROVE  Kept(event)
<1>1. UNCHANGED <<missed, outcome, dispatch, current>> /\ await[w] = "release" /\ job[w] = NoJob
  BY DEF Release, registryVars, dispatchVars, IInv, Held
<1>2. inbox'[w] = Dropped /\ \A v \in Waiters \ {w} : inbox'[v] = inbox[v]
  BY DEF Release, IInv, TypeOK, BusTypeOK
<1>3. job \in [Threads -> Jobs] /\ w \in Threads
  BY DEF IInv, TypeOK, BusTypeOK, Threads
<1> DEFINE back == [op |-> "relatch", env |-> inbox[w], arms |-> {}, hit |-> FALSE]
<1>4. job' = IF HandsBack(w) THEN [job EXCEPT ![w] = back] ELSE job
  BY DEF Release
<1>5. back.op = "relatch" /\ back.env = inbox[w] /\ back.hit = FALSE
  OBVIOUS
<1> HIDE DEF back
<1>6. \A u \in Threads : job'[u] = IF u = w /\ HandsBack(w) THEN back ELSE job[u]
  BY <1>3, <1>4
<1>7. ASSUME event \in HeldByRegistry PROVE event \in HeldByRegistry'
  <2>1. CASE \E i \in DOMAIN missed : missed[i] = event
    BY <2>1, <1>1 DEF HeldByRegistry, ToSet
  <2>2. CASE \E t \in Threads : Holds(t, event)
    <3>1. PICK t \in Threads : Holds(t, event)
      BY <2>2
    <3>2. t # w
      BY <3>1, <1>1, NoJobFacts DEF Holds
    <3>3. Holds(t, event)'
      BY <3>1, <3>2, <1>6 DEF Holds
    <3> QED
      BY <3>3 DEF HeldByRegistry, Holds
  <2> QED
    BY <1>7, <2>1, <2>2, HeldMeans
<1>8. ASSUME NEW v \in Waiters, Receives(v, event) PROVE Kept(event)
  <2>1. CASE v # w
    <3>1. Receives(v, event)'
      BY <1>8, <2>1, <1>1, <1>2 DEF Receives
    <3> QED
      BY <3>1 DEF Kept, InTransit, Receives
  <2>2. CASE v = w /\ w \in handle_taken
    <3>1. ~cell[w]
      BY <1>8, <2>2 DEF Receives, IInv, Births
    <3>2. HandsBack(w)
      BY <1>8, <2>2, <3>1 DEF Receives, HandsBack
    <3>3. Holds(w, event)'
      BY <1>8, <2>2, <3>2, <1>3, <1>5, <1>6 DEF Holds, Receives
    <3>4. event \in HeldByRegistry'
      BY <3>3, <1>3 DEF HeldByRegistry, Holds
    <3> QED
      BY <3>4 DEF Kept, InTransit
  <2>3. CASE v = w /\ w \notin handle_taken
    <3>1. inbox[w] = event /\ inbox'[w] = Dropped
      BY <1>2, <1>8, <2>3 DEF Receives
    <3> QED
      BY <3>1, <2>3 DEF Kept, Accounted
  <2> QED
    BY <2>1, <2>2, <2>3
<1>9. CASE event \in HeldByRegistry \/ (dispatch = "correlate" /\ current = event)
  BY <1>1, <1>7, <1>9 DEF Kept, InTransit
<1> QED
  BY <1>8, <1>9, TransitMeans

\* Firing gives the event to a receiver that is polled, or goes on holding it.
LEMMA FireKept ==
    ASSUME IInv, NEW event \in InTransit, NEW t \in Threads, FireCorrelated(t), UNCHANGED Outside
    PROVE  Kept(event)
<1>1. PICK arm \in job[t].arms :
          LET env == IF job[t].op = "drain" THEN DeathEnvelope(arm) ELSE job[t].env
              took == cell[arm.waiter] /\ inbox[arm.waiter] = Empty
          IN  /\ cell' = [cell EXCEPT ![arm.waiter] = FALSE]
              /\ inbox' = IF took THEN [inbox EXCEPT ![arm.waiter] = env] ELSE inbox
              /\ job' = [job EXCEPT ![t] = AfterFire(@, @.arms \ {arm}, @.hit \/ took)]
  BY DEF FireCorrelated
<1> DEFINE w == arm.waiter
           env == IF job[t].op = "drain" THEN DeathEnvelope(arm) ELSE job[t].env
           took == cell[w] /\ inbox[w] = Empty
           owes == AfterFire(job[t], job[t].arms \ {arm}, job[t].hit \/ took)
<1>2. /\ job \in [Threads -> Jobs] /\ inbox \in [Waiters -> Items \union {Empty, Dropped}]
      /\ UNCHANGED <<missed, outcome, dispatch, current>>
  BY DEF IInv, TypeOK, BusTypeOK, FireCorrelated, registryVars, Outside, dispatchVars, waitVars
<1>3. job[t] \in Jobs /\ w \in Waiters /\ job[t].op \in {"fire", "drain"}
  BY <1>2, <1>1 DEF Jobs, Arms, FireCorrelated
<1>4. job[t].op = "fire" => job[t].env \in Items
  BY DEF IInv, Registry
<1>5. took => outcome[w] = "none"
  BY <1>3 DEF IInv, Births
<1>6. \A u \in Threads : job'[u] = IF u = t THEN owes ELSE job[u]
  BY <1>1, <1>2
<1>7. \A v \in Waiters : inbox'[v] = IF v = w /\ took THEN env ELSE inbox[v]
  BY <1>1, <1>2
<1>8. ASSUME Holds(t, event), ~took PROVE Holds(t, event)'
  <2>1. job[t].op = "fire" /\ ~job[t].hit /\ job[t].env = event
    BY <1>3, <1>8 DEF Holds
  <2> DEFINE rest == job[t].arms \ {arm}
  <2>2. CASE rest # {}
    <3>1. owes = [job[t] EXCEPT !.arms = rest, !.hit = job[t].hit \/ took]
      BY <2>2 DEF AfterFire
    <3>2. owes.op = "fire" /\ owes.env = event /\ ~owes.hit
      BY <3>1, <2>1, <1>3, <1>8 DEF Jobs
    <3> QED
      BY <3>2, <1>6 DEF Holds
  <2>3. CASE rest = {}
    <3>1. owes = [job[t] EXCEPT !.op = "relatch", !.arms = {}]
      BY <2>1, <2>3, <1>8 DEF AfterFire
    <3>2. owes.op = "relatch" /\ owes.env = event /\ ~owes.hit
      BY <3>1, <2>1, <1>3 DEF Jobs
    <3> QED
      BY <3>2, <1>6 DEF Holds
  <2> QED
    BY <2>2, <2>3
<1>9. ASSUME Holds(t, event), took PROVE Receives(w, event)'
  <2>1. job[t].op = "fire" /\ env = event
    BY <1>3, <1>9 DEF Holds
  <2> QED
    BY <2>1, <1>2, <1>3, <1>4, <1>5, <1>7, <1>9, EmptyFacts DEF Receives, Holds
<1> HIDE DEF env, took, owes
<1>10. CASE \E v \in Waiters : Receives(v, event)
  <2>1. PICK v \in Waiters : Receives(v, event)
    BY <1>10
  <2>2. inbox'[v] = inbox[v]
    BY <2>1, <1>7 DEF Receives, took
  <2>3. Receives(v, event)'
    BY <2>1, <2>2, <1>2 DEF Receives
  <2> QED
    BY <2>3 DEF Kept, InTransit, Receives
<1>11. CASE \E i \in DOMAIN missed : missed[i] = event
  BY <1>2, <1>11 DEF Kept, InTransit, HeldByRegistry, ToSet
<1>12. CASE dispatch = "correlate" /\ current = event
  BY <1>2, <1>12 DEF Kept, InTransit
<1>13. CASE \E u \in Threads : Holds(u, event)
  <2>1. PICK u \in Threads : Holds(u, event)
    BY <1>13
  <2>2. CASE u # t \/ ~took
    <3>1. Holds(u, event)'
      <4>1. CASE u # t
        BY <4>1, <2>1, <1>6 DEF Holds
      <4>2. CASE u = t
        BY <4>2, <2>1, <2>2, <1>8
      <4> QED
        BY <4>1, <4>2
    <3> QED
      BY <3>1 DEF Kept, InTransit, HeldByRegistry, Holds
  <2>3. CASE u = t /\ took
    <3>1. Receives(w, event)'
      BY <2>1, <2>3, <1>9
    <3> QED
      BY <3>1, <1>3 DEF Kept, InTransit, Receives
  <2> QED
    BY <2>2, <2>3
<1> QED
  BY <1>10, <1>11, <1>12, <1>13, TransitMeans, HeldMeans

LEMMA SettleKept ==
    ASSUME IInv, NEW event \in InTransit, NEW t \in Threads, Settle(t)
    PROVE  Kept(event)
<1>1. UNCHANGED Outside
  BY DEF Settle
<1>2. UNCHANGED <<outcome, dispatch, current>>
  BY <1>1 DEF Outside, waitVars, dispatchVars
<1>3. CASE FireCorrelated(t)
  BY <1>1, <1>3, FireKept
<1>4. CASE RelatchCorrelated(t)
  <2>1. UNCHANGED <<inbox, death_committed, death_purged>> /\ job[t].op = "relatch"
    BY <1>4 DEF RelatchCorrelated, awaitVars
  <2>2. CASE death_purged
    <3>1. death_committed'
      BY <2>1, <2>2 DEF IInv, Deaths
    <3> QED
      BY <3>1 DEF Kept, Accounted
  <2>3. CASE ~death_purged
    <3>1. RegistryTypes /\ Capture(t, job[t].env) /\ job[t].env \in Items
      BY <1>4, <2>1, <2>3 DEF RelatchCorrelated, IInv, TypeOK, BusTypeOK, RegistryTypes, Registry
    <3>2. \A e : Holds(t, e) => e = job[t].env
      BY DEF Holds
    <3>3. \A e \in HeldByRegistry : e \in HeldByRegistry' \/ e \in NextToEvict
      BY <3>1, <3>2, CaptureHolds
    <3> QED
      BY <2>1, <3>3, <1>2, TransitKept DEF Kept
  <2> QED
    BY <2>2, <2>3
<1>5. CASE OnLoopDeath(t, t = "dispatch")
  <2>1. CASE DeathCommits(t) \/ DeathResolves(t)
    <3>1. death_committed'
      BY <2>1 DEF DeathCommits, DeathResolves, AtDeathStep, IInv, Deaths
    <3> QED
      BY <3>1 DEF Kept, Accounted
  <2>2. CASE DeathObserved(t, t = "dispatch") \/ DeathAnnounced(t)
    <3>1. UNCHANGED <<missed, job, inbox>>
      BY <2>2 DEF DeathObserved, DeathAnnounced, registryVars, awaitVars
    <3> QED
      BY <3>1, <1>2, QuietKept
  <2> QED
    BY <1>5, <2>1, <2>2 DEF OnLoopDeath
<1> QED
  BY <1>3, <1>4, <1>5 DEF Settle

LEMMA StepKeepsTransit ==
    IInv /\ [Next]_vars => [\A event \in InTransit : event \in InTransit' \/ Accounted(event)]_vars
<1> SUFFICES ASSUME IInv, Next, NEW event \in InTransit PROVE Kept(event)
  BY DEF Kept
<1>1. CASE CallerGoesOn
  BY <1>1, DeliveriesKept, OthersKept DEF CallerGoesOn
<1>2. CASE IoSteps
  BY <1>2, DeliveriesKept, OthersKept DEF IoSteps
<1>3. CASE DispatchSteps
  BY <1>3, DeliveriesKept, OthersKept DEF DispatchSteps
<1>4. ASSUME NEW w \in Waiters, Polls(w) PROVE Kept(event)
  BY <1>4, ArmsKept, PollsKept DEF Polls
<1>5. CASE UNCHANGED vars
  <2>1. UNCHANGED <<missed, job, inbox, outcome, dispatch, current>>
    BY <1>5 DEF vars, busVars, waitVars, dispatchVars
  <2> QED
    BY <2>1, QuietKept
<1> QED
  BY <1>1, <1>2, <1>3, <1>4, <1>5, OthersKept, SettleKept, ReleaseKept DEF Next, Terminated

\* A completion that was taken off the ring, latched, captured or received is never lost:
\* each step leaves it in transit, or an await returns it, a full buffer evicts it, a death
\* outranks it, or the only holder of its handle is dropped (deliver_correlated,
\* relatch_correlated, ArmedState::drop).
THEOREM TerminalNeverLost == Spec => NoLostTerminal
BY StepKeepsTransit, InductiveInvariant, PTL DEF Spec, NoLostTerminal

=============================================================================
