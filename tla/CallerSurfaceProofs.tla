------------------------- MODULE CallerSurfaceProofs -------------------------
(***************************************************************************)
(* Proofs about CallerSurface, for any number of threads, channels and     *)
(* handlers and any capacity of the queue: no teardown is lost, no guard   *)
(* streams without its handler, a crash never reads as a clean close, and  *)
(* the presence mirror counts the handlers.                                *)
(***************************************************************************)
EXTENDS CallerSurface, SequenceTheorems, FiniteSetTheorems, TLAPS

-----------------------------------------------------------------------------
(* The inductive invariant.                                                *)

Unposted == {"register", "post_register", "compensate"}

\* Thread t is in a registering call that has not returned.
Opening(t) == work[t].call \in {"on", "on_for"} /\ work[t].step \in Unposted \union {"gate", "post"}

\* A thread holds teardowns only between the steps of a flush or of a post.
HandShape ==
    /\ \A t \in Threads :
          /\ at[t] \notin {"send", "requeue", "retire"} => hand[t] = <<>>
          /\ at[t] = "retire" => /\ work[t].step = "teardown"
                                 /\ hand[t] = <<TeardownOf(t)>>
          /\ at[t] \in {"idle", "select"} => work[t] = NoWork
    /\ work["io"] = NoWork
    /\ at["io"] \notin {"work", "retire"}
    /\ io # "select" => at["io"] = "idle"

\* What a call is at, and what became of its handle.
WorkShape ==
    \A t \in Threads :
        /\ work[t].step \in Unposted => Opening(t)
        /\ work[t].call \in {"subscribe", "unsubscribe", "unsubscribe_all", "connect", "none"} =>
              work[t].id = 0 /\ work[t].step \in {"none", "gate", "post"}
        /\ work[t].call = "none" => work[t].step = "none"
        /\ work[t].call \in {"drop", "drop_guard"} => work[t].step = "teardown"
        /\ work[t].call = "on" => work[t].step \in Unposted
        /\ work[t].call = "on_for" => Opening(t) \/ work[t].step = "teardown"
        /\ Opening(t) => /\ work[t].id \in Ids
                         /\ handle[work[t].id].state = "opening"
                         /\ handle[work[t].id].ch = work[t].ch
        /\ work[t].step = "teardown" => /\ work[t].id \in Ids
                                        /\ handle[work[t].id].state = "released"
                                        /\ handle[work[t].id].ch = work[t].ch

\* An id is opened by one thread.
OneOpener ==
    \A t, u \in Threads : (Opening(t) /\ Opening(u) /\ work[t].id = work[u].id) => t = u

\* A teardown follows the release of its id.
TeardownShape(x) ==
    /\ x.op \in Teardowns
    /\ x.id \in Ids
    /\ handle[x.id].state = "released"
    /\ handle[x.id].ch = x.ch

ItemShape(x) ==
    /\ x.op \in Teardowns => TeardownShape(x)
    /\ x.op \in {"unsubscribe", "unsubscribe_all", "connect"} => x.id = 0
    /\ x.op = "register" => x.id \in Ids
    /\ x.id \in Ids => handle[x.id].ch = x.ch /\ handle[x.id].state # "new"

ItemsShaped ==
    /\ \A n \in DOMAIN queue : ItemShape(queue[n])
    /\ \A n \in DOMAIN pending : TeardownShape(pending[n])
    /\ \A t \in Threads : \A n \in DOMAIN hand[t] : TeardownShape(hand[t][n])

\* A handler and a guard are where their handle says.
Placed ==
    \A c \in Channels : \A i \in handlers[c] \union subs[c].guards :
        handle[i].ch = c /\ handle[i].state # "new"

\* Nothing of id i has reached the queue.
Silent(i) ==
    /\ \A c \in Channels : i \notin handlers[c] /\ i \notin subs[c].guards
    /\ \A n \in DOMAIN queue : queue[n].id # i

NewSilent == \A i \in Ids : handle[i].state = "new" => Silent(i)

UnpostedSilent == \A t \in Threads : work[t].step \in Unposted => Silent(work[t].id)

\* Id i has no subscription and none is on its way.
Unsubscribed(i) ==
    /\ \A c \in Channels : i \notin subs[c].guards
    /\ \A n \in DOMAIN queue : ~(queue[n].op = "subscribe" /\ queue[n].id = i)

PlainUnsubscribed == \A i \in Ids : ~handle[i].guard => Unsubscribed(i)

\* A handler is deregistered alone only if it never had a subscription.
CallsUnsubscribed ==
    \A t \in Threads :
        /\ work[t].call = "on_for" =>
              work[t].id \in Ids /\ Unsubscribed(work[t].id) /\ handle[work[t].id].guard
        /\ work[t].call = "drop" => ~handle[work[t].id].guard

Alone(x) == x.op = "deregister" => Unsubscribed(x.id)

ItemsUnsubscribed ==
    /\ \A n \in DOMAIN queue : Alone(queue[n])
    /\ \A n \in DOMAIN pending : Alone(pending[n])
    /\ \A t \in Threads : \A n \in DOMAIN hand[t] : Alone(hand[t][n])

\* The handler of id i is registered, or before position n of the queue.
Anchored(i, c, n) ==
    \/ i \in handlers[c]
    \/ \E k \in DOMAIN queue : k < n /\ queue[k].op = "register" /\ queue[k].id = i

CallsAnchored ==
    \A t \in Threads :
        (work[t].call = "on_for" /\ work[t].step \in {"gate", "post"} /\ ~closed) =>
            Anchored(work[t].id, work[t].ch, Len(queue) + 1)

\* A guard subscribes behind its registration and before its teardown.
SubscribesOrdered ==
    \A n \in DOMAIN queue : (queue[n].op = "subscribe" /\ queue[n].id \in Ids) =>
        /\ Anchored(queue[n].id, queue[n].ch, n)
        /\ \A k \in DOMAIN queue : (k < n /\ queue[k].id = queue[n].id) =>
              queue[k].op \notin Teardowns

\* The death of the reactor is latched.
DeathLatched == (crashed => loop_failed)

IInv ==
    /\ HandShape /\ WorkShape /\ OneOpener /\ ItemsShaped /\ Placed
    /\ NewSilent /\ UnpostedSilent
    /\ PlainUnsubscribed /\ CallsUnsubscribed /\ ItemsUnsubscribed
    /\ CallsAnchored /\ SubscribesOrdered
    /\ GuardsHeard /\ NoLostTeardown /\ DeathLatched

-----------------------------------------------------------------------------
(* Facts the proofs rest on.                                               *)

\* What Append does to the queue, position by position.
LEMMA PostFacts ==
    ASSUME queue \in Seq(Items), NEW x \in Items, queue' = Append(queue, x)
    PROVE  /\ queue' \in Seq(Items)
           /\ Len(queue) \in Nat /\ Len(queue') = Len(queue) + 1
           /\ DOMAIN queue = 1..Len(queue) /\ DOMAIN queue' = 1..(Len(queue) + 1)
           /\ \A n \in 1..Len(queue) : queue'[n] = queue[n]
           /\ queue'[Len(queue) + 1] = x
  OBVIOUS

\* What receiving its head does to the queue.
LEMMA ReceiveFacts ==
    ASSUME queue \in Seq(Items), queue # <<>>, queue' = Tail(queue)
    PROVE  /\ queue' \in Seq(Items)
           /\ Len(queue) \in Nat \ {0} /\ Len(queue') = Len(queue) - 1
           /\ DOMAIN queue = 1..Len(queue) /\ DOMAIN queue' = 1..(Len(queue) - 1)
           /\ Head(queue) = queue[1] /\ queue[1] \in Items
           /\ \A n \in 1..(Len(queue) - 1) : queue'[n] = queue[n + 1]
  OBVIOUS

\* A requeue adds what a thread holds to what is pending, and nothing else.
LEMMA RequeueFacts ==
    ASSUME TypeOK, NEW t \in Threads, Requeue(t)
    PROVE  /\ pending' \in Seq(Items)
           /\ \A n \in DOMAIN pending' : \/ \E k \in DOMAIN pending : pending'[n] = pending[k]
                                         \/ \E k \in DOMAIN hand[t] : pending'[n] = hand[t][k]
           /\ \A k \in DOMAIN pending : \E n \in DOMAIN pending' : pending'[n] = pending[k]
           /\ \A k \in DOMAIN hand[t] : \E n \in DOMAIN pending' : pending'[n] = hand[t][k]
           /\ hand' \in [Threads -> Seq(Items)]
           /\ hand'[t] = <<>>
           /\ \A u \in Threads \ {t} : hand'[u] = hand[u]
  <1>1. pending' = pending \o hand[t] /\ pending \in Seq(Items) /\ hand[t] \in Seq(Items)
    BY DEF TypeOK, Requeue
  <1>2. /\ pending' \in Seq(Items)
        /\ Len(pending) \in Nat /\ Len(hand[t]) \in Nat
        /\ DOMAIN pending = 1..Len(pending) /\ DOMAIN hand[t] = 1..Len(hand[t])
        /\ DOMAIN pending' = 1..(Len(pending) + Len(hand[t]))
        /\ \A n \in 1..(Len(pending) + Len(hand[t])) :
              pending'[n] = IF n <= Len(pending) THEN pending[n] ELSE hand[t][n - Len(pending)]
    BY <1>1
  <1>3. \A k \in DOMAIN pending : k \in DOMAIN pending' /\ pending'[k] = pending[k]
    BY <1>2
  <1>4. \A k \in DOMAIN hand[t] : k + Len(pending) \in DOMAIN pending' /\ pending'[k + Len(pending)] = hand[t][k]
    BY <1>2
  <1>5. ASSUME NEW n \in DOMAIN pending'
        PROVE  \/ \E k \in DOMAIN pending : pending'[n] = pending[k]
               \/ \E k \in DOMAIN hand[t] : pending'[n] = hand[t][k]
    <2>1. CASE n <= Len(pending)
      <3>1. n \in DOMAIN pending /\ pending'[n] = pending[n]
        BY <1>2, <2>1
      <3> QED
        BY <3>1
    <2>2. CASE ~(n <= Len(pending))
      <3>1. n - Len(pending) \in DOMAIN hand[t] /\ pending'[n] = hand[t][n - Len(pending)]
        BY <1>2, <2>2
      <3> QED
        BY <3>1
    <2> QED
      BY <2>1, <2>2
  <1>6. hand' \in [Threads -> Seq(Items)] /\ hand'[t] = <<>> /\ \A u \in Threads \ {t} : hand'[u] = hand[u]
    BY DEF TypeOK, Requeue
  <1> QED
    BY <1>2, <1>3, <1>4, <1>5, <1>6

\* An idle thread has an ordinary nothing to do.
LEMMA NoWorkFacts ==
    NoWork \in Works /\ NoWork.step = "none" /\ NoWork.call = "none" /\ NoWork.id = 0
             /\ NoWork.ch \in Channels
  BY SurfaceAssumption DEF NoWork, Works, CallKinds

\* No id is the 0 of a message of no handler.
LEMMA IdFacts == 0 \notin Ids /\ "io" \in Threads /\ Callers \subseteq Threads /\ "io" \notin Callers
                /\ QueueCap \in Nat /\ <<>> \in Seq(Items) /\ Len(<<>>) = 0 /\ DOMAIN <<>> = {}
  BY SurfaceAssumption DEF Threads

\* A call that goes to another step is the same call.
LEMMA StepFacts ==
    ASSUME NEW w \in [Threads -> Works], NEW t \in Threads, NEW v,
           NEW s \in {"register", "post_register", "compensate", "gate", "post", "teardown"},
           v = [w EXCEPT ![t].step = s]
    PROVE  /\ v \in [Threads -> Works]
           /\ v[t].step = s
           /\ v[t].call = w[t].call
           /\ v[t].id = w[t].id
           /\ v[t].ch = w[t].ch
           /\ \A u \in Threads \ {t} : v[u] = w[u]
  <1>1. [w[t] EXCEPT !.step = s] \in Works
    BY DEF Works
  <1> QED
    BY <1>1 DEF Works

\* A call that returns leaves its thread with nothing to do.
LEMMA ReturnFacts ==
    ASSUME NEW w \in [Threads -> Works], NEW t \in Threads, NEW v, v = [w EXCEPT ![t] = NoWork]
    PROVE  /\ v \in [Threads -> Works]
           /\ v[t] = NoWork
           /\ \A u \in Threads \ {t} : v[u] = w[u]
  BY NoWorkFacts

\* A handle that changes its state is otherwise the same.
LEMMA HandleFacts ==
    ASSUME NEW h \in [Ids -> Handles], NEW i \in Ids, NEW g, NEW s \in {"held", "released"},
           g = [h EXCEPT ![i].state = s]
    PROVE  /\ g \in [Ids -> Handles]
           /\ g[i].state = s
           /\ \A j \in Ids : g[j].guard = h[j].guard /\ g[j].ch = h[j].ch
           /\ \A j \in Ids \ {i} : g[j] = h[j]
  <1>1. [h[i] EXCEPT !.state = s] \in Handles
    BY DEF Handles
  <1> QED
    BY <1>1 DEF Handles

\* The teardown a call is about to post is one.
LEMMA TeardownFacts ==
    ASSUME TypeOK, IInv, NEW t \in Callers, At(t, "teardown")
    PROVE  /\ TeardownOf(t) \in Items
           /\ TeardownOf(t).id = work[t].id
           /\ TeardownShape(TeardownOf(t))
           /\ Alone(TeardownOf(t))
  <1>1. t \in Threads /\ work \in [Threads -> Works] /\ work[t].step = "teardown"
    BY DEF TypeOK, At, Threads
  <1>2. /\ work[t].id \in Ids
        /\ handle[work[t].id].state = "released"
        /\ handle[work[t].id].ch = work[t].ch
        /\ work[t].call \in {"drop", "drop_guard", "on_for"}
    BY <1>1 DEF IInv, WorkShape, Unposted, Works, CallKinds
  <1>3. work[t].call \in {"drop", "on_for"} => Unsubscribed(work[t].id)
    BY <1>1, <1>2 DEF IInv, CallsUnsubscribed, PlainUnsubscribed
  <1>4. /\ TeardownOf(t).op \in Teardowns /\ TeardownOf(t).id = work[t].id /\ TeardownOf(t).ch = work[t].ch
        /\ work[t].call = "drop_guard" => TeardownOf(t).op # "deregister"
        /\ TeardownOf(t) = [op |-> TeardownOf(t).op, id |-> TeardownOf(t).id, ch |-> TeardownOf(t).ch]
    BY DEF TeardownOf, Item, Teardowns
  <1>5. TeardownOf(t) \in Items
    BY <1>1, <1>2, <1>4 DEF Items, Ops, Teardowns, Works
  <1>6. TeardownShape(TeardownOf(t))
    BY <1>2, <1>4 DEF TeardownShape
  <1>7. Alone(TeardownOf(t))
    BY <1>2, <1>3, <1>4 DEF Alone
  <1> QED
    BY <1>4, <1>5, <1>6, <1>7

\* The guards of one channel change, and nothing else of the subscriptions.
LEMMA GuardFacts ==
    ASSUME NEW s \in [Channels -> [plain : Nat, guards : SUBSET Ids]], NEW c \in Channels,
           NEW g \in SUBSET Ids, NEW v, v = [s EXCEPT ![c].guards = g]
    PROVE  /\ v \in [Channels -> [plain : Nat, guards : SUBSET Ids]]
           /\ v[c].guards = g
           /\ \A d \in Channels \ {c} : v[d] = s[d]
  <1>1. [s[c] EXCEPT !.guards = g] \in [plain : Nat, guards : SUBSET Ids]
    OBVIOUS
  <1> QED
    BY <1>1

\* The plain subscribers of one channel change, and no guard does.
LEMMA PlainFacts ==
    ASSUME NEW s \in [Channels -> [plain : Nat, guards : SUBSET Ids]], NEW c \in Channels,
           NEW p \in Nat, NEW v, v = [s EXCEPT ![c].plain = p]
    PROVE  /\ v \in [Channels -> [plain : Nat, guards : SUBSET Ids]]
           /\ \A d \in Channels : v[d].guards = s[d].guards
  <1>1. [s[c] EXCEPT !.plain = p] \in [plain : Nat, guards : SUBSET Ids]
    OBVIOUS
  <1> QED
    BY <1>1

\* A flush looks at the flag and the room.
LEMMA FlushChecksKeeps ==
    ASSUME TypeOK, IInv, NEW t \in Threads,
           FlushChecks(t)
    PROVE  TypeOK' /\ IInv'
  <1> USE NoWorkFacts, IdFacts DEF queueVars, lifeVars, pendingVars, registryVars
  <1>20. TypeOK'
    BY DEF TypeOK, FlushChecks, Resume
  <1>21. HandShape'
    BY DEF TypeOK, IInv, Works, HandShape, TeardownOf, Item, FlushChecks, Resume
  <1>22. WorkShape'
    BY DEF IInv, WorkShape, Opening, Unposted, FlushChecks
  <1>23. OneOpener'
    BY DEF IInv, OneOpener, Opening, Unposted, FlushChecks
  <1>24. ItemsShaped'
    BY DEF IInv, ItemsShaped, ItemShape, TeardownShape, Teardowns, Item, FlushChecks
  <1>25. Placed'
    BY DEF IInv, Placed, FlushChecks
  <1>26. NewSilent'
    BY DEF IInv, NewSilent, Silent, Item, FlushChecks
  <1>27. UnpostedSilent'
    BY DEF IInv, UnpostedSilent, Silent, Unposted, Item, FlushChecks
  <1>28. PlainUnsubscribed'
    BY DEF IInv, PlainUnsubscribed, Unsubscribed, Item, FlushChecks
  <1>29. CallsUnsubscribed'
    BY DEF IInv, CallsUnsubscribed, Unsubscribed, Item, FlushChecks
  <1>30. ItemsUnsubscribed'
    BY DEF IInv, ItemsUnsubscribed, Alone, Unsubscribed, Item, FlushChecks
  <1>31. CallsAnchored'
    BY DEF IInv, CallsAnchored, Anchored, Item, FlushChecks
  <1>32. SubscribesOrdered'
    BY DEF IInv, SubscribesOrdered, Anchored, Teardowns, Item, FlushChecks
  <1>33. GuardsHeard'
    BY DEF IInv, GuardsHeard, FlushChecks
  <1>34. NoLostTeardown'
    BY DEF IInv, NoLostTeardown, Alive, TeardownUnderway, WithCall, InHand, InPending, InQueue,
       Queued, Teardowns, Item, FlushChecks
  <1>35. DeathLatched'
    BY DEF IInv, DeathLatched, FlushChecks
  <1> QED
    BY <1>20, <1>21, <1>22, <1>23, <1>24, <1>25, <1>26, <1>27, <1>28, <1>29, <1>30, <1>31, <1>32,
       <1>33, <1>34, <1>35 DEF IInv

\* A flush takes everything that is pending.
LEMMA FlushTakesKeeps ==
    ASSUME TypeOK, IInv, NEW t \in Threads,
           FlushTakes(t)
    PROVE  TypeOK' /\ IInv'
  <1> USE NoWorkFacts, IdFacts DEF queueVars, lifeVars, pendingVars, registryVars
  <1>20. TypeOK'
    BY DEF TypeOK, Items, Ops, Works, Handles, CallKinds, Item, FlushTakes
  <1>21. HandShape'
    BY DEF TypeOK, IInv, Works, HandShape, TeardownOf, Item, FlushTakes
  <1>22. WorkShape'
    BY DEF IInv, WorkShape, Opening, Unposted, FlushTakes
  <1>23. OneOpener'
    BY DEF IInv, OneOpener, Opening, Unposted, FlushTakes
  <1>24. ItemsShaped'
    BY DEF TypeOK, IInv, ItemsShaped, ItemShape, TeardownShape, Teardowns, Item, FlushTakes
  <1>25. Placed'
    BY DEF IInv, Placed, FlushTakes
  <1>26. NewSilent'
    BY DEF IInv, NewSilent, Silent, Item, FlushTakes
  <1>27. UnpostedSilent'
    BY DEF IInv, UnpostedSilent, Silent, Unposted, Item, FlushTakes
  <1>28. PlainUnsubscribed'
    BY DEF IInv, PlainUnsubscribed, Unsubscribed, Item, FlushTakes
  <1>29. CallsUnsubscribed'
    BY DEF IInv, CallsUnsubscribed, Unsubscribed, Item, FlushTakes
  <1>30. ItemsUnsubscribed'
    BY DEF TypeOK, IInv, ItemsUnsubscribed, Alone, Unsubscribed, Item, FlushTakes
  <1>31. CallsAnchored'
    BY DEF IInv, CallsAnchored, Anchored, Item, FlushTakes
  <1>32. SubscribesOrdered'
    BY DEF IInv, SubscribesOrdered, Anchored, Teardowns, Item, FlushTakes
  <1>33. GuardsHeard'
    BY DEF IInv, GuardsHeard, FlushTakes
  <1>34. NoLostTeardown'
    <2> SUFFICES ASSUME ~closed', NEW i \in Ids, handle'[i].state = "released", Alive(i)'
                 PROVE  TeardownUnderway(i)'
      BY DEF NoLostTeardown
    <2>2. handle[i].state = "released"
      BY DEF TypeOK, Handles, FlushTakes
    <2>1. Alive(i)
      BY DEF Alive, Queued, FlushTakes
    <2>3. ~closed
      BY DEF FlushTakes
    <2>4. TeardownUnderway(i)
      BY <2>1, <2>2, <2>3 DEF IInv, NoLostTeardown
    <2>5. WithCall(i) => WithCall(i)'
      BY DEF TypeOK, IInv, HandShape, Works, WithCall, FlushTakes
    <2>6. InHand(i) => InHand(i)'
      BY DEF TypeOK, IInv, HandShape, InHand, InPending, FlushTakes
    <2>7. InPending(i) => InHand(i)'
      BY DEF TypeOK, InPending, InHand, FlushTakes
    <2>8. InQueue(i) => InQueue(i)'
      BY DEF TypeOK, InQueue, Teardowns, FlushTakes
    <2> QED
      BY <2>4, <2>5, <2>6, <2>7, <2>8 DEF TeardownUnderway
  <1>35. DeathLatched'
    BY DEF IInv, DeathLatched, FlushTakes
  <1> QED
    BY <1>20, <1>21, <1>22, <1>23, <1>24, <1>25, <1>26, <1>27, <1>28, <1>29, <1>30, <1>31, <1>32,
       <1>33, <1>34, <1>35 DEF IInv

\* A flush has sent everything, finds no room, or finds the reactor gone.
LEMMA FlushQuitsKeeps ==
    ASSUME TypeOK, IInv, NEW t \in Threads,
           at[t] = "send", UNCHANGED queueVars,
           \/ hand[t] = <<>> /\ Resume(t) /\ UNCHANGED hand
           \/ KeepsRest(t)
           \/ closed /\ hand' = [hand EXCEPT ![t] = <<>>] /\ Resume(t),
           UNCHANGED <<lifeVars, pending, has_pending, presence, registryVars, handle, work, calls>>
    PROVE  TypeOK' /\ IInv'
  <1> USE NoWorkFacts, IdFacts DEF queueVars, lifeVars, pendingVars, registryVars
  <1>u. /\ at[t] = "send"
        /\ UNCHANGED <<queue, closed, pending, handlers, subs, crashed, loop_failed, io, handle, work>>
    OBVIOUS
  <1>h. /\ \A u \in Threads \ {t} : hand'[u] = hand[u] /\ at'[u] = at[u]
        /\ hand'[t] = hand[t] \/ (closed /\ hand'[t] = <<>>)
        /\ hand'[t] # <<>> => at'[t] = "requeue"
        /\ at'[t] \in {"requeue", "select", "work"}
        /\ IF t = "io" THEN at'[t] # "work" ELSE at'[t] # "select"
    <2>0. hand \in [Threads -> Seq(Items)] /\ DOMAIN at = Threads
      BY DEF TypeOK
    <2>1. CASE hand[t] = <<>> /\ Resume(t) /\ UNCHANGED hand
      BY <2>0, <2>1 DEF Resume
    <2>2. CASE KeepsRest(t)
      BY <2>0, <2>2 DEF KeepsRest
    <2>3. CASE closed /\ hand' = [hand EXCEPT ![t] = <<>>] /\ Resume(t)
      BY <2>0, <2>3 DEF Resume
    <2> QED
      BY <2>1, <2>2, <2>3
  <1>20. TypeOK'
    <2>1. hand' \in [Threads -> Seq(Items)]
      BY DEF TypeOK, KeepsRest
    <2>2. at' \in [Threads -> {"idle", "flush", "take", "send", "requeue", "work", "retire", "select"}]
      BY DEF TypeOK, KeepsRest, Resume
    <2> QED
      BY <2>1, <2>2, <1>u DEF TypeOK
  <1>21. HandShape'
    <2>1. t = "io" => io = "select"
      BY <1>u DEF IInv, HandShape
    <2>2. /\ at'[t] \notin {"send", "requeue", "retire"} => hand'[t] = <<>>
          /\ at'[t] # "retire"
          /\ at'[t] \in {"idle", "select"} => work'[t] = NoWork
      BY <1>h, <1>u DEF IInv, HandShape
    <2>3. \A u \in Threads \ {t} :
              /\ at'[u] \notin {"send", "requeue", "retire"} => hand'[u] = <<>>
              /\ at'[u] = "retire" => work'[u].step = "teardown" /\ hand'[u] = <<TeardownOf(u)>>
              /\ at'[u] \in {"idle", "select"} => work'[u] = NoWork
      BY <1>h, <1>u DEF IInv, HandShape
    <2>4. at'["io"] \notin {"work", "retire"} /\ (io' # "select" => at'["io"] = "idle") /\ work'["io"] = NoWork
      BY <1>h, <1>u, <2>1 DEF IInv, HandShape
    <2> QED
      BY <2>2, <2>3, <2>4, <1>u DEF HandShape, TeardownOf
  <1>22. WorkShape'
    BY <1>u, <1>h DEF IInv, WorkShape, Opening, Unposted
  <1>23. OneOpener'
    BY <1>u, <1>h DEF IInv, OneOpener, Opening, Unposted
  <1>24. ItemsShaped'
    <2>1. \A y : (TeardownShape(y) => TeardownShape(y)') /\ (ItemShape(y) => ItemShape(y)')
      BY <1>u DEF TeardownShape, ItemShape
    <2> QED
      BY <2>1, <1>u, <1>h DEF IInv, ItemsShaped
  <1>25. Placed'
    BY <1>u, <1>h DEF IInv, Placed
  <1>26. NewSilent'
    BY <1>u, <1>h DEF IInv, NewSilent, Silent, Item
  <1>27. UnpostedSilent'
    BY <1>u, <1>h DEF IInv, UnpostedSilent, Silent, Unposted, Item
  <1>28. PlainUnsubscribed'
    BY <1>u, <1>h DEF IInv, PlainUnsubscribed, Unsubscribed, Item
  <1>29. CallsUnsubscribed'
    BY <1>u, <1>h DEF IInv, CallsUnsubscribed, Unsubscribed, Item
  <1>30. ItemsUnsubscribed'
    <2>1. \A y : Alone(y) => Alone(y)'
      BY <1>u DEF Alone, Unsubscribed
    <2> QED
      BY <2>1, <1>u, <1>h DEF IInv, ItemsUnsubscribed
  <1>31. CallsAnchored'
    BY <1>u, <1>h DEF IInv, CallsAnchored, Anchored, Item
  <1>32. SubscribesOrdered'
    BY <1>u, <1>h DEF IInv, SubscribesOrdered, Anchored, Teardowns, Item
  <1>33. GuardsHeard'
    BY <1>u, <1>h DEF IInv, GuardsHeard
  <1>34. NoLostTeardown'
    <2> SUFFICES ASSUME ~closed', NEW i \in Ids, handle'[i].state = "released", Alive(i)'
                 PROVE  TeardownUnderway(i)'
      BY DEF NoLostTeardown
    <2>2. Alive(i) /\ ~closed /\ handle[i].state = "released"
      BY <1>u DEF Alive, Queued
    <2>3. TeardownUnderway(i)
      BY <2>2 DEF IInv, NoLostTeardown
    <2>4. WithCall(i) => WithCall(i)'
      BY <1>u DEF WithCall
    <2>5. InHand(i) => InHand(i)'
      BY <2>2, <1>h DEF InHand
    <2>6. (InPending(i) => InPending(i)') /\ (InQueue(i) => InQueue(i)')
      BY <1>u DEF InPending, InQueue
    <2> QED
      BY <2>3, <2>4, <2>5, <2>6 DEF TeardownUnderway
  <1>35. DeathLatched'
    BY <1>u, <1>h DEF IInv, DeathLatched
  <1> QED
    BY <1>20, <1>21, <1>22, <1>23, <1>24, <1>25, <1>26, <1>27, <1>28, <1>29, <1>30, <1>31, <1>32,
       <1>33, <1>34, <1>35 DEF IInv

\* A flush posts the oldest teardown it holds.
LEMMA FlushPostsKeeps ==
    ASSUME TypeOK, IInv, NEW t \in Threads,
           at[t] = "send", hand[t] # <<>>, ~closed, Room > Reserve(t), Posts(Head(hand[t])),
           hand' = [hand EXCEPT ![t] = Tail(@)], UNCHANGED at,
           UNCHANGED <<lifeVars, pending, has_pending, presence, registryVars, handle, work, calls>>
    PROVE  TypeOK' /\ IInv'
  <1> USE NoWorkFacts, IdFacts DEF queueVars, lifeVars, pendingVars, registryVars
  <1>a. /\ queue \in Seq(Items) /\ handle \in [Ids -> Handles] /\ work \in [Threads -> Works]
        /\ hand[t] \in Seq(Items) /\ hand[t] # <<>>
    BY DEF TypeOK
  <1>u. /\ at[t] = "send" /\ ~closed
        /\ UNCHANGED <<closed, pending, handlers, subs, crashed, loop_failed, io, handle, work, at>>
    BY DEF Posts
  <1>1. /\ Head(hand[t]) \in Items /\ 1 \in DOMAIN hand[t] /\ hand[t][1] = Head(hand[t])
        /\ Tail(hand[t]) \in Seq(Items)
        /\ \A n \in DOMAIN Tail(hand[t]) : n + 1 \in DOMAIN hand[t] /\ Tail(hand[t])[n] = hand[t][n + 1]
        /\ \A k \in DOMAIN hand[t] : k = 1 \/ (k - 1 \in DOMAIN Tail(hand[t]) /\ Tail(hand[t])[k - 1] = hand[t][k])
    BY <1>a
  <1>h. /\ hand' \in [Threads -> Seq(Items)] /\ hand'[t] = Tail(hand[t])
        /\ \A u \in Threads \ {t} : hand'[u] = hand[u]
    BY <1>1 DEF TypeOK
  <1>b. TeardownShape(Head(hand[t])) /\ Alone(Head(hand[t]))
    BY <1>1 DEF IInv, ItemsShaped, ItemsUnsubscribed
  <1>x. PICK x \in Items : /\ queue' = Append(queue, x) /\ x = Head(hand[t])
                           /\ x.op \in Teardowns /\ x.id \in Ids /\ handle[x.id].state = "released"
                           /\ TeardownShape(x) /\ Alone(x)
    BY <1>b, <1>1 DEF Posts, TeardownShape
  <1>q. /\ queue' \in Seq(Items)
        /\ Len(queue) \in Nat /\ Len(queue') = Len(queue) + 1
        /\ DOMAIN queue = 1..Len(queue) /\ DOMAIN queue' = 1..(Len(queue) + 1)
        /\ \A n \in 1..Len(queue) : queue'[n] = queue[n]
        /\ queue'[Len(queue) + 1] = x
    BY <1>a, <1>x, PostFacts
  <1>d. UNCHANGED <<handle, handlers, subs>>
    BY <1>u
  <1>20. TypeOK'
    <2>1. Len(queue') <= QueueCap
      BY <1>q DEF TypeOK, Room, Reserve
    <2> QED
      BY <1>q, <1>h, <1>u, <2>1 DEF TypeOK
  <1>21. HandShape'
    BY <1>h, <1>u DEF IInv, HandShape, TeardownOf, Item
  <1>22. WorkShape'
    BY <1>a, <1>u, <1>x, <1>q, <1>d DEF IInv, WorkShape, Opening, Unposted, Teardowns
  <1>23. OneOpener'
    BY <1>a, <1>u, <1>x, <1>q, <1>d DEF IInv, OneOpener, Opening, Unposted, Teardowns
  <1>24. ItemsShaped'
    <2>1. \A y : (TeardownShape(y) => TeardownShape(y)') /\ (ItemShape(y) => ItemShape(y)')
      BY <1>d DEF TeardownShape, ItemShape
    <2>2. ItemShape(x)
      BY <1>x DEF ItemShape, TeardownShape, Teardowns
    <2>4. (\A n \in DOMAIN queue : ItemShape(queue[n]))'
      BY <1>q, <2>1, <2>2 DEF IInv, ItemsShaped
    <2>5. (\A u \in Threads : \A n \in DOMAIN hand[u] : TeardownShape(hand[u][n]))'
      BY <2>1, <1>1, <1>h DEF IInv, ItemsShaped
    <2> QED
      BY <2>1, <2>4, <2>5, <1>u DEF IInv, ItemsShaped
  <1>25. Placed'
    BY <1>a, <1>u, <1>x, <1>q, <1>d DEF IInv, Placed, Opening
  <1>26. NewSilent'
    BY <1>a, <1>u, <1>x, <1>q, <1>d DEF IInv, NewSilent, Silent, Item, Opening, Unposted, Teardowns
  <1>27. UnpostedSilent'
    BY <1>a, <1>u, <1>x, <1>q, <1>d DEF IInv, UnpostedSilent, Silent, Unposted, Item, WorkShape,
       Opening
  <1>28. PlainUnsubscribed'
    BY <1>a, <1>u, <1>x, <1>q, <1>d DEF IInv, PlainUnsubscribed, Unsubscribed, Item, Opening,
       Unposted, Teardowns
  <1>29. CallsUnsubscribed'
    BY <1>a, <1>u, <1>x, <1>q, <1>d DEF IInv, CallsUnsubscribed, Unsubscribed, Item, Opening,
       Unposted, Teardowns
  <1>30. ItemsUnsubscribed'
    <2>1. \A i : Unsubscribed(i) => Unsubscribed(i)'
      BY <1>u, <1>x, <1>q DEF Unsubscribed, Teardowns
    <2>2. \A y : Alone(y) => Alone(y)'
      BY <2>1 DEF Alone
    <2>3. (\A n \in DOMAIN queue : Alone(queue[n]))'
      BY <2>2, <1>q, <1>x DEF IInv, ItemsUnsubscribed
    <2>5. (\A u \in Threads : \A n \in DOMAIN hand[u] : Alone(hand[u][n]))'
      BY <2>2, <1>1, <1>h DEF IInv, ItemsUnsubscribed
    <2> QED
      BY <2>2, <2>3, <2>5, <1>u DEF IInv, ItemsUnsubscribed
  <1>31. CallsAnchored'
    <2> SUFFICES ASSUME NEW u \in Threads, work[u].call = "on_for", work[u].step \in {"gate", "post"}
                 PROVE  Anchored(work[u].id, work[u].ch, Len(queue) + 1)'
      BY <1>u DEF CallsAnchored
    <2>1. Anchored(work[u].id, work[u].ch, Len(queue) + 1)
      BY <1>u DEF IInv, CallsAnchored
    <2>2. \A k \in DOMAIN queue : k \in DOMAIN queue' /\ k < Len(queue') + 1 /\ queue'[k] = queue[k]
      BY <1>q
    <2> QED
      BY <2>1, <2>2, <1>u DEF Anchored
  <1>32. SubscribesOrdered'
    <2> SUFFICES ASSUME NEW n \in DOMAIN queue', queue'[n].op = "subscribe", queue'[n].id \in Ids
                 PROVE  /\ Anchored(queue[n].id, queue[n].ch, n)'
                        /\ \A k \in DOMAIN queue' : (k < n /\ queue'[k].id = queue'[n].id) =>
                              queue'[k].op \notin Teardowns
      BY DEF SubscribesOrdered
    <2>1. n \in DOMAIN queue /\ queue'[n] = queue[n]
      BY <1>q, <1>x DEF Teardowns
    <2>2. /\ Anchored(queue[n].id, queue[n].ch, n)
          /\ \A k \in DOMAIN queue : (k < n /\ queue[k].id = queue[n].id) => queue[k].op \notin Teardowns
      BY <2>1 DEF IInv, SubscribesOrdered
    <2>3. \A k \in DOMAIN queue' : k < n => k \in DOMAIN queue /\ queue'[k] = queue[k]
      BY <2>1, <1>q
    <2>4. \A k \in DOMAIN queue : k \in DOMAIN queue' /\ queue'[k] = queue[k]
      BY <1>q
    <2>5. Anchored(queue[n].id, queue[n].ch, n)'
      BY <2>1, <2>2, <2>4, <1>u DEF Anchored
    <2> QED
      BY <2>1, <2>2, <2>3, <2>5
  <1>33. GuardsHeard'
    BY <1>a, <1>u, <1>x, <1>q, <1>d DEF IInv, GuardsHeard, Opening, Unposted, Teardowns
  <1>34. NoLostTeardown'
    <2> SUFFICES ASSUME ~closed', NEW i \in Ids, handle'[i].state = "released", Alive(i)'
                 PROVE  TeardownUnderway(i)'
      BY DEF NoLostTeardown
    <2>1. CASE i = x.id
      <3>1. /\ Len(queue) + 1 \in DOMAIN queue'
            /\ queue'[Len(queue) + 1].id = i /\ queue'[Len(queue) + 1].op \in Teardowns
            /\ \A k \in DOMAIN queue' : k <= Len(queue) + 1
        BY <2>1, <1>x, <1>q
      <3>2. InQueue(i)'
        BY <3>1 DEF InQueue
      <3> QED
        BY <3>2 DEF TeardownUnderway
    <2>2. CASE i # x.id
      <3>2. Alive(i) /\ ~closed /\ handle[i].state = "released"
        BY <2>2, <1>u, <1>d, <1>x, <1>q DEF Alive, Queued
      <3>3. TeardownUnderway(i)
        BY <3>2 DEF IInv, NoLostTeardown
      <3>4. WithCall(i) => WithCall(i)'
        BY <1>u DEF WithCall
      <3>5. InHand(i) => InHand(i)'
        <4>1. ASSUME NEW u \in Threads, NEW n \in DOMAIN hand[u], hand[u][n].id = i
              PROVE  \E k \in DOMAIN hand'[u] : hand'[u][k].id = i
          <5>1. CASE u = t
            BY <4>1, <5>1, <2>2, <1>1, <1>h, <1>x, ZenonT(60)
          <5>2. CASE u # t
            BY <4>1, <5>2, <1>h
          <5> QED
            BY <5>1, <5>2
        <4> QED
          BY <4>1 DEF InHand
      <3>7. InPending(i) => InPending(i)'
        BY <1>u DEF InPending
      <3>6. InQueue(i) => InQueue(i)'
        BY <2>2, <1>x, <1>q DEF InQueue
      <3> QED
        BY <3>3, <3>4, <3>5, <3>6, <3>7 DEF TeardownUnderway
    <2> QED
      BY <2>1, <2>2
  <1>35. DeathLatched'
    BY <1>a, <1>u, <1>x, <1>q, <1>d DEF IInv, DeathLatched, Opening, Unposted, Teardowns
  <1> QED
    BY <1>20, <1>21, <1>22, <1>23, <1>24, <1>25, <1>26, <1>27, <1>28, <1>29, <1>30, <1>31, <1>32,
       <1>33, <1>34, <1>35 DEF IInv

\* A flush at the queue.
LEMMA FlushSendsKeeps ==
    ASSUME TypeOK, IInv, NEW t \in Threads, FlushSends(t)
    PROVE  TypeOK' /\ IInv'
  BY FlushQuitsKeeps, FlushPostsKeeps DEF FlushSends

\* A flush puts back what the queue had no room for.
LEMMA FlushRequeuesKeeps ==
    ASSUME TypeOK, IInv, NEW t \in Threads,
           FlushRequeues(t)
    PROVE  TypeOK' /\ IInv'
  <1> USE NoWorkFacts, IdFacts DEF queueVars, lifeVars, pendingVars, registryVars
  <1>q. /\ pending' \in Seq(Items)
        /\ \A n \in DOMAIN pending' : \/ \E k \in DOMAIN pending : pending'[n] = pending[k]
                                      \/ \E k \in DOMAIN hand[t] : pending'[n] = hand[t][k]
        /\ \A k \in DOMAIN pending : \E n \in DOMAIN pending' : pending'[n] = pending[k]
        /\ \A k \in DOMAIN hand[t] : \E n \in DOMAIN pending' : pending'[n] = hand[t][k]
    BY RequeueFacts DEF FlushRequeues
  <1>h. /\ hand' \in [Threads -> Seq(Items)] /\ hand'[t] = <<>>
        /\ \A u \in Threads \ {t} : hand'[u] = hand[u]
    BY RequeueFacts DEF FlushRequeues
  <1>20. TypeOK'
    BY <1>q, <1>h DEF TypeOK, FlushRequeues, Requeue, FlagAfter, Resume
  <1>21. HandShape'
    BY DEF TypeOK, IInv, Works, HandShape, TeardownOf, Item, FlushRequeues, Requeue, FlagAfter,
       Resume
  <1>22. WorkShape'
    BY DEF IInv, WorkShape, Opening, Unposted, FlushRequeues
  <1>23. OneOpener'
    BY DEF IInv, OneOpener, Opening, Unposted, FlushRequeues
  <1>24. ItemsShaped'
    <2>1. UNCHANGED <<queue, handle>>
      BY DEF FlushRequeues
    <2>2. \A y : (TeardownShape(y) => TeardownShape(y)') /\ (ItemShape(y) => ItemShape(y)')
      BY <2>1 DEF TeardownShape, ItemShape
    <2>3. (\A n \in DOMAIN pending : TeardownShape(pending[n]))'
      BY <2>2, <1>q DEF IInv, ItemsShaped
    <2>4. (\A u \in Threads : \A n \in DOMAIN hand[u] : TeardownShape(hand[u][n]))'
      BY <2>2, <1>h DEF IInv, ItemsShaped
    <2> QED
      BY <2>1, <2>2, <2>3, <2>4 DEF IInv, ItemsShaped
  <1>25. Placed'
    BY DEF IInv, Placed, FlushRequeues
  <1>26. NewSilent'
    BY DEF IInv, NewSilent, Silent, Item, FlushRequeues
  <1>27. UnpostedSilent'
    BY DEF IInv, UnpostedSilent, Silent, Unposted, Item, FlushRequeues
  <1>28. PlainUnsubscribed'
    BY DEF IInv, PlainUnsubscribed, Unsubscribed, Item, FlushRequeues
  <1>29. CallsUnsubscribed'
    BY DEF IInv, CallsUnsubscribed, Unsubscribed, Item, FlushRequeues
  <1>30. ItemsUnsubscribed'
    <2>1. UNCHANGED <<queue, subs>>
      BY DEF FlushRequeues
    <2>2. \A y : Alone(y) => Alone(y)'
      BY <2>1 DEF Alone, Unsubscribed
    <2>3. (\A n \in DOMAIN pending : Alone(pending[n]))'
      BY <2>2, <1>q DEF IInv, ItemsUnsubscribed
    <2>4. (\A u \in Threads : \A n \in DOMAIN hand[u] : Alone(hand[u][n]))'
      BY <2>2, <1>h DEF IInv, ItemsUnsubscribed
    <2> QED
      BY <2>1, <2>2, <2>3, <2>4 DEF IInv, ItemsUnsubscribed
  <1>31. CallsAnchored'
    BY DEF IInv, CallsAnchored, Anchored, Item, FlushRequeues
  <1>32. SubscribesOrdered'
    BY DEF IInv, SubscribesOrdered, Anchored, Teardowns, Item, FlushRequeues
  <1>33. GuardsHeard'
    BY DEF IInv, GuardsHeard, FlushRequeues
  <1>34. NoLostTeardown'
    <2> SUFFICES ASSUME ~closed', NEW i \in Ids, handle'[i].state = "released", Alive(i)'
                 PROVE  TeardownUnderway(i)'
      BY DEF NoLostTeardown
    <2>2. handle[i].state = "released"
      BY DEF TypeOK, Handles, FlushRequeues
    <2>1. Alive(i)
      BY DEF Alive, Queued, FlushRequeues
    <2>3. ~closed
      BY DEF FlushRequeues
    <2>4. TeardownUnderway(i)
      BY <2>1, <2>2, <2>3 DEF IInv, NoLostTeardown
    <2>5. WithCall(i) => WithCall(i)'
      BY DEF TypeOK, IInv, HandShape, Works, WithCall, FlushRequeues
    <2>6. InHand(i) => InHand(i)' \/ InPending(i)'
      BY <1>q, <1>h DEF InHand, InPending
    <2>7. InPending(i) => InPending(i)'
      BY <1>q DEF InPending
    <2>8. InQueue(i) => InQueue(i)'
      BY DEF TypeOK, InQueue, Teardowns, FlushRequeues
    <2> QED
      BY <2>4, <2>5, <2>6, <2>7, <2>8 DEF TeardownUnderway
  <1>35. DeathLatched'
    BY DEF IInv, DeathLatched, FlushRequeues
  <1> QED
    BY <1>20, <1>21, <1>22, <1>23, <1>24, <1>25, <1>26, <1>27, <1>28, <1>29, <1>30, <1>31, <1>32,
       <1>33, <1>34, <1>35 DEF IInv

\* A registering call begins with an id of its own.
LEMMA OnKeeps ==
    ASSUME TypeOK, IInv, NEW t \in Callers, NEW ch \in Channels, NEW guard \in BOOLEAN,
           On(t, ch, guard)
    PROVE  TypeOK' /\ IInv'
  <1> USE NoWorkFacts, IdFacts DEF queueVars, lifeVars, pendingVars, registryVars
  <1>1. PICK id \in Ids :
           /\ \A i \in Ids : handle[i].state = "new" <=> i >= id
           /\ at[t] = "idle"
           /\ work' = [work EXCEPT ![t] = [call |-> IF guard THEN "on_for" ELSE "on",
                                          step |-> "register", id |-> id, ch |-> ch]]
           /\ at' = [at EXCEPT ![t] = "flush"]
           /\ handle' = [handle EXCEPT ![id] = [state |-> "opening", guard |-> guard, ch |-> ch]]
    BY DEF On, Begins
  <1>a. t \in Threads /\ work \in [Threads -> Works] /\ handle \in [Ids -> Handles]
    BY DEF TypeOK
  <1>r. handlers \in [Channels -> SUBSET Ids] /\ subs \in [Channels -> [plain : Nat, guards : SUBSET Ids]]
    BY DEF TypeOK
  <1>u. UNCHANGED <<queue, closed, hand, pending, handlers, subs, crashed, loop_failed>>
    BY DEF On
  <1>2. handle[id].state = "new"
    BY <1>1, SurfaceAssumption
  <1>b. handle[id].state = "new" /\ work[t] = NoWork /\ Silent(id)
    BY <1>1, <1>2, <1>a DEF IInv, HandShape, NewSilent
  <1>c. /\ work' \in [Threads -> Works]
        /\ \A u \in Threads \ {t} : work'[u] = work[u]
        /\ work'[t].call = IF guard THEN "on_for" ELSE "on"
        /\ work'[t].step = "register" /\ work'[t].id = id /\ work'[t].ch = ch
    BY <1>1, <1>a DEF Works, CallKinds
  <1>d. /\ handle' \in [Ids -> Handles]
        /\ \A j \in Ids \ {id} : handle'[j] = handle[j]
        /\ handle'[id] = [state |-> "opening", guard |-> guard, ch |-> ch]
    BY <1>1, <1>a DEF Handles
  <1>20. TypeOK'
    <2>1. calls' \in [CallKinds -> Nat]
      <3>1. PICK k \in CallKinds : calls[k] > 0 /\ calls' = [calls EXCEPT ![k] = @ - 1]
        BY DEF On, Plays, CallKinds
      <3> QED
        BY <3>1 DEF TypeOK
    <2> QED
      BY <1>c, <1>d, <2>1, <1>1 DEF TypeOK, On
  <1>21. HandShape'
    BY <1>1, <1>a, <1>u, <1>b, <1>c DEF TypeOK, On, IInv, HandShape, TeardownOf, Item
  <1>22. WorkShape'
    BY <1>a, <1>u, <1>b, <1>c, <1>d DEF IInv, WorkShape, Opening, Unposted, NewSilent
  <1>23. OneOpener'
    BY <1>a, <1>u, <1>b, <1>c, <1>d DEF IInv, OneOpener, Opening, Unposted, WorkShape
  <1>24. ItemsShaped'
    BY <1>a, <1>u, <1>b, <1>c, <1>d DEF IInv, ItemsShaped, ItemShape, TeardownShape, Teardowns,
       Item, Silent
  <1>25. Placed'
    BY <1>r, <1>u, <1>b, <1>d DEF IInv, Placed, Silent
  <1>26. NewSilent'
    BY <1>a, <1>u, <1>b, <1>c, <1>d DEF IInv, NewSilent, Silent, Item, Opening, Unposted
  <1>27. UnpostedSilent'
    BY <1>a, <1>u, <1>b, <1>c, <1>d DEF IInv, UnpostedSilent, Silent, Unposted, Item
  <1>28. PlainUnsubscribed'
    BY <1>a, <1>u, <1>b, <1>c, <1>d DEF IInv, PlainUnsubscribed, Unsubscribed, Item, Silent
  <1>29. CallsUnsubscribed'
    BY <1>a, <1>u, <1>b, <1>c, <1>d DEF IInv, CallsUnsubscribed, Unsubscribed, Item, WorkShape,
       Opening, Unposted, Silent
  <1>30. ItemsUnsubscribed'
    BY <1>a, <1>u, <1>b, <1>c, <1>d DEF IInv, ItemsUnsubscribed, Alone, Unsubscribed, Item, Opening,
       Unposted
  <1>31. CallsAnchored'
    BY <1>a, <1>u, <1>b, <1>c, <1>d DEF IInv, CallsAnchored, Anchored, Item, Opening, Unposted
  <1>32. SubscribesOrdered'
    BY <1>a, <1>u, <1>b, <1>c, <1>d DEF IInv, SubscribesOrdered, Anchored, Teardowns, Item, Opening,
       Unposted
  <1>33. GuardsHeard'
    BY <1>a, <1>u, <1>b, <1>c, <1>d DEF IInv, GuardsHeard, Opening, Unposted
  <1>34. NoLostTeardown'
    <2> SUFFICES ASSUME ~closed', NEW i \in Ids, handle'[i].state = "released", Alive(i)'
                 PROVE  TeardownUnderway(i)'
      BY DEF NoLostTeardown
    <2>1. i # id
      BY <1>d
    <2>2. Alive(i) /\ ~closed /\ handle[i].state = "released"
      BY <2>1, <1>u, <1>d DEF Alive, Queued
    <2>3. TeardownUnderway(i)
      BY <2>2 DEF IInv, NoLostTeardown
    <2>4. WithCall(i) => WithCall(i)'
      BY <1>a, <1>b, <1>c DEF WithCall
    <2>5. (InHand(i) => InHand(i)') /\ (InPending(i) => InPending(i)') /\ (InQueue(i) => InQueue(i)')
      BY <1>u DEF InHand, InPending, InQueue
    <2> QED
      BY <2>3, <2>4, <2>5 DEF TeardownUnderway
  <1>35. DeathLatched'
    BY <1>a, <1>u, <1>b, <1>c, <1>d DEF IInv, DeathLatched, Opening, Unposted
  <1> QED
    BY <1>20, <1>21, <1>22, <1>23, <1>24, <1>25, <1>26, <1>27, <1>28, <1>29, <1>30, <1>31, <1>32,
       <1>33, <1>34, <1>35 DEF IInv

\* A registering call raises the presence count.
LEMMA BumpsKeeps ==
    ASSUME TypeOK, IInv, NEW t \in Callers,
           Bumps(t)
    PROVE  TypeOK' /\ IInv'
  <1> USE NoWorkFacts, IdFacts DEF queueVars, lifeVars, pendingVars, registryVars
  <1>a. t \in Threads /\ work \in [Threads -> Works]
    BY DEF TypeOK
  <1>c. /\ work' \in [Threads -> Works]
        /\ \A u \in Threads \ {t} : work'[u] = work[u]
        /\ work[t].step = "register" /\ work'[t].step = "post_register" /\ work'[t].call = work[t].call
        /\ work'[t].id = work[t].id /\ work'[t].ch = work[t].ch
    <2>1. work[t].step = "register" /\ work' = [work EXCEPT ![t].step = "post_register"]
      BY DEF Bumps, At, Goes
    <2> QED
      BY <1>a, <2>1, StepFacts
  <1>u. UNCHANGED handle
    BY DEF Bumps
  <1>20. TypeOK'
    <2>1. presence' \in [Channels -> Nat]
      BY <1>a DEF TypeOK, Works, Bumps
    <2> QED
      BY <1>c, <2>1 DEF TypeOK, Bumps, Goes
  <1>21. HandShape'
    BY DEF TypeOK, IInv, Works, HandShape, TeardownOf, Item, Bumps, At, Goes
  <1>22. WorkShape'
    BY <1>a, <1>c, <1>u DEF IInv, WorkShape, Opening, Unposted
  <1>23. OneOpener'
    BY <1>a, <1>c DEF IInv, OneOpener, Opening, Unposted
  <1>24. ItemsShaped'
    BY DEF IInv, ItemsShaped, ItemShape, TeardownShape, Teardowns, Item, Bumps
  <1>25. Placed'
    BY DEF IInv, Placed, Bumps
  <1>26. NewSilent'
    BY DEF IInv, NewSilent, Silent, Item, Bumps
  <1>27. UnpostedSilent'
    BY DEF TypeOK, IInv, UnpostedSilent, Silent, Unposted, Item, Bumps, At, Goes
  <1>28. PlainUnsubscribed'
    BY DEF IInv, PlainUnsubscribed, Unsubscribed, Item, Bumps
  <1>29. CallsUnsubscribed'
    BY DEF TypeOK, IInv, CallsUnsubscribed, Unsubscribed, Item, Bumps, At, Goes
  <1>30. ItemsUnsubscribed'
    BY DEF IInv, ItemsUnsubscribed, Alone, Unsubscribed, Item, Bumps
  <1>31. CallsAnchored'
    <2> SUFFICES ASSUME NEW u \in Threads, work'[u].call = "on_for", work'[u].step \in {"gate", "post"}, ~closed
                 PROVE  Anchored(work[u].id, work[u].ch, Len(queue) + 1)'
      BY DEF CallsAnchored, Bumps
    <2>1. work'[u] = work[u]
      BY StepFacts DEF TypeOK, Bumps, Goes
    <2> QED
      BY <2>1 DEF IInv, CallsAnchored, Anchored, Bumps
  <1>32. SubscribesOrdered'
    BY DEF IInv, SubscribesOrdered, Anchored, Teardowns, Item, Bumps
  <1>33. GuardsHeard'
    BY DEF IInv, GuardsHeard, Bumps
  <1>34. NoLostTeardown'
    <2> SUFFICES ASSUME ~closed', NEW i \in Ids, handle'[i].state = "released", Alive(i)'
                 PROVE  TeardownUnderway(i)'
      BY DEF NoLostTeardown
    <2>2. handle[i].state = "released"
      BY DEF TypeOK, Handles, Bumps, At, Goes
    <2>1. Alive(i)
      BY DEF Alive, Queued, Bumps, At, Goes
    <2>3. ~closed
      BY DEF Bumps, At, Goes
    <2>4. TeardownUnderway(i)
      BY <2>1, <2>2, <2>3 DEF IInv, NoLostTeardown
    <2>5. WithCall(i) => WithCall(i)'
      BY DEF TypeOK, IInv, HandShape, Works, WithCall, Bumps, At, Goes
    <2>6. InHand(i) => InHand(i)'
      BY DEF TypeOK, IInv, HandShape, InHand, InPending, Bumps, At, Goes
    <2>7. InPending(i) => InPending(i)'
      BY DEF TypeOK, InPending, InHand, Bumps, At, Goes
    <2>8. InQueue(i) => InQueue(i)'
      BY DEF TypeOK, InQueue, Teardowns, Bumps, At, Goes
    <2> QED
      BY <2>4, <2>5, <2>6, <2>7, <2>8 DEF TeardownUnderway
  <1>35. DeathLatched'
    BY DEF IInv, DeathLatched, Bumps
  <1> QED
    BY <1>20, <1>21, <1>22, <1>23, <1>24, <1>25, <1>26, <1>27, <1>28, <1>29, <1>30, <1>31, <1>32,
       <1>33, <1>34, <1>35 DEF IInv

\* A registration is posted: a bare one returns, an on_*_for goes on to subscribe.
LEMMA RegisterPostedKeeps ==
    ASSUME TypeOK, IInv, NEW t \in Callers,
           At(t, "post_register"), Accepts, Posts(Item("register", work[t].id, work[t].ch)),
           IF work[t].call = "on"
           THEN Returns(t) /\ BecomesOf(work[t].id, "held")
           ELSE Goes(t, "gate") /\ UNCHANGED handle,
           UNCHANGED <<lifeVars, pendingVars, presence, registryVars, calls>>
    PROVE  TypeOK' /\ IInv'
  <1> USE NoWorkFacts, IdFacts DEF queueVars, lifeVars, pendingVars, registryVars
  <1>a. /\ t \in Threads /\ work \in [Threads -> Works] /\ handle \in [Ids -> Handles]
        /\ queue \in Seq(Items)
    BY DEF TypeOK
  <1>r. handlers \in [Channels -> SUBSET Ids] /\ subs \in [Channels -> [plain : Nat, guards : SUBSET Ids]]
    BY DEF TypeOK
  <1>u. /\ at[t] = "work" /\ work[t].step = "post_register" /\ ~closed
        /\ UNCHANGED <<closed, hand, pending, handlers, subs, crashed, loop_failed, io>>
    BY DEF At, Accepts, Posts
  <1>b. /\ work[t].id \in Ids /\ Opening(t) /\ Silent(work[t].id)
        /\ handle[work[t].id].state = "opening" /\ handle[work[t].id].ch = work[t].ch
        /\ work[t].call \in {"on", "on_for"}
    BY <1>a, <1>u DEF IInv, WorkShape, Opening, Unposted, UnpostedSilent
  <1>x. PICK x \in Items : /\ queue' = Append(queue, x)
                           /\ x.op = "register" /\ x.id = work[t].id /\ x.ch = work[t].ch
    BY <1>a, <1>b DEF Posts, Item, Items, Ops, Works
  <1>q. /\ queue' \in Seq(Items)
        /\ Len(queue) \in Nat /\ Len(queue') = Len(queue) + 1
        /\ DOMAIN queue = 1..Len(queue) /\ DOMAIN queue' = 1..(Len(queue) + 1)
        /\ \A n \in 1..Len(queue) : queue'[n] = queue[n]
        /\ queue'[Len(queue) + 1] = x
    BY <1>a, <1>x, PostFacts
  <1>c. /\ work' \in [Threads -> Works]
        /\ \A u \in Threads \ {t} : work'[u] = work[u]
        /\ \/ work[t].call = "on" /\ work'[t] = NoWork /\ handle' = [handle EXCEPT ![work[t].id].state = "held"]
           \/ /\ work[t].call = "on_for" /\ handle' = handle
              /\ work'[t].step = "gate" /\ work'[t].call = "on_for"
              /\ work'[t].id = work[t].id /\ work'[t].ch = work[t].ch
    <2>1. CASE work[t].call = "on"
      BY <1>a, <2>1, ReturnFacts DEF Returns, BecomesOf
    <2>2. CASE work[t].call = "on_for"
      <3>1. work' = [work EXCEPT ![t].step = "gate"] /\ handle' = handle
        BY <2>2 DEF Goes
      <3> QED
        BY <1>a, <2>2, <3>1, StepFacts
    <2> QED
      BY <1>b, <2>1, <2>2
  <1>d. /\ handle' \in [Ids -> Handles]
        /\ \A j \in Ids : handle'[j].guard = handle[j].guard /\ handle'[j].ch = handle[j].ch
        /\ \A j \in Ids \ {work[t].id} : handle'[j] = handle[j]
        /\ handle'[work[t].id].state \in {"held", "opening"}
    <2>1. CASE handle' = handle
      BY <1>a, <1>b, <2>1
    <2>2. CASE handle' = [handle EXCEPT ![work[t].id].state = "held"]
      BY <1>a, <1>b, <2>2, HandleFacts
    <2> QED
      BY <1>c, <2>1, <2>2
  <1>20. TypeOK'
    <2>1. Len(queue') <= QueueCap
      BY <1>q DEF TypeOK, Accepts, Room
    <2>2. at' \in [Threads -> {"idle", "flush", "take", "send", "requeue", "work", "retire", "select"}]
      BY DEF TypeOK, Returns, Goes
    <2> QED
      BY <1>q, <1>c, <1>d, <1>u, <2>1, <2>2 DEF TypeOK
  <1>21. HandShape'
    <2>1. /\ \A u \in Threads \ {t} : at'[u] = at[u]
          /\ at'[t] = "work" \/ (at'[t] = "idle" /\ work'[t] = NoWork)
      BY <1>a, <1>b, <1>c, <1>u DEF TypeOK, Goes, Returns
    <2>2. t # "io" /\ hand[t] = <<>>
      BY <1>u, <1>a DEF IInv, HandShape
    <2> QED
      BY <2>1, <2>2, <1>a, <1>u, <1>c DEF IInv, HandShape, TeardownOf, Item
  <1>22. WorkShape'
    <2> SUFFICES ASSUME NEW u \in Threads
                 PROVE  (/\ work[u].step \in Unposted => Opening(u)
                         /\ work[u].call \in {"subscribe", "unsubscribe", "unsubscribe_all", "connect", "none"} =>
                               work[u].id = 0 /\ work[u].step \in {"none", "gate", "post"}
                         /\ work[u].call = "none" => work[u].step = "none"
                         /\ work[u].call \in {"drop", "drop_guard"} => work[u].step = "teardown"
                         /\ work[u].call = "on" => work[u].step \in Unposted
                         /\ work[u].call = "on_for" => Opening(u) \/ work[u].step = "teardown"
                         /\ Opening(u) => /\ work[u].id \in Ids
                                          /\ handle[work[u].id].state = "opening"
                                          /\ handle[work[u].id].ch = work[u].ch
                         /\ work[u].step = "teardown" => /\ work[u].id \in Ids
                                                         /\ handle[work[u].id].state = "released"
                                                         /\ handle[work[u].id].ch = work[u].ch)'
      BY DEF WorkShape
    <2>1. CASE u = t
      BY <2>1, <1>b, <1>c, <1>u DEF Opening, Unposted
    <2>2. CASE u # t
      <3>1. work'[u] = work[u]
        BY <2>2, <1>c
      <3>2. Opening(u)' <=> Opening(u)
        BY <3>1 DEF Opening
      <3>3. Opening(u) \/ work[u].step = "teardown" => work[u].id # work[t].id
        BY <2>2, <1>a, <1>b DEF IInv, OneOpener, WorkShape
      <3> QED
        BY <3>1, <3>2, <3>3, <1>d DEF IInv, WorkShape
    <2> QED
      BY <2>1, <2>2
  <1>23. OneOpener'
    BY <1>a, <1>u, <1>b, <1>x, <1>q, <1>c, <1>d DEF IInv, OneOpener, Opening, Unposted
  <1>24. ItemsShaped'
    <2>1. \A y : TeardownShape(y) => TeardownShape(y)'
      BY <1>b, <1>d DEF TeardownShape
    <2>2. ItemShape(x)'
      BY <1>b, <1>d, <1>x DEF ItemShape, TeardownShape, Teardowns
    <2>3. \A y : ItemShape(y) => ItemShape(y)'
      BY <1>b, <1>d, <2>1 DEF ItemShape
    <2>4. (\A n \in DOMAIN queue : ItemShape(queue[n]))'
      BY <1>q, <2>2, <2>3 DEF IInv, ItemsShaped
    <2> QED
      BY <2>1, <2>4, <1>u DEF IInv, ItemsShaped
  <1>25. Placed'
    BY <1>r, <1>u, <1>b, <1>d DEF IInv, Placed
  <1>26. NewSilent'
    BY <1>a, <1>u, <1>b, <1>x, <1>q, <1>c, <1>d DEF IInv, NewSilent, Silent, Item, Opening, Unposted
  <1>27. UnpostedSilent'
    <2> SUFFICES ASSUME NEW u \in Threads, work'[u].step \in Unposted
                 PROVE  Silent(work[u].id)'
      BY DEF UnpostedSilent
    <2>1. u # t /\ work'[u] = work[u] /\ Silent(work[u].id)
      BY <1>c, <1>a DEF IInv, UnpostedSilent, Unposted
    <2>2. work[u].id # work[t].id
      BY <2>1, <1>a, <1>b DEF IInv, OneOpener, WorkShape
    <2> QED
      BY <2>1, <2>2, <1>u, <1>x, <1>q DEF Silent
  <1>28. PlainUnsubscribed'
    BY <1>a, <1>u, <1>b, <1>x, <1>q, <1>c, <1>d DEF IInv, PlainUnsubscribed, Unsubscribed, Item,
       Opening, Unposted
  <1>29. CallsUnsubscribed'
    BY <1>a, <1>u, <1>b, <1>x, <1>q, <1>c, <1>d DEF IInv, CallsUnsubscribed, Unsubscribed, Item,
       WorkShape, Opening, Unposted
  <1>30. ItemsUnsubscribed'
    BY <1>a, <1>u, <1>b, <1>x, <1>q, <1>c, <1>d DEF IInv, ItemsUnsubscribed, Alone, Unsubscribed,
       Item, Opening, Unposted
  <1>31. CallsAnchored'
    <2> SUFFICES ASSUME NEW u \in Threads, work'[u].call = "on_for", work'[u].step \in {"gate", "post"}
                 PROVE  Anchored(work[u].id, work[u].ch, Len(queue) + 1)'
      BY DEF CallsAnchored
    <2>1. CASE u = t
      <3>1. /\ Len(queue) + 1 \in DOMAIN queue' /\ Len(queue) + 1 < Len(queue') + 1
            /\ queue'[Len(queue) + 1].op = "register" /\ queue'[Len(queue) + 1].id = work'[u].id
        BY <2>1, <1>q, <1>x, <1>b, <1>c
      <3> QED
        BY <3>1 DEF Anchored
    <2>2. CASE u # t
      <3>1. work'[u] = work[u] /\ Anchored(work[u].id, work[u].ch, Len(queue) + 1)
        BY <2>2, <1>c, <1>u DEF IInv, CallsAnchored
      <3>2. CASE work[u].id \in handlers[work[u].ch]
        BY <3>1, <3>2, <1>u DEF Anchored
      <3>3. CASE \E k \in DOMAIN queue : queue[k].op = "register" /\ queue[k].id = work[u].id
        <4>1. PICK k \in DOMAIN queue : queue[k].op = "register" /\ queue[k].id = work[u].id
          BY <3>3
        <4>2. /\ k \in DOMAIN queue' /\ k < Len(queue') + 1
              /\ queue'[k].op = "register" /\ queue'[k].id = work'[u].id
          BY <4>1, <3>1, <1>q
        <4> QED
          BY <4>2 DEF Anchored
      <3> QED
        BY <3>1, <3>2, <3>3 DEF Anchored
    <2> QED
      BY <2>1, <2>2
  <1>32. SubscribesOrdered'
    <2> SUFFICES ASSUME NEW n \in DOMAIN queue', queue'[n].op = "subscribe", queue'[n].id \in Ids
                 PROVE  /\ Anchored(queue[n].id, queue[n].ch, n)'
                        /\ \A k \in DOMAIN queue' : (k < n /\ queue'[k].id = queue'[n].id) =>
                              queue'[k].op \notin Teardowns
      BY DEF SubscribesOrdered
    <2>1. n \in DOMAIN queue /\ queue'[n] = queue[n]
      BY <1>q, <1>x
    <2>2. /\ Anchored(queue[n].id, queue[n].ch, n)
          /\ \A k \in DOMAIN queue : (k < n /\ queue[k].id = queue[n].id) => queue[k].op \notin Teardowns
      BY <2>1 DEF IInv, SubscribesOrdered
    <2>3. \A k \in DOMAIN queue' : k < n => k \in DOMAIN queue /\ queue'[k] = queue[k]
      BY <2>1, <1>q
    <2>4. \A k \in DOMAIN queue : k \in DOMAIN queue' /\ queue'[k] = queue[k]
      BY <1>q
    <2>5. Anchored(queue[n].id, queue[n].ch, n)'
      BY <2>1, <2>2, <2>4, <1>u DEF Anchored
    <2> QED
      BY <2>1, <2>2, <2>3, <2>5
  <1>33. GuardsHeard'
    BY <1>a, <1>u, <1>b, <1>x, <1>q, <1>c, <1>d DEF IInv, GuardsHeard, Opening, Unposted
  <1>34. NoLostTeardown'
    <2> SUFFICES ASSUME ~closed', NEW i \in Ids, handle'[i].state = "released", Alive(i)'
                 PROVE  TeardownUnderway(i)'
      BY DEF NoLostTeardown
    <2>1. i # work[t].id
      BY <1>b, <1>d
    <2>2. Alive(i) /\ ~closed /\ handle[i].state = "released"
      BY <2>1, <1>u, <1>d, <1>x, <1>q DEF Alive, Queued
    <2>3. TeardownUnderway(i)
      BY <2>2 DEF IInv, NoLostTeardown
    <2>4. WithCall(i) => WithCall(i)'
      BY <1>a, <1>u, <1>c DEF WithCall
    <2>5. (InHand(i) => InHand(i)') /\ (InPending(i) => InPending(i)')
      BY <1>u DEF InHand, InPending
    <2>6. InQueue(i) => InQueue(i)'
      BY <2>1, <1>x, <1>q DEF InQueue
    <2> QED
      BY <2>3, <2>4, <2>5, <2>6 DEF TeardownUnderway
  <1>35. DeathLatched'
    BY <1>a, <1>u, <1>b, <1>x, <1>q, <1>c, <1>d DEF IInv, DeathLatched, Opening, Unposted
  <1> QED
    BY <1>20, <1>21, <1>22, <1>23, <1>24, <1>25, <1>26, <1>27, <1>28, <1>29, <1>30, <1>31, <1>32,
       <1>33, <1>34, <1>35 DEF IInv

\* A registration finds no room.
LEMMA RegisterRefusedKeeps ==
    ASSUME TypeOK, IInv, NEW t \in Callers,
           At(t, "post_register"), Goes(t, "compensate"), UNCHANGED <<queueVars, handle>>,
           UNCHANGED <<lifeVars, pendingVars, presence, registryVars, calls>>
    PROVE  TypeOK' /\ IInv'
  <1> USE NoWorkFacts, IdFacts DEF queueVars, lifeVars, pendingVars, registryVars
  <1>a. /\ t \in Threads /\ work \in [Threads -> Works] /\ handle \in [Ids -> Handles]
        /\ queue \in Seq(Items)
    BY DEF TypeOK
  <1>r. handlers \in [Channels -> SUBSET Ids] /\ subs \in [Channels -> [plain : Nat, guards : SUBSET Ids]]
    BY DEF TypeOK
  <1>u. /\ at[t] = "work" /\ work[t].step = "post_register"
        /\ UNCHANGED <<queue, closed, hand, pending, handlers, subs, crashed, loop_failed, io, handle, at>>
    BY DEF At, Goes
  <1>c. /\ work' \in [Threads -> Works]
        /\ \A u \in Threads \ {t} : work'[u] = work[u]
        /\ work'[t].step = "compensate" /\ work'[t].call = work[t].call
        /\ work'[t].id = work[t].id /\ work'[t].ch = work[t].ch
    <2>1. work' = [work EXCEPT ![t].step = "compensate"]
      BY DEF Goes
    <2> QED
      BY <1>a, <2>1, StepFacts, SMTT(30)
  <1>20. TypeOK'
    BY <1>c, <1>u DEF TypeOK
  <1>21. HandShape'
    BY <1>a, <1>u, <1>c DEF IInv, HandShape, TeardownOf, Item, Opening, Unposted
  <1>22. WorkShape'
    BY <1>a, <1>u, <1>c DEF IInv, WorkShape, Opening, Unposted, OneOpener
  <1>23. OneOpener'
    BY <1>a, <1>u, <1>c DEF IInv, OneOpener, Opening, Unposted
  <1>24. ItemsShaped'
    BY <1>a, <1>u, <1>c DEF IInv, ItemsShaped, ItemShape, TeardownShape, Teardowns, Item, Opening,
       Unposted
  <1>25. Placed'
    BY <1>u DEF IInv, Placed
  <1>26. NewSilent'
    BY <1>a, <1>u, <1>c DEF IInv, NewSilent, Silent, Item, Opening, Unposted
  <1>27. UnpostedSilent'
    BY <1>a, <1>u, <1>c DEF IInv, UnpostedSilent, Silent, Unposted, Item, Opening
  <1>28. PlainUnsubscribed'
    BY <1>a, <1>u, <1>c DEF IInv, PlainUnsubscribed, Unsubscribed, Item, Opening, Unposted
  <1>29. CallsUnsubscribed'
    BY <1>a, <1>u, <1>c DEF IInv, CallsUnsubscribed, Unsubscribed, Item, WorkShape, Opening,
       Unposted
  <1>30. ItemsUnsubscribed'
    BY <1>a, <1>u, <1>c DEF IInv, ItemsUnsubscribed, Alone, Unsubscribed, Item, Opening, Unposted
  <1>31. CallsAnchored'
    BY <1>a, <1>u, <1>c DEF IInv, CallsAnchored, Anchored, Item, Opening, Unposted
  <1>32. SubscribesOrdered'
    BY <1>a, <1>u, <1>c DEF IInv, SubscribesOrdered, Anchored, Teardowns, Item, Opening, Unposted
  <1>33. GuardsHeard'
    BY <1>a, <1>u, <1>c DEF IInv, GuardsHeard, Opening, Unposted
  <1>34. NoLostTeardown'
    <2> SUFFICES ASSUME ~closed', NEW i \in Ids, handle'[i].state = "released", Alive(i)'
                 PROVE  TeardownUnderway(i)'
      BY DEF NoLostTeardown
    <2>2. Alive(i) /\ ~closed /\ handle[i].state = "released"
      BY <1>u DEF Alive, Queued
    <2>3. TeardownUnderway(i)
      BY <2>2 DEF IInv, NoLostTeardown
    <2>4. WithCall(i) => WithCall(i)'
      BY <1>a, <1>u, <1>c DEF WithCall
    <2>5. (InHand(i) => InHand(i)') /\ (InPending(i) => InPending(i)') /\ (InQueue(i) => InQueue(i)')
      BY <1>u DEF InHand, InPending, InQueue
    <2> QED
      BY <2>3, <2>4, <2>5 DEF TeardownUnderway
  <1>35. DeathLatched'
    BY <1>a, <1>u, <1>c DEF IInv, DeathLatched, Opening, Unposted
  <1> QED
    BY <1>20, <1>21, <1>22, <1>23, <1>24, <1>25, <1>26, <1>27, <1>28, <1>29, <1>30, <1>31, <1>32,
       <1>33, <1>34, <1>35 DEF IInv

\* A registration at the queue.
LEMMA PostsRegisterKeeps ==
    ASSUME TypeOK, IInv, NEW t \in Callers, PostsRegister(t)
    PROVE  TypeOK' /\ IInv'
  BY RegisterPostedKeeps, RegisterRefusedKeeps DEF PostsRegister

\* A registration the queue refused is taken back.
LEMMA CompensatesKeeps ==
    ASSUME TypeOK, IInv, NEW t \in Callers,
           Compensates(t)
    PROVE  TypeOK' /\ IInv'
  <1> USE NoWorkFacts, IdFacts DEF queueVars, lifeVars, pendingVars, registryVars
  <1>a. t \in Threads /\ work \in [Threads -> Works] /\ handle \in [Ids -> Handles]
    BY DEF TypeOK
  <1>r. handlers \in [Channels -> SUBSET Ids] /\ subs \in [Channels -> [plain : Nat, guards : SUBSET Ids]]
    BY DEF TypeOK
  <1>u. /\ at[t] = "work" /\ work[t].step = "compensate"
        /\ UNCHANGED <<queue, closed, hand, pending, handlers, subs, crashed, loop_failed>>
    BY DEF Compensates, At
  <1>b. /\ work[t].id \in Ids /\ Opening(t)
        /\ handle[work[t].id].state = "opening" /\ handle[work[t].id].ch = work[t].ch
    BY <1>a, <1>u DEF IInv, WorkShape, Unposted
  <1>c. /\ work' \in [Threads -> Works]
        /\ \A u \in Threads \ {t} : work'[u] = work[u]
        /\ work'[t] = NoWork
    BY <1>a, ReturnFacts DEF Compensates, Returns
  <1>d. /\ handle' \in [Ids -> Handles]
        /\ \A j \in Ids : handle'[j].guard = handle[j].guard /\ handle'[j].ch = handle[j].ch
        /\ \A j \in Ids \ {work[t].id} : handle'[j] = handle[j]
        /\ handle'[work[t].id].state \in {"held", "released"}
    <2>1. CASE handle' = [handle EXCEPT ![work[t].id].state = "held"]
      BY <1>a, <1>b, <2>1, HandleFacts
    <2>2. CASE handle' = [handle EXCEPT ![work[t].id].state = "released"]
      BY <1>a, <1>b, <2>2, HandleFacts
    <2> QED
      BY <2>1, <2>2 DEF Compensates, BecomesOf
  <1>20. TypeOK'
    <2>1. presence' \in [Channels -> Nat]
      BY <1>a DEF TypeOK, Works, Compensates, Lowered
    <2> QED
      BY <1>c, <1>d, <2>1 DEF TypeOK, Compensates, Returns
  <1>21. HandShape'
    BY DEF TypeOK, IInv, Works, HandShape, TeardownOf, Item, Compensates, At, Returns, BecomesOf,
       Lowered
  <1>22. WorkShape'
    BY <1>a, <1>u, <1>b, <1>c, <1>d DEF IInv, WorkShape, Opening, Unposted, OneOpener
  <1>23. OneOpener'
    BY <1>a, <1>u, <1>b, <1>c, <1>d DEF IInv, OneOpener, Opening, Unposted
  <1>24. ItemsShaped'
    BY <1>a, <1>u, <1>b, <1>c, <1>d DEF IInv, ItemsShaped, ItemShape, TeardownShape, Teardowns,
       Item, Opening, Unposted
  <1>25. Placed'
    BY <1>r, <1>u, <1>b, <1>d DEF IInv, Placed
  <1>26. NewSilent'
    BY <1>a, <1>u, <1>b, <1>c, <1>d DEF IInv, NewSilent, Silent, Item, Opening, Unposted
  <1>27. UnpostedSilent'
    BY <1>a, <1>u, <1>b, <1>c, <1>d DEF IInv, UnpostedSilent, Silent, Unposted, Item, Opening
  <1>28. PlainUnsubscribed'
    BY <1>a, <1>u, <1>b, <1>c, <1>d DEF IInv, PlainUnsubscribed, Unsubscribed, Item, Opening,
       Unposted
  <1>29. CallsUnsubscribed'
    BY <1>a, <1>u, <1>b, <1>c, <1>d DEF IInv, CallsUnsubscribed, Unsubscribed, Item, WorkShape,
       Opening, Unposted
  <1>30. ItemsUnsubscribed'
    BY <1>a, <1>u, <1>b, <1>c, <1>d DEF IInv, ItemsUnsubscribed, Alone, Unsubscribed, Item, Opening,
       Unposted
  <1>31. CallsAnchored'
    BY <1>a, <1>u, <1>b, <1>c, <1>d DEF IInv, CallsAnchored, Anchored, Item, Opening, Unposted
  <1>32. SubscribesOrdered'
    BY <1>a, <1>u, <1>b, <1>c, <1>d DEF IInv, SubscribesOrdered, Anchored, Teardowns, Item, Opening,
       Unposted
  <1>33. GuardsHeard'
    BY <1>a, <1>u, <1>b, <1>c, <1>d DEF IInv, GuardsHeard, Opening, Unposted
  <1>34. NoLostTeardown'
    <2> SUFFICES ASSUME ~closed', NEW i \in Ids, handle'[i].state = "released", Alive(i)'
                 PROVE  TeardownUnderway(i)'
      BY DEF NoLostTeardown
    <2>1. i # work[t].id
      BY <1>b, <1>u, <1>a DEF IInv, UnpostedSilent, Silent, Unposted, Alive, Queued
    <2>2. Alive(i) /\ ~closed /\ handle[i].state = "released"
      BY <2>1, <1>u, <1>d DEF Alive, Queued
    <2>3. TeardownUnderway(i)
      BY <2>2 DEF IInv, NoLostTeardown
    <2>4. WithCall(i) => WithCall(i)'
      BY <1>a, <1>u, <1>c DEF WithCall
    <2>5. (InHand(i) => InHand(i)') /\ (InPending(i) => InPending(i)') /\ (InQueue(i) => InQueue(i)')
      BY <1>u DEF InHand, InPending, InQueue
    <2> QED
      BY <2>3, <2>4, <2>5 DEF TeardownUnderway
  <1>35. DeathLatched'
    BY <1>a, <1>u, <1>b, <1>c, <1>d DEF IInv, DeathLatched, Opening, Unposted
  <1> QED
    BY <1>20, <1>21, <1>22, <1>23, <1>24, <1>25, <1>26, <1>27, <1>28, <1>29, <1>30, <1>31, <1>32,
       <1>33, <1>34, <1>35 DEF IInv

\* A subscribe, an unsubscribe or a connect begins.
LEMMA CallsKeeps ==
    ASSUME TypeOK, IInv, NEW t \in Callers, NEW ch \in Channels,
           NEW call \in {"subscribe", "unsubscribe", "unsubscribe_all", "connect"},
           Calls(t, call, ch)
    PROVE  TypeOK' /\ IInv'
  <1> USE NoWorkFacts, IdFacts DEF queueVars, lifeVars, pendingVars, registryVars
  <1>a. t \in Threads /\ work \in [Threads -> Works]
    BY DEF TypeOK
  <1>c. /\ \A u \in Threads \ {t} : work'[u] = work[u]
        /\ work'[t].step \in {"gate", "post"} /\ work'[t].call = call /\ work'[t].id = 0
    BY <1>a DEF Calls, Begins
  <1>u. UNCHANGED handle
    BY DEF Calls
  <1>20. TypeOK'
    <2>1. work' \in [Threads -> Works]
      BY DEF TypeOK, Works, CallKinds, Calls, Begins
    <2>2. call \in CallKinds /\ calls[call] \in Nat /\ calls[call] > 0
      BY DEF TypeOK, CallKinds, Calls, Plays
    <2>3. calls' \in [CallKinds -> Nat]
      BY <2>2 DEF TypeOK, Calls, Plays
    <2> QED
      BY <2>1, <2>3 DEF TypeOK, Calls, Begins
  <1>21. HandShape'
    BY DEF TypeOK, IInv, Works, HandShape, TeardownOf, Item, Calls, Plays, Begins
  <1>22. WorkShape'
    BY <1>a, <1>c, <1>u DEF IInv, WorkShape, Opening, Unposted
  <1>23. OneOpener'
    BY <1>a, <1>c DEF IInv, OneOpener, Opening, Unposted
  <1>24. ItemsShaped'
    BY DEF IInv, ItemsShaped, ItemShape, TeardownShape, Teardowns, Item, Calls
  <1>25. Placed'
    BY DEF IInv, Placed, Calls
  <1>26. NewSilent'
    BY DEF IInv, NewSilent, Silent, Item, Calls
  <1>27. UnpostedSilent'
    BY DEF TypeOK, IInv, UnpostedSilent, Silent, Unposted, Item, Calls, Plays, Begins
  <1>28. PlainUnsubscribed'
    BY DEF IInv, PlainUnsubscribed, Unsubscribed, Item, Calls
  <1>29. CallsUnsubscribed'
    BY DEF TypeOK, IInv, CallsUnsubscribed, Unsubscribed, Item, Calls, Plays, Begins
  <1>30. ItemsUnsubscribed'
    BY DEF IInv, ItemsUnsubscribed, Alone, Unsubscribed, Item, Calls
  <1>31. CallsAnchored'
    BY DEF TypeOK, IInv, CallsAnchored, Anchored, Item, Calls, Plays, Begins
  <1>32. SubscribesOrdered'
    BY DEF IInv, SubscribesOrdered, Anchored, Teardowns, Item, Calls
  <1>33. GuardsHeard'
    BY DEF IInv, GuardsHeard, Calls
  <1>34. NoLostTeardown'
    <2> SUFFICES ASSUME ~closed', NEW i \in Ids, handle'[i].state = "released", Alive(i)'
                 PROVE  TeardownUnderway(i)'
      BY DEF NoLostTeardown
    <2>2. handle[i].state = "released"
      BY DEF TypeOK, Handles, Calls, Plays, Begins
    <2>1. Alive(i)
      BY DEF Alive, Queued, Calls, Plays, Begins
    <2>3. ~closed
      BY DEF Calls, Plays, Begins
    <2>4. TeardownUnderway(i)
      BY <2>1, <2>2, <2>3 DEF IInv, NoLostTeardown
    <2>5. WithCall(i) => WithCall(i)'
      BY DEF TypeOK, IInv, HandShape, Works, WithCall, Calls, Plays, Begins
    <2>6. InHand(i) => InHand(i)'
      BY DEF TypeOK, IInv, HandShape, InHand, InPending, Calls, Plays, Begins
    <2>7. InPending(i) => InPending(i)'
      BY DEF TypeOK, InPending, InHand, Calls, Plays, Begins
    <2>8. InQueue(i) => InQueue(i)'
      BY DEF TypeOK, InQueue, Teardowns, Calls, Plays, Begins
    <2> QED
      BY <2>4, <2>5, <2>6, <2>7, <2>8 DEF TeardownUnderway
  <1>35. DeathLatched'
    BY DEF IInv, DeathLatched, Calls
  <1> QED
    BY <1>20, <1>21, <1>22, <1>23, <1>24, <1>25, <1>26, <1>27, <1>28, <1>29, <1>30, <1>31, <1>32,
       <1>33, <1>34, <1>35 DEF IInv

\* A call passes the gate, or is refused there or by the queue.
LEMMA AdvanceKeeps ==
    ASSUME TypeOK, IInv, NEW t \in Callers,
           at[t] = "work", work[t].step \in {"gate", "post"},
           UNCHANGED <<queueVars, lifeVars, pendingVars, presence, registryVars, calls>>,
           \/ UNCHANGED handle /\ Flushes(t, "post")
           \/ UNCHANGED handle /\ work[t].call # "on_for" /\ Returns(t)
           \/ work[t].call = "on_for" /\ Flushes(t, "teardown") /\ BecomesOf(work[t].id, "released")
    PROVE  TypeOK' /\ IInv'
  <1> USE NoWorkFacts, IdFacts DEF queueVars, lifeVars, pendingVars, registryVars
  <1>a. t \in Threads /\ work \in [Threads -> Works] /\ handle \in [Ids -> Handles]
    BY DEF TypeOK
  <1>r. handlers \in [Channels -> SUBSET Ids] /\ subs \in [Channels -> [plain : Nat, guards : SUBSET Ids]]
    BY DEF TypeOK
  <1>u. /\ at[t] = "work" /\ work[t].step \in {"gate", "post"}
        /\ UNCHANGED <<queue, closed, hand, pending, handlers, subs, crashed, loop_failed>>
    OBVIOUS
  <1>b. work[t].call = "on_for" =>
            /\ work[t].id \in Ids /\ Opening(t)
            /\ handle[work[t].id].state = "opening" /\ handle[work[t].id].ch = work[t].ch
    BY <1>a, <1>u DEF IInv, WorkShape, Opening
  <1>c. \/ /\ handle' = handle
           /\ work' = [work EXCEPT ![t].step = "post"] \/ (work[t].call # "on_for" /\ work' = [work EXCEPT ![t] = NoWork])
        \/ /\ work[t].call = "on_for"
           /\ work' = [work EXCEPT ![t].step = "teardown"]
           /\ handle' = [handle EXCEPT ![work[t].id].state = "released"]
    BY DEF Flushes, Returns, BecomesOf
  <1>d. /\ work' \in [Threads -> Works] /\ handle' \in [Ids -> Handles]
        /\ \A u \in Threads \ {t} : work'[u] = work[u]
        /\ \A j \in Ids : handle'[j].guard = handle[j].guard /\ handle'[j].ch = handle[j].ch
        /\ \/ /\ handle' = handle
              /\ work'[t].step = "post" /\ work'[t].call = work[t].call
              /\ work'[t].id = work[t].id /\ work'[t].ch = work[t].ch
           \/ /\ handle' = handle
              /\ work'[t] = NoWork /\ work[t].call # "on_for"
           \/ /\ work'[t].step = "teardown" /\ work'[t].call = "on_for" /\ work[t].call = "on_for"
              /\ work'[t].id = work[t].id /\ work'[t].ch = work[t].ch
              /\ handle'[work[t].id].state = "released"
              /\ \A j \in Ids \ {work[t].id} : handle'[j] = handle[j]
    <2>1. CASE handle' = handle /\ work' = [work EXCEPT ![t].step = "post"]
      BY <1>a, <2>1, StepFacts
    <2>2. CASE handle' = handle /\ work[t].call # "on_for" /\ work' = [work EXCEPT ![t] = NoWork]
      BY <1>a, <2>2
    <2>3. CASE /\ work[t].call = "on_for"
               /\ work' = [work EXCEPT ![t].step = "teardown"]
               /\ handle' = [handle EXCEPT ![work[t].id].state = "released"]
      <3>1. /\ handle' \in [Ids -> Handles]
            /\ handle'[work[t].id].state = "released"
            /\ \A j \in Ids : handle'[j].guard = handle[j].guard /\ handle'[j].ch = handle[j].ch
            /\ \A j \in Ids \ {work[t].id} : handle'[j] = handle[j]
        BY <1>a, <1>b, <2>3, HandleFacts
      <3>2. /\ work' \in [Threads -> Works] /\ \A u \in Threads \ {t} : work'[u] = work[u]
            /\ work'[t].step = "teardown" /\ work'[t].call = "on_for"
            /\ work'[t].id = work[t].id /\ work'[t].ch = work[t].ch
        BY <1>a, <2>3, StepFacts
      <3> QED
        BY <2>3, <3>1, <3>2
    <2> QED
      BY <1>c, <2>1, <2>2, <2>3
  <1>20. TypeOK'
    BY <1>a, <1>d DEF TypeOK, Flushes, Returns
  <1>21. HandShape'
    <2>1. /\ \A u \in Threads \ {t} : at'[u] = at[u]
          /\ at'[t] = "flush" \/ (at'[t] = "idle" /\ work'[t] = NoWork)
      BY <1>a, <1>d DEF TypeOK, Flushes, Returns
    <2>2. t # "io" /\ UNCHANGED io /\ hand[t] = <<>>
      BY <1>u DEF IInv, HandShape
    <2> QED
      BY <2>1, <2>2, <1>a, <1>u, <1>d DEF IInv, HandShape, TeardownOf, Item
  <1>22. WorkShape'
    BY <1>a, <1>u, <1>b, <1>d DEF IInv, WorkShape, Opening, Unposted, OneOpener
  <1>23. OneOpener'
    BY <1>a, <1>u, <1>b, <1>d DEF IInv, OneOpener, Opening, Unposted
  <1>24. ItemsShaped'
    BY <1>a, <1>u, <1>b, <1>d DEF IInv, ItemsShaped, ItemShape, TeardownShape, Teardowns, Item,
       Opening, Unposted
  <1>25. Placed'
    BY <1>r, <1>u, <1>b, <1>d DEF IInv, Placed
  <1>26. NewSilent'
    BY <1>a, <1>u, <1>b, <1>d DEF IInv, NewSilent, Silent, Item, Opening, Unposted
  <1>27. UnpostedSilent'
    BY <1>a, <1>u, <1>b, <1>d DEF IInv, UnpostedSilent, Silent, Unposted, Item, Opening
  <1>28. PlainUnsubscribed'
    BY <1>a, <1>u, <1>b, <1>d DEF IInv, PlainUnsubscribed, Unsubscribed, Item, Opening, Unposted
  <1>29. CallsUnsubscribed'
    BY <1>a, <1>u, <1>b, <1>d DEF IInv, CallsUnsubscribed, Unsubscribed, Item, WorkShape, Opening,
       Unposted
  <1>30. ItemsUnsubscribed'
    BY <1>a, <1>u, <1>b, <1>d DEF IInv, ItemsUnsubscribed, Alone, Unsubscribed, Item, Opening,
       Unposted
  <1>31. CallsAnchored'
    BY <1>a, <1>u, <1>b, <1>d DEF IInv, CallsAnchored, Anchored, Item, Opening, Unposted
  <1>32. SubscribesOrdered'
    BY <1>a, <1>u, <1>b, <1>d DEF IInv, SubscribesOrdered, Anchored, Teardowns, Item, Opening,
       Unposted
  <1>33. GuardsHeard'
    BY <1>a, <1>u, <1>b, <1>d DEF IInv, GuardsHeard, Opening, Unposted
  <1>34. NoLostTeardown'
    <2> SUFFICES ASSUME ~closed', NEW i \in Ids, handle'[i].state = "released", Alive(i)'
                 PROVE  TeardownUnderway(i)'
      BY DEF NoLostTeardown
    <2>1. CASE handle[i].state = "released"
      <3>1. Alive(i) /\ ~closed
        BY <1>u DEF Alive, Queued
      <3>2. TeardownUnderway(i)
        BY <2>1, <3>1 DEF IInv, NoLostTeardown
      <3>3. WithCall(i) => WithCall(i)'
        BY <1>a, <1>u, <1>b, <1>d DEF WithCall
      <3>4. (InHand(i) => InHand(i)') /\ (InPending(i) => InPending(i)') /\ (InQueue(i) => InQueue(i)')
        BY <1>u DEF InHand, InPending, InQueue
      <3> QED
        BY <3>2, <3>3, <3>4 DEF TeardownUnderway
    <2>2. CASE handle[i].state # "released"
      <3>1. WithCall(i)'
        BY <2>2, <1>a, <1>u, <1>b, <1>d DEF WithCall
      <3> QED
        BY <3>1 DEF TeardownUnderway
    <2> QED
      BY <2>1, <2>2
  <1>35. DeathLatched'
    BY <1>a, <1>u, <1>b, <1>d DEF IInv, DeathLatched, Opening, Unposted
  <1> QED
    BY <1>20, <1>21, <1>22, <1>23, <1>24, <1>25, <1>26, <1>27, <1>28, <1>29, <1>30, <1>31, <1>32,
       <1>33, <1>34, <1>35 DEF IInv

\* A call at the gate.
LEMMA GateKeeps ==
    ASSUME TypeOK, IInv, NEW t \in Callers, Gate(t)
    PROVE  TypeOK' /\ IInv'
  BY AdvanceKeeps DEF Gate, At

\* A subscribe, an unsubscribe or a connect is posted and its call returns.
LEMMA CallPostedKeeps ==
    ASSUME TypeOK, IInv, NEW t \in Callers,
           At(t, "post"), Accepts,
           Posts(Item(IF work[t].call = "on_for" THEN "subscribe" ELSE work[t].call, work[t].id, work[t].ch)),
           Returns(t),
           IF work[t].call = "on_for" THEN BecomesOf(work[t].id, "held") ELSE UNCHANGED handle,
           UNCHANGED <<lifeVars, pendingVars, presence, registryVars, calls>>
    PROVE  TypeOK' /\ IInv'
  <1> USE NoWorkFacts, IdFacts DEF queueVars, lifeVars, pendingVars, registryVars
  <1>a. /\ t \in Threads /\ work \in [Threads -> Works] /\ handle \in [Ids -> Handles]
        /\ queue \in Seq(Items)
    BY DEF TypeOK
  <1>r. handlers \in [Channels -> SUBSET Ids] /\ subs \in [Channels -> [plain : Nat, guards : SUBSET Ids]]
    BY DEF TypeOK
  <1>u. /\ at[t] = "work" /\ work[t].step = "post" /\ ~closed
        /\ UNCHANGED <<closed, hand, pending, handlers, subs, crashed, loop_failed, io>>
    BY DEF At, Accepts, Posts
  <1>b. /\ work[t].call = "on_for" =>
              /\ work[t].id \in Ids /\ Opening(t) /\ Unsubscribed(work[t].id)
              /\ handle[work[t].id].state = "opening" /\ handle[work[t].id].ch = work[t].ch
              /\ handle[work[t].id].guard
              /\ Anchored(work[t].id, work[t].ch, Len(queue) + 1)
        /\ work[t].call # "on_for" => work[t].id = 0
        /\ work[t].call \in {"on_for", "subscribe", "unsubscribe", "unsubscribe_all", "connect"}
    BY <1>a, <1>u DEF IInv, WorkShape, Opening, Unposted, CallsUnsubscribed, CallsAnchored, Works,
       CallKinds
  <1>x. PICK x \in Items : /\ queue' = Append(queue, x)
                           /\ x.op = IF work[t].call = "on_for" THEN "subscribe" ELSE work[t].call
                           /\ x.id = work[t].id /\ x.ch = work[t].ch
    <2>1. work[t].id \in Ids \union {0} /\ work[t].ch \in Channels
      BY <1>a DEF Works
    <2>2. (IF work[t].call = "on_for" THEN "subscribe" ELSE work[t].call) \in Ops
      BY <1>b DEF Ops
    <2> QED
      BY <2>1, <2>2 DEF Posts, Item, Items
  <1>q. /\ queue' \in Seq(Items)
        /\ Len(queue) \in Nat /\ Len(queue') = Len(queue) + 1
        /\ DOMAIN queue = 1..Len(queue) /\ DOMAIN queue' = 1..(Len(queue) + 1)
        /\ \A n \in 1..Len(queue) : queue'[n] = queue[n]
        /\ queue'[Len(queue) + 1] = x
    BY <1>a, <1>x, PostFacts
  <1>c. /\ work' \in [Threads -> Works]
        /\ \A u \in Threads \ {t} : work'[u] = work[u]
        /\ work'[t] = NoWork
    BY <1>a, ReturnFacts DEF Returns
  <1>d. /\ handle' \in [Ids -> Handles]
        /\ \A j \in Ids : handle'[j].guard = handle[j].guard /\ handle'[j].ch = handle[j].ch
        /\ \A j \in Ids \ {work[t].id} : handle'[j] = handle[j]
        /\ work[t].call = "on_for" => handle'[work[t].id].state = "held"
    <2>1. CASE work[t].call # "on_for"
      BY <1>a, <1>b, <2>1
    <2>2. CASE work[t].call = "on_for"
      <3>1. handle' = [handle EXCEPT ![work[t].id].state = "held"]
        BY <2>2 DEF BecomesOf
      <3> QED
        BY <1>a, <1>b, <2>2, <3>1, HandleFacts
    <2> QED
      BY <2>1, <2>2
  <1>20. TypeOK'
    <2>1. Len(queue') <= QueueCap
      BY <1>q DEF TypeOK, Accepts, Room
    <2>2. at' \in [Threads -> {"idle", "flush", "take", "send", "requeue", "work", "retire", "select"}]
      BY DEF TypeOK, Returns
    <2> QED
      BY <1>q, <1>c, <1>d, <1>u, <2>1, <2>2 DEF TypeOK
  <1>21. HandShape'
    <2>1. /\ \A u \in Threads \ {t} : at'[u] = at[u]
          /\ at'[t] = "idle" /\ work'[t] = NoWork
      BY <1>a, <1>b, <1>c, <1>u DEF TypeOK, Returns
    <2>2. t # "io" /\ hand[t] = <<>>
      BY <1>u, <1>a DEF IInv, HandShape
    <2> QED
      BY <2>1, <2>2, <1>a, <1>u, <1>c DEF IInv, HandShape, TeardownOf, Item
  <1>22. WorkShape'
    BY <1>a, <1>u, <1>b, <1>x, <1>q, <1>c, <1>d DEF IInv, WorkShape, Opening, Unposted, OneOpener
  <1>23. OneOpener'
    BY <1>a, <1>u, <1>b, <1>x, <1>q, <1>c, <1>d DEF IInv, OneOpener, Opening, Unposted
  <1>24. ItemsShaped'
    <2>1. \A y : TeardownShape(y) => TeardownShape(y)'
      BY <1>b, <1>d DEF TeardownShape
    <2>2. ItemShape(x)'
      BY <1>b, <1>d, <1>x DEF ItemShape, TeardownShape, Teardowns
    <2>3. \A y : ItemShape(y) => ItemShape(y)'
      BY <1>b, <1>d, <2>1 DEF ItemShape
    <2>4. (\A n \in DOMAIN queue : ItemShape(queue[n]))'
      BY <1>q, <2>2, <2>3 DEF IInv, ItemsShaped
    <2> QED
      BY <2>1, <2>4, <1>u DEF IInv, ItemsShaped
  <1>25. Placed'
    BY <1>r, <1>u, <1>b, <1>d DEF IInv, Placed
  <1>26. NewSilent'
    BY <1>a, <1>u, <1>b, <1>x, <1>q, <1>c, <1>d DEF IInv, NewSilent, Silent, Item, Opening, Unposted
  <1>27. UnpostedSilent'
    <2> SUFFICES ASSUME NEW u \in Threads, work'[u].step \in Unposted
                 PROVE  Silent(work[u].id)'
      BY DEF UnpostedSilent
    <2>1. u # t /\ work'[u] = work[u] /\ Silent(work[u].id)
      BY <1>c, <1>a DEF IInv, UnpostedSilent, Unposted
    <2>2. work[u].id # work[t].id
      BY <2>1, <1>a, <1>b DEF IInv, OneOpener, WorkShape
    <2> QED
      BY <2>1, <2>2, <1>u, <1>x, <1>q DEF Silent
  <1>28. PlainUnsubscribed'
    BY <1>a, <1>u, <1>b, <1>x, <1>q, <1>c, <1>d DEF IInv, PlainUnsubscribed, Unsubscribed, Item,
       Opening, Unposted
  <1>29. CallsUnsubscribed'
    <2> SUFFICES ASSUME NEW u \in Threads, u # t
                 PROVE  /\ work[u].call = "on_for" =>
                              work[u].id \in Ids /\ Unsubscribed(work[u].id)' /\ handle'[work[u].id].guard
                        /\ work[u].call = "drop" => ~handle'[work[u].id].guard
      BY <1>c DEF CallsUnsubscribed, Unsubscribed
    <2>1. CASE work[u].call = "on_for"
      <3>1. work[u].id \in Ids /\ Unsubscribed(work[u].id) /\ handle[work[u].id].guard
        BY <2>1 DEF IInv, CallsUnsubscribed
      <3>2. work[u].id # work[t].id
        BY <2>1, <3>1, <1>b, <1>a DEF IInv, OneOpener, WorkShape
      <3> QED
        BY <2>1, <3>1, <3>2, <1>u, <1>x, <1>q, <1>c, <1>d DEF Unsubscribed
    <2>2. CASE work[u].call = "drop"
      BY <2>2, <1>d DEF IInv, CallsUnsubscribed, WorkShape
    <2> QED
      BY <2>1, <2>2
  <1>30. ItemsUnsubscribed'
    <2>1. ASSUME NEW y, TeardownShape(y), Alone(y)
          PROVE  Alone(y)'
      <3>1. y.id # work[t].id
        BY <2>1, <1>b DEF TeardownShape
      <3> QED
        BY <2>1, <3>1, <1>u, <1>x, <1>q DEF Alone, Unsubscribed
    <2>2. ~(x.op = "deregister")
      BY <1>x, <1>b
    <2>3. (\A n \in DOMAIN queue : Alone(queue[n]))'
      <3> SUFFICES ASSUME NEW n \in DOMAIN queue', queue'[n].op = "deregister"
                   PROVE  Unsubscribed(queue[n].id)'
        BY DEF Alone
      <3>1. n \in DOMAIN queue /\ queue'[n] = queue[n]
        BY <2>2, <1>q
      <3>2. TeardownShape(queue[n]) /\ Unsubscribed(queue[n].id)
        BY <3>1 DEF IInv, ItemsShaped, ItemShape, ItemsUnsubscribed, Alone, Teardowns
      <3>3. queue[n].id # work[t].id
        BY <3>2, <1>b DEF TeardownShape
      <3> QED
        BY <3>1, <3>2, <3>3, <1>u, <1>x, <1>q DEF Unsubscribed
    <2>4. (\A n \in DOMAIN pending : Alone(pending[n]))'
      BY <2>1, <1>u DEF IInv, ItemsShaped, ItemsUnsubscribed
    <2>5. (\A u \in Threads : \A n \in DOMAIN hand[u] : Alone(hand[u][n]))'
      BY <2>1, <1>u DEF IInv, ItemsShaped, ItemsUnsubscribed
    <2> QED
      BY <2>3, <2>4, <2>5 DEF ItemsUnsubscribed
  <1>31. CallsAnchored'
    <2> SUFFICES ASSUME NEW u \in Threads, work'[u].call = "on_for", work'[u].step \in {"gate", "post"}
                 PROVE  Anchored(work[u].id, work[u].ch, Len(queue) + 1)'
      BY DEF CallsAnchored
    <2>1. CASE u = t
      BY <2>1, <1>c
    <2>2. CASE u # t
      <3>1. work'[u] = work[u] /\ Anchored(work[u].id, work[u].ch, Len(queue) + 1)
        BY <2>2, <1>c, <1>u DEF IInv, CallsAnchored
      <3>2. CASE work[u].id \in handlers[work[u].ch]
        BY <3>1, <3>2, <1>u DEF Anchored
      <3>3. CASE \E k \in DOMAIN queue : queue[k].op = "register" /\ queue[k].id = work[u].id
        <4>1. PICK k \in DOMAIN queue : queue[k].op = "register" /\ queue[k].id = work[u].id
          BY <3>3
        <4>2. /\ k \in DOMAIN queue' /\ k < Len(queue') + 1
              /\ queue'[k].op = "register" /\ queue'[k].id = work'[u].id
          BY <4>1, <3>1, <1>q
        <4> QED
          BY <4>2 DEF Anchored
      <3> QED
        BY <3>1, <3>2, <3>3 DEF Anchored
    <2> QED
      BY <2>1, <2>2
  <1>32. SubscribesOrdered'
    <2> SUFFICES ASSUME NEW n \in DOMAIN queue', queue'[n].op = "subscribe", queue'[n].id \in Ids
                 PROVE  /\ Anchored(queue[n].id, queue[n].ch, n)'
                        /\ \A k \in DOMAIN queue' : (k < n /\ queue'[k].id = queue'[n].id) =>
                              queue'[k].op \notin Teardowns
      BY DEF SubscribesOrdered
    <2>0. \A k \in DOMAIN queue : k \in DOMAIN queue' /\ queue'[k] = queue[k]
      BY <1>q
    <2>1. CASE n \in DOMAIN queue
      <3>1. /\ queue'[n] = queue[n]
            /\ Anchored(queue[n].id, queue[n].ch, n)
            /\ \A k \in DOMAIN queue : (k < n /\ queue[k].id = queue[n].id) => queue[k].op \notin Teardowns
        BY <2>1, <2>0 DEF IInv, SubscribesOrdered
      <3>2. \A k \in DOMAIN queue' : k < n => k \in DOMAIN queue /\ queue'[k] = queue[k]
        BY <2>1, <1>q
      <3>3. Anchored(queue[n].id, queue[n].ch, n)'
        BY <3>1, <2>0, <1>u DEF Anchored
      <3> QED
        BY <3>1, <3>2, <3>3
    <2>2. CASE n \notin DOMAIN queue
      <3>1. n = Len(queue) + 1 /\ queue'[n] = x /\ work[t].call = "on_for"
        BY <2>2, <1>q, <1>x, <1>b
      <3>2. Anchored(queue[n].id, queue[n].ch, n)'
        BY <3>1, <2>0, <1>u, <1>x, <1>b DEF Anchored
      <3>3. ASSUME NEW k \in DOMAIN queue', k < n, queue'[k].id = queue'[n].id
            PROVE  queue'[k].op \notin Teardowns
        <4>1. k \in DOMAIN queue /\ queue'[k] = queue[k] /\ queue[k].id = work[t].id
          BY <3>1, <3>3, <1>q, <1>x
        <4> QED
          BY <4>1, <3>1, <1>b DEF IInv, ItemsShaped, ItemShape, TeardownShape
      <3> QED
        BY <3>2, <3>3
    <2> QED
      BY <2>1, <2>2
  <1>33. GuardsHeard'
    BY <1>a, <1>u, <1>b, <1>x, <1>q, <1>c, <1>d DEF IInv, GuardsHeard, Opening, Unposted
  <1>34. NoLostTeardown'
    <2> SUFFICES ASSUME ~closed', NEW i \in Ids, handle'[i].state = "released", Alive(i)'
                 PROVE  TeardownUnderway(i)'
      BY DEF NoLostTeardown
    <2>1. i # work[t].id
      BY <1>b, <1>d
    <2>2. Alive(i) /\ ~closed /\ handle[i].state = "released"
      BY <2>1, <1>u, <1>d, <1>x, <1>q DEF Alive, Queued
    <2>3. TeardownUnderway(i)
      BY <2>2 DEF IInv, NoLostTeardown
    <2>4. WithCall(i) => WithCall(i)'
      BY <1>a, <1>u, <1>c DEF WithCall
    <2>5. (InHand(i) => InHand(i)') /\ (InPending(i) => InPending(i)')
      BY <1>u DEF InHand, InPending
    <2>6. InQueue(i) => InQueue(i)'
      BY <2>1, <1>x, <1>q DEF InQueue
    <2> QED
      BY <2>3, <2>4, <2>5, <2>6 DEF TeardownUnderway
  <1>35. DeathLatched'
    BY <1>a, <1>u, <1>b, <1>x, <1>q, <1>c, <1>d DEF IInv, DeathLatched, Opening, Unposted
  <1> QED
    BY <1>20, <1>21, <1>22, <1>23, <1>24, <1>25, <1>26, <1>27, <1>28, <1>29, <1>30, <1>31, <1>32,
       <1>33, <1>34, <1>35 DEF IInv

\* A call at the queue.
LEMMA PostsCallKeeps ==
    ASSUME TypeOK, IInv, NEW t \in Callers, PostsCall(t)
    PROVE  TypeOK' /\ IInv'
  <1>1. CASE Accepts /\ \E x : Posts(x)
    BY <1>1, CallPostedKeeps DEF PostsCall
  <1>2. CASE ~Accepts
    BY <1>2, AdvanceKeeps DEF PostsCall, At
  <1> QED
    BY <1>1, <1>2 DEF PostsCall

\* A handle or a guard is dropped.
LEMMA DropsKeeps ==
    ASSUME TypeOK, IInv, NEW t \in Callers, NEW id \in Ids,
           Drops(t, id)
    PROVE  TypeOK' /\ IInv'
  <1> USE NoWorkFacts, IdFacts DEF queueVars, lifeVars, pendingVars, registryVars
  <1>a. t \in Threads /\ handle \in [Ids -> Handles]
    BY DEF TypeOK
  <1>u. UNCHANGED <<queue, closed, hand, pending, handlers, subs, crashed, loop_failed>>
    BY DEF Drops
  <1>b. handle[id].state = "held" /\ work[t] = NoWork
    BY <1>a DEF Drops, Begins, IInv, HandShape
  <1>c. /\ \A u \in Threads \ {t} : work'[u] = work[u]
        /\ work'[t].step = "teardown" /\ work'[t].id = id
    BY <1>a DEF Drops, Begins, TypeOK
  <1>d. handle' \in [Ids -> Handles] /\ \A j \in Ids \ {id} : handle'[j] = handle[j]
    <2>1. handle' = [handle EXCEPT ![id].state = "released"]
      BY DEF Drops, BecomesOf
    <2> QED
      BY <1>a, <2>1, HandleFacts
  <1>20. TypeOK'
    <2>1. work' \in [Threads -> Works]
      <3>1. /\ handle[id].ch \in Channels /\ work \in [Threads -> Works]
            /\ work' = [work EXCEPT ![t] = [call |-> IF handle[id].guard THEN "drop_guard" ELSE "drop",
                                           step |-> "teardown", id |-> id, ch |-> handle[id].ch]]
        BY <1>a DEF Handles, TypeOK, Drops, Begins
      <3> QED
        BY <3>1, <1>a DEF Works
    <2>2. at' \in [Threads -> {"idle", "flush", "take", "send", "requeue", "work", "retire", "select"}]
      BY DEF TypeOK, Drops, Begins
    <2> QED
      BY <1>d, <2>1, <2>2 DEF TypeOK, Drops
  <1>21. HandShape'
    BY DEF TypeOK, IInv, Works, HandShape, TeardownOf, Item, Drops, Begins, BecomesOf
  <1>22. WorkShape'
    BY DEF TypeOK, IInv, Works, Handles, WorkShape, Opening, Unposted, Drops, Begins, BecomesOf
  <1>23. OneOpener'
    BY <1>a, <1>c DEF IInv, OneOpener, Opening, Unposted
  <1>24. ItemsShaped'
    BY DEF TypeOK, IInv, ItemsShaped, ItemShape, TeardownShape, Teardowns, Item, Drops, Begins,
       BecomesOf
  <1>25. Placed'
    BY DEF TypeOK, IInv, Placed, Drops, Begins, BecomesOf
  <1>26. NewSilent'
    BY DEF TypeOK, IInv, NewSilent, Silent, Item, Drops, Begins, BecomesOf
  <1>27. UnpostedSilent'
    BY DEF TypeOK, IInv, UnpostedSilent, Silent, Unposted, Item, Drops, Begins, BecomesOf
  <1>28. PlainUnsubscribed'
    BY DEF TypeOK, IInv, PlainUnsubscribed, Unsubscribed, Item, Drops, Begins, BecomesOf
  <1>29. CallsUnsubscribed'
    BY DEF TypeOK, IInv, CallsUnsubscribed, Unsubscribed, Item, Drops, Begins, BecomesOf
  <1>30. ItemsUnsubscribed'
    BY DEF IInv, ItemsUnsubscribed, Alone, Unsubscribed, Item, Drops
  <1>31. CallsAnchored'
    BY DEF TypeOK, IInv, CallsAnchored, Anchored, Item, Drops, Begins, BecomesOf
  <1>32. SubscribesOrdered'
    BY DEF IInv, SubscribesOrdered, Anchored, Teardowns, Item, Drops
  <1>33. GuardsHeard'
    BY DEF IInv, GuardsHeard, Drops
  <1>34. NoLostTeardown'
    <2> SUFFICES ASSUME ~closed', NEW i \in Ids, handle'[i].state = "released", Alive(i)'
                 PROVE  TeardownUnderway(i)'
      BY DEF NoLostTeardown
    <2>1. CASE handle[i].state = "released"
      <3>1. Alive(i) /\ ~closed
        BY <1>u DEF Alive, Queued
      <3>2. TeardownUnderway(i)
        BY <2>1, <3>1 DEF IInv, NoLostTeardown
      <3>3. WithCall(i) => WithCall(i)'
        BY <1>a, <1>b, <1>c, <1>d DEF WithCall
      <3>4. (InHand(i) => InHand(i)') /\ (InPending(i) => InPending(i)') /\ (InQueue(i) => InQueue(i)')
        BY <1>u DEF InHand, InPending, InQueue
      <3> QED
        BY <3>2, <3>3, <3>4 DEF TeardownUnderway
    <2>2. CASE handle[i].state # "released"
      <3>1. WithCall(i)'
        BY <2>2, <1>a, <1>b, <1>c, <1>d DEF WithCall
      <3> QED
        BY <3>1 DEF TeardownUnderway
    <2> QED
      BY <2>1, <2>2
  <1>35. DeathLatched'
    BY DEF IInv, DeathLatched, Drops
  <1> QED
    BY <1>20, <1>21, <1>22, <1>23, <1>24, <1>25, <1>26, <1>27, <1>28, <1>29, <1>30, <1>31, <1>32,
       <1>33, <1>34, <1>35 DEF IInv

\* A teardown is posted.
LEMMA TeardownPostedKeeps ==
    ASSUME TypeOK, IInv, NEW t \in Callers,
           At(t, "teardown"), Accepts, Posts(TeardownOf(t)), Returns(t), UNCHANGED hand,
           UNCHANGED <<lifeVars, pending, has_pending, presence, registryVars, handle, calls>>
    PROVE  TypeOK' /\ IInv'
  <1> USE NoWorkFacts, IdFacts DEF queueVars, lifeVars, pendingVars, registryVars
  <1>a. /\ t \in Threads /\ work \in [Threads -> Works] /\ handle \in [Ids -> Handles]
        /\ queue \in Seq(Items)
    BY DEF TypeOK
  <1>r. handlers \in [Channels -> SUBSET Ids] /\ subs \in [Channels -> [plain : Nat, guards : SUBSET Ids]]
    BY DEF TypeOK
  <1>u. /\ at[t] = "work" /\ work[t].step = "teardown" /\ ~closed
        /\ UNCHANGED <<closed, hand, pending, handlers, subs, crashed, loop_failed, io, handle>>
    BY DEF At, Accepts, Posts
  <1>b. /\ work[t].id \in Ids /\ handle[work[t].id].state = "released"
        /\ handle[work[t].id].ch = work[t].ch
    BY <1>a, <1>u DEF IInv, WorkShape
  <1>x. PICK x \in Items : /\ queue' = Append(queue, x)
                           /\ x.op \in Teardowns /\ x.id = work[t].id
                           /\ TeardownShape(x) /\ Alone(x)
    BY TeardownFacts DEF Posts, TeardownShape
  <1>q. /\ queue' \in Seq(Items)
        /\ Len(queue) \in Nat /\ Len(queue') = Len(queue) + 1
        /\ DOMAIN queue = 1..Len(queue) /\ DOMAIN queue' = 1..(Len(queue) + 1)
        /\ \A n \in 1..Len(queue) : queue'[n] = queue[n]
        /\ queue'[Len(queue) + 1] = x
    BY <1>a, <1>x, PostFacts
  <1>c. /\ work' \in [Threads -> Works]
        /\ \A u \in Threads \ {t} : work'[u] = work[u]
        /\ work'[t] = NoWork
    BY <1>a, ReturnFacts DEF Returns
  <1>d. UNCHANGED <<handle, handlers, subs>>
    BY <1>u
  <1>20. TypeOK'
    <2>1. Len(queue') <= QueueCap
      BY <1>q DEF TypeOK, Accepts, Room
    <2>2. at' \in [Threads -> {"idle", "flush", "take", "send", "requeue", "work", "retire", "select"}]
      BY DEF TypeOK, Returns
    <2> QED
      BY <1>q, <1>c, <1>d, <1>u, <2>1, <2>2 DEF TypeOK
  <1>21. HandShape'
    <2>1. /\ \A u \in Threads \ {t} : at'[u] = at[u]
          /\ at'[t] = "idle" /\ work'[t] = NoWork
      BY <1>a, <1>b, <1>c, <1>u DEF TypeOK, Returns
    <2>2. t # "io" /\ hand[t] = <<>>
      BY <1>u, <1>a DEF IInv, HandShape
    <2> QED
      BY <2>1, <2>2, <1>a, <1>u, <1>c DEF IInv, HandShape, TeardownOf, Item
  <1>22. WorkShape'
    BY <1>a, <1>u, <1>b, <1>x, <1>q, <1>c, <1>d DEF IInv, WorkShape, Opening, Unposted, OneOpener,
       Teardowns
  <1>23. OneOpener'
    BY <1>a, <1>u, <1>b, <1>x, <1>q, <1>c, <1>d DEF IInv, OneOpener, Opening, Unposted, Teardowns
  <1>24. ItemsShaped'
    <2>1. \A y : (TeardownShape(y) => TeardownShape(y)') /\ (ItemShape(y) => ItemShape(y)')
      BY <1>d DEF TeardownShape, ItemShape
    <2>2. ItemShape(x)
      BY <1>x DEF ItemShape, TeardownShape, Teardowns
    <2>4. (\A n \in DOMAIN queue : ItemShape(queue[n]))'
      BY <1>q, <2>1, <2>2 DEF IInv, ItemsShaped
    <2> QED
      BY <2>1, <2>4, <1>u DEF IInv, ItemsShaped
  <1>25. Placed'
    BY <1>r, <1>u, <1>b, <1>d DEF IInv, Placed
  <1>26. NewSilent'
    BY <1>a, <1>u, <1>b, <1>x, <1>q, <1>c, <1>d DEF IInv, NewSilent, Silent, Item, Opening,
       Unposted, Teardowns
  <1>27. UnpostedSilent'
    <2> SUFFICES ASSUME NEW u \in Threads, work'[u].step \in Unposted
                 PROVE  Silent(work[u].id)'
      BY DEF UnpostedSilent
    <2>1. u # t /\ work'[u] = work[u] /\ Silent(work[u].id)
      BY <1>c, <1>a DEF IInv, UnpostedSilent, Unposted
    <2>2. work[u].id # work[t].id
      BY <2>1, <1>a, <1>b DEF IInv, WorkShape
    <2> QED
      BY <2>1, <2>2, <1>u, <1>x, <1>q DEF Silent
  <1>28. PlainUnsubscribed'
    BY <1>a, <1>u, <1>b, <1>x, <1>q, <1>c, <1>d DEF IInv, PlainUnsubscribed, Unsubscribed, Item,
       Opening, Unposted, Teardowns
  <1>29. CallsUnsubscribed'
    <2>2. ASSUME NEW u \in Threads
          PROVE  /\ work'[u].call = "on_for" =>
                       work'[u].id \in Ids /\ Unsubscribed(work[u].id)' /\ handle'[work'[u].id].guard
                 /\ work'[u].call = "drop" => ~handle'[work'[u].id].guard
      <3>1. CASE u = t
        BY <3>1, <1>c
      <3>2. CASE u # t
        <4>1. work'[u] = work[u] /\ handle' = handle
          BY <3>2, <1>c, <1>u
        <4>2. Unsubscribed(work[u].id) => Unsubscribed(work[u].id)'
          BY <4>1, <1>u, <1>x, <1>q DEF Unsubscribed, Teardowns
        <4> QED
          BY <4>1, <4>2 DEF IInv, CallsUnsubscribed
      <3> QED
        BY <3>1, <3>2
    <2> QED
      BY <2>2 DEF CallsUnsubscribed
  <1>30. ItemsUnsubscribed'
    <2>1. \A i : Unsubscribed(i) => Unsubscribed(i)'
      BY <1>u, <1>x, <1>q DEF Unsubscribed, Teardowns
    <2>2. \A y : Alone(y) => Alone(y)'
      BY <2>1 DEF Alone
    <2>3. (\A n \in DOMAIN queue : Alone(queue[n]))'
      BY <2>2, <1>q, <1>x DEF IInv, ItemsUnsubscribed
    <2> QED
      BY <2>2, <2>3, <1>u DEF IInv, ItemsUnsubscribed
  <1>31. CallsAnchored'
    <2> SUFFICES ASSUME NEW u \in Threads, work'[u].call = "on_for", work'[u].step \in {"gate", "post"}
                 PROVE  Anchored(work[u].id, work[u].ch, Len(queue) + 1)'
      BY DEF CallsAnchored
    <2>1. CASE u = t
      BY <2>1, <1>c
    <2>2. CASE u # t
      <3>1. work'[u] = work[u] /\ Anchored(work[u].id, work[u].ch, Len(queue) + 1)
        BY <2>2, <1>c, <1>u DEF IInv, CallsAnchored
      <3>2. CASE work[u].id \in handlers[work[u].ch]
        BY <3>1, <3>2, <1>u DEF Anchored
      <3>3. CASE \E k \in DOMAIN queue : queue[k].op = "register" /\ queue[k].id = work[u].id
        <4>1. PICK k \in DOMAIN queue : queue[k].op = "register" /\ queue[k].id = work[u].id
          BY <3>3
        <4>2. /\ k \in DOMAIN queue' /\ k < Len(queue') + 1
              /\ queue'[k].op = "register" /\ queue'[k].id = work'[u].id
          BY <4>1, <3>1, <1>q
        <4> QED
          BY <4>2 DEF Anchored
      <3> QED
        BY <3>1, <3>2, <3>3 DEF Anchored
    <2> QED
      BY <2>1, <2>2
  <1>32. SubscribesOrdered'
    <2> SUFFICES ASSUME NEW n \in DOMAIN queue', queue'[n].op = "subscribe", queue'[n].id \in Ids
                 PROVE  /\ Anchored(queue[n].id, queue[n].ch, n)'
                        /\ \A k \in DOMAIN queue' : (k < n /\ queue'[k].id = queue'[n].id) =>
                              queue'[k].op \notin Teardowns
      BY DEF SubscribesOrdered
    <2>1. n \in DOMAIN queue /\ queue'[n] = queue[n]
      BY <1>q, <1>x DEF Teardowns
    <2>2. /\ Anchored(queue[n].id, queue[n].ch, n)
          /\ \A k \in DOMAIN queue : (k < n /\ queue[k].id = queue[n].id) => queue[k].op \notin Teardowns
      BY <2>1 DEF IInv, SubscribesOrdered
    <2>3. \A k \in DOMAIN queue' : k < n => k \in DOMAIN queue /\ queue'[k] = queue[k]
      BY <2>1, <1>q
    <2>4. \A k \in DOMAIN queue : k \in DOMAIN queue' /\ queue'[k] = queue[k]
      BY <1>q
    <2>5. Anchored(queue[n].id, queue[n].ch, n)'
      BY <2>1, <2>2, <2>4, <1>u DEF Anchored
    <2> QED
      BY <2>1, <2>2, <2>3, <2>5
  <1>33. GuardsHeard'
    BY <1>a, <1>u, <1>b, <1>x, <1>q, <1>c, <1>d DEF IInv, GuardsHeard, Opening, Unposted, Teardowns
  <1>34. NoLostTeardown'
    <2> SUFFICES ASSUME ~closed', NEW i \in Ids, handle'[i].state = "released", Alive(i)'
                 PROVE  TeardownUnderway(i)'
      BY DEF NoLostTeardown
    <2>1. CASE i = work[t].id
      <3>1. /\ Len(queue) + 1 \in DOMAIN queue'
            /\ queue'[Len(queue) + 1].id = i /\ queue'[Len(queue) + 1].op \in Teardowns
            /\ \A k \in DOMAIN queue' : k <= Len(queue) + 1
        BY <2>1, <1>x, <1>q
      <3>2. InQueue(i)'
        BY <3>1 DEF InQueue
      <3> QED
        BY <3>2 DEF TeardownUnderway
    <2>2. CASE i # work[t].id
      <3>2. Alive(i) /\ ~closed /\ handle[i].state = "released"
        BY <2>2, <1>u, <1>d, <1>x, <1>q DEF Alive, Queued
      <3>3. TeardownUnderway(i)
        BY <3>2 DEF IInv, NoLostTeardown
      <3>4. WithCall(i) => WithCall(i)'
        BY <2>2, <1>a, <1>u, <1>c DEF WithCall
      <3>5. (InHand(i) => InHand(i)') /\ (InPending(i) => InPending(i)')
        BY <1>u DEF InHand, InPending
      <3>6. InQueue(i) => InQueue(i)'
        BY <2>2, <1>x, <1>q DEF InQueue
      <3> QED
        BY <3>3, <3>4, <3>5, <3>6 DEF TeardownUnderway
    <2> QED
      BY <2>1, <2>2
  <1>35. DeathLatched'
    BY <1>a, <1>u, <1>b, <1>x, <1>q, <1>c, <1>d DEF IInv, DeathLatched, Opening, Unposted, Teardowns
  <1> QED
    BY <1>20, <1>21, <1>22, <1>23, <1>24, <1>25, <1>26, <1>27, <1>28, <1>29, <1>30, <1>31, <1>32,
       <1>33, <1>34, <1>35 DEF IInv

\* A teardown finds the reactor gone.
LEMMA TeardownDroppedKeeps ==
    ASSUME TypeOK, IInv, NEW t \in Callers,
           At(t, "teardown"), closed, Returns(t), UNCHANGED <<queueVars, hand>>,
           UNCHANGED <<lifeVars, pending, has_pending, presence, registryVars, handle, calls>>
    PROVE  TypeOK' /\ IInv'
  <1> USE NoWorkFacts, IdFacts DEF queueVars, lifeVars, pendingVars, registryVars
  <1>a. /\ t \in Threads /\ work \in [Threads -> Works] /\ handle \in [Ids -> Handles]
        /\ queue \in Seq(Items)
    BY DEF TypeOK
  <1>r. handlers \in [Channels -> SUBSET Ids] /\ subs \in [Channels -> [plain : Nat, guards : SUBSET Ids]]
    BY DEF TypeOK
  <1>u. /\ at[t] = "work" /\ closed
        /\ UNCHANGED <<queue, closed, hand, pending, handlers, subs, crashed, loop_failed, io, handle>>
    BY DEF At
  <1>c. /\ work' \in [Threads -> Works]
        /\ \A u \in Threads \ {t} : work'[u] = work[u]
        /\ work'[t] = NoWork
    BY <1>a, ReturnFacts DEF Returns
  <1>20. TypeOK'
    BY <1>a, <1>c, <1>u DEF TypeOK, Returns
  <1>21. HandShape'
    <2>1. /\ \A u \in Threads \ {t} : at'[u] = at[u]
          /\ at'[t] = "idle" /\ work'[t] = NoWork
      BY <1>a, <1>c, <1>u DEF TypeOK, Returns
    <2>2. t # "io" /\ hand[t] = <<>>
      BY <1>u, <1>a DEF IInv, HandShape
    <2> QED
      BY <2>1, <2>2, <1>a, <1>u, <1>c DEF IInv, HandShape, TeardownOf, Item
  <1>22. WorkShape'
    BY <1>a, <1>u, <1>c DEF IInv, WorkShape, Opening, Unposted, OneOpener
  <1>23. OneOpener'
    BY <1>a, <1>u, <1>c DEF IInv, OneOpener, Opening, Unposted
  <1>24. ItemsShaped'
    BY <1>a, <1>u, <1>c DEF IInv, ItemsShaped, ItemShape, TeardownShape, Teardowns, Item, Opening,
       Unposted
  <1>25. Placed'
    BY <1>u DEF IInv, Placed
  <1>26. NewSilent'
    BY <1>a, <1>u, <1>c DEF IInv, NewSilent, Silent, Item, Opening, Unposted
  <1>27. UnpostedSilent'
    BY <1>a, <1>u, <1>c DEF IInv, UnpostedSilent, Silent, Unposted, Item, Opening
  <1>28. PlainUnsubscribed'
    BY <1>a, <1>u, <1>c DEF IInv, PlainUnsubscribed, Unsubscribed, Item, Opening, Unposted
  <1>29. CallsUnsubscribed'
    BY <1>a, <1>u, <1>c DEF IInv, CallsUnsubscribed, Unsubscribed, Item, WorkShape, Opening,
       Unposted
  <1>30. ItemsUnsubscribed'
    BY <1>a, <1>u, <1>c DEF IInv, ItemsUnsubscribed, Alone, Unsubscribed, Item, Opening, Unposted
  <1>31. CallsAnchored'
    BY <1>a, <1>u, <1>c DEF IInv, CallsAnchored, Anchored, Item, Opening, Unposted
  <1>32. SubscribesOrdered'
    BY <1>a, <1>u, <1>c DEF IInv, SubscribesOrdered, Anchored, Teardowns, Item, Opening, Unposted
  <1>33. GuardsHeard'
    BY <1>a, <1>u, <1>c DEF IInv, GuardsHeard, Opening, Unposted
  <1>34. NoLostTeardown'
    BY <1>u DEF NoLostTeardown
  <1>35. DeathLatched'
    BY <1>a, <1>u, <1>c DEF IInv, DeathLatched, Opening, Unposted
  <1> QED
    BY <1>20, <1>21, <1>22, <1>23, <1>24, <1>25, <1>26, <1>27, <1>28, <1>29, <1>30, <1>31, <1>32,
       <1>33, <1>34, <1>35 DEF IInv

\* A teardown finds the queue full.
LEMMA TeardownKeptKeeps ==
    ASSUME TypeOK, IInv, NEW t \in Callers,
           At(t, "teardown"), hand' = [hand EXCEPT ![t] = <<TeardownOf(t)>>],
           at' = [at EXCEPT ![t] = "retire"], UNCHANGED <<queueVars, work>>,
           UNCHANGED <<lifeVars, pending, has_pending, presence, registryVars, handle, calls>>
    PROVE  TypeOK' /\ IInv'
  <1> USE NoWorkFacts, IdFacts DEF queueVars, lifeVars, pendingVars, registryVars
  <1>a. /\ t \in Threads /\ work \in [Threads -> Works] /\ handle \in [Ids -> Handles]
        /\ queue \in Seq(Items)
    BY DEF TypeOK
  <1>r. handlers \in [Channels -> SUBSET Ids] /\ subs \in [Channels -> [plain : Nat, guards : SUBSET Ids]]
    BY DEF TypeOK
  <1>u. /\ at[t] = "work" /\ work[t].step = "teardown"
        /\ UNCHANGED <<queue, closed, pending, handlers, subs, crashed, loop_failed, io, handle, work>>
    BY DEF At
  <1>x. PICK x \in Items : hand' = [hand EXCEPT ![t] = <<x>>] /\ x = TeardownOf(t) /\ TeardownShape(x) /\ Alone(x)
    BY TeardownFacts
  <1>h. /\ hand' \in [Threads -> Seq(Items)] /\ hand'[t] = <<x>>
        /\ \A u \in Threads \ {t} : hand'[u] = hand[u]
        /\ DOMAIN hand'[t] = {1} /\ hand'[t][1] = x
    <2>1. <<x>> \in Seq(Items) /\ DOMAIN <<x>> = {1} /\ <<x>>[1] = x
      BY <1>x
    <2> QED
      BY <1>x, <1>a, <2>1 DEF TypeOK
  <1>i. hand[t] = <<>> /\ t # "io"
    BY <1>a, <1>u DEF IInv, HandShape
  <1>20. TypeOK'
    BY <1>a, <1>h, <1>u DEF TypeOK
  <1>21. HandShape'
    <2>1. /\ \A u \in Threads \ {t} : at'[u] = at[u]
          /\ at'[t] = "retire"
      BY <1>a DEF TypeOK
    <2>2. TeardownOf(t)' = TeardownOf(t)
      BY <1>u DEF TeardownOf
    <2> QED
      BY <2>1, <2>2, <1>a, <1>u, <1>h, <1>i, <1>x DEF IInv, HandShape, TeardownOf, Item
  <1>22. WorkShape'
    BY <1>a, <1>u DEF IInv, WorkShape, Opening, Unposted
  <1>23. OneOpener'
    BY <1>a, <1>u DEF IInv, OneOpener, Opening, Unposted
  <1>24. ItemsShaped'
    <2>1. \A y : (TeardownShape(y) => TeardownShape(y)') /\ (ItemShape(y) => ItemShape(y)')
      BY <1>u DEF TeardownShape, ItemShape
    <2> QED
      BY <2>1, <1>u, <1>h, <1>x DEF IInv, ItemsShaped
  <1>25. Placed'
    BY <1>a, <1>u DEF IInv, Placed
  <1>26. NewSilent'
    BY <1>a, <1>u DEF IInv, NewSilent, Silent, Item
  <1>27. UnpostedSilent'
    BY <1>a, <1>u DEF IInv, UnpostedSilent, Silent, Unposted, Item
  <1>28. PlainUnsubscribed'
    BY <1>a, <1>u DEF IInv, PlainUnsubscribed, Unsubscribed, Item
  <1>29. CallsUnsubscribed'
    BY <1>a, <1>u DEF IInv, CallsUnsubscribed, Unsubscribed, Item
  <1>30. ItemsUnsubscribed'
    <2>1. \A y : Alone(y) => Alone(y)'
      BY <1>u DEF Alone, Unsubscribed
    <2> QED
      BY <2>1, <1>u, <1>h, <1>x DEF IInv, ItemsUnsubscribed
  <1>31. CallsAnchored'
    BY <1>a, <1>u DEF IInv, CallsAnchored, Anchored, Item
  <1>32. SubscribesOrdered'
    BY <1>a, <1>u DEF IInv, SubscribesOrdered, Anchored, Teardowns, Item
  <1>33. GuardsHeard'
    BY <1>a, <1>u DEF IInv, GuardsHeard
  <1>34. NoLostTeardown'
    <2> SUFFICES ASSUME ~closed', NEW i \in Ids, handle'[i].state = "released", Alive(i)'
                 PROVE  TeardownUnderway(i)'
      BY DEF NoLostTeardown
    <2>2. Alive(i) /\ ~closed /\ handle[i].state = "released"
      BY <1>u DEF Alive, Queued
    <2>3. TeardownUnderway(i)
      BY <2>2 DEF IInv, NoLostTeardown
    <2>4. WithCall(i) => WithCall(i)'
      BY <1>u DEF WithCall
    <2>5. InHand(i) => InHand(i)'
      BY <1>h, <1>i DEF InHand
    <2>6. (InPending(i) => InPending(i)') /\ (InQueue(i) => InQueue(i)')
      BY <1>u DEF InPending, InQueue
    <2> QED
      BY <2>3, <2>4, <2>5, <2>6 DEF TeardownUnderway
  <1>35. DeathLatched'
    BY <1>a, <1>u DEF IInv, DeathLatched
  <1> QED
    BY <1>20, <1>21, <1>22, <1>23, <1>24, <1>25, <1>26, <1>27, <1>28, <1>29, <1>30, <1>31, <1>32,
       <1>33, <1>34, <1>35 DEF IInv

\* A teardown at the queue.
LEMMA PostsTeardownKeeps ==
    ASSUME TypeOK, IInv, NEW t \in Callers, PostsTeardown(t)
    PROVE  TypeOK' /\ IInv'
  BY TeardownPostedKeeps, TeardownDroppedKeeps, TeardownKeptKeeps DEF PostsTeardown

\* A teardown that found the queue full joins pending_teardowns.
LEMMA RetiresKeeps ==
    ASSUME TypeOK, IInv, NEW t \in Callers,
           Retires(t)
    PROVE  TypeOK' /\ IInv'
  <1> USE NoWorkFacts, IdFacts DEF queueVars, lifeVars, pendingVars, registryVars
  <1>a. t \in Threads /\ work \in [Threads -> Works] /\ handle \in [Ids -> Handles]
    BY DEF TypeOK
  <1>c. /\ work' \in [Threads -> Works]
        /\ \A u \in Threads \ {t} : work'[u] = work[u]
        /\ work'[t] = NoWork
    BY <1>a, ReturnFacts DEF Retires, Returns
  <1>q. /\ pending' \in Seq(Items)
        /\ \A n \in DOMAIN pending' : \/ \E k \in DOMAIN pending : pending'[n] = pending[k]
                                      \/ \E k \in DOMAIN hand[t] : pending'[n] = hand[t][k]
        /\ \A k \in DOMAIN pending : \E n \in DOMAIN pending' : pending'[n] = pending[k]
        /\ \A k \in DOMAIN hand[t] : \E n \in DOMAIN pending' : pending'[n] = hand[t][k]
    BY RequeueFacts DEF Retires
  <1>h. /\ hand' \in [Threads -> Seq(Items)] /\ hand'[t] = <<>>
        /\ \A u \in Threads \ {t} : hand'[u] = hand[u]
    BY RequeueFacts DEF Retires
  <1>20. TypeOK'
    BY <1>q, <1>h, <1>c DEF TypeOK, Retires, Requeue, FlagAfter, Returns
  <1>21. HandShape'
    BY DEF TypeOK, IInv, Works, HandShape, TeardownOf, Item, Retires, Requeue, FlagAfter, Returns
  <1>22. WorkShape'
    BY <1>a, <1>c DEF IInv, WorkShape, Opening, Unposted, Retires
  <1>23. OneOpener'
    BY <1>a, <1>c DEF IInv, OneOpener, Opening, Unposted
  <1>24. ItemsShaped'
    <2>1. UNCHANGED <<queue, handle>>
      BY DEF Retires
    <2>2. \A y : (TeardownShape(y) => TeardownShape(y)') /\ (ItemShape(y) => ItemShape(y)')
      BY <2>1 DEF TeardownShape, ItemShape
    <2>3. (\A n \in DOMAIN pending : TeardownShape(pending[n]))'
      BY <2>2, <1>q DEF IInv, ItemsShaped
    <2>4. (\A u \in Threads : \A n \in DOMAIN hand[u] : TeardownShape(hand[u][n]))'
      BY <2>2, <1>h DEF IInv, ItemsShaped
    <2> QED
      BY <2>1, <2>2, <2>3, <2>4 DEF IInv, ItemsShaped
  <1>25. Placed'
    BY DEF IInv, Placed, Retires
  <1>26. NewSilent'
    BY DEF IInv, NewSilent, Silent, Item, Retires
  <1>27. UnpostedSilent'
    BY DEF TypeOK, IInv, UnpostedSilent, Silent, Unposted, Item, Retires, Requeue, FlagAfter,
       Returns
  <1>28. PlainUnsubscribed'
    BY DEF IInv, PlainUnsubscribed, Unsubscribed, Item, Retires
  <1>29. CallsUnsubscribed'
    BY DEF TypeOK, IInv, CallsUnsubscribed, Unsubscribed, Item, Retires, Requeue, FlagAfter, Returns
  <1>30. ItemsUnsubscribed'
    <2>1. UNCHANGED <<queue, subs>>
      BY DEF Retires
    <2>2. \A y : Alone(y) => Alone(y)'
      BY <2>1 DEF Alone, Unsubscribed
    <2>3. (\A n \in DOMAIN pending : Alone(pending[n]))'
      BY <2>2, <1>q DEF IInv, ItemsUnsubscribed
    <2>4. (\A u \in Threads : \A n \in DOMAIN hand[u] : Alone(hand[u][n]))'
      BY <2>2, <1>h DEF IInv, ItemsUnsubscribed
    <2> QED
      BY <2>1, <2>2, <2>3, <2>4 DEF IInv, ItemsUnsubscribed
  <1>31. CallsAnchored'
    BY DEF TypeOK, IInv, CallsAnchored, Anchored, Item, Retires, Requeue, FlagAfter, Returns
  <1>32. SubscribesOrdered'
    BY DEF IInv, SubscribesOrdered, Anchored, Teardowns, Item, Retires
  <1>33. GuardsHeard'
    BY DEF IInv, GuardsHeard, Retires
  <1>34. NoLostTeardown'
    <2> SUFFICES ASSUME ~closed', NEW i \in Ids, handle'[i].state = "released", Alive(i)'
                 PROVE  TeardownUnderway(i)'
      BY DEF NoLostTeardown
    <2>2. handle[i].state = "released"
      BY DEF TypeOK, Handles, Retires
    <2>1. Alive(i)
      BY DEF Alive, Queued, Retires
    <2>3. ~closed
      BY DEF Retires
    <2>4. TeardownUnderway(i)
      BY <2>1, <2>2, <2>3 DEF IInv, NoLostTeardown
    <2>5. WithCall(i) => WithCall(i)' \/ InPending(i)'
      <3>1. hand[t] = <<TeardownOf(t)>>
        BY <1>a DEF IInv, HandShape, Retires
      <3>2. 1 \in DOMAIN hand[t] /\ hand[t][1].id = work[t].id
        BY <3>1 DEF TeardownOf, Item
      <3> QED
        BY <1>c, <1>q, <3>2 DEF WithCall, InPending
    <2>6. InHand(i) => InHand(i)' \/ InPending(i)'
      BY <1>q, <1>h DEF InHand, InPending
    <2>7. InPending(i) => InPending(i)'
      BY <1>q DEF InPending
    <2>8. InQueue(i) => InQueue(i)'
      BY DEF TypeOK, InQueue, Teardowns, Retires
    <2> QED
      BY <2>4, <2>5, <2>6, <2>7, <2>8 DEF TeardownUnderway
  <1>35. DeathLatched'
    BY DEF IInv, DeathLatched, Retires
  <1> QED
    BY <1>20, <1>21, <1>22, <1>23, <1>24, <1>25, <1>26, <1>27, <1>28, <1>29, <1>30, <1>31, <1>32,
       <1>33, <1>34, <1>35 DEF IInv

\* The reactor flushes at the top of its loop.
LEMMA LoopsAroundKeeps ==
    ASSUME TypeOK, IInv,
           LoopsAround
    PROVE  TypeOK' /\ IInv'
  <1> USE NoWorkFacts, IdFacts DEF queueVars, lifeVars, pendingVars, registryVars
  <1>20. TypeOK'
    BY DEF TypeOK, Items, Ops, Works, Handles, CallKinds, Item, LoopsAround
  <1>21. HandShape'
    BY DEF TypeOK, IInv, Works, HandShape, TeardownOf, Item, LoopsAround
  <1>22. WorkShape'
    BY DEF IInv, WorkShape, Opening, Unposted, LoopsAround
  <1>23. OneOpener'
    BY DEF IInv, OneOpener, Opening, Unposted, LoopsAround
  <1>24. ItemsShaped'
    BY DEF IInv, ItemsShaped, ItemShape, TeardownShape, Teardowns, Item, LoopsAround
  <1>25. Placed'
    BY DEF IInv, Placed, LoopsAround
  <1>26. NewSilent'
    BY DEF IInv, NewSilent, Silent, Item, LoopsAround
  <1>27. UnpostedSilent'
    BY DEF IInv, UnpostedSilent, Silent, Unposted, Item, LoopsAround
  <1>28. PlainUnsubscribed'
    BY DEF IInv, PlainUnsubscribed, Unsubscribed, Item, LoopsAround
  <1>29. CallsUnsubscribed'
    BY DEF IInv, CallsUnsubscribed, Unsubscribed, Item, LoopsAround
  <1>30. ItemsUnsubscribed'
    BY DEF IInv, ItemsUnsubscribed, Alone, Unsubscribed, Item, LoopsAround
  <1>31. CallsAnchored'
    BY DEF IInv, CallsAnchored, Anchored, Item, LoopsAround
  <1>32. SubscribesOrdered'
    BY DEF IInv, SubscribesOrdered, Anchored, Teardowns, Item, LoopsAround
  <1>33. GuardsHeard'
    BY DEF IInv, GuardsHeard, LoopsAround
  <1>34. NoLostTeardown'
    BY DEF IInv, NoLostTeardown, Alive, TeardownUnderway, WithCall, InHand, InPending, InQueue,
       Queued, Teardowns, Item, LoopsAround
  <1>35. DeathLatched'
    BY DEF IInv, DeathLatched, LoopsAround
  <1> QED
    BY <1>20, <1>21, <1>22, <1>23, <1>24, <1>25, <1>26, <1>27, <1>28, <1>29, <1>30, <1>31, <1>32,
       <1>33, <1>34, <1>35 DEF IInv

\* The reactor applies the oldest message of the queue.
LEMMA ReceivesKeeps ==
    ASSUME TypeOK, IInv,
           Receives
    PROVE  TypeOK' /\ IInv'
  <1> USE NoWorkFacts, IdFacts DEF queueVars, lifeVars, pendingVars, registryVars
  <1>a. /\ queue \in Seq(Items) /\ queue # <<>> /\ queue' = Tail(queue)
        /\ handlers \in [Channels -> SUBSET Ids]
        /\ subs \in [Channels -> [plain : Nat, guards : SUBSET Ids]]
        /\ presence \in [Channels -> Nat]
    BY DEF TypeOK, Receives
  <1>u. /\ UNCHANGED <<closed, hand, pending, handle, work, crashed, loop_failed>>
        /\ at["io"] = "select"
    BY DEF Receives
  <1>q. /\ queue' \in Seq(Items)
        /\ Len(queue) \in Nat \ {0} /\ Len(queue') = Len(queue) - 1
        /\ DOMAIN queue = 1..Len(queue) /\ DOMAIN queue' = 1..(Len(queue) - 1)
        /\ Head(queue) = queue[1] /\ queue[1] \in Items
        /\ \A n \in 1..(Len(queue) - 1) : queue'[n] = queue[n + 1]
    BY <1>a, ReceiveFacts
  <1>x. PICK x \in Items : x = queue[1] /\ Applies(x)
    BY <1>q DEF Receives
  <1>s. /\ 1 \in DOMAIN queue
        /\ \A n \in DOMAIN queue' : n + 1 \in DOMAIN queue /\ queue'[n] = queue[n + 1]
        /\ \A k \in DOMAIN queue : k = 1 \/ (k - 1 \in DOMAIN queue' /\ queue'[k - 1] = queue[k])
    BY <1>q
  <1>t. x.op \in Ops /\ x.id \in Ids \union {0} /\ x.ch \in Channels /\ ItemShape(x) /\ Alone(x)
    BY <1>x, <1>s DEF Items, IInv, ItemsShaped, ItemsUnsubscribed
  <1>e. /\ handlers' \in [Channels -> SUBSET Ids]
        /\ \A c \in Channels : \A i \in handlers'[c] : i \in handlers[c] \/ (x.op = "register" /\ i = x.id /\ c = x.ch)
        /\ \A c \in Channels : \A i \in handlers[c] : i \in handlers'[c] \/ (x.op \in Teardowns /\ i = x.id /\ c = x.ch)
        /\ x.op \in Teardowns => x.id \notin handlers'[x.ch]
        /\ x.op = "register" => x.id \in handlers'[x.ch]
    <2>1. CASE x.op = "register"
      <3>1. handlers' = [handlers EXCEPT ![x.ch] = @ \union {x.id}] /\ x.id \in Ids
        BY <2>1, <1>x, <1>t DEF Applies, ItemShape
      <3> QED
        BY <2>1, <3>1, <1>a, <1>t DEF Teardowns
    <2>2. CASE x.op \in Teardowns
      <3>1. handlers' = [handlers EXCEPT ![x.ch] = @ \ {x.id}]
        BY <2>2, <1>x DEF Applies, RemovesHandler, Teardowns
      <3> QED
        BY <2>2, <3>1, <1>a, <1>t DEF Teardowns
    <2>3. CASE x.op \notin Teardowns \union {"register"}
      <3>1. handlers' = handlers
        BY <2>3, <1>x DEF Applies, Teardowns
      <3> QED
        BY <2>3, <3>1, <1>a, <1>t
    <2> QED
      BY <2>1, <2>2, <2>3
  <1>g. /\ subs' \in [Channels -> [plain : Nat, guards : SUBSET Ids]]
        /\ \A c \in Channels : \A i \in subs'[c].guards :
              i \in subs[c].guards \/ (x.op = "subscribe" /\ i = x.id /\ c = x.ch)
        /\ x.op = "guard_drop" => x.id \notin subs'[x.ch].guards
    <2>0. subs[x.ch].plain \in Nat /\ subs[x.ch].guards \in SUBSET Ids
      BY <1>a, <1>t
    <2>c. subs \in [Channels -> [plain : Nat, guards : SUBSET Ids]] /\ x.ch \in Channels
      BY <1>a, <1>t
    <2>1. CASE x.op = "guard_drop"
      <3>1. subs' = [subs EXCEPT ![x.ch].guards = subs[x.ch].guards \ {x.id}]
        BY <2>1, <1>x DEF Applies, Released
      <3>2. subs[x.ch].guards \ {x.id} \in SUBSET Ids
        BY <2>0
      <3>3. /\ subs' \in [Channels -> [plain : Nat, guards : SUBSET Ids]]
            /\ subs'[x.ch].guards = subs[x.ch].guards \ {x.id}
            /\ \A d \in Channels \ {x.ch} : subs'[d] = subs[d]
        BY <3>1, <3>2, <2>c, GuardFacts
      <3> QED
        BY <2>1, <3>3
    <2>2. CASE x.op = "subscribe"
      <3>1. CASE x.id = 0
        <4>1. subs' = [subs EXCEPT ![x.ch].plain = subs[x.ch].plain + 1]
          BY <2>2, <3>1, <1>x DEF Applies
        <4>2. subs[x.ch].plain + 1 \in Nat
          BY <2>0
        <4>3. /\ subs' \in [Channels -> [plain : Nat, guards : SUBSET Ids]]
              /\ \A d \in Channels : subs'[d].guards = subs[d].guards
          BY <4>1, <4>2, <2>c, PlainFacts
        <4> QED
          BY <2>2, <4>3
      <3>2. CASE x.id # 0
        <4>1. subs' = [subs EXCEPT ![x.ch].guards = subs[x.ch].guards \union {x.id}]
          BY <2>2, <3>2, <1>x DEF Applies
        <4>2. subs[x.ch].guards \union {x.id} \in SUBSET Ids
          BY <2>0, <3>2, <1>t
        <4>3. /\ subs' \in [Channels -> [plain : Nat, guards : SUBSET Ids]]
              /\ subs'[x.ch].guards = subs[x.ch].guards \union {x.id}
              /\ \A d \in Channels \ {x.ch} : subs'[d] = subs[d]
          BY <4>1, <4>2, <2>c, GuardFacts
        <4> QED
          BY <2>2, <4>3
      <3> QED
        BY <3>1, <3>2
    <2>3. CASE x.op = "unsubscribe"
      <3> DEFINE p == IF subs[x.ch].plain > 0 THEN subs[x.ch].plain - 1 ELSE 0
      <3>1. subs' = [subs EXCEPT ![x.ch].plain = p]
        BY <2>3, <1>x DEF Applies
      <3>2. p \in Nat
        BY <2>0
      <3> HIDE DEF p
      <3>3. /\ subs' \in [Channels -> [plain : Nat, guards : SUBSET Ids]]
            /\ \A d \in Channels : subs'[d].guards = subs[d].guards
        BY <3>1, <3>2, <2>c, PlainFacts
      <3> QED
        BY <2>3, <3>3
    <2>4. CASE x.op = "unsubscribe_all"
      <3>1. subs' = [c \in Channels |-> [plain |-> 0, guards |-> {}]]
        BY <2>4, <1>x DEF Applies
      <3> QED
        BY <2>4, <3>1, <1>a, <1>t
    <2>5. CASE x.op \in {"register", "deregister", "connect"}
      <3>1. subs' = subs
        BY <2>5, <1>x DEF Applies
      <3> QED
        BY <2>5, <3>1, <1>a
    <2> QED
      BY <1>t, <2>1, <2>2, <2>3, <2>4, <2>5 DEF Ops
  <1>i. \A i : Silent(i) => Silent(i)'
    BY <1>s, <1>x, <1>e, <1>g DEF Silent
  <1>n. \A i : Unsubscribed(i) => Unsubscribed(i)'
    BY <1>s, <1>x, <1>g DEF Unsubscribed
  <1>20. TypeOK'
    <2>0. Lowered(x.ch) \in [Channels -> Nat]
      BY <1>a, <1>t DEF Lowered
    <2>1. presence' \in [Channels -> Nat]
      BY <2>0, <1>a, <1>x, <1>t DEF Applies, RemovesHandler
    <2>2. Len(queue') <= QueueCap
      BY <1>q DEF TypeOK
    <2>3. /\ at' = [at EXCEPT !["io"] = "idle"] /\ io' = "top" /\ reserve' = 0
          /\ UNCHANGED <<shutting_down, has_pending, calls>>
      BY DEF Receives
    <2>4. at' \in [Threads -> {"idle", "flush", "take", "send", "requeue", "work", "retire", "select"}]
      BY <2>3 DEF TypeOK
    <2> QED
      BY <1>q, <1>e, <1>g, <1>u, <2>1, <2>2, <2>3, <2>4 DEF TypeOK
  <1>21. HandShape'
    BY <1>u DEF TypeOK, Receives, IInv, HandShape, TeardownOf, Item
  <1>22. WorkShape'
    BY <1>u DEF IInv, WorkShape, Opening, Unposted
  <1>23. OneOpener'
    BY <1>u DEF IInv, OneOpener, Opening, Unposted
  <1>24. ItemsShaped'
    <2>1. \A y : (TeardownShape(y) => TeardownShape(y)') /\ (ItemShape(y) => ItemShape(y)')
      BY <1>u DEF TeardownShape, ItemShape
    <2>2. (\A n \in DOMAIN queue : ItemShape(queue[n]))'
      BY <2>1, <1>s DEF IInv, ItemsShaped
    <2> QED
      BY <2>1, <2>2, <1>u DEF IInv, ItemsShaped
  <1>25. Placed'
    <2>1. x.id \in Ids => handle[x.id].ch = x.ch /\ handle[x.id].state # "new"
      BY <1>t DEF ItemShape
    <2> QED
      BY <2>1, <1>e, <1>g, <1>u DEF IInv, Placed
  <1>26. NewSilent'
    BY <1>i, <1>u DEF IInv, NewSilent
  <1>27. UnpostedSilent'
    <2> SUFFICES ASSUME NEW u \in Threads, work[u].step \in Unposted
                 PROVE  Silent(work[u].id)'
      BY <1>u DEF UnpostedSilent
    <2>1. Silent(work[u].id)
      BY DEF IInv, UnpostedSilent
    <2> QED
      BY <2>1, <1>u, <1>s, <1>x, <1>e, <1>g DEF Silent
  <1>28. PlainUnsubscribed'
    BY <1>n, <1>u DEF IInv, PlainUnsubscribed
  <1>29. CallsUnsubscribed'
    <2>1. ASSUME NEW u \in Threads, Unsubscribed(work[u].id) PROVE Unsubscribed(work[u].id)'
      BY <2>1, <1>u, <1>s, <1>x, <1>g DEF Unsubscribed
    <2> QED
      BY <2>1, <1>u DEF IInv, CallsUnsubscribed
  <1>30. ItemsUnsubscribed'
    <2>1. \A y : Alone(y) => Alone(y)'
      BY <1>n DEF Alone
    <2>2. (\A n \in DOMAIN queue : Alone(queue[n]))'
      BY <2>1, <1>s DEF IInv, ItemsUnsubscribed
    <2> QED
      BY <2>1, <2>2, <1>u DEF IInv, ItemsUnsubscribed
  <1>31. CallsAnchored'
    <2> SUFFICES ASSUME NEW u \in Threads, work[u].call = "on_for", work[u].step \in {"gate", "post"}, ~closed
                 PROVE  Anchored(work[u].id, work[u].ch, Len(queue) + 1)'
      BY <1>u DEF CallsAnchored
    <2>1. Anchored(work[u].id, work[u].ch, Len(queue) + 1)
      BY DEF IInv, CallsAnchored
    <2>2. /\ work[u].id \in Ids /\ work[u].ch \in Channels
          /\ handle[work[u].id].state = "opening" /\ handle[work[u].id].ch = work[u].ch
      BY DEF IInv, WorkShape, Opening, TypeOK, Works
    <2>3. ~(x.op \in Teardowns /\ x.id = work[u].id)
      BY <1>t, <2>2 DEF ItemShape, TeardownShape
    <2>4. CASE work[u].id \in handlers[work[u].ch]
      BY <2>2, <2>3, <2>4, <1>e, <1>u DEF Anchored
    <2>5. CASE \E k \in DOMAIN queue : queue[k].op = "register" /\ queue[k].id = work[u].id
      <3>1. PICK k \in DOMAIN queue : queue[k].op = "register" /\ queue[k].id = work[u].id
        BY <2>5
      <3>2. CASE k = 1
        <4>1. work[u].id \in handlers'[work[u].ch]
          BY <2>2, <3>1, <3>2, <1>x, <1>t, <1>e DEF ItemShape
        <4> QED
          BY <4>1, <1>u DEF Anchored
      <3>3. CASE k # 1
        <4>1. k - 1 \in DOMAIN queue' /\ queue'[k - 1] = queue[k] /\ k - 1 < Len(queue') + 1
          BY <3>3, <1>s, <1>q
        <4> QED
          BY <4>1, <3>1, <1>u DEF Anchored
      <3> QED
        BY <3>2, <3>3
    <2> QED
      BY <2>1, <2>4, <2>5 DEF Anchored
  <1>32. SubscribesOrdered'
    <2> SUFFICES ASSUME NEW n \in DOMAIN queue', queue'[n].op = "subscribe", queue'[n].id \in Ids
                 PROVE  /\ Anchored(queue[n].id, queue[n].ch, n)'
                        /\ \A k \in DOMAIN queue' : (k < n /\ queue'[k].id = queue'[n].id) =>
                              queue'[k].op \notin Teardowns
      BY DEF SubscribesOrdered
    <2>1. n + 1 \in DOMAIN queue /\ queue'[n] = queue[n + 1] /\ n \in Nat /\ 1 < n + 1
      BY <1>s, <1>q
    <2>2. /\ Anchored(queue[n + 1].id, queue[n + 1].ch, n + 1)
          /\ \A k \in DOMAIN queue : (k < n + 1 /\ queue[k].id = queue[n + 1].id) => queue[k].op \notin Teardowns
      BY <2>1 DEF IInv, SubscribesOrdered
    <2>3. \A k \in DOMAIN queue' : (k < n /\ queue'[k].id = queue'[n].id) => queue'[k].op \notin Teardowns
      <3> SUFFICES ASSUME NEW k \in DOMAIN queue', k < n, queue'[k].id = queue'[n].id
                   PROVE  queue'[k].op \notin Teardowns
        OBVIOUS
      <3>1. k + 1 \in DOMAIN queue /\ queue'[k] = queue[k + 1] /\ k + 1 < n + 1
        BY <1>s, <1>q, <2>1
      <3> QED
        BY <3>1, <2>1, <2>2
    <2>4. /\ queue'[n].ch \in Channels
          /\ handle[queue'[n].id].ch = queue'[n].ch
      <3>1. ItemShape(queue[n + 1]) /\ queue[n + 1] \in Items
        BY <2>1, <1>a DEF IInv, ItemsShaped
      <3> QED
        BY <2>1, <3>1 DEF ItemShape, Items
    <2>5. ~(x.op \in Teardowns /\ x.id = queue'[n].id)
      BY <2>1, <2>2, <1>x, <1>s
    <2>6. Anchored(queue[n].id, queue[n].ch, n)'
      <3>1. CASE queue'[n].id \in handlers[queue'[n].ch]
        BY <3>1, <2>4, <2>5, <1>e DEF Anchored
      <3>2. CASE \E k \in DOMAIN queue : k < n + 1 /\ queue[k].op = "register" /\ queue[k].id = queue'[n].id
        <4>1. PICK k \in DOMAIN queue : k < n + 1 /\ queue[k].op = "register" /\ queue[k].id = queue'[n].id
          BY <3>2
        <4>2. CASE k = 1
          <5>1. queue'[n].id \in handlers'[queue'[n].ch]
            BY <2>4, <4>1, <4>2, <1>x, <1>t, <1>e DEF ItemShape
          <5> QED
            BY <5>1 DEF Anchored
        <4>3. CASE k # 1
          <5>1. k - 1 \in DOMAIN queue' /\ queue'[k - 1] = queue[k] /\ k - 1 < n
            BY <4>1, <4>3, <2>1, <1>s, <1>q
          <5> QED
            BY <5>1, <4>1 DEF Anchored
        <4> QED
          BY <4>2, <4>3
      <3> QED
        BY <3>1, <3>2, <2>1, <2>2 DEF Anchored
    <2> QED
      BY <2>3, <2>6
  <1>33. GuardsHeard'
    <2> SUFFICES ASSUME NEW c \in Channels, NEW i \in subs'[c].guards
                 PROVE  i \in handlers'[c]
      BY DEF GuardsHeard
    <2>1. CASE i \in subs[c].guards
      <3>1. i \in handlers[c]
        BY <2>1 DEF IInv, GuardsHeard
      <3>2. ~(x.op = "deregister" /\ i = x.id)
        BY <2>1, <1>t DEF Alone, Unsubscribed
      <3>3. ~(x.op = "guard_drop" /\ i = x.id /\ c = x.ch)
        BY <1>g
      <3> QED
        BY <3>1, <3>2, <3>3, <1>e DEF Teardowns
    <2>2. CASE i \notin subs[c].guards
      <3>1. x.op = "subscribe" /\ i = x.id /\ c = x.ch /\ i \in Ids
        BY <2>2, <1>g
      <3>2. Anchored(i, c, 1)
        BY <3>1, <1>s, <1>x DEF IInv, SubscribesOrdered
      <3>3. \A k \in DOMAIN queue : ~(k < 1)
        BY <1>q
      <3>4. i \in handlers[c]
        BY <3>2, <3>3 DEF Anchored
      <3> QED
        BY <3>1, <3>4, <1>e DEF Teardowns
    <2> QED
      BY <2>1, <2>2
  <1>34. NoLostTeardown'
    <2> SUFFICES ASSUME ~closed', NEW i \in Ids, handle'[i].state = "released", Alive(i)'
                 PROVE  TeardownUnderway(i)'
      BY DEF NoLostTeardown
    <2>1. Alive(i)
      BY <1>s, <1>x, <1>e, <1>g DEF Alive, Queued
    <2>2. TeardownUnderway(i)
      BY <2>1, <1>u DEF IInv, NoLostTeardown
    <2>3. (WithCall(i) => WithCall(i)') /\ (InHand(i) => InHand(i)') /\ (InPending(i) => InPending(i)')
      BY <1>u DEF WithCall, InHand, InPending
    <2>4. InQueue(i) => InQueue(i)'
      <3> SUFFICES ASSUME NEW n \in DOMAIN queue, queue[n].id = i, queue[n].op \in Teardowns,
                          \A k \in DOMAIN queue : queue[k].id = i => k <= n
                   PROVE  InQueue(i)'
        BY DEF InQueue
      <3>1. CASE n # 1
        <4>1. n - 1 \in DOMAIN queue' /\ queue'[n - 1] = queue[n]
          BY <3>1, <1>s
        <4>2. \A k \in DOMAIN queue' : queue'[k].id = i => k <= n - 1
          BY <1>s, <1>q
        <4> QED
          BY <4>1, <4>2 DEF InQueue
      <3>2. CASE n = 1
        <4>1. \A k \in DOMAIN queue' : queue'[k].id # i
          BY <3>2, <1>s, <1>q
        <4>2. x.id = i /\ x.op \in Teardowns /\ handle[i].ch = x.ch
          BY <3>2, <1>x, <1>t DEF ItemShape, TeardownShape
        <4>3. \A c \in Channels : i \notin handlers'[c]
          <5>1. \A c \in Channels : i \in handlers'[c] => i \in handlers[c]
            BY <4>2, <1>e DEF Teardowns
          <5>2. \A c \in Channels : i \in handlers[c] => c = x.ch
            BY <4>2 DEF IInv, Placed
          <5> QED
            BY <5>1, <5>2, <4>2, <1>e
        <4>4. \A c \in Channels : i \notin subs'[c].guards
          <5>1. \A c \in Channels : i \in subs'[c].guards => i \in subs[c].guards
            BY <4>2, <1>g DEF Teardowns
          <5>2. \A c \in Channels : i \in subs[c].guards => c = x.ch /\ x.op # "deregister"
            BY <4>2, <1>t DEF IInv, Placed, Alone, Unsubscribed
          <5> QED
            BY <5>1, <5>2, <4>2, <1>g DEF Teardowns
        <4>5. ~Alive(i)'
          BY <4>1, <4>3, <4>4 DEF Alive, Queued
        <4> QED
          BY <4>5
      <3> QED
        BY <3>1, <3>2
    <2> QED
      BY <2>2, <2>3, <2>4 DEF TeardownUnderway
  <1>35. DeathLatched'
    BY <1>u DEF IInv, DeathLatched
  <1> QED
    BY <1>20, <1>21, <1>22, <1>23, <1>24, <1>25, <1>26, <1>27, <1>28, <1>29, <1>30, <1>31, <1>32,
       <1>33, <1>34, <1>35 DEF IInv

\* Something else wakes the reactor.
LEMMA WakesKeeps ==
    ASSUME TypeOK, IInv,
           Wakes
    PROVE  TypeOK' /\ IInv'
  <1> USE NoWorkFacts, IdFacts DEF queueVars, lifeVars, pendingVars, registryVars
  <1>20. TypeOK'
    BY DEF TypeOK, Items, Ops, Works, Handles, CallKinds, Item, Wakes
  <1>21. HandShape'
    BY DEF TypeOK, IInv, Works, HandShape, TeardownOf, Item, Wakes
  <1>22. WorkShape'
    BY DEF IInv, WorkShape, Opening, Unposted, Wakes
  <1>23. OneOpener'
    BY DEF IInv, OneOpener, Opening, Unposted, Wakes
  <1>24. ItemsShaped'
    BY DEF IInv, ItemsShaped, ItemShape, TeardownShape, Teardowns, Item, Wakes
  <1>25. Placed'
    BY DEF IInv, Placed, Wakes
  <1>26. NewSilent'
    BY DEF IInv, NewSilent, Silent, Item, Wakes
  <1>27. UnpostedSilent'
    BY DEF IInv, UnpostedSilent, Silent, Unposted, Item, Wakes
  <1>28. PlainUnsubscribed'
    BY DEF IInv, PlainUnsubscribed, Unsubscribed, Item, Wakes
  <1>29. CallsUnsubscribed'
    BY DEF IInv, CallsUnsubscribed, Unsubscribed, Item, Wakes
  <1>30. ItemsUnsubscribed'
    BY DEF IInv, ItemsUnsubscribed, Alone, Unsubscribed, Item, Wakes
  <1>31. CallsAnchored'
    BY DEF IInv, CallsAnchored, Anchored, Item, Wakes
  <1>32. SubscribesOrdered'
    BY DEF IInv, SubscribesOrdered, Anchored, Teardowns, Item, Wakes
  <1>33. GuardsHeard'
    BY DEF IInv, GuardsHeard, Wakes
  <1>34. NoLostTeardown'
    BY DEF IInv, NoLostTeardown, Alive, TeardownUnderway, WithCall, InHand, InPending, InQueue,
       Queued, Teardowns, Item, Wakes
  <1>35. DeathLatched'
    BY DEF IInv, DeathLatched, Wakes
  <1> QED
    BY <1>20, <1>21, <1>22, <1>23, <1>24, <1>25, <1>26, <1>27, <1>28, <1>29, <1>30, <1>31, <1>32,
       <1>33, <1>34, <1>35 DEF IInv

\* close() begins the teardown.
LEMMA ShutsKeeps ==
    ASSUME TypeOK, IInv,
           Shuts
    PROVE  TypeOK' /\ IInv'
  <1> USE NoWorkFacts, IdFacts DEF queueVars, lifeVars, pendingVars, registryVars
  <1>20. TypeOK'
    BY DEF TypeOK, Items, Ops, Works, Handles, CallKinds, Item, Shuts
  <1>21. HandShape'
    BY DEF IInv, HandShape, TeardownOf, Item, Shuts
  <1>22. WorkShape'
    BY DEF IInv, WorkShape, Opening, Unposted, Shuts
  <1>23. OneOpener'
    BY DEF IInv, OneOpener, Opening, Unposted, Shuts
  <1>24. ItemsShaped'
    BY DEF IInv, ItemsShaped, ItemShape, TeardownShape, Teardowns, Item, Shuts
  <1>25. Placed'
    BY DEF IInv, Placed, Shuts
  <1>26. NewSilent'
    BY DEF IInv, NewSilent, Silent, Item, Shuts
  <1>27. UnpostedSilent'
    BY DEF IInv, UnpostedSilent, Silent, Unposted, Item, Shuts
  <1>28. PlainUnsubscribed'
    BY DEF IInv, PlainUnsubscribed, Unsubscribed, Item, Shuts
  <1>29. CallsUnsubscribed'
    BY DEF IInv, CallsUnsubscribed, Unsubscribed, Item, Shuts
  <1>30. ItemsUnsubscribed'
    BY DEF IInv, ItemsUnsubscribed, Alone, Unsubscribed, Item, Shuts
  <1>31. CallsAnchored'
    BY DEF IInv, CallsAnchored, Anchored, Item, Shuts
  <1>32. SubscribesOrdered'
    BY DEF IInv, SubscribesOrdered, Anchored, Teardowns, Item, Shuts
  <1>33. GuardsHeard'
    BY DEF IInv, GuardsHeard, Shuts
  <1>34. NoLostTeardown'
    BY DEF IInv, NoLostTeardown, Alive, TeardownUnderway, WithCall, InHand, InPending, InQueue,
       Queued, Teardowns, Item, Shuts
  <1>35. DeathLatched'
    BY DEF IInv, DeathLatched, Shuts
  <1> QED
    BY <1>20, <1>21, <1>22, <1>23, <1>24, <1>25, <1>26, <1>27, <1>28, <1>29, <1>30, <1>31, <1>32,
       <1>33, <1>34, <1>35 DEF IInv

\* The reactor leaves its loop, and its receiver goes.
LEMMA ExitsKeeps ==
    ASSUME TypeOK, IInv,
           Exits
    PROVE  TypeOK' /\ IInv'
  <1> USE NoWorkFacts, IdFacts DEF queueVars, lifeVars, pendingVars, registryVars
  <1>20. TypeOK'
    <2>1. queue' \in Seq(Items) /\ Len(queue') <= QueueCap
      BY DEF TypeOK, Items, Ops, Works, Handles, CallKinds, Item, Exits
    <2> QED
      BY <2>1 DEF TypeOK, Items, Ops, Works, Handles, CallKinds, Item, Exits
  <1>21. HandShape'
    BY DEF TypeOK, IInv, Works, HandShape, TeardownOf, Item, Exits
  <1>22. WorkShape'
    BY DEF IInv, WorkShape, Opening, Unposted, Exits
  <1>23. OneOpener'
    BY DEF IInv, OneOpener, Opening, Unposted, Exits
  <1>24. ItemsShaped'
    BY DEF TypeOK, IInv, ItemsShaped, ItemShape, TeardownShape, Teardowns, Item, Exits
  <1>25. Placed'
    BY DEF IInv, Placed, Exits
  <1>26. NewSilent'
    BY DEF TypeOK, IInv, NewSilent, Silent, Item, Exits
  <1>27. UnpostedSilent'
    BY DEF TypeOK, IInv, UnpostedSilent, Silent, Unposted, Item, Exits
  <1>28. PlainUnsubscribed'
    BY DEF TypeOK, IInv, PlainUnsubscribed, Unsubscribed, Item, Exits
  <1>29. CallsUnsubscribed'
    BY DEF TypeOK, IInv, CallsUnsubscribed, Unsubscribed, Item, Exits
  <1>30. ItemsUnsubscribed'
    BY DEF TypeOK, IInv, ItemsUnsubscribed, Alone, Unsubscribed, Item, Exits
  <1>31. CallsAnchored'
    BY DEF TypeOK, IInv, CallsAnchored, Anchored, Item, Exits
  <1>32. SubscribesOrdered'
    BY DEF TypeOK, IInv, SubscribesOrdered, Anchored, Teardowns, Item, Exits
  <1>33. GuardsHeard'
    BY DEF IInv, GuardsHeard, Exits
  <1>34. NoLostTeardown'
    BY DEF TypeOK, IInv, NoLostTeardown, Alive, TeardownUnderway, WithCall, InHand, InPending,
       InQueue, Queued, Teardowns, Item, Exits
  <1>35. DeathLatched'
    BY DEF IInv, DeathLatched, Exits
  <1> QED
    BY <1>20, <1>21, <1>22, <1>23, <1>24, <1>25, <1>26, <1>27, <1>28, <1>29, <1>30, <1>31, <1>32,
       <1>33, <1>34, <1>35 DEF IInv

\* The reactor dies: its death guard latches.
LEMMA DiesKeeps ==
    ASSUME TypeOK, IInv,
           Dies
    PROVE  TypeOK' /\ IInv'
  <1> USE NoWorkFacts, IdFacts DEF queueVars, lifeVars, pendingVars, registryVars
  <1>20. TypeOK'
    BY DEF TypeOK, Items, Ops, Works, Handles, CallKinds, Item, Dies, DropsFirst
  <1>21. HandShape'
    BY DEF TypeOK, IInv, Works, HandShape, TeardownOf, Item, Dies, DropsFirst
  <1>22. WorkShape'
    BY DEF IInv, WorkShape, Opening, Unposted, Dies, DropsFirst
  <1>23. OneOpener'
    BY DEF IInv, OneOpener, Opening, Unposted, Dies, DropsFirst
  <1>24. ItemsShaped'
    BY DEF IInv, ItemsShaped, ItemShape, TeardownShape, Teardowns, Item, Dies, DropsFirst
  <1>25. Placed'
    BY DEF IInv, Placed, Dies, DropsFirst
  <1>26. NewSilent'
    BY DEF IInv, NewSilent, Silent, Item, Dies, DropsFirst
  <1>27. UnpostedSilent'
    BY DEF IInv, UnpostedSilent, Silent, Unposted, Item, Dies, DropsFirst
  <1>28. PlainUnsubscribed'
    BY DEF IInv, PlainUnsubscribed, Unsubscribed, Item, Dies, DropsFirst
  <1>29. CallsUnsubscribed'
    BY DEF IInv, CallsUnsubscribed, Unsubscribed, Item, Dies, DropsFirst
  <1>30. ItemsUnsubscribed'
    BY DEF IInv, ItemsUnsubscribed, Alone, Unsubscribed, Item, Dies, DropsFirst
  <1>31. CallsAnchored'
    BY DEF IInv, CallsAnchored, Anchored, Item, Dies, DropsFirst
  <1>32. SubscribesOrdered'
    BY DEF IInv, SubscribesOrdered, Anchored, Teardowns, Item, Dies, DropsFirst
  <1>33. GuardsHeard'
    BY DEF IInv, GuardsHeard, Dies, DropsFirst
  <1>34. NoLostTeardown'
    BY DEF IInv, NoLostTeardown, Alive, TeardownUnderway, WithCall, InHand, InPending, InQueue,
       Queued, Teardowns, Item, Dies, DropsFirst
  <1>35. DeathLatched'
    BY DEF TypeOK, IInv, DeathLatched, Dies, DropsFirst
  <1> QED
    BY <1>20, <1>21, <1>22, <1>23, <1>24, <1>25, <1>26, <1>27, <1>28, <1>29, <1>30, <1>31, <1>32,
       <1>33, <1>34, <1>35 DEF IInv

\* The receiver of a dead reactor goes.
LEMMA IsDeadKeeps ==
    ASSUME TypeOK, IInv,
           IsDead
    PROVE  TypeOK' /\ IInv'
  <1> USE NoWorkFacts, IdFacts DEF queueVars, lifeVars, pendingVars, registryVars
  <1>20. TypeOK'
    <2>1. queue' \in Seq(Items) /\ Len(queue') <= QueueCap
      BY DEF TypeOK, Items, Ops, Works, Handles, CallKinds, Item, IsDead
    <2> QED
      BY <2>1 DEF TypeOK, Items, Ops, Works, Handles, CallKinds, Item, IsDead
  <1>21. HandShape'
    BY DEF TypeOK, IInv, Works, HandShape, TeardownOf, Item, IsDead
  <1>22. WorkShape'
    BY DEF IInv, WorkShape, Opening, Unposted, IsDead
  <1>23. OneOpener'
    BY DEF IInv, OneOpener, Opening, Unposted, IsDead
  <1>24. ItemsShaped'
    BY DEF TypeOK, IInv, ItemsShaped, ItemShape, TeardownShape, Teardowns, Item, IsDead
  <1>25. Placed'
    BY DEF IInv, Placed, IsDead
  <1>26. NewSilent'
    BY DEF TypeOK, IInv, NewSilent, Silent, Item, IsDead
  <1>27. UnpostedSilent'
    BY DEF TypeOK, IInv, UnpostedSilent, Silent, Unposted, Item, IsDead
  <1>28. PlainUnsubscribed'
    BY DEF TypeOK, IInv, PlainUnsubscribed, Unsubscribed, Item, IsDead
  <1>29. CallsUnsubscribed'
    BY DEF TypeOK, IInv, CallsUnsubscribed, Unsubscribed, Item, IsDead
  <1>30. ItemsUnsubscribed'
    BY DEF TypeOK, IInv, ItemsUnsubscribed, Alone, Unsubscribed, Item, IsDead
  <1>31. CallsAnchored'
    BY DEF TypeOK, IInv, CallsAnchored, Anchored, Item, IsDead
  <1>32. SubscribesOrdered'
    BY DEF TypeOK, IInv, SubscribesOrdered, Anchored, Teardowns, Item, IsDead
  <1>33. GuardsHeard'
    BY DEF IInv, GuardsHeard, IsDead
  <1>34. NoLostTeardown'
    BY DEF TypeOK, IInv, NoLostTeardown, Alive, TeardownUnderway, WithCall, InHand, InPending,
       InQueue, Queued, Teardowns, Item, IsDead
  <1>35. DeathLatched'
    BY DEF TypeOK, IInv, DeathLatched, IsDead
  <1> QED
    BY <1>20, <1>21, <1>22, <1>23, <1>24, <1>25, <1>26, <1>27, <1>28, <1>29, <1>30, <1>31, <1>32,
       <1>33, <1>34, <1>35 DEF IInv

\* The dispatch loop dies.
LEMMA DispatchDiesKeeps ==
    ASSUME TypeOK, IInv,
           DispatchDies
    PROVE  TypeOK' /\ IInv'
  <1> USE NoWorkFacts, IdFacts DEF queueVars, lifeVars, pendingVars, registryVars
  <1>20. TypeOK'
    BY DEF TypeOK, Items, Ops, Works, Handles, CallKinds, Item, DispatchDies
  <1>21. HandShape'
    BY DEF IInv, HandShape, TeardownOf, Item, DispatchDies
  <1>22. WorkShape'
    BY DEF IInv, WorkShape, Opening, Unposted, DispatchDies
  <1>23. OneOpener'
    BY DEF IInv, OneOpener, Opening, Unposted, DispatchDies
  <1>24. ItemsShaped'
    BY DEF IInv, ItemsShaped, ItemShape, TeardownShape, Teardowns, Item, DispatchDies
  <1>25. Placed'
    BY DEF IInv, Placed, DispatchDies
  <1>26. NewSilent'
    BY DEF IInv, NewSilent, Silent, Item, DispatchDies
  <1>27. UnpostedSilent'
    BY DEF IInv, UnpostedSilent, Silent, Unposted, Item, DispatchDies
  <1>28. PlainUnsubscribed'
    BY DEF IInv, PlainUnsubscribed, Unsubscribed, Item, DispatchDies
  <1>29. CallsUnsubscribed'
    BY DEF IInv, CallsUnsubscribed, Unsubscribed, Item, DispatchDies
  <1>30. ItemsUnsubscribed'
    BY DEF IInv, ItemsUnsubscribed, Alone, Unsubscribed, Item, DispatchDies
  <1>31. CallsAnchored'
    BY DEF IInv, CallsAnchored, Anchored, Item, DispatchDies
  <1>32. SubscribesOrdered'
    BY DEF IInv, SubscribesOrdered, Anchored, Teardowns, Item, DispatchDies
  <1>33. GuardsHeard'
    BY DEF IInv, GuardsHeard, DispatchDies
  <1>34. NoLostTeardown'
    BY DEF IInv, NoLostTeardown, Alive, TeardownUnderway, WithCall, InHand, InPending, InQueue,
       Queued, Teardowns, Item, DispatchDies
  <1>35. DeathLatched'
    BY DEF TypeOK, IInv, DeathLatched, DispatchDies
  <1> QED
    BY <1>20, <1>21, <1>22, <1>23, <1>24, <1>25, <1>26, <1>27, <1>28, <1>29, <1>30, <1>31, <1>32,
       <1>33, <1>34, <1>35 DEF IInv

-----------------------------------------------------------------------------
(* The presence count.                                                     *)

\* The callers whose handler is counted and not posted or taken back.
Joining(c) ==
    {t \in Callers : work[t].step \in {"post_register", "compensate"} /\ work[t].ch = c}

\* The registrations of a channel in the queue.
Enlisted(c) == {n \in DOMAIN queue : queue[n].op = "register" /\ queue[n].ch = c}

Counts(c) ==
    /\ IsFiniteSet(handlers[c]) /\ IsFiniteSet(Joining(c))
    /\ presence[c] = Cardinality(handlers[c]) + Cardinality(Enlisted(c)) + Cardinality(Joining(c))

\* An id is registered once: twice, the set of handlers would hold one of the
\* two that were counted.
RegisteredOnce ==
    /\ \A n, k \in DOMAIN queue :
          (queue[n].op = "register" /\ queue[k].op = "register" /\ queue[n].id = queue[k].id) => n = k
    /\ \A n \in DOMAIN queue : queue[n].op = "register" =>
          \A c \in Channels : queue[n].id \notin handlers[c]

PresenceInv == RegisteredOnce /\ (~closed => \A c \in Channels : Counts(c))

\* The positions of the queue are finitely many.
LEMMA EnlistedFinite ==
    ASSUME NEW q \in Seq(Items), NEW S \in SUBSET DOMAIN q
    PROVE  IsFiniteSet(S) /\ Cardinality(S) \in Nat
  <1>1. DOMAIN q = 1..Len(q) /\ Len(q) \in Nat
    OBVIOUS
  <1>2. IsFiniteSet(DOMAIN q)
    BY <1>1, FS_Interval
  <1> QED
    BY <1>2, FS_Subset, FS_CardinalityType

\* A post counts one more registration, or none.
LEMMA PostCounts ==
    ASSUME queue \in Seq(Items), NEW x \in Items, queue' = Append(queue, x), NEW c \in Channels
    PROVE  /\ (x.op = "register" /\ x.ch = c) =>
                 Cardinality(Enlisted(c)') = Cardinality(Enlisted(c)) + 1
           /\ ~(x.op = "register" /\ x.ch = c) => Enlisted(c)' = Enlisted(c)
  <1> USE PostFacts
  <1>1. CASE x.op = "register" /\ x.ch = c
    <2>1. Enlisted(c)' = Enlisted(c) \union {Len(queue) + 1}
      BY <1>1 DEF Enlisted
    <2>2. Len(queue) + 1 \notin Enlisted(c) /\ Enlisted(c) \subseteq DOMAIN queue
      BY DEF Enlisted
    <2> QED
      BY <1>1, <2>1, <2>2, EnlistedFinite, FS_AddElement
  <1>2. CASE ~(x.op = "register" /\ x.ch = c)
    BY <1>2 DEF Enlisted
  <1> QED
    BY <1>1, <1>2

\* Receiving the head takes its registration out of the count and moves the
\* others one position up.
LEMMA ReceiveCounts ==
    ASSUME queue \in Seq(Items), queue # <<>>, queue' = Tail(queue), NEW c \in Channels
    PROVE  /\ (queue[1].op = "register" /\ queue[1].ch = c) =>
                 Cardinality(Enlisted(c)') = Cardinality(Enlisted(c)) - 1
           /\ ~(queue[1].op = "register" /\ queue[1].ch = c) =>
                 Cardinality(Enlisted(c)') = Cardinality(Enlisted(c))
  <1> DEFINE Rest == Enlisted(c) \ {1}
             Up == [n \in Enlisted(c)' |-> n + 1]
  <1>0. /\ Len(queue) \in Nat \ {0} /\ DOMAIN queue = 1..Len(queue)
        /\ DOMAIN queue' = 1..(Len(queue) - 1)
        /\ \A n \in 1..(Len(queue) - 1) : queue'[n] = queue[n + 1]
    BY ReceiveFacts
  <1>1. /\ \A n \in Enlisted(c)' : n \in Nat /\ n + 1 \in Rest
        /\ \A m \in Rest : m - 1 \in Enlisted(c)' /\ m \in Nat /\ (m - 1) + 1 = m
    BY <1>0 DEF Enlisted
  <1>2. Up \in Bijection(Enlisted(c)', Rest)
    <2>1. Up \in [Enlisted(c)' -> Rest]
      BY <1>1
    <2>2. \A a, b \in Enlisted(c)' : Up[a] = Up[b] => a = b
      BY <1>1
    <2>3. \A m \in Rest : \E n \in Enlisted(c)' : Up[n] = m
      <3> TAKE m \in Rest
      <3>1. m - 1 \in Enlisted(c)' /\ (m - 1) + 1 = m
        BY <1>1
      <3>2. Up[m - 1] = m
        BY <3>1
      <3> QED
        BY <3>1, <3>2
    <2> QED
      BY <2>1, <2>2, <2>3 DEF Bijection, Injection, Surjection, IsInjective
  <1>3. IsFiniteSet(Enlisted(c)') /\ IsFiniteSet(Enlisted(c))
    BY <1>0, EnlistedFinite, ReceiveFacts DEF Enlisted
  <1>4. Cardinality(Rest) = Cardinality(Enlisted(c)')
    BY <1>2, <1>3, FS_Bijection DEF ExistsBijection
  <1>5. Cardinality(Rest) = IF 1 \in Enlisted(c) THEN Cardinality(Enlisted(c)) - 1
                            ELSE Cardinality(Enlisted(c))
    BY <1>3, FS_RemoveElement
  <1>6. 1 \in Enlisted(c) <=> (queue[1].op = "register" /\ queue[1].ch = c)
    BY <1>0 DEF Enlisted
  <1> QED
    BY <1>4, <1>5, <1>6

\* A step that neither counts a handler nor posts a registration.
LEMMA QuietKeeps ==
    ASSUME TypeOK, PresenceInv, closed' \/ ~closed,
           UNCHANGED <<presence, handlers>>,
           \/ closed' /\ queue' = <<>>
           \/ UNCHANGED <<queue, closed>>
           \/ \E x \in Items : x.op # "register" /\ queue' = Append(queue, x) /\ UNCHANGED closed,
           closed' \/ \A c \in Channels : Joining(c)' = Joining(c)
    PROVE  PresenceInv'
  <1> USE DEF TypeOK
  <1>1. CASE closed' /\ queue' = <<>>
    BY <1>1 DEF PresenceInv, RegisteredOnce
  <1>2. CASE UNCHANGED <<queue, closed>>
    BY <1>2 DEF PresenceInv, RegisteredOnce, Counts, Enlisted
  <1>3. CASE \E x \in Items : x.op # "register" /\ queue' = Append(queue, x) /\ UNCHANGED closed
    <2> PICK x \in Items : x.op # "register" /\ queue' = Append(queue, x) /\ UNCHANGED closed
      BY <1>3
    <2>1. RegisteredOnce'
      BY PostFacts DEF PresenceInv, RegisteredOnce
    <2>2. \A c \in Channels : Enlisted(c)' = Enlisted(c)
      BY PostCounts
    <2> QED
      BY <2>1, <2>2 DEF PresenceInv, Counts
  <1> QED
    BY <1>1, <1>2, <1>3

\* Callers in no registering step before or after a step are not counted.
LEMMA JoiningSame ==
    ASSUME \A t \in Callers :
              \/ work'[t] = work[t]
              \/ work[t].step \notin {"post_register", "compensate"}
                 /\ work'[t].step \notin {"post_register", "compensate"}
    PROVE  \A c \in Channels : Joining(c)' = Joining(c)
  BY DEF Joining

\* A caller that begins a call, or goes to a later step of it, counts nothing.
LEMMA BeginPresence ==
    ASSUME TypeOK, IInv, PresenceInv, NEW t \in Callers, Begin(t)
    PROVE  PresenceInv'
  <1> USE IdFacts, NoWorkFacts
  <1>1. t \in Threads /\ work \in [Threads -> Works]
    BY DEF TypeOK
  <1>2. work[t] = NoWork
    BY <1>1 DEF Begin, On, Calls, Drops, Begins, IInv, HandShape
  <1>3. /\ UNCHANGED <<presence, handlers, queue, closed>>
        /\ \A u \in Threads \ {t} : work'[u] = work[u]
        /\ work'[t].step \in {"register", "gate", "post", "teardown"}
    BY <1>1 DEF Begin, On, Calls, Drops, Begins, queueVars, registryVars
  <1>4. \A c \in Channels : Joining(c)' = Joining(c)
    BY <1>2, <1>3, JoiningSame
  <1> QED
    BY <1>3, <1>4, QuietKeeps DEF TypeOK

\* register_handler_id_checked counts the handler first.
LEMMA BumpsPresence ==
    ASSUME TypeOK, IInv, PresenceInv, NEW t \in Callers, Bumps(t)
    PROVE  PresenceInv'
  <1> USE IdFacts
  <1>1. t \in Threads /\ work \in [Threads -> Works] /\ work[t].step = "register"
        /\ work[t].ch \in Channels /\ presence \in [Channels -> Nat]
    BY DEF TypeOK, Bumps, At, Works
  <1>2. /\ work'[t].step = "post_register" /\ work'[t].ch = work[t].ch
        /\ \A u \in Threads \ {t} : work'[u] = work[u]
    BY <1>1, StepFacts DEF Bumps, Goes
  <1>3. UNCHANGED <<queue, closed, handlers>>
    BY DEF Bumps, queueVars, registryVars
  <1>4. RegisteredOnce'
    BY <1>3 DEF PresenceInv, RegisteredOnce
  <1>5. ASSUME ~closed', NEW c \in Channels
        PROVE  Counts(c)'
    <2>1. Counts(c) /\ Enlisted(c)' = Enlisted(c)
      BY <1>3, <1>5 DEF PresenceInv, Enlisted
    <2>2. Cardinality(Enlisted(c)) \in Nat /\ Cardinality(handlers[c]) \in Nat
          /\ Cardinality(Joining(c)) \in Nat
      BY <2>1, EnlistedFinite, FS_CardinalityType DEF Counts, Enlisted, TypeOK
    <2>3. CASE c = work[t].ch
      <3>1. Joining(c)' = Joining(c) \union {t} /\ t \notin Joining(c)
        BY <1>1, <1>2, <2>3 DEF Joining
      <3>2. IsFiniteSet(Joining(c)') /\ Cardinality(Joining(c)') = Cardinality(Joining(c)) + 1
        BY <2>1, <3>1, FS_AddElement DEF Counts
      <3>3. presence'[c] = presence[c] + 1
        BY <1>1, <2>3 DEF Bumps
      <3> QED
        BY <1>3, <2>1, <2>2, <3>2, <3>3 DEF Counts
    <2>4. CASE c # work[t].ch
      <3>1. Joining(c)' = Joining(c)
        BY <1>1, <1>2, <2>4 DEF Joining
      <3>2. presence'[c] = presence[c]
        BY <1>1, <2>4 DEF Bumps
      <3> QED
        BY <1>3, <2>1, <3>1, <3>2 DEF Counts
    <2> QED
      BY <2>3, <2>4
  <1> QED
    BY <1>4, <1>5 DEF PresenceInv

\* Its registration enters the queue, counted there from now on.
LEMMA PostsRegisterPresence ==
    ASSUME TypeOK, IInv, PresenceInv, NEW t \in Callers, PostsRegister(t)
    PROVE  PresenceInv'
  <1> USE IdFacts
  <1>1. /\ t \in Threads /\ work \in [Threads -> Works] /\ work[t].step = "post_register"
        /\ work[t].ch \in Channels /\ queue \in Seq(Items)
    BY DEF TypeOK, PostsRegister, At, Works
  <1>2. UNCHANGED <<presence, handlers>>
    BY DEF PostsRegister, registryVars
  <1>3. CASE ~Accepts
    <2>1. UNCHANGED <<queue, closed>> /\ Goes(t, "compensate")
      BY <1>3 DEF PostsRegister, queueVars
    <2>2. /\ work'[t].step = "compensate" /\ work'[t].ch = work[t].ch
          /\ \A u \in Threads \ {t} : work'[u] = work[u]
      BY <1>1, <2>1, StepFacts DEF Goes
    <2>3. \A c \in Channels : Joining(c)' = Joining(c)
      BY <1>1, <2>2 DEF Joining
    <2> QED
      BY <1>2, <2>1, <2>3, QuietKeeps DEF TypeOK
  <1>4. CASE Accepts
    <2> DEFINE x == Item("register", work[t].id, work[t].ch)
    <2>1. work[t].id \in Ids /\ Silent(work[t].id)
      BY <1>1 DEF IInv, WorkShape, UnpostedSilent, Opening, Unposted
    <2>2. x \in Items /\ x.op = "register" /\ x.id = work[t].id /\ x.ch = work[t].ch
      BY <1>1, <2>1 DEF Item, Items, Ops
    <2>3. queue' = Append(queue, x) /\ ~closed /\ ~closed'
      BY <1>4 DEF PostsRegister, Posts, Accepts
    <2> HIDE DEF x
    <2>4. work'[t].step \in {"none", "gate"} /\ \A u \in Threads \ {t} : work'[u] = work[u]
      BY <1>1, <1>4, StepFacts, ReturnFacts, NoWorkFacts DEF PostsRegister, Goes, Returns
    <2>5. RegisteredOnce'
      BY <1>1, <1>2, <2>1, <2>2, <2>3, PostFacts DEF PresenceInv, RegisteredOnce, Silent
    <2>6. ASSUME NEW c \in Channels
          PROVE  Counts(c)'
      <3>1. Counts(c) /\ Enlisted(c) \subseteq DOMAIN queue
        BY <2>3 DEF PresenceInv, Enlisted
      <3>2. Cardinality(Enlisted(c)) \in Nat /\ Cardinality(handlers[c]) \in Nat
            /\ Cardinality(Joining(c)) \in Nat
        BY <1>1, <3>1, EnlistedFinite, FS_CardinalityType DEF Counts
      <3>3. CASE c = work[t].ch
        <4>1. Joining(c)' = Joining(c) \ {t} /\ t \in Joining(c)
          BY <1>1, <2>4, <3>3 DEF Joining
        <4>2. IsFiniteSet(Joining(c)') /\ Cardinality(Joining(c)') = Cardinality(Joining(c)) - 1
          BY <3>1, <4>1, FS_RemoveElement DEF Counts
        <4>3. Cardinality(Enlisted(c)') = Cardinality(Enlisted(c)) + 1
          BY <1>1, <2>2, <2>3, <3>3, PostCounts
        <4> QED
          BY <1>2, <3>1, <3>2, <4>2, <4>3 DEF Counts
      <3>4. CASE c # work[t].ch
        <4>1. Joining(c)' = Joining(c)
          BY <1>1, <2>4, <3>4 DEF Joining
        <4>2. Enlisted(c)' = Enlisted(c)
          BY <1>1, <2>2, <2>3, <3>4, PostCounts
        <4> QED
          BY <1>2, <3>1, <4>1, <4>2 DEF Counts
      <3> QED
        BY <3>3, <3>4
    <2> QED
      BY <2>5, <2>6 DEF PresenceInv
  <1> QED
    BY <1>3, <1>4

\* A registration the queue refused is taken back from the count.
LEMMA CompensatesPresence ==
    ASSUME TypeOK, IInv, PresenceInv, NEW t \in Callers, Compensates(t)
    PROVE  PresenceInv'
  <1> USE IdFacts
  <1>1. t \in Threads /\ work \in [Threads -> Works] /\ work[t].step = "compensate"
        /\ work[t].ch \in Channels /\ presence \in [Channels -> Nat]
    BY DEF TypeOK, Compensates, At, Works
  <1>2. work'[t].step = "none" /\ \A u \in Threads \ {t} : work'[u] = work[u]
    BY <1>1, ReturnFacts, NoWorkFacts DEF Compensates, Returns
  <1>3. UNCHANGED <<queue, closed, handlers>>
    BY DEF Compensates, queueVars, registryVars
  <1>4. RegisteredOnce'
    BY <1>3 DEF PresenceInv, RegisteredOnce
  <1>5. ASSUME ~closed', NEW c \in Channels
        PROVE  Counts(c)'
    <2>1. Counts(c) /\ Enlisted(c)' = Enlisted(c)
      BY <1>3, <1>5 DEF PresenceInv, Enlisted
    <2>2. Cardinality(Enlisted(c)) \in Nat /\ Cardinality(handlers[c]) \in Nat
          /\ Cardinality(Joining(c)) \in Nat
      BY <2>1, EnlistedFinite, FS_CardinalityType DEF Counts, Enlisted, TypeOK
    <2>3. CASE c = work[t].ch
      <3>1. Joining(c)' = Joining(c) \ {t} /\ t \in Joining(c)
        BY <1>1, <1>2, <2>3 DEF Joining
      <3>2. IsFiniteSet(Joining(c)') /\ Cardinality(Joining(c)') = Cardinality(Joining(c)) - 1
            /\ Cardinality(Joining(c)') \in Nat
        BY <2>1, <3>1, FS_RemoveElement, FS_CardinalityType DEF Counts
      <3>3. presence'[c] = IF presence[c] > 0 THEN presence[c] - 1 ELSE 0
        BY <1>1, <2>3 DEF Compensates, Lowered
      <3> QED
        BY <1>3, <2>1, <2>2, <3>2, <3>3 DEF Counts
    <2>4. CASE c # work[t].ch
      <3>1. Joining(c)' = Joining(c)
        BY <1>1, <1>2, <2>4 DEF Joining
      <3>2. presence'[c] = presence[c]
        BY <1>1, <2>4 DEF Compensates, Lowered
      <3> QED
        BY <1>3, <2>1, <3>1, <3>2 DEF Counts
    <2> QED
      BY <2>3, <2>4
  <1> QED
    BY <1>4, <1>5 DEF PresenceInv

\* The other steps of a call post no registration.
LEMMA CallPresence ==
    ASSUME TypeOK, IInv, PresenceInv, NEW t \in Callers,
           Gate(t) \/ PostsCall(t) \/ PostsTeardown(t) \/ Retires(t)
    PROVE  PresenceInv'
  <1> USE IdFacts
  <1>1. /\ t \in Threads /\ work \in [Threads -> Works]
        /\ work[t].step \in {"gate", "post", "teardown"}
        /\ work[t].ch \in Channels /\ work[t].id \in Ids \union {0}
    BY DEF TypeOK, Gate, PostsCall, PostsTeardown, Retires, At, Works, IInv, HandShape
  <1>2. UNCHANGED <<presence, handlers>>
    BY DEF Gate, PostsCall, PostsTeardown, Retires, registryVars
  <1>3. work'[t].step \in {"none", "post", "gate", "teardown"}
        /\ \A u \in Threads \ {t} : work'[u] = work[u]
    <2>1. CASE Returns(t)
      BY <1>1, <2>1, ReturnFacts, NoWorkFacts DEF Returns
    <2>2. CASE UNCHANGED work
      BY <1>1, <2>2
    <2>3. CASE Flushes(t, "post") \/ Flushes(t, "teardown")
      BY <1>1, <2>3, StepFacts DEF Flushes
    <2> QED
      BY <2>1, <2>2, <2>3 DEF Gate, PostsCall, PostsTeardown, Retires
  <1>4. \A c \in Channels : Joining(c)' = Joining(c)
    BY <1>1, <1>3, JoiningSame
  <1>5. \/ UNCHANGED <<queue, closed>>
        \/ \E x \in Items : x.op # "register" /\ queue' = Append(queue, x) /\ UNCHANGED closed
    <2>1. CASE Gate(t) \/ Retires(t)
      BY <2>1 DEF Gate, Retires, queueVars
    <2>2. CASE PostsCall(t)
      <3> DEFINE op == IF work[t].call = "on_for" THEN "subscribe" ELSE work[t].call
                 x == Item(op, work[t].id, work[t].ch)
      <3>1. op \in {"subscribe", "unsubscribe", "unsubscribe_all", "connect"}
        BY <1>1, <2>2 DEF PostsCall, At, IInv, WorkShape, Unposted, Works, CallKinds
      <3>2. x \in Items /\ x.op # "register"
        BY <1>1, <3>1 DEF Item, Items, Ops
      <3>3. UNCHANGED <<queue, closed>> \/ (queue' = Append(queue, x) /\ UNCHANGED closed)
        BY <2>2 DEF PostsCall, Posts, queueVars
      <3> QED
        BY <3>2, <3>3
    <2>3. CASE PostsTeardown(t)
      <3>1. TeardownOf(t) \in Items /\ TeardownOf(t).op # "register"
        BY <2>3, TeardownFacts DEF PostsTeardown, TeardownShape, Teardowns
      <3>2. UNCHANGED <<queue, closed>> \/ (queue' = Append(queue, TeardownOf(t)) /\ UNCHANGED closed)
        BY <2>3 DEF PostsTeardown, Posts, queueVars
      <3> QED
        BY <3>1, <3>2
    <2> QED
      BY <2>1, <2>2, <2>3
  <1> QED
    BY <1>2, <1>4, <1>5, QuietKeeps DEF TypeOK

\* A flush posts teardowns only.
LEMMA FlushPresence ==
    ASSUME TypeOK, IInv, PresenceInv, NEW t \in Threads, FlushStep(t)
    PROVE  PresenceInv'
  <1>1. UNCHANGED <<presence, handlers, work>>
    BY DEF FlushStep, FlushChecks, FlushTakes, FlushSends, FlushRequeues, registryVars
  <1>2. \A c \in Channels : Joining(c)' = Joining(c)
    BY <1>1 DEF Joining
  <1>3. \/ UNCHANGED <<queue, closed>>
        \/ \E x \in Items : x.op # "register" /\ queue' = Append(queue, x) /\ UNCHANGED closed
    <2>1. CASE FlushChecks(t) \/ FlushTakes(t) \/ FlushRequeues(t)
      BY <2>1 DEF FlushChecks, FlushTakes, FlushRequeues, queueVars
    <2>2. CASE FlushSends(t)
      <3>1. CASE UNCHANGED queueVars
        BY <3>1 DEF queueVars
      <3>2. CASE hand[t] # <<>> /\ Posts(Head(hand[t]))
        <4>1. hand[t] \in Seq(Items) /\ 1 \in DOMAIN hand[t] /\ Head(hand[t]) = hand[t][1]
              /\ Head(hand[t]) \in Items
          BY <3>2 DEF TypeOK
        <4>2. Head(hand[t]).op # "register"
          BY <4>1 DEF IInv, ItemsShaped, TeardownShape, Teardowns
        <4> QED
          BY <3>2, <4>1, <4>2 DEF Posts
      <3> QED
        BY <2>2, <3>1, <3>2 DEF FlushSends
    <2> QED
      BY <2>1, <2>2 DEF FlushStep
  <1> QED
    BY <1>1, <1>2, <1>3, QuietKeeps DEF TypeOK

\* The reactor applies a message: a registration leaves the queue and becomes
\* a handler, a teardown lowers the count of a handler that was there.
LEMMA ReceivesPresence ==
    ASSUME TypeOK, IInv, PresenceInv, Receives
    PROVE  PresenceInv'
  <1> DEFINE x == queue[1]
  <1>1. /\ queue \in Seq(Items) /\ queue # <<>> /\ queue' = Tail(queue)
        /\ handlers \in [Channels -> SUBSET Ids] /\ presence \in [Channels -> Nat]
        /\ UNCHANGED <<closed, work>>
    BY DEF TypeOK, Receives
  <1>2. /\ Len(queue) \in Nat \ {0}
        /\ DOMAIN queue = 1..Len(queue) /\ DOMAIN queue' = 1..(Len(queue) - 1)
        /\ \A n \in 1..(Len(queue) - 1) : queue'[n] = queue[n + 1]
        /\ Head(queue) = x /\ x \in Items
    BY <1>1, ReceiveFacts
  <1>3. Applies(x)
    BY <1>2 DEF Receives
  <1>4. 1 \in DOMAIN queue /\ \A n \in DOMAIN queue' : n + 1 \in DOMAIN queue /\ n + 1 # 1
    BY <1>2
  <1>5. x.ch \in Channels
    BY <1>2 DEF Items
  <1>6. \A c \in Channels : Joining(c)' = Joining(c)
    BY <1>1 DEF Joining
  <1>7. \A c \in Channels : IsFiniteSet(Enlisted(c)) /\ Cardinality(Enlisted(c)) \in Nat
    BY <1>1, EnlistedFinite DEF Enlisted
  <1> HIDE DEF x
  <1>8. /\ \A n \in DOMAIN queue' : queue'[n] = queue[n + 1]
        /\ \A n, k \in DOMAIN queue' : n + 1 = k + 1 => n = k
    BY <1>2
  <1>9. ASSUME \A c \in Channels : handlers'[c] \subseteq handlers[c]
        PROVE  RegisteredOnce'
    BY <1>4, <1>8, <1>9 DEF PresenceInv, RegisteredOnce
  <1>10. CASE x.op = "register"
    <2>1. handlers' = [handlers EXCEPT ![x.ch] = @ \union {x.id}] /\ UNCHANGED presence
      BY <1>3, <1>10 DEF Applies
    <2>2. /\ \A c \in Channels : x.id \notin handlers[c]
          /\ \A n \in DOMAIN queue' : queue'[n].op = "register" => queue'[n].id # x.id
      BY <1>4, <1>8, <1>10 DEF PresenceInv, RegisteredOnce, x
    <2>3. \A c \in Channels : handlers'[c] \subseteq handlers[c] \union {x.id}
      BY <1>1, <2>1
    <2>4. RegisteredOnce'
      BY <1>4, <1>8, <2>2, <2>3 DEF PresenceInv, RegisteredOnce
    <2>5. ASSUME ~closed', NEW c \in Channels
          PROVE  Counts(c)'
      <3>1. Counts(c)
        BY <1>1, <2>5 DEF PresenceInv
      <3>2. CASE c = x.ch
        <4>1. Cardinality(Enlisted(c)') = Cardinality(Enlisted(c)) - 1
          BY <1>1, <1>10, <3>2, ReceiveCounts DEF x
        <4>2. handlers'[c] = handlers[c] \union {x.id}
          BY <1>1, <2>1, <3>2
        <4>3. IsFiniteSet(handlers'[c]) /\ Cardinality(handlers'[c]) = Cardinality(handlers[c]) + 1
          BY <2>2, <3>1, <4>2, FS_AddElement DEF Counts
        <4>4. Cardinality(handlers[c]) \in Nat /\ Cardinality(Joining(c)) \in Nat
          BY <3>1, FS_CardinalityType DEF Counts
        <4> QED
          BY <1>6, <1>7, <2>1, <3>1, <4>1, <4>3, <4>4 DEF Counts
      <3>3. CASE c # x.ch
        <4>1. Cardinality(Enlisted(c)') = Cardinality(Enlisted(c))
          BY <1>1, <3>3, ReceiveCounts DEF x
        <4>2. handlers'[c] = handlers[c]
          BY <1>1, <2>1, <3>3
        <4> QED
          BY <1>6, <2>1, <3>1, <4>1, <4>2 DEF Counts
      <3> QED
        BY <3>2, <3>3
    <2> QED
      BY <2>4, <2>5 DEF PresenceInv
  <1>11. CASE x.op \in Teardowns
    <2>1. RemovesHandler(x)
      BY <1>3, <1>11 DEF Applies, Teardowns
    <2>2. \A c \in Channels : handlers'[c] = IF c = x.ch THEN handlers[c] \ {x.id} ELSE handlers[c]
      BY <1>1, <2>1 DEF RemovesHandler
    <2>3. RegisteredOnce'
      BY <1>9, <2>2
    <2>4. ASSUME ~closed', NEW c \in Channels
          PROVE  Counts(c)'
      <3>1. Counts(c) /\ Cardinality(Enlisted(c)') = Cardinality(Enlisted(c))
        BY <1>1, <1>11, <2>4, ReceiveCounts DEF PresenceInv, Teardowns, x
      <3>2. CASE c = x.ch /\ x.id \in handlers[c]
        <4>1. IsFiniteSet(handlers'[c]) /\ Cardinality(handlers'[c]) = Cardinality(handlers[c]) - 1
              /\ Cardinality(handlers'[c]) \in Nat
          BY <2>2, <3>1, <3>2, FS_RemoveElement, FS_CardinalityType DEF Counts
        <4>2. Cardinality(handlers[c]) \in Nat /\ Cardinality(Joining(c)) \in Nat
          BY <3>1, FS_CardinalityType DEF Counts
        <4>3. presence'[c] = IF presence[c] > 0 THEN presence[c] - 1 ELSE 0
          BY <1>1, <2>1, <3>2 DEF RemovesHandler, Lowered
        <4> QED
          BY <1>6, <1>7, <3>1, <4>1, <4>2, <4>3 DEF Counts
      <3>3. CASE ~(c = x.ch /\ x.id \in handlers[c])
        <4>1. handlers'[c] = handlers[c]
          BY <1>1, <2>2, <3>3
        <4>2. presence'[c] = presence[c]
          BY <1>1, <1>5, <2>1, <3>3 DEF RemovesHandler, Lowered
        <4> QED
          BY <1>6, <3>1, <4>1, <4>2 DEF Counts
      <3> QED
        BY <3>2, <3>3
    <2> QED
      BY <2>3, <2>4 DEF PresenceInv
  <1>12. CASE x.op \notin Teardowns \union {"register"}
    <2>1. UNCHANGED <<handlers, presence>>
      BY <1>3, <1>12 DEF Applies, Teardowns
    <2>2. RegisteredOnce'
      BY <1>9, <2>1
    <2>3. \A c \in Channels : Cardinality(Enlisted(c)') = Cardinality(Enlisted(c))
      BY <1>1, <1>12, ReceiveCounts DEF x
    <2> QED
      BY <1>1, <1>6, <2>1, <2>2, <2>3 DEF PresenceInv, Counts
  <1> QED
    BY <1>10, <1>11, <1>12

\* Nothing else the reactor does touches a handler while its queue is open.
LEMMA LifePresence ==
    ASSUME TypeOK, PresenceInv,
           LoopsAround \/ Wakes \/ Shuts \/ Exits \/ Dies \/ IsDead \/ DispatchDies \/ UNCHANGED vars
    PROVE  PresenceInv'
  <1> USE DEF vars, queueVars, lifeVars, pendingVars, registryVars
  <1>1. UNCHANGED <<presence, handlers, work>>
    BY DEF LoopsAround, Wakes, Shuts, Exits, Dies, IsDead, DispatchDies
  <1>2. (closed' /\ queue' = <<>>) \/ UNCHANGED <<queue, closed>>
    BY DEF LoopsAround, Wakes, Shuts, Exits, Dies, IsDead, DispatchDies, DropsFirst, TypeOK
  <1>3. \A c \in Channels : Joining(c)' = Joining(c)
    BY <1>1 DEF Joining
  <1> QED
    BY <1>1, <1>2, <1>3, QuietKeeps DEF TypeOK

\* Every step keeps the account.
LEMMA PresenceKept ==
    ASSUME TypeOK, IInv, PresenceInv, [Next]_vars
    PROVE  PresenceInv'
  <1>1. ASSUME NEW t \in Callers, CallStep(t)
        PROVE  PresenceInv'
    BY <1>1, BumpsPresence, PostsRegisterPresence, CompensatesPresence, CallPresence DEF CallStep
  <1> QED
    BY <1>1, BeginPresence, FlushPresence, ReceivesPresence, LifePresence DEF Next, Reacts

LEMMA PresenceStarts ==
    ASSUME Init
    PROVE  PresenceInv
  <1>1. /\ queue = <<>> /\ DOMAIN queue = {}
        /\ \A c \in Channels : presence[c] = 0 /\ handlers[c] = {}
        /\ \A t \in Callers : work[t].step = "none"
    BY NoWorkFacts, IdFacts DEF Init
  <1>2. \A c \in Channels : Joining(c) = {} /\ Enlisted(c) = {}
    BY <1>1 DEF Joining, Enlisted
  <1>3. RegisteredOnce
    BY <1>1 DEF RegisteredOnce
  <1>4. \A c \in Channels : Counts(c)
    <2>1. IsFiniteSet({}) /\ Cardinality({}) = 0
      BY FS_EmptySet
    <2> TAKE c \in Channels
    <2>2. IsFiniteSet(handlers[c]) /\ IsFiniteSet(Joining(c))
      BY <1>1, <1>2, <2>1, Zenon
    <2>3. /\ Cardinality(handlers[c]) = 0 /\ Cardinality(Joining(c)) = 0
          /\ Cardinality(Enlisted(c)) = 0
      BY <1>1, <1>2, <2>1, Zenon
    <2> QED
      BY <1>1, <2>2, <2>3 DEF Counts
  <1> QED
    BY <1>3, <1>4 DEF PresenceInv

-----------------------------------------------------------------------------
(* The theorems.                                                           *)

\* A new client has an empty queue, no handlers and nobody in a call.
LEMMA InitHolds ==
    ASSUME Init
    PROVE  TypeOK /\ IInv
  <1> USE NoWorkFacts, IdFacts
  <1>1. TypeOK
    <2>1. handle \in [Ids -> Handles] /\ subs \in [Channels -> [plain : Nat, guards : SUBSET Ids]]
      BY DEF Init, Handles
    <2>2. calls \in [CallKinds -> Nat]
      BY SurfaceAssumption DEF Init
    <2>3. hand \in [Threads -> Seq(Items)] /\ work \in [Threads -> Works]
      BY DEF Init
    <2>4. queue \in Seq(Items) /\ Len(queue) <= QueueCap /\ pending \in Seq(Items)
      BY SurfaceAssumption DEF Init
    <2> QED
      BY <2>1, <2>2, <2>3, <2>4 DEF Init, TypeOK
  <1>2. HandShape /\ WorkShape /\ OneOpener
    BY DEF Init, HandShape, WorkShape, OneOpener, Opening, Unposted
  <1>3. ItemsShaped /\ ItemsUnsubscribed /\ SubscribesOrdered
    BY DEF Init, ItemsShaped, ItemsUnsubscribed, SubscribesOrdered
  <1>4. /\ Placed /\ GuardsHeard
        /\ \A i : Silent(i) /\ Unsubscribed(i) /\ ~Alive(i)
    BY DEF Init, Placed, GuardsHeard, Silent, Unsubscribed, Alive, Queued
  <1>5. NewSilent /\ UnpostedSilent /\ PlainUnsubscribed /\ NoLostTeardown
    BY <1>4 DEF NewSilent, UnpostedSilent, PlainUnsubscribed, NoLostTeardown
  <1>6. CallsUnsubscribed /\ CallsAnchored /\ DeathLatched
    BY DEF Init, CallsUnsubscribed, CallsAnchored, DeathLatched
  <1> QED
    BY <1>1, <1>2, <1>3, <1>4, <1>5, <1>6 DEF IInv

LEMMA StutterKeeps ==
    ASSUME TypeOK, IInv, UNCHANGED vars
    PROVE  TypeOK' /\ IInv'
  <1> USE DEF vars, queueVars, lifeVars, pendingVars, registryVars
  <1>1. TypeOK'
    BY DEF TypeOK
  <1>2. HandShape' /\ WorkShape' /\ OneOpener' /\ DeathLatched'
    BY DEF IInv, HandShape, WorkShape, OneOpener, DeathLatched, TeardownOf, Opening
  <1>3. ItemsShaped' /\ Placed' /\ GuardsHeard'
    BY DEF IInv, ItemsShaped, ItemShape, TeardownShape, Placed, GuardsHeard
  <1>4. NewSilent' /\ UnpostedSilent'
    BY DEF IInv, NewSilent, UnpostedSilent, Silent
  <1>5. PlainUnsubscribed' /\ CallsUnsubscribed' /\ ItemsUnsubscribed'
    BY DEF IInv, PlainUnsubscribed, CallsUnsubscribed, ItemsUnsubscribed, Alone, Unsubscribed
  <1>6. CallsAnchored' /\ SubscribesOrdered'
    BY DEF IInv, CallsAnchored, SubscribesOrdered, Anchored
  <1>7. NoLostTeardown'
    BY DEF IInv, NoLostTeardown, Alive, Queued, TeardownUnderway, WithCall, InHand, InPending,
       InQueue
  <1> QED
    BY <1>1, <1>2, <1>3, <1>4, <1>5, <1>6, <1>7 DEF IInv

\* Every step of a caller, of a flush and of the reactor keeps the invariant.
LEMMA StepKeeps ==
    ASSUME TypeOK, IInv, [Next]_vars
    PROVE  TypeOK' /\ IInv'
  <1>1. ASSUME NEW t \in Callers, Begin(t)
        PROVE  TypeOK' /\ IInv'
    <2>1. CASE \E ch \in Channels, guard \in BOOLEAN : On(t, ch, guard)
      BY <2>1, OnKeeps
    <2>2. CASE \E ch \in Channels, call \in {"subscribe", "unsubscribe"} : Calls(t, call, ch)
      BY <2>2, CallsKeeps
    <2>3. CASE \E call \in {"unsubscribe_all", "connect"} : Calls(t, call, NoWork.ch)
      BY <2>3, CallsKeeps, NoWorkFacts
    <2>4. CASE \E id \in Ids : Drops(t, id)
      BY <2>4, DropsKeeps
    <2> QED
      BY <1>1, <2>1, <2>2, <2>3, <2>4 DEF Begin
  <1>2. ASSUME NEW t \in Callers, CallStep(t)
        PROVE  TypeOK' /\ IInv'
    BY <1>2, BumpsKeeps, PostsRegisterKeeps, CompensatesKeeps, GateKeeps, PostsCallKeeps,
       PostsTeardownKeeps, RetiresKeeps DEF CallStep
  <1>3. ASSUME NEW t \in Threads, FlushStep(t)
        PROVE  TypeOK' /\ IInv'
    BY <1>3, FlushChecksKeeps, FlushTakesKeeps, FlushSendsKeeps, FlushRequeuesKeeps DEF FlushStep
  <1>4. CASE Reacts
    BY <1>4, LoopsAroundKeeps, ReceivesKeeps, WakesKeeps DEF Reacts
  <1>5. CASE Shuts \/ Exits \/ Dies \/ IsDead \/ DispatchDies
    BY <1>5, ShutsKeeps, ExitsKeeps, DiesKeeps, IsDeadKeeps, DispatchDiesKeeps
  <1> QED
    BY <1>1, <1>2, <1>3, <1>4, <1>5, StutterKeeps DEF Next

LEMMA Inductive == Spec => [](TypeOK /\ IInv)
  BY InitHolds, StepKeeps, PTL DEF Spec

\* The queue never exceeds its capacity and every message, handle and call is
\* one the code can make (try_post_caller_inbound, CallerInbound).
THEOREM SurfaceTypeCorrect == Spec => []TypeOK
  BY Inductive, PTL

\* No subscription of a guard streams without its handler, whatever the
\* interleaving of callers, flushes and the reactor
\* (register_and_subscribe_guarded, SubscriptionGuardDrop).
THEOREM GuardsAlwaysHeard == Spec => []GuardsHeard
  <1>1. IInv => GuardsHeard
    BY DEF IInv
  <1> QED
    BY <1>1, Inductive, PTL

\* The teardown of a dropped handle or guard is never lost to a full queue and
\* never overtakes the registration it undoes (post_teardown,
\* flush_pending_teardowns_leaving, requeue_pending_teardowns).
THEOREM TeardownsNeverLost == Spec => []NoLostTeardown
  <1>1. IInv => NoLostTeardown
    BY DEF IInv
  <1> QED
    BY <1>1, Inductive, PTL

\* A caller that finds the queue closed by a crash is told so: the death guard
\* goes before the receiver (LoopDeathGuard, post_reject_to_error).
THEOREM CrashNeverClean == Spec => []CrashNotClean
  <1>1. IInv => CrashNotClean
    BY DEF IInv, DeathLatched, CrashNotClean, ClosedError
  <1> QED
    BY <1>1, Inductive, PTL

\* The presence mirror counts each handler once: registered, on its way in the
\* queue, or in a call not yet posted or taken back (register_handler_id_checked,
\* HandlerRegistry::deregister).
THEOREM PresenceAlwaysAccounts == Spec => []PresenceAccounts
  <1>1. PresenceInv => PresenceAccounts
    BY DEF PresenceInv, PresenceAccounts, Counts, Enlisted, Joining
  <1> QED
    BY <1>1, PresenceStarts, PresenceKept, Inductive, PTL DEF Spec

=============================================================================
