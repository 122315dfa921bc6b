------------------------ MODULE SubscriptionRegistry ------------------------
(***************************************************************************)
(* The subscription registry of conn/subscription_registry for one (channel, *)
(* pair), with the reactor handlers that drive it and the socket its frames *)
(* travel on.  Holders are plain subscribe calls, which the registry only  *)
(* counts, and guards, which it records with the lifetime they joined.  A  *)
(* lifetime of the entry ends by its last release, by a terminal reject or *)
(* by a forced teardown; an entry that was rejected stays as a tombstone   *)
(* until its holders are gone or a new subscribe revives it.               *)
(*                                                                         *)
(* The connection has been open, so that every later session replays the   *)
(* registry, and subscribe frames are always queued: the first bring-up,   *)
(* the handshake, the full outbox, the dead writer and the resend timers   *)
(* are in module IoReactor.                                                *)
(***************************************************************************)
EXTENDS Integers, FiniteSets, Sequences

CONSTANTS
    Guards,     \* handler ids of SubscriptionGuards
    Calls,      \* plain subscribe calls, each with at most one matching unsubscribe
    MaxGen,     \* bound: registrations, hence lifetime generations
    Surplus,    \* whether unmatched plain unsubscribes are posted
    Named       \* how a reject may name its key: by channel (TRUE), by req_id (FALSE)

ASSUME RegistryAssumption ==
    /\ IsFiniteSet(Guards)
    /\ IsFiniteSet(Calls)
    /\ MaxGen \in Nat
    /\ Surplus \in BOOLEAN
    /\ Named \subseteq BOOLEAN

VARIABLES
    entry,            \* the SubscriptionEntry
    guard_refs,       \* the generation each guard's ref was recorded at, 0 for no ref
    next_generation,
    mirror,           \* the state the caller-side mirror shows
    hint,             \* the cached auth_has_subscriptions
    up,               \* the connection has a session (it starts with one)
    armed,            \* the ack timer and the req_id correlation of the key
    out,              \* frames on their way to the server
    in,               \* answers on their way back
    streaming,        \* the server streams the key on this socket
    plain,            \* history: the lifetime each unreleased plain call joined, or 0
    terminals,        \* history: terminal events published, by lifetime
    ended             \* history: lifetimes ended by a reject or a forced teardown

wireVars == <<up, armed, out, in, streaming>>
vars == <<entry, guard_refs, next_generation, mirror, hint, up, armed, out, in, streaming,
          plain, terminals, ended>>

Generations == 1..MaxGen

EntryStates == {"absent", "pending", "acked", "terminated"}

NoEntry == [count |-> 0, generation |-> 0, state |-> "absent",
            tombstone_holders |-> 0, stale_release_credits |-> 0]

IsTombstone(e) == e.state = "terminated"

IsLive(e) == e.state \in {"pending", "acked"}

Entries == [count : Nat, generation : Nat, state : EntryStates,
            tombstone_holders : Nat, stale_release_credits : Nat]

Frames == [kind : {"subscribe", "unsubscribe"}, generation : Nat]

Answers == [kind : {"ack", "reject"}, generation : Nat, named : BOOLEAN]

TypeOK ==
    /\ entry \in Entries
    /\ guard_refs \in [Guards -> Nat]
    /\ next_generation \in 0..MaxGen
    /\ mirror \in EntryStates
    /\ hint \in BOOLEAN
    /\ up \in BOOLEAN
    /\ armed \in BOOLEAN
    /\ out \in Seq(Frames)
    /\ in \in Seq(Answers)
    /\ streaming \in BOOLEAN
    /\ plain \in [Calls -> Nat]
    /\ terminals \in [Generations -> Nat]
    /\ ended \subseteq Generations

Init ==
    /\ entry = NoEntry
    /\ guard_refs = [g \in Guards |-> 0]
    /\ next_generation = 0
    /\ mirror = "absent"
    /\ hint = FALSE
    /\ up = TRUE
    /\ armed = FALSE
    /\ out = <<>>
    /\ in = <<>>
    /\ streaming = FALSE
    /\ plain = [c \in Calls |-> 0]
    /\ terminals = [n \in Generations |-> 0]
    /\ ended = {}

----------------------------------------------------------------------------
(* Registering. *)

\* u32::saturating_sub
Monus(m, n) == IF m > n THEN m - n ELSE 0

Rows(gen) == {g \in Guards : guard_refs[g] = gen}

GuardRefsAt(gen) == Cardinality(Rows(gen))

FreshEntry(gen) == [NoEntry EXCEPT !.count = 1, !.generation = gen, !.state = "pending"]

\* Fault: the dying lifetime's guards are credited too.
RevivedWithGuards(e, gen, guard_backed) ==
    [FreshEntry(gen) EXCEPT
        !.stale_release_credits = e.stale_release_credits +
            Monus(e.tombstone_holders, IF guard_backed THEN 0 ELSE 1)]

(***************************************************************************)
(* The dead countdown becomes credits, without the dying lifetime's guards *)
(* and, for a plain reviver, without the slot it is presumed to come from. *)
(***************************************************************************)
Revived(e, gen, guard_backed) ==
    [FreshEntry(gen) EXCEPT
        !.stale_release_credits = e.stale_release_credits +
            Monus(Monus(e.tombstone_holders, GuardRefsAt(e.generation)),
                  IF guard_backed THEN 0 ELSE 1)]

Registered(e, gen, guard_backed) ==
    CASE e.state = "absent" -> FreshEntry(gen)
      [] IsTombstone(e) -> Revived(e, gen, guard_backed)
      [] IsLive(e) -> [e EXCEPT !.count = @ + 1]

\* The loop re-derives the hint after a handler that moved the liveness epoch.
SyncHint(e, moved) == hint' = IF moved > 0 THEN IsLive(e) ELSE hint

Send(kind, gen) == out' = IF up THEN Append(out, [kind |-> kind, generation |-> gen]) ELSE out

\* register_one_and_emit: the 0 -> 1 edge projects the row and subscribes.
Register(guard_backed) ==
    LET gen == next_generation + 1
        e   == Registered(entry, gen, guard_backed)
    IN  /\ next_generation < MaxGen
        /\ next_generation' = gen
        /\ entry' = e
        /\ mirror' = IF e.count = 1 THEN "pending" ELSE mirror
        /\ IF e.count = 1 THEN Send("subscribe", gen) /\ armed' = up
                          ELSE UNCHANGED <<out, armed>>
        /\ SyncHint(e, 1)
        /\ UNCHANGED <<up, in, streaming, terminals, ended>>

Subscribe(c) ==
    /\ plain[c] = 0
    /\ Register(FALSE)
    /\ plain' = [plain EXCEPT ![c] = entry'.generation]
    /\ UNCHANGED guard_refs

SubscribeGuarded(g) ==
    /\ guard_refs[g] = 0
    /\ Register(TRUE)
    /\ guard_refs' = [guard_refs EXCEPT ![g] = entry'.generation]
    /\ UNCHANGED plain

----------------------------------------------------------------------------
(* Releasing. *)

\* What release returns, and by how much it moved the liveness epoch.
Release(e, remaining, moved) == [entry |-> e, remaining |-> remaining, moved |-> moved]

Kept(e) == Release(e, e.count, 0)

Holders(e) == IF IsTombstone(e) THEN e.tombstone_holders ELSE e.count

\* release_inner past its two bare-only arms; a tombstone's countdown moves no epoch.
ReleaseSlot(e) ==
    CASE e.state = "absent" -> Release(e, 0, 0)
      [] e.state # "absent" /\ Holders(e) <= 1 -> Release(NoEntry, 0, 1)
      [] IsTombstone(e) /\ Holders(e) > 1 ->
            Release([e EXCEPT !.tombstone_holders = @ - 1], 0, 0)
      [] IsLive(e) /\ Holders(e) > 1 -> Release([e EXCEPT !.count = @ - 1], e.count - 1, 1)

\* Slots of the entry that no guard ref stands for.
BareSlots(e) == Monus(Holders(e), GuardRefsAt(e.generation))

\* Fault: a plain release may take any slot.
BareReleaseUngated(e) ==
    IF e.stale_release_credits > 0
    THEN Kept([e EXCEPT !.stale_release_credits = @ - 1])
    ELSE ReleaseSlot(e)

\* release: a credit first, then the bare-slot gate, then a slot.
BareRelease(e) ==
    CASE e.state # "absent" /\ e.stale_release_credits > 0 ->
            Kept([e EXCEPT !.stale_release_credits = @ - 1])
      [] e.state # "absent" /\ e.stale_release_credits = 0 /\ BareSlots(e) = 0 -> Kept(e)
      [] OTHER -> ReleaseSlot(e)

\* release_guard_ref: a ref of a dead lifetime releases nothing.
GuardRelease(e, rec) ==
    IF e.state # "absent" /\ rec # e.generation THEN Kept(e) ELSE ReleaseSlot(e)

Terminal(gen) == terminals' = [terminals EXCEPT ![gen] = @ + 1]

\* Fault: a tombstone's last release publishes the terminal event again.
TearDownLoudly(r) ==
    IF entry.state # "absent" /\ r.remaining = 0
    THEN /\ armed' = FALSE
         /\ Send("unsubscribe", entry.generation) \/ UNCHANGED out
         /\ Terminal(entry.generation)
    ELSE UNCHANGED <<armed, out, terminals>>

\* teardown_released_key: silent for a tombstone; the unsubscribe is best-effort.
TearDown(r) ==
    CASE entry.state = "absent" \/ r.remaining # 0 -> UNCHANGED <<armed, out, terminals>>
      [] IsTombstone(entry) /\ r.remaining = 0 -> armed' = FALSE /\ UNCHANGED <<out, terminals>>
      [] IsLive(entry) /\ r.remaining = 0 ->
            /\ armed' = FALSE
            /\ Send("unsubscribe", entry.generation) \/ UNCHANGED out
            /\ Terminal(entry.generation)

Released(r) ==
    /\ entry' = r.entry
    /\ mirror' = IF r.entry.state = "absent" THEN "absent" ELSE mirror
    /\ SyncHint(r.entry, r.moved)
    /\ TearDown(r)
    /\ UNCHANGED <<next_generation, up, in, streaming, ended>>

\* deregister_one for the unsubscribe that matches call c.
Unsubscribe(c) ==
    /\ plain[c] # 0
    /\ Released(BareRelease(entry))
    /\ plain' = [plain EXCEPT ![c] = 0]
    /\ UNCHANGED guard_refs

UnsubscribeSurplus ==
    /\ Surplus
    /\ Released(BareRelease(entry))
    /\ UNCHANGED <<plain, guard_refs>>

\* SubscriptionGuardDrop: the ref record is consumed whatever the key became.
DropGuard(g) ==
    /\ guard_refs[g] # 0
    /\ Released(GuardRelease(entry, guard_refs[g]))
    /\ guard_refs' = [guard_refs EXCEPT ![g] = 0]
    /\ UNCHANGED plain

\* DeregisterAll: the entry goes with all its holders; guard refs stay.  It is the
\* matching unsubscribe of every plain call: a later one is a surplus call.
DeregisterAll ==
    /\ entry.state # "absent"
    /\ entry' = NoEntry
    /\ mirror' = "absent"
    /\ SyncHint(NoEntry, 1)
    /\ TearDown(Release(NoEntry, 0, 1))
    /\ ended' = ended \union {entry.generation}
    /\ plain' = [c \in Calls |-> 0]
    /\ UNCHANGED <<guard_refs, next_generation, up, in, streaming>>

----------------------------------------------------------------------------
(* The wire. *)

ServerSubscribes ==
    /\ out # <<>> /\ Head(out).kind = "subscribe"
    /\ streaming' = TRUE
    /\ in' = Append(in, [kind |-> "ack", generation |-> Head(out).generation, named |-> TRUE])

ServerRefuses ==
    /\ out # <<>> /\ Head(out).kind = "subscribe"
    /\ \E named \in Named :
          in' = Append(in, [kind |-> "reject", generation |-> Head(out).generation, named |-> named])
    /\ UNCHANGED streaming

\* The answer to an unsubscribe is consumed without effect.
ServerUnsubscribes ==
    /\ out # <<>> /\ Head(out).kind = "unsubscribe"
    /\ streaming' = FALSE
    /\ UNCHANGED in

Server ==
    /\ ServerSubscribes \/ ServerRefuses \/ ServerUnsubscribes
    /\ out' = Tail(out)
    /\ UNCHANGED <<entry, guard_refs, next_generation, mirror, hint, up, armed, plain,
                   terminals, ended>>

\* note_acked: Pending -> Acked only; an unarmed ack changes no entry.
SubAck ==
    /\ in # <<>> /\ Head(in).kind = "ack"
    /\ in' = Tail(in)
    /\ armed' = FALSE
    /\ LET noted == armed /\ entry.state = "pending"
       IN  /\ entry' = IF noted THEN [entry EXCEPT !.state = "acked"] ELSE entry
           /\ mirror' = IF noted THEN "acked" ELSE mirror
    /\ UNCHANGED <<guard_refs, next_generation, hint, up, out, streaming, plain, terminals, ended>>

\* A reject that names its channel matches the key; any other matches its req_id.
RejectMatches(a) == armed /\ (a.named \/ a.generation = entry.generation)

\* Fault: the terminal reject leaves the liveness epoch.
NoteTerminatedUnsynced(e) ==
    [entry |-> [e EXCEPT !.state = "terminated", !.tombstone_holders = e.count, !.count = 0],
     moved |-> 0]

\* note_terminated: the holders are counted down from here, credits are kept.
NoteTerminated(e) ==
    [entry |-> [e EXCEPT !.state = "terminated", !.tombstone_holders = e.count, !.count = 0],
     moved |-> 1]

RejectTerminates(a) ==
    /\ RejectMatches(a) /\ IsLive(entry)
    /\ entry' = NoteTerminated(entry).entry
    /\ mirror' = "terminated"
    /\ SyncHint(entry', NoteTerminated(entry).moved)
    /\ armed' = FALSE
    /\ Terminal(entry.generation)
    /\ ended' = ended \union {entry.generation}

\* Fault: a reject that matches nothing disarms the key.
RejectConsumedDisarms(a) ==
    /\ ~(RejectMatches(a) /\ IsLive(entry))
    /\ armed' = FALSE
    /\ UNCHANGED <<entry, mirror, hint, terminals, ended>>

RejectConsumed(a) ==
    /\ ~(RejectMatches(a) /\ IsLive(entry))
    /\ UNCHANGED <<entry, mirror, hint, armed, terminals, ended>>

SubReject ==
    /\ in # <<>> /\ Head(in).kind = "reject"
    /\ in' = Tail(in)
    /\ RejectTerminates(Head(in)) \/ RejectConsumed(Head(in))
    /\ UNCHANGED <<guard_refs, next_generation, up, out, streaming, plain>>

\* The end of a session forgets its timers and everything on its socket.
Disconnect ==
    /\ up
    /\ up' = FALSE
    /\ armed' = FALSE
    /\ out' = <<>>
    /\ in' = <<>>
    /\ streaming' = FALSE
    /\ UNCHANGED <<entry, guard_refs, next_generation, mirror, hint, plain, terminals, ended>>

\* The replay sends live entries only: a tombstone is revived by a caller.
Reconnect ==
    /\ ~up
    /\ up' = TRUE
    /\ armed' = IsLive(entry)
    /\ out' = IF IsLive(entry)
              THEN <<[kind |-> "subscribe", generation |-> entry.generation]>>
              ELSE <<>>
    /\ UNCHANGED <<entry, guard_refs, next_generation, mirror, hint, in, streaming, plain,
                   terminals, ended>>

----------------------------------------------------------------------------
CallerNext ==
    \/ \E c \in Calls : Subscribe(c) \/ Unsubscribe(c)
    \/ \E g \in Guards : SubscribeGuarded(g) \/ DropGuard(g)
    \/ UnsubscribeSurplus
    \/ DeregisterAll

WireNext == Server \/ SubAck \/ SubReject \/ Disconnect \/ Reconnect

Next == CallerNext \/ WireNext

Spec == Init /\ [][Next]_vars

----------------------------------------------------------------------------
(* Properties. *)

\* A guard keeps the lifetime it joined alive until that lifetime is rejected or
\* force-closed: no plain unsubscribe, matched or surplus, no other guard's drop and
\* no release of a dead lifetime takes its slot.
GuardKeepsAlive ==
    \A g \in Guards :
        guard_refs[g] # 0 /\ guard_refs[g] \notin ended =>
            IsLive(entry) /\ entry.generation = guard_refs[g]

\* Once every plain subscribe has been matched and no guard of the entry's lifetime
\* is left, the entry is gone: credits and tombstones never keep a stream nobody holds.
NoOrphan ==
    (\A c \in Calls : plain[c] = 0) /\ GuardRefsAt(entry.generation) = 0 =>
        entry.state = "absent"

\* Some holder not released yet joined lifetime n.
Joined(n) == (\E c \in Calls : plain[c] = n) \/ (\E g \in Guards : guard_refs[g] = n)

\* Each lifetime publishes its terminal event once, when it ends: by its last release,
\* by the reject or by the forced teardown, and never again when its tombstone goes.
TerminalOnce ==
    \A n \in Generations :
        /\ terminals[n] <= 1
        /\ IsLive(entry) /\ entry.generation = n => terminals[n] = 0
        /\ terminals[n] = 0 /\ Joined(n) => IsLive(entry) /\ entry.generation = n

\* What callers read outside the reactor is the registry's state: the mirror row after
\* every mutator, the auth hint after every handler that must move the epoch.
ProjectionsAgree == mirror = entry.state /\ hint = IsLive(entry)

\* A pending entry of a session always has the ack timer that ends its wait: acks,
\* rejects and releases of earlier lifetimes of the key, which handle_sub_ack tells
\* apart by the timer alone, never leave it without one.
PendingIsTimed == up /\ entry.state = "pending" => armed

\* The code keeps neither of the next two (README, observations); no configuration
\* checks them.  An entry shown as Active is streamed, once nothing is in flight.
ActiveFlows == entry.state = "acked" /\ up /\ out = <<>> /\ in = <<>> => streaming

\* With one unsubscribe per subscribe, a plain subscriber keeps its lifetime alive.
PlainKeepsAlive ==
    \A c \in Calls :
        plain[c] # 0 /\ plain[c] \notin ended => IsLive(entry) /\ entry.generation = plain[c]

=============================================================================
