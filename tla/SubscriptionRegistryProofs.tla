--------------------- MODULE SubscriptionRegistryProofs ---------------------
(***************************************************************************)
(* Proofs about SubscriptionRegistry, for any number of guards, plain      *)
(* calls and registrations.  The properties of a run are not inductive by  *)
(* themselves: they rest on the two ledgers below, which relate the        *)
(* entry's counters to the holders that are really there.                  *)
(***************************************************************************)
EXTENDS SubscriptionRegistry, FiniteSetTheorems, SequenceTheorems, TLAPS

\* The shape of the entry in each of its states.
EntryOK ==
    /\ entry.state = "absent" => entry = NoEntry
    /\ entry.state # "absent" => entry.generation \in 1..next_generation
    /\ IsLive(entry) => entry.count >= 1 /\ entry.tombstone_holders = 0
    /\ IsTombstone(entry) =>
          /\ entry.count = 0
          /\ entry.tombstone_holders >= 1
          /\ entry.generation \in ended

\* No holder and no ended lifetime is from the future.
PastOnly ==
    /\ \A g \in Guards : guard_refs[g] <= next_generation
    /\ \A c \in Calls : plain[c] <= next_generation
    /\ \A n \in ended : n <= next_generation
    /\ \A n \in Generations : n > next_generation => terminals[n] = 0

\* Every guard ref of the entry's lifetime stands for a slot of its own.
GuardSlots ==
    entry.state # "absent" => GuardRefsAt(entry.generation) <= Holders(entry)

Outstanding == {c \in Calls : plain[c] # 0}

\* The other slots and the credits are owed to plain calls still to be matched.
PlainLedger ==
    entry.state # "absent" =>
        (Holders(entry) - GuardRefsAt(entry.generation)) + entry.stale_release_credits
            <= Cardinality(Outstanding)

RegistryInv == EntryOK /\ PastOnly /\ GuardSlots /\ PlainLedger

----------------------------------------------------------------------------
(* Counting. *)

\* A set of guards or calls is finite and its cardinality a natural number.
LEMMA Counts ==
    /\ \A n : IsFiniteSet(Rows(n)) /\ GuardRefsAt(n) \in Nat
    /\ IsFiniteSet(Outstanding) /\ Cardinality(Outstanding) \in Nat
<1>1. \A n : Rows(n) \in SUBSET Guards
  BY DEF Rows
<1>2. Outstanding \in SUBSET Calls
  BY DEF Outstanding
<1>3. IsFiniteSet(Guards) /\ IsFiniteSet(Calls)
  BY RegistryAssumption
<1>4. \A n : IsFiniteSet(Rows(n))
  BY <1>1, <1>3, FS_Subset
<1>5. IsFiniteSet(Outstanding)
  BY <1>2, <1>3, FS_Subset
<1> QED
  BY <1>4, <1>5, FS_CardinalityType DEF GuardRefsAt

\* record_guard_ref adds one row to the lifetime joined, and to no other.
LEMMA RowRecorded ==
    ASSUME NEW g \in Guards, NEW m \in Nat \ {0}, NEW n \in Nat \ {0},
           guard_refs \in [Guards -> Nat], guard_refs[g] = 0,
           guard_refs' = [guard_refs EXCEPT ![g] = m]
    PROVE  Cardinality({h \in Guards : guard_refs'[h] = n}) =
               IF n = m THEN GuardRefsAt(n) + 1 ELSE GuardRefsAt(n)
<1>1. {h \in Guards : guard_refs'[h] = n} = IF n = m THEN Rows(n) \union {g} ELSE Rows(n)
  BY DEF Rows
<1>2. g \notin Rows(n)
  BY DEF Rows
<1>3. Cardinality(Rows(n) \union {g}) = Cardinality(Rows(n)) + 1
  BY <1>2, Counts, FS_AddElement
<1> QED
  BY <1>1, <1>3 DEF GuardRefsAt

\* release_guard_ref consumes one row of the lifetime recorded, and of no other.
LEMMA RowConsumed ==
    ASSUME NEW g \in Guards, NEW n \in Nat \ {0},
           guard_refs \in [Guards -> Nat],
           guard_refs' = [guard_refs EXCEPT ![g] = 0]
    PROVE  Cardinality({h \in Guards : guard_refs'[h] = n}) =
               IF guard_refs[g] = n THEN GuardRefsAt(n) - 1 ELSE GuardRefsAt(n)
<1>1. {h \in Guards : guard_refs'[h] = n} = Rows(n) \ {g}
  BY DEF Rows
<1>2. g \in Rows(n) <=> guard_refs[g] = n
  BY DEF Rows
<1>3. Cardinality(Rows(n) \ {g}) =
          IF g \in Rows(n) THEN Cardinality(Rows(n)) - 1 ELSE Cardinality(Rows(n))
  BY Counts, FS_RemoveElement
<1> QED
  BY <1>1, <1>2, <1>3 DEF GuardRefsAt

\* A plain subscribe is one more call to be matched.
LEMMA CallRecorded ==
    ASSUME NEW c \in Calls, NEW m \in Nat \ {0},
           plain \in [Calls -> Nat], plain[c] = 0,
           plain' = [plain EXCEPT ![c] = m]
    PROVE  Cardinality({d \in Calls : plain'[d] # 0}) = Cardinality(Outstanding) + 1
<1>1. {d \in Calls : plain'[d] # 0} = Outstanding \union {c}
  BY DEF Outstanding
<1>2. c \notin Outstanding
  BY DEF Outstanding
<1> QED
  BY <1>1, <1>2, Counts, FS_AddElement

\* Its unsubscribe is one less.
LEMMA CallMatched ==
    ASSUME NEW c \in Calls, plain \in [Calls -> Nat], plain[c] # 0,
           plain' = [plain EXCEPT ![c] = 0]
    PROVE  Cardinality({d \in Calls : plain'[d] # 0}) = Cardinality(Outstanding) - 1
<1>1. {d \in Calls : plain'[d] # 0} = Outstanding \ {c}
  BY DEF Outstanding
<1>2. c \in Outstanding
  BY DEF Outstanding
<1> QED
  BY <1>1, <1>2, Counts, FS_RemoveElement

----------------------------------------------------------------------------
(* Types. *)

\* register leaves a well-typed entry.
LEMMA RegisteredType ==
    ASSUME entry \in Entries, NEW gen \in Nat, NEW b \in BOOLEAN
    PROVE  Registered(entry, gen, b) \in Entries
<1>1. GuardRefsAt(entry.generation) \in Nat
  BY Counts
<1>2. FreshEntry(gen) \in Entries
  BY DEF FreshEntry, NoEntry, Entries, EntryStates
<1>3. Revived(entry, gen, b) \in Entries
  <2> DEFINE slot == IF b THEN 0 ELSE 1
             owed == Monus(Monus(entry.tombstone_holders, GuardRefsAt(entry.generation)), slot)
  <2>1. slot \in Nat
    OBVIOUS
  <2>2. owed \in Nat
    <3> HIDE DEF slot
    <3> QED
      BY <1>1, <2>1 DEF Monus, Entries
  <2>3. entry.stale_release_credits + owed \in Nat
    <3> HIDE DEF owed
    <3> QED
      BY <2>2 DEF Entries
  <2>4. Revived(entry, gen, b) =
            [FreshEntry(gen) EXCEPT !.stale_release_credits = entry.stale_release_credits + owed]
    BY DEF Revived
  <2> HIDE DEF owed
  <2> QED
    BY <1>2, <2>3, <2>4 DEF FreshEntry, NoEntry, Entries, EntryStates
<1>4. entry.state \in EntryStates /\ [entry EXCEPT !.count = @ + 1] \in Entries
  BY DEF Entries
<1> QED
  BY <1>2, <1>3, <1>4 DEF Registered, IsTombstone, IsLive, EntryStates

\* Nothing but a well-typed entry is left by a release, plain or of a guard.
LEMMA ReleaseType ==
    ASSUME entry \in Entries, NEW rec
    PROVE  /\ BareRelease(entry).entry \in Entries
           /\ GuardRelease(entry, rec).entry \in Entries
<1>1. ReleaseSlot(entry).entry \in Entries
  <2>1. NoEntry \in Entries
    BY DEF NoEntry, Entries, EntryStates
  <2>2. IsTombstone(entry) /\ Holders(entry) > 1 =>
            [entry EXCEPT !.tombstone_holders = @ - 1] \in Entries
    BY DEF Holders, Entries
  <2>3. IsLive(entry) /\ Holders(entry) > 1 => [entry EXCEPT !.count = @ - 1] \in Entries
    BY DEF Holders, Entries, IsLive, IsTombstone
  <2>4. entry.state \in EntryStates /\ Holders(entry) \in Nat
    BY DEF Entries, Holders
  <2> QED
    BY <2>1, <2>2, <2>3, <2>4 DEF ReleaseSlot, Release, EntryStates, IsTombstone, IsLive
<1>2. entry.stale_release_credits > 0 =>
          Kept([entry EXCEPT !.stale_release_credits = @ - 1]).entry \in Entries
  BY DEF Kept, Release, Entries
<1>3. Kept(entry).entry \in Entries
  BY DEF Kept, Release
<1>4. BareRelease(entry).entry \in Entries
  BY <1>1, <1>2, <1>3 DEF BareRelease
<1>5. GuardRelease(entry, rec).entry \in Entries
  BY <1>1, <1>3 DEF GuardRelease
<1> QED
  BY <1>4, <1>5

\* A frame put on the wire keeps the queue well-typed.
LEMMA SendType ==
    ASSUME out \in Seq(Frames), NEW kind \in {"subscribe", "unsubscribe"}, NEW gen \in Nat,
           Send(kind, gen) \/ UNCHANGED out
    PROVE  out' \in Seq(Frames)
<1>1. [kind |-> kind, generation |-> gen] \in Frames
  BY DEF Frames
<1>2. Append(out, [kind |-> kind, generation |-> gen]) \in Seq(Frames)
  BY <1>1, AppendProperties
<1> QED
  BY <1>2 DEF Send

\* The lifetime of an entry that is there is one of the generations handed out.
LEMMA PresentGeneration ==
    ASSUME TypeOK, EntryOK, entry.state # "absent"
    PROVE  entry.generation \in Generations
  BY RegistryAssumption DEF EntryOK, Generations, TypeOK

\* A teardown keeps the types of what it touches.
LEMMA TearDownType ==
    ASSUME TypeOK, EntryOK, NEW r, TearDown(r)
    PROVE  /\ armed' \in BOOLEAN
           /\ out' \in Seq(Frames)
           /\ terminals' \in [Generations -> Nat]
<1>1. CASE entry.state = "absent" \/ r.remaining # 0
  BY <1>1 DEF TearDown, TypeOK, IsLive, IsTombstone
<1>2. CASE IsTombstone(entry) /\ r.remaining = 0
  BY <1>2 DEF TearDown, TypeOK, IsLive, IsTombstone
<1>3. CASE IsLive(entry) /\ r.remaining = 0
  <2>1. /\ armed' = FALSE
        /\ Send("unsubscribe", entry.generation) \/ UNCHANGED out
        /\ Terminal(entry.generation)
    BY <1>3 DEF TearDown, IsLive, IsTombstone
  <2>2. entry.generation \in Nat /\ out \in Seq(Frames)
    BY DEF TypeOK, Entries
  <2>3. out' \in Seq(Frames)
    BY <2>1, <2>2, SendType
  <2>4. entry.generation \in Generations
    BY <1>3, PresentGeneration DEF IsLive
  <2>5. terminals' \in [Generations -> Nat]
    <3>1. terminals \in [Generations -> Nat]
      BY DEF TypeOK
    <3>2. terminals' = [terminals EXCEPT ![entry.generation] = @ + 1]
      BY <2>1 DEF Terminal
    <3> QED
      BY <2>4, <3>1, <3>2
  <2> QED
    BY <2>1, <2>3, <2>5
<1>4. entry.state \in EntryStates
  BY DEF TypeOK, Entries
<1> QED
  BY <1>1, <1>2, <1>3, <1>4 DEF EntryStates, IsLive, IsTombstone

\* A registration keeps every type but those of its holder's own record.
LEMMA RegisterType ==
    ASSUME TypeOK, EntryOK, NEW b \in BOOLEAN, Register(b)
    PROVE  /\ entry' \in Entries
           /\ next_generation' \in 0..MaxGen
           /\ mirror' \in EntryStates
           /\ hint' \in BOOLEAN
           /\ armed' \in BOOLEAN
           /\ out' \in Seq(Frames)
<1> DEFINE gen == next_generation + 1
           e   == Registered(entry, gen, b)
<1>1. gen \in Nat /\ gen \in 0..MaxGen /\ next_generation' = gen /\ entry' = e
  BY RegistryAssumption DEF TypeOK, Register
<1>2. e \in Entries
  BY <1>1, RegisteredType DEF TypeOK
<1>3. mirror' \in EntryStates
  BY DEF Register, TypeOK, EntryStates
<1>4. hint' = IsLive(e)
  BY DEF Register, SyncHint
<1>5. out' \in Seq(Frames)
  <2>1. Send("subscribe", gen) \/ UNCHANGED out
    BY DEF Register
  <2> QED
    BY <1>1, <2>1, SendType DEF TypeOK
<1>6. armed' = up \/ armed' = armed
  BY DEF Register
<1> QED
  BY <1>1, <1>2, <1>3, <1>4, <1>5, <1>6 DEF TypeOK, IsLive

\* A release keeps every type but those of its holder's own record.
LEMMA ReleasedType ==
    ASSUME TypeOK, EntryOK, NEW r, r.entry \in Entries, Released(r)
    PROVE  /\ entry' \in Entries
           /\ mirror' \in EntryStates
           /\ hint' \in BOOLEAN
           /\ armed' \in BOOLEAN
           /\ out' \in Seq(Frames)
           /\ terminals' \in [Generations -> Nat]
<1>1. TearDown(r)
  BY DEF Released
<1>2. hint' = IsLive(r.entry) \/ hint' = hint
  BY DEF Released, SyncHint
<1>3. mirror' \in EntryStates /\ entry' \in Entries
  BY DEF Released, TypeOK, EntryStates
<1>4. hint' \in BOOLEAN
  <2>1. hint \in BOOLEAN
    BY DEF TypeOK
  <2>2. IsLive(r.entry) \in BOOLEAN
    BY DEF IsLive
  <2> QED
    BY <1>2, <2>1, <2>2
<1> QED
  BY <1>1, <1>3, <1>4, TearDownType

----------------------------------------------------------------------------
(* What a registration and a release do to the ledgers. *)

\* register: a live entry takes one more holder, any other starts a lifetime.
LEMMA RegisterFacts ==
    ASSUME TypeOK, RegistryInv, NEW b \in BOOLEAN, Register(b)
    PROVE  /\ next_generation' = next_generation + 1
           /\ IsLive(entry) => entry' = [entry EXCEPT !.count = @ + 1]
           /\ entry.state = "absent" => entry' = FreshEntry(next_generation + 1)
           /\ IsTombstone(entry) => entry' = Revived(entry, next_generation + 1, b)
  BY DEF Register, Registered, IsLive, IsTombstone

\* The fields of a revived entry.
LEMMA RevivedFields ==
    ASSUME entry \in Entries, NEW gen \in Nat, NEW b \in BOOLEAN
    PROVE  /\ Revived(entry, gen, b).count = 1
           /\ Revived(entry, gen, b).generation = gen
           /\ Revived(entry, gen, b).state = "pending"
           /\ Revived(entry, gen, b).tombstone_holders = 0
           /\ Revived(entry, gen, b).stale_release_credits =
                  entry.stale_release_credits +
                  Monus(Monus(entry.tombstone_holders, GuardRefsAt(entry.generation)),
                        IF b THEN 0 ELSE 1)
  BY DEF Revived, FreshEntry, NoEntry

\* The fields of a new entry.
LEMMA FreshFields ==
    ASSUME NEW gen \in Nat
    PROVE  /\ FreshEntry(gen).count = 1
           /\ FreshEntry(gen).generation = gen
           /\ FreshEntry(gen).state = "pending"
           /\ FreshEntry(gen).tombstone_holders = 0
           /\ FreshEntry(gen).stale_release_credits = 0
  BY DEF FreshEntry, NoEntry

\* What e2 has of e when exactly one slot was taken and some are left.
OneSlotLess(e, e2) ==
    /\ e2.state = e.state
    /\ e2.generation = e.generation
    /\ e2.stale_release_credits = e.stale_release_credits
    /\ Holders(e) > 1
    /\ Holders(e2) = Holders(e) - 1
    /\ IsLive(e) => e2.count >= 1 /\ e2.tombstone_holders = 0
    /\ IsTombstone(e) => e2.count = 0 /\ e2.tombstone_holders >= 1

\* Taking a slot removes the entry with its last one, and says so.
LEMMA SlotFacts ==
    ASSUME TypeOK, EntryOK, NEW r, r = ReleaseSlot(entry)
    PROVE  \/ /\ entry.state = "absent"
              /\ r.entry = entry /\ r.moved = 0
           \/ /\ entry.state # "absent" /\ Holders(entry) = 1
              /\ r.entry = NoEntry /\ r.remaining = 0 /\ r.moved = 1
           \/ /\ entry.state # "absent" /\ OneSlotLess(entry, r.entry)
              /\ IsLive(entry) => r.remaining # 0 /\ r.moved = 1
              /\ IsTombstone(entry) => r.moved = 0
<1>1. entry.state \in EntryStates /\ entry.count \in Nat /\ entry.tombstone_holders \in Nat
  BY DEF TypeOK, Entries
<1>2. entry.state # "absent" => Holders(entry) \in Nat /\ Holders(entry) >= 1
  BY <1>1 DEF Holders, EntryOK, IsLive, IsTombstone, EntryStates
<1>3. CASE entry.state = "absent"
  BY <1>3 DEF ReleaseSlot, Release, IsLive, IsTombstone
<1>4. CASE entry.state # "absent" /\ Holders(entry) <= 1
  <2>1. r = Release(NoEntry, 0, 1)
    BY <1>2, <1>4 DEF ReleaseSlot
  <2> QED
    BY <1>2, <1>4, <2>1 DEF Release
<1>5. CASE IsTombstone(entry) /\ Holders(entry) > 1
  <2> DEFINE e2 == [entry EXCEPT !.tombstone_holders = @ - 1]
  <2>1. r = Release(e2, 0, 0)
    BY <1>2, <1>5 DEF ReleaseSlot, IsLive, IsTombstone
  <2>2. /\ e2.state = entry.state
        /\ e2.generation = entry.generation
        /\ e2.stale_release_credits = entry.stale_release_credits
        /\ e2.count = entry.count
        /\ e2.tombstone_holders = entry.tombstone_holders - 1
    BY DEF TypeOK, Entries
  <2>3. r.entry = e2 /\ r.remaining = 0 /\ r.moved = 0
    BY <2>1 DEF Release
  <2> HIDE DEF e2
  <2>4. OneSlotLess(entry, e2)
    BY <1>1, <1>5, <2>2 DEF OneSlotLess, Holders, IsLive, IsTombstone, EntryOK
  <2> QED
    BY <1>1, <1>5, <2>3, <2>4 DEF Holders, IsLive, IsTombstone
<1>6. CASE IsLive(entry) /\ Holders(entry) > 1
  <2> DEFINE e2 == [entry EXCEPT !.count = @ - 1]
  <2>1. r = Release(e2, entry.count - 1, 1)
    BY <1>2, <1>6 DEF ReleaseSlot, IsLive, IsTombstone
  <2>2. /\ e2.state = entry.state
        /\ e2.generation = entry.generation
        /\ e2.stale_release_credits = entry.stale_release_credits
        /\ e2.tombstone_holders = entry.tombstone_holders
        /\ e2.count = entry.count - 1
    BY DEF TypeOK, Entries
  <2>3. r.entry = e2 /\ r.remaining = entry.count - 1 /\ r.moved = 1
    BY <2>1 DEF Release
  <2> HIDE DEF e2
  <2>4. OneSlotLess(entry, e2)
    BY <1>1, <1>6, <2>2 DEF OneSlotLess, Holders, IsLive, IsTombstone, EntryOK
  <2> QED
    BY <1>1, <1>6, <2>3, <2>4 DEF Holders, IsLive, IsTombstone
<1> QED
  BY <1>1, <1>2, <1>3, <1>4, <1>5, <1>6 DEF EntryStates, IsLive, IsTombstone

----------------------------------------------------------------------------
(* The invariant, one lemma for each kind of step. *)

\* The entry a registration leaves is live, and the lifetime joined is its own.
LEMMA RegisterEntry ==
    ASSUME TypeOK, RegistryInv, NEW b \in BOOLEAN, Register(b)
    PROVE  /\ EntryOK'
           /\ IsLive(entry')
           /\ entry'.generation \in 1..next_generation'
           /\ next_generation' = next_generation + 1
           /\ UNCHANGED <<ended, terminals>>
           /\ IsLive(entry) => /\ entry'.generation = entry.generation
                               /\ entry'.count = entry.count + 1
                               /\ entry'.state = entry.state
                               /\ entry'.stale_release_credits = entry.stale_release_credits
           /\ ~IsLive(entry) => /\ entry'.generation = next_generation + 1
                                /\ entry'.count = 1
                                /\ entry'.state = "pending"
           /\ entry.state = "absent" => entry'.stale_release_credits = 0
           /\ IsTombstone(entry) =>
                 entry'.stale_release_credits = entry.stale_release_credits +
                     Monus(Monus(entry.tombstone_holders, GuardRefsAt(entry.generation)),
                           IF b THEN 0 ELSE 1)
<1> DEFINE gen == next_generation + 1
<1>1. gen \in Nat /\ next_generation \in Nat /\ next_generation' = gen
  BY RegistryAssumption, RegisterFacts DEF TypeOK
<1>2. UNCHANGED <<ended, terminals>>
  BY DEF Register
<1>3. entry.state \in EntryStates
  BY DEF TypeOK, Entries
<1>4. CASE IsLive(entry)
  <2>1. entry' = [entry EXCEPT !.count = @ + 1]
    BY <1>4, RegisterFacts
  <2>2. /\ entry'.generation = entry.generation
        /\ entry'.count = entry.count + 1
        /\ entry'.state = entry.state
        /\ entry'.tombstone_holders = entry.tombstone_holders
        /\ entry'.stale_release_credits = entry.stale_release_credits
    BY <2>1 DEF TypeOK, Entries
  <2>3. /\ entry.generation \in 1..next_generation
        /\ entry.count \in Nat /\ entry.count >= 1 /\ entry.tombstone_holders = 0
    BY <1>4 DEF RegistryInv, EntryOK, IsLive, TypeOK, Entries
  <2>4. entry'.generation \in 1..next_generation'
    BY <1>1, <2>2, <2>3
  <2> QED
    BY <1>1, <1>2, <1>4, <2>2, <2>3, <2>4 DEF EntryOK, IsLive, IsTombstone
<1>5. CASE entry.state = "absent"
  <2>1. entry' = FreshEntry(gen)
    BY <1>5, RegisterFacts
  <2>2. /\ entry'.generation = gen
        /\ entry'.count = 1
        /\ entry'.state = "pending"
        /\ entry'.tombstone_holders = 0
        /\ entry'.stale_release_credits = 0
    BY <1>1, <2>1, FreshFields
  <2>3. entry'.generation \in 1..next_generation'
    BY <1>1, <2>2
  <2> QED
    BY <1>1, <1>2, <1>5, <2>2, <2>3 DEF EntryOK, IsLive, IsTombstone
<1>6. CASE IsTombstone(entry)
  <2>1. entry' = Revived(entry, gen, b)
    BY <1>6, RegisterFacts
  <2>2. /\ entry'.generation = gen
        /\ entry'.count = 1
        /\ entry'.state = "pending"
        /\ entry'.tombstone_holders = 0
        /\ entry'.stale_release_credits = entry.stale_release_credits +
              Monus(Monus(entry.tombstone_holders, GuardRefsAt(entry.generation)),
                    IF b THEN 0 ELSE 1)
    BY <1>1, <2>1, RevivedFields DEF TypeOK
  <2>3. entry'.generation \in 1..next_generation'
    BY <1>1, <2>2
  <2> QED
    BY <1>1, <1>2, <1>6, <2>2, <2>3 DEF EntryOK, IsLive, IsTombstone
<1> QED
  BY <1>3, <1>4, <1>5, <1>6 DEF EntryStates, IsLive, IsTombstone

\* Nobody holds the lifetime that the next registration may start.
LEMMA NoRowsAhead ==
    ASSUME TypeOK, PastOnly
    PROVE  GuardRefsAt(next_generation + 1) = 0
<1>1. Rows(next_generation + 1) = {}
  BY DEF Rows, TypeOK, PastOnly
<1> QED
  BY <1>1, FS_EmptySet DEF GuardRefsAt

\* subscribe: one more slot or credit, one more call to be matched.
LEMMA SubscribeInv ==
    ASSUME TypeOK, RegistryInv, NEW c \in Calls, Subscribe(c)
    PROVE  RegistryInv'
<1> DEFINE gen2 == entry'.generation
           R    == GuardRefsAt(entry.generation)
           R2   == Cardinality({h \in Guards : guard_refs'[h] = gen2})
           U    == Cardinality(Outstanding)
           U2   == Cardinality({d \in Calls : plain'[d] # 0})
<1>1. Register(FALSE) /\ guard_refs' = guard_refs /\ plain[c] = 0
      /\ plain' = [plain EXCEPT ![c] = gen2]
  BY DEF Subscribe
<1>2. /\ EntryOK' /\ IsLive(entry')
      /\ gen2 \in 1..next_generation' /\ next_generation' = next_generation + 1
      /\ ended' = ended /\ terminals' = terminals
      /\ IsLive(entry) => /\ gen2 = entry.generation
                          /\ entry'.count = entry.count + 1
                          /\ entry'.stale_release_credits = entry.stale_release_credits
      /\ ~IsLive(entry) => gen2 = next_generation + 1 /\ entry'.count = 1
      /\ entry.state = "absent" => entry'.stale_release_credits = 0
      /\ IsTombstone(entry) =>
            entry'.stale_release_credits = entry.stale_release_credits +
                Monus(Monus(entry.tombstone_holders, R), 1)
  BY <1>1, RegisterEntry
<1>3. next_generation \in Nat /\ gen2 \in Nat \ {0}
  BY <1>2 DEF TypeOK
<1>4. PastOnly'
  <2>1. \A d \in Calls : plain'[d] <= next_generation'
    BY <1>1, <1>2, <1>3 DEF PastOnly, RegistryInv, TypeOK
  <2>2. \A g \in Guards : guard_refs'[g] <= next_generation'
    BY <1>1, <1>2, <1>3 DEF PastOnly, RegistryInv, TypeOK
  <2>3. \A n \in ended' : n <= next_generation'
    BY <1>2, <1>3 DEF PastOnly, RegistryInv, TypeOK, Generations
  <2>4. \A n \in Generations : n > next_generation' => terminals'[n] = 0
    BY <1>2, <1>3 DEF PastOnly, RegistryInv, Generations
  <2> QED
    BY <2>1, <2>2, <2>3, <2>4 DEF PastOnly
<1>5. R2 = GuardRefsAt(gen2)
  BY <1>1 DEF GuardRefsAt, Rows
<1>6. U2 = U + 1
  BY <1>1, <1>3, CallRecorded DEF TypeOK
<1>7. R \in Nat /\ U \in Nat /\ R2 \in Nat
  BY <1>5, Counts
<1>8. /\ entry.count \in Nat /\ entry.tombstone_holders \in Nat
      /\ entry.stale_release_credits \in Nat /\ entry.state \in EntryStates
  BY DEF TypeOK, Entries
<1>9. R2 <= entry'.count /\ (entry'.count - R2) + entry'.stale_release_credits <= U2
  <2>1. CASE IsLive(entry)
    <3>1. R2 = R
      BY <1>2, <1>5, <2>1
    <3>2. R <= entry.count /\ (entry.count - R) + entry.stale_release_credits <= U
      BY <2>1 DEF RegistryInv, GuardSlots, PlainLedger, Holders, IsLive, IsTombstone
    <3> HIDE DEF R, R2, U, U2
    <3> QED
      BY <1>2, <1>6, <1>7, <1>8, <2>1, <3>1, <3>2
  <2>2. CASE entry.state = "absent"
    <3>1. R2 = 0
      BY <1>2, <1>5, <2>2, NoRowsAhead DEF IsLive, RegistryInv
    <3> HIDE DEF R, R2, U, U2
    <3> QED
      BY <1>2, <1>6, <1>7, <2>2, <3>1 DEF IsLive
  <2>3. CASE IsTombstone(entry)
    <3>1. R2 = 0
      BY <1>2, <1>5, <2>3, NoRowsAhead DEF IsLive, IsTombstone, RegistryInv
    <3>2. /\ R <= entry.tombstone_holders
          /\ (entry.tombstone_holders - R) + entry.stale_release_credits <= U
      BY <2>3 DEF RegistryInv, GuardSlots, PlainLedger, Holders, IsTombstone
    <3> HIDE DEF R, R2, U, U2
    <3> QED
      BY <1>2, <1>6, <1>7, <1>8, <2>3, <3>1, <3>2 DEF IsLive, IsTombstone, Monus
  <2> QED
    BY <1>8, <2>1, <2>2, <2>3 DEF EntryStates, IsLive, IsTombstone
<1>10. Holders(entry') = entry'.count
  BY <1>2 DEF Holders, IsLive, IsTombstone
<1>11. GuardSlots' /\ PlainLedger'
  BY <1>9, <1>10 DEF GuardSlots, PlainLedger, GuardRefsAt, Rows, Outstanding
<1> QED
  BY <1>2, <1>4, <1>11 DEF RegistryInv

\* on_*_for: a slot with a row of its own; the plain ledger does not grow.
LEMMA SubscribeGuardedInv ==
    ASSUME TypeOK, RegistryInv, NEW g \in Guards, SubscribeGuarded(g)
    PROVE  RegistryInv'
<1> DEFINE gen2 == entry'.generation
           R    == GuardRefsAt(entry.generation)
           R2   == Cardinality({h \in Guards : guard_refs'[h] = gen2})
           U    == Cardinality(Outstanding)
<1>1. Register(TRUE) /\ guard_refs[g] = 0 /\ plain' = plain
      /\ guard_refs' = [guard_refs EXCEPT ![g] = gen2]
  BY DEF SubscribeGuarded
<1>2. /\ EntryOK' /\ IsLive(entry')
      /\ gen2 \in 1..next_generation' /\ next_generation' = next_generation + 1
      /\ ended' = ended /\ terminals' = terminals
      /\ IsLive(entry) => /\ gen2 = entry.generation
                          /\ entry'.count = entry.count + 1
                          /\ entry'.stale_release_credits = entry.stale_release_credits
      /\ ~IsLive(entry) => gen2 = next_generation + 1 /\ entry'.count = 1
      /\ entry.state = "absent" => entry'.stale_release_credits = 0
      /\ IsTombstone(entry) =>
            entry'.stale_release_credits = entry.stale_release_credits +
                Monus(Monus(entry.tombstone_holders, R), 0)
  BY <1>1, RegisterEntry
<1>3. next_generation \in Nat /\ gen2 \in Nat \ {0}
  BY <1>2 DEF TypeOK
<1>4. PastOnly'
  <2>1. \A d \in Calls : plain'[d] <= next_generation'
    BY <1>1, <1>2, <1>3 DEF PastOnly, RegistryInv, TypeOK
  <2>2. \A h \in Guards : guard_refs'[h] <= next_generation'
    BY <1>1, <1>2, <1>3 DEF PastOnly, RegistryInv, TypeOK
  <2>3. \A n \in ended' : n <= next_generation'
    BY <1>2, <1>3 DEF PastOnly, RegistryInv, TypeOK, Generations
  <2>4. \A n \in Generations : n > next_generation' => terminals'[n] = 0
    BY <1>2, <1>3 DEF PastOnly, RegistryInv, Generations
  <2> QED
    BY <2>1, <2>2, <2>3, <2>4 DEF PastOnly
<1>5. R2 = GuardRefsAt(gen2) + 1
  BY <1>1, <1>3, RowRecorded DEF TypeOK
<1>6. {d \in Calls : plain'[d] # 0} = Outstanding
  BY <1>1 DEF Outstanding
<1>7. R \in Nat /\ U \in Nat /\ GuardRefsAt(gen2) \in Nat
  BY Counts
<1>8. /\ entry.count \in Nat /\ entry.tombstone_holders \in Nat
      /\ entry.stale_release_credits \in Nat /\ entry.state \in EntryStates
  BY DEF TypeOK, Entries
<1>9. R2 <= entry'.count /\ (entry'.count - R2) + entry'.stale_release_credits <= U
  <2>1. CASE IsLive(entry)
    <3>1. R2 = R + 1
      BY <1>2, <1>5, <2>1
    <3>2. R <= entry.count /\ (entry.count - R) + entry.stale_release_credits <= U
      BY <2>1 DEF RegistryInv, GuardSlots, PlainLedger, Holders, IsLive, IsTombstone
    <3> HIDE DEF R, R2, U
    <3> QED
      BY <1>2, <1>7, <1>8, <2>1, <3>1, <3>2
  <2>2. CASE entry.state = "absent"
    <3>1. R2 = 1
      BY <1>2, <1>5, <2>2, NoRowsAhead DEF IsLive, RegistryInv
    <3> HIDE DEF R, R2, U
    <3> QED
      BY <1>2, <1>7, <2>2, <3>1 DEF IsLive
  <2>3. CASE IsTombstone(entry)
    <3>1. R2 = 1
      BY <1>2, <1>5, <2>3, NoRowsAhead DEF IsLive, IsTombstone, RegistryInv
    <3>2. /\ R <= entry.tombstone_holders
          /\ (entry.tombstone_holders - R) + entry.stale_release_credits <= U
      BY <2>3 DEF RegistryInv, GuardSlots, PlainLedger, Holders, IsTombstone
    <3> HIDE DEF R, R2, U
    <3> QED
      BY <1>2, <1>7, <1>8, <2>3, <3>1, <3>2 DEF IsLive, IsTombstone, Monus
  <2> QED
    BY <1>8, <2>1, <2>2, <2>3 DEF EntryStates, IsLive, IsTombstone
<1>10. Holders(entry') = entry'.count
  BY <1>2 DEF Holders, IsLive, IsTombstone
<1>11. GuardSlots' /\ PlainLedger'
  BY <1>6, <1>9, <1>10 DEF GuardSlots, PlainLedger, GuardRefsAt, Rows, Outstanding
<1> QED
  BY <1>2, <1>4, <1>11 DEF RegistryInv

\* A teardown publishes for the entry's own lifetime only, and only when it was live.
LEMMA TearDownTerminals ==
    ASSUME TypeOK, EntryOK, NEW r, TearDown(r)
    PROVE  /\ \/ terminals' = terminals
              \/ /\ IsLive(entry) /\ r.remaining = 0
                 /\ terminals' = [terminals EXCEPT ![entry.generation] = @ + 1]
           /\ IsLive(entry) /\ r.remaining = 0 =>
                 terminals' = [terminals EXCEPT ![entry.generation] = @ + 1]
<1>1. entry.state \in EntryStates
  BY DEF TypeOK, Entries
<1>2. CASE entry.state = "absent" \/ r.remaining # 0
  BY <1>2 DEF TearDown, IsLive, IsTombstone
<1>3. CASE IsTombstone(entry) /\ r.remaining = 0
  BY <1>3 DEF TearDown, IsLive, IsTombstone
<1>4. CASE IsLive(entry) /\ r.remaining = 0
  BY <1>4 DEF TearDown, IsLive, IsTombstone, Terminal
<1> QED
  BY <1>1, <1>2, <1>3, <1>4 DEF EntryStates, IsLive, IsTombstone

\* A release touches no holder's record upwards and no lifetime ahead.
LEMMA ReleasedPast ==
    ASSUME TypeOK, RegistryInv, NEW r, Released(r),
           \A g \in Guards : guard_refs'[g] \in {0, guard_refs[g]},
           \A c \in Calls : plain'[c] \in {0, plain[c]}
    PROVE  PastOnly'
<1>1. next_generation' = next_generation /\ ended' = ended /\ next_generation \in Nat
  BY DEF Released, TypeOK
<1>2. \A n \in Generations : n > next_generation => terminals'[n] = terminals[n]
  <2>1. \/ terminals' = terminals
        \/ /\ IsLive(entry)
           /\ terminals' = [terminals EXCEPT ![entry.generation] = @ + 1]
    BY TearDownTerminals DEF Released, RegistryInv
  <2>2. IsLive(entry) => entry.generation \in 1..next_generation
    BY DEF RegistryInv, EntryOK, IsLive
  <2>3. terminals \in [Generations -> Nat]
    BY DEF TypeOK
  <2>4. CASE terminals' = terminals
    BY <2>4
  <2>5. CASE IsLive(entry) /\ terminals' = [terminals EXCEPT ![entry.generation] = @ + 1]
    <3>1. \A n \in Generations : n > next_generation => n # entry.generation
      BY <1>1, <2>2, <2>5 DEF Generations
    <3> QED
      BY <2>3, <2>5, <3>1
  <2> QED
    BY <2>1, <2>4, <2>5
<1>3. /\ \A g \in Guards : guard_refs[g] \in Nat /\ guard_refs[g] <= next_generation
      /\ \A c \in Calls : plain[c] \in Nat /\ plain[c] <= next_generation
      /\ \A n \in ended : n <= next_generation
      /\ \A n \in Generations : n > next_generation => terminals[n] = 0
  BY DEF RegistryInv, PastOnly, TypeOK
<1> QED
  BY <1>1, <1>2, <1>3 DEF PastOnly

\* e2 is e with one dead-lifetime release paid from the credits.
OneCreditLess(e, e2) ==
    /\ e2.state = e.state
    /\ e2.generation = e.generation
    /\ e2.count = e.count
    /\ e2.tombstone_holders = e.tombstone_holders
    /\ e.stale_release_credits > 0
    /\ e2.stale_release_credits = e.stale_release_credits - 1

\* A plain release takes a credit, or a slot no guard stands for, or nothing.
LEMMA BareFacts ==
    ASSUME TypeOK, RegistryInv, NEW r, r = BareRelease(entry)
    PROVE  \/ /\ entry.state = "absent"
              /\ r.entry = entry /\ r.moved = 0
           \/ /\ entry.state # "absent" /\ Holders(entry) = 1
              /\ GuardRefsAt(entry.generation) = 0
              /\ r.entry = NoEntry /\ r.remaining = 0 /\ r.moved = 1
           \/ /\ entry.state # "absent" /\ OneSlotLess(entry, r.entry)
              /\ GuardRefsAt(entry.generation) < Holders(entry)
              /\ IsLive(entry) => r.remaining # 0 /\ r.moved = 1
              /\ IsTombstone(entry) => r.moved = 0
           \/ /\ entry.state # "absent" /\ OneCreditLess(entry, r.entry)
              /\ r.remaining = entry.count /\ r.moved = 0
           \/ /\ entry.state # "absent" /\ r.entry = entry
              /\ entry.stale_release_credits = 0
              /\ GuardRefsAt(entry.generation) = Holders(entry)
              /\ r.remaining = entry.count /\ r.moved = 0
<1> DEFINE R == GuardRefsAt(entry.generation)
<1>1. /\ entry.count \in Nat /\ entry.tombstone_holders \in Nat
      /\ entry.stale_release_credits \in Nat /\ Holders(entry) \in Nat /\ R \in Nat
  BY Counts DEF TypeOK, Entries, Holders
<1>2. entry.state # "absent" => R <= Holders(entry)
  BY DEF RegistryInv, GuardSlots
<1>3. BareSlots(entry) = Monus(Holders(entry), R)
  BY DEF BareSlots
<1> HIDE DEF R
<1>4. CASE entry.state = "absent"
  <2>1. r = ReleaseSlot(entry)
    BY <1>4 DEF BareRelease
  <2> QED
    BY <1>4, <2>1, SlotFacts DEF RegistryInv
<1>5. CASE entry.state # "absent" /\ entry.stale_release_credits > 0
  <2> DEFINE e2 == [entry EXCEPT !.stale_release_credits = @ - 1]
  <2>1. r = Kept(e2)
    BY <1>1, <1>5 DEF BareRelease
  <2>2. OneCreditLess(entry, e2)
    BY <1>5 DEF OneCreditLess, TypeOK, Entries
  <2>3. e2.count = entry.count
    BY <2>2 DEF OneCreditLess
  <2> HIDE DEF e2
  <2>4. r.entry = e2 /\ r.remaining = entry.count /\ r.moved = 0
    BY <2>1, <2>3 DEF Kept, Release
  <2> QED
    BY <1>5, <2>2, <2>4
<1>6. CASE entry.state # "absent" /\ entry.stale_release_credits = 0 /\ BareSlots(entry) = 0
  <2>1. r = Kept(entry)
    BY <1>6 DEF BareRelease
  <2>2. R = Holders(entry)
    BY <1>1, <1>2, <1>3, <1>6 DEF Monus
  <2> QED
    BY <1>6, <2>1, <2>2 DEF Kept, Release, R
<1>7. CASE entry.state # "absent" /\ entry.stale_release_credits = 0 /\ BareSlots(entry) # 0
  <2>1. r = ReleaseSlot(entry)
    BY <1>7 DEF BareRelease
  <2>2. R < Holders(entry)
    BY <1>1, <1>2, <1>3, <1>7 DEF Monus
  <2>3. Holders(entry) = 1 => R = 0
    BY <1>1, <2>2
  <2> QED
    BY <1>7, <2>1, <2>2, <2>3, SlotFacts DEF RegistryInv, R
<1> QED
  BY <1>1, <1>4, <1>5, <1>6, <1>7

\* The shape of the entry survives every outcome of a release.
LEMMA ReleasedShape ==
    ASSUME TypeOK, EntryOK, NEW r, Released(r),
           \/ r.entry = entry
           \/ r.entry = NoEntry
           \/ entry.state # "absent" /\ OneSlotLess(entry, r.entry)
           \/ entry.state # "absent" /\ OneCreditLess(entry, r.entry)
    PROVE  EntryOK'
<1>1. entry' = r.entry /\ next_generation' = next_generation /\ ended' = ended
  BY DEF Released
<1>2. CASE r.entry = entry
  BY <1>1, <1>2 DEF EntryOK
<1>3. CASE r.entry = NoEntry
  <2>1. entry' = NoEntry /\ entry'.state = "absent"
    BY <1>1, <1>3 DEF NoEntry
  <2> QED
    BY <2>1 DEF EntryOK, IsLive, IsTombstone
<1>4. CASE entry.state # "absent" /\ OneSlotLess(entry, r.entry)
  BY <1>1, <1>4 DEF EntryOK, OneSlotLess, IsLive, IsTombstone
<1>5. CASE entry.state # "absent" /\ OneCreditLess(entry, r.entry)
  BY <1>1, <1>5 DEF EntryOK, OneCreditLess, IsLive, IsTombstone
<1> QED
  BY <1>2, <1>3, <1>4, <1>5

\* A plain release preserves the ledgers, whether it is matched (the calls still
\* to be matched go down by one) or surplus (they stay).
LEMMA BareInv ==
    ASSUME TypeOK, RegistryInv, Released(BareRelease(entry)),
           guard_refs' = guard_refs,
           \A c \in Calls : plain'[c] \in {0, plain[c]},
           \/ plain' = plain
           \/ Cardinality({d \in Calls : plain'[d] # 0}) = Cardinality(Outstanding) - 1
              /\ Cardinality(Outstanding) >= 1
    PROVE  RegistryInv'
<1> DEFINE r  == BareRelease(entry)
           R  == GuardRefsAt(entry.generation)
           R2 == Cardinality({h \in Guards : guard_refs'[h] = entry'.generation})
           U  == Cardinality(Outstanding)
           U2 == Cardinality({d \in Calls : plain'[d] # 0})
<1>1. PastOnly'
  BY ReleasedPast
<1>2. EntryOK'
  BY BareFacts, ReleasedShape DEF RegistryInv
<1>3. entry' = r.entry
  BY DEF Released
<1>4. R2 = GuardRefsAt(entry'.generation)
  BY DEF GuardRefsAt, Rows
<1>5. /\ R \in Nat /\ U \in Nat /\ Holders(entry) \in Nat /\ entry.stale_release_credits \in Nat
  BY Counts DEF TypeOK, Entries, Holders
<1>6. U2 = U \/ (U2 = U - 1 /\ U >= 1)
  BY DEF Outstanding
<1>7. entry.state # "absent" =>
          R <= Holders(entry) /\ (Holders(entry) - R) + entry.stale_release_credits <= U
  BY DEF RegistryInv, GuardSlots, PlainLedger
<1>8. entry'.state # "absent" =>
          R2 <= Holders(entry') /\ (Holders(entry') - R2) + entry'.stale_release_credits <= U2
  <2>1. CASE entry.state = "absent" /\ r.entry = entry
    BY <1>3, <2>1
  <2>2. CASE r.entry = NoEntry
    BY <1>3, <2>2 DEF NoEntry
  <2>3. CASE /\ entry.state # "absent" /\ OneSlotLess(entry, r.entry)
             /\ R < Holders(entry)
    <3>1. /\ R2 = R /\ Holders(entry') = Holders(entry) - 1
          /\ entry'.stale_release_credits = entry.stale_release_credits
      BY <1>3, <1>4, <2>3 DEF OneSlotLess
    <3> HIDE DEF R, R2, U, U2, r
    <3> QED
      BY <1>5, <1>6, <1>7, <2>3, <3>1
  <2>4. CASE entry.state # "absent" /\ OneCreditLess(entry, r.entry)
    <3>1. /\ R2 = R /\ Holders(entry') = Holders(entry)
          /\ entry.stale_release_credits > 0
          /\ entry'.stale_release_credits = entry.stale_release_credits - 1
      BY <1>3, <1>4, <2>4 DEF OneCreditLess, Holders, IsTombstone
    <3> HIDE DEF R, R2, U, U2, r
    <3> QED
      BY <1>5, <1>6, <1>7, <2>4, <3>1
  <2>5. CASE /\ entry.state # "absent" /\ r.entry = entry
             /\ entry.stale_release_credits = 0 /\ R = Holders(entry)
    <3>1. R2 = R /\ entry' = entry
      BY <1>3, <1>4, <2>5
    <3> HIDE DEF R, R2, U, U2, r
    <3> QED
      BY <1>5, <1>6, <2>5, <3>1
  <2> QED
    BY <2>1, <2>2, <2>3, <2>4, <2>5, BareFacts
<1>9. GuardSlots' /\ PlainLedger'
  BY <1>8 DEF GuardSlots, PlainLedger, GuardRefsAt, Rows, Outstanding
<1> QED
  BY <1>1, <1>2, <1>9 DEF RegistryInv

\* A guard's drop takes the slot its row stood for, or nothing.
LEMMA GuardFacts ==
    ASSUME TypeOK, RegistryInv, NEW rec, NEW r, r = GuardRelease(entry, rec)
    PROVE  \/ /\ entry.state = "absent"
              /\ r.entry = entry /\ r.moved = 0
           \/ /\ entry.state # "absent" /\ rec # entry.generation
              /\ r.entry = entry /\ r.remaining = entry.count /\ r.moved = 0
           \/ /\ entry.state # "absent" /\ rec = entry.generation /\ Holders(entry) = 1
              /\ r.entry = NoEntry /\ r.remaining = 0 /\ r.moved = 1
           \/ /\ entry.state # "absent" /\ rec = entry.generation
              /\ OneSlotLess(entry, r.entry)
              /\ IsLive(entry) => r.remaining # 0 /\ r.moved = 1
              /\ IsTombstone(entry) => r.moved = 0
<1>1. CASE entry.state # "absent" /\ rec # entry.generation
  <2>1. r = Kept(entry)
    BY <1>1 DEF GuardRelease
  <2> QED
    BY <1>1, <2>1 DEF Kept, Release
<1>2. CASE ~(entry.state # "absent" /\ rec # entry.generation)
  <2>1. r = ReleaseSlot(entry)
    BY <1>2 DEF GuardRelease
  <2> QED
    BY <1>2, <2>1, SlotFacts DEF RegistryInv
<1> QED
  BY <1>1, <1>2

\* SubscriptionGuardDrop: the row and its slot go together.
LEMMA DropGuardInv ==
    ASSUME TypeOK, RegistryInv, NEW g \in Guards, DropGuard(g)
    PROVE  RegistryInv'
<1> DEFINE r  == GuardRelease(entry, guard_refs[g])
           R  == GuardRefsAt(entry.generation)
           R2 == Cardinality({h \in Guards : guard_refs'[h] = entry'.generation})
           U  == Cardinality(Outstanding)
<1>1. /\ Released(r) /\ plain' = plain /\ guard_refs[g] # 0
      /\ guard_refs' = [guard_refs EXCEPT ![g] = 0]
  BY DEF DropGuard
<1>2. PastOnly'
  <2>1. \A h \in Guards : guard_refs'[h] \in {0, guard_refs[h]}
    BY <1>1 DEF TypeOK
  <2>2. \A c \in Calls : plain'[c] \in {0, plain[c]}
    BY <1>1
  <2> QED
    BY <1>1, <2>1, <2>2, ReleasedPast
<1>3. EntryOK'
  BY <1>1, GuardFacts, ReleasedShape DEF RegistryInv
<1>4. entry' = r.entry
  BY <1>1 DEF Released
<1>5. {d \in Calls : plain'[d] # 0} = Outstanding
  BY <1>1 DEF Outstanding
<1>6. R \in Nat /\ U \in Nat /\ Holders(entry) \in Nat /\ entry.stale_release_credits \in Nat
  BY Counts DEF TypeOK, Entries, Holders
<1>7. entry.state # "absent" =>
          R <= Holders(entry) /\ (Holders(entry) - R) + entry.stale_release_credits <= U
  BY DEF RegistryInv, GuardSlots, PlainLedger
<1>8. entry.state # "absent" /\ entry'.generation = entry.generation =>
          R2 = IF guard_refs[g] = entry.generation THEN R - 1 ELSE R
  <2>1. entry.state # "absent" => entry.generation \in Nat \ {0}
    BY DEF RegistryInv, EntryOK, TypeOK
  <2> QED
    BY <1>1, <2>1, RowConsumed DEF TypeOK
<1>9. entry'.state # "absent" =>
          R2 <= Holders(entry') /\ (Holders(entry') - R2) + entry'.stale_release_credits <= U
  <2>1. CASE entry.state = "absent" /\ r.entry = entry
    BY <1>4, <2>1
  <2>2. CASE r.entry = NoEntry
    BY <1>4, <2>2 DEF NoEntry
  <2>3. CASE entry.state # "absent" /\ guard_refs[g] # entry.generation /\ r.entry = entry
    <3>1. R2 = R /\ entry' = entry
      BY <1>4, <1>8, <2>3
    <3> QED
      BY <1>7, <2>3, <3>1
  <2>4. CASE /\ entry.state # "absent" /\ guard_refs[g] = entry.generation
             /\ OneSlotLess(entry, r.entry)
    <3>1. /\ Holders(entry') = Holders(entry) - 1
          /\ entry'.generation = entry.generation
          /\ entry'.stale_release_credits = entry.stale_release_credits
      BY <1>4, <2>4 DEF OneSlotLess
    <3>2. R2 = R - 1
      BY <1>8, <2>4, <3>1
    <3> HIDE DEF R, R2, U, r
    <3> QED
      BY <1>6, <1>7, <2>4, <3>1, <3>2
  <2> QED
    BY <2>1, <2>2, <2>3, <2>4, GuardFacts
<1>10. GuardSlots' /\ PlainLedger'
  BY <1>5, <1>9 DEF GuardSlots, PlainLedger, GuardRefsAt, Rows, Outstanding
<1> QED
  BY <1>2, <1>3, <1>10 DEF RegistryInv

\* unsubscribe_all: with no entry there is nothing to account for.
LEMMA DeregisterAllInv ==
    ASSUME TypeOK, RegistryInv, DeregisterAll
    PROVE  RegistryInv'
<1> DEFINE r == Release(NoEntry, 0, 1)
<1>1. /\ entry' = NoEntry /\ entry'.state = "absent"
      /\ next_generation' = next_generation /\ guard_refs' = guard_refs
      /\ plain' = [c \in Calls |-> 0] /\ ended' = ended \union {entry.generation}
      /\ TearDown(r) /\ entry.state # "absent"
  BY DEF DeregisterAll, NoEntry
<1>2. next_generation \in Nat /\ entry.generation \in 1..next_generation
  BY <1>1 DEF TypeOK, RegistryInv, EntryOK
<1>3. \A n \in Generations : n > next_generation => terminals'[n] = terminals[n]
  <2>1. \/ terminals' = terminals
        \/ terminals' = [terminals EXCEPT ![entry.generation] = @ + 1]
    BY <1>1, TearDownTerminals DEF RegistryInv
  <2>2. terminals \in [Generations -> Nat]
    BY DEF TypeOK
  <2>3. \A n \in Generations : n > next_generation => n # entry.generation
    BY <1>2 DEF Generations
  <2> QED
    BY <2>1, <2>2, <2>3
<1>4. PastOnly'
  <2>1. \A n \in ended' : n <= next_generation'
    BY <1>1, <1>2 DEF RegistryInv, PastOnly
  <2>2. \A c \in Calls : plain'[c] <= next_generation'
    BY <1>1, <1>2
  <2>3. /\ \A g \in Guards : guard_refs'[g] <= next_generation'
        /\ \A n \in Generations : n > next_generation' => terminals'[n] = 0
    BY <1>1, <1>3 DEF RegistryInv, PastOnly
  <2> QED
    BY <2>1, <2>2, <2>3 DEF PastOnly
<1>5. EntryOK' /\ GuardSlots' /\ PlainLedger'
  BY <1>1 DEF EntryOK, GuardSlots, PlainLedger, IsLive, IsTombstone
<1> QED
  BY <1>4, <1>5 DEF RegistryInv

\* note_terminated turns the live holders into the tombstone's.
LEMMA SubRejectInv ==
    ASSUME TypeOK, RegistryInv, SubReject
    PROVE  RegistryInv'
<1>1. guard_refs' = guard_refs /\ next_generation' = next_generation /\ plain' = plain
  BY DEF SubReject
<1>2. CASE RejectConsumed(Head(in))
  <2>1. entry' = entry /\ terminals' = terminals /\ ended' = ended
    BY <1>2 DEF RejectConsumed
  <2> QED
    BY <1>1, <2>1 DEF RegistryInv, EntryOK, PastOnly, GuardSlots, PlainLedger, GuardRefsAt,
                      Rows, Outstanding
<1>3. CASE RejectTerminates(Head(in))
  <2>1. /\ IsLive(entry)
        /\ entry' = [entry EXCEPT !.state = "terminated",
                                  !.tombstone_holders = entry.count, !.count = 0]
        /\ terminals' = [terminals EXCEPT ![entry.generation] = @ + 1]
        /\ ended' = ended \union {entry.generation}
    BY <1>3 DEF RejectTerminates, NoteTerminated, Terminal
  <2>2. /\ entry'.state = "terminated"
        /\ entry'.tombstone_holders = entry.count
        /\ entry'.count = 0
        /\ entry'.generation = entry.generation
        /\ entry'.stale_release_credits = entry.stale_release_credits
    BY <2>1 DEF TypeOK, Entries
  <2>3. /\ entry.state # "absent" /\ entry.generation \in 1..next_generation
        /\ entry.count >= 1 /\ next_generation \in Nat /\ Holders(entry) = entry.count
    BY <2>1 DEF RegistryInv, EntryOK, IsLive, TypeOK, Holders, IsTombstone
  <2>4. EntryOK'
    BY <1>1, <2>1, <2>2, <2>3 DEF EntryOK, IsLive, IsTombstone
  <2>5. PastOnly'
    <3>1. \A n \in Generations : n > next_generation => n # entry.generation
      BY <2>3 DEF Generations
    <3>2. terminals \in [Generations -> Nat]
      BY DEF TypeOK
    <3>3. \A n \in Generations : n > next_generation' => terminals'[n] = 0
      BY <1>1, <2>1, <3>1, <3>2 DEF RegistryInv, PastOnly
    <3>4. \A n \in ended' : n <= next_generation'
      BY <1>1, <2>1, <2>3 DEF RegistryInv, PastOnly
    <3> QED
      BY <1>1, <3>3, <3>4 DEF RegistryInv, PastOnly
  <2>6. Holders(entry') = Holders(entry)
    BY <2>2, <2>3 DEF Holders, IsTombstone
  <2>7. GuardSlots' /\ PlainLedger'
    BY <1>1, <2>2, <2>3, <2>6
    DEF RegistryInv, GuardSlots, PlainLedger, GuardRefsAt, Rows, Outstanding
  <2> QED
    BY <2>4, <2>5, <2>7 DEF RegistryInv
<1> QED
  BY <1>2, <1>3 DEF SubReject

\* note_acked changes no counter, and the other wire steps no registry state.
LEMMA WireInv ==
    ASSUME TypeOK, RegistryInv, Server \/ SubAck \/ Disconnect \/ Reconnect \/ UNCHANGED vars
    PROVE  RegistryInv'
<1>1. /\ guard_refs' = guard_refs /\ next_generation' = next_generation /\ plain' = plain
      /\ terminals' = terminals /\ ended' = ended
      /\ \/ entry' = entry
         \/ entry.state = "pending" /\ entry' = [entry EXCEPT !.state = "acked"]
  BY DEF Server, SubAck, Disconnect, Reconnect, vars
<1>2. CASE entry' = entry
  BY <1>1, <1>2 DEF RegistryInv, EntryOK, PastOnly, GuardSlots, PlainLedger, GuardRefsAt,
                    Rows, Outstanding
<1>3. CASE entry.state = "pending" /\ entry' = [entry EXCEPT !.state = "acked"]
  <2>1. /\ entry'.state = "acked"
        /\ entry'.tombstone_holders = entry.tombstone_holders
        /\ entry'.count = entry.count
        /\ entry'.generation = entry.generation
        /\ entry'.stale_release_credits = entry.stale_release_credits
    BY <1>3 DEF TypeOK, Entries
  <2>2. Holders(entry') = Holders(entry)
    BY <1>3, <2>1 DEF Holders, IsTombstone
  <2>3. EntryOK'
    BY <1>1, <1>3, <2>1 DEF RegistryInv, EntryOK, IsLive, IsTombstone
  <2>4. PastOnly'
    BY <1>1 DEF RegistryInv, PastOnly
  <2>5. GuardSlots' /\ PlainLedger'
    BY <1>1, <1>3, <2>1, <2>2
    DEF RegistryInv, GuardSlots, PlainLedger, GuardRefsAt, Rows, Outstanding
  <2> QED
    BY <2>3, <2>4, <2>5 DEF RegistryInv
<1> QED
  BY <1>1, <1>2, <1>3

----------------------------------------------------------------------------
(* Type correctness and the ledgers. *)

\* The steps of callers preserve the types.
LEMMA CallerTypes ==
    ASSUME TypeOK, RegistryInv, CallerNext
    PROVE  TypeOK'
<1>1. EntryOK
  BY DEF RegistryInv
<1>2. ASSUME NEW c \in Calls, Subscribe(c) PROVE TypeOK'
  <2>1. Register(FALSE) /\ plain' = [plain EXCEPT ![c] = entry'.generation]
        /\ guard_refs' = guard_refs
    BY <1>2 DEF Subscribe
  <2>2. /\ entry' \in Entries /\ next_generation' \in 0..MaxGen /\ mirror' \in EntryStates
        /\ hint' \in BOOLEAN /\ armed' \in BOOLEAN /\ out' \in Seq(Frames)
    BY <1>1, <2>1, RegisterType
  <2>3. plain' \in [Calls -> Nat]
    BY <2>1, <2>2 DEF TypeOK, Entries
  <2>4. UNCHANGED <<up, in, streaming, terminals, ended>>
    BY <2>1 DEF Register
  <2> QED
    BY <2>1, <2>2, <2>3, <2>4 DEF TypeOK
<1>3. ASSUME NEW g \in Guards, SubscribeGuarded(g) PROVE TypeOK'
  <2>1. Register(TRUE) /\ guard_refs' = [guard_refs EXCEPT ![g] = entry'.generation]
        /\ plain' = plain
    BY <1>3 DEF SubscribeGuarded
  <2>2. /\ entry' \in Entries /\ next_generation' \in 0..MaxGen /\ mirror' \in EntryStates
        /\ hint' \in BOOLEAN /\ armed' \in BOOLEAN /\ out' \in Seq(Frames)
    BY <1>1, <2>1, RegisterType
  <2>3. guard_refs' \in [Guards -> Nat]
    BY <2>1, <2>2 DEF TypeOK, Entries
  <2>4. UNCHANGED <<up, in, streaming, terminals, ended>>
    BY <2>1 DEF Register
  <2> QED
    BY <2>1, <2>2, <2>3, <2>4 DEF TypeOK
<1>4. ASSUME NEW r, r.entry \in Entries, Released(r),
             plain' \in [Calls -> Nat], guard_refs' \in [Guards -> Nat]
      PROVE  TypeOK'
  <2>1. /\ entry' \in Entries /\ mirror' \in EntryStates /\ hint' \in BOOLEAN
        /\ armed' \in BOOLEAN /\ out' \in Seq(Frames)
        /\ terminals' \in [Generations -> Nat]
    BY <1>1, <1>4, ReleasedType
  <2>2. UNCHANGED <<next_generation, up, in, streaming, ended>>
    BY <1>4 DEF Released
  <2> QED
    BY <1>4, <2>1, <2>2 DEF TypeOK
<1>5. entry \in Entries /\ plain \in [Calls -> Nat] /\ guard_refs \in [Guards -> Nat]
  BY DEF TypeOK
<1>6. BareRelease(entry).entry \in Entries
  BY <1>5, ReleaseType
<1>7. ASSUME NEW c \in Calls, Unsubscribe(c) PROVE TypeOK'
  BY <1>4, <1>5, <1>6, <1>7 DEF Unsubscribe
<1>8. CASE UnsubscribeSurplus
  BY <1>4, <1>5, <1>6, <1>8 DEF UnsubscribeSurplus
<1>9. ASSUME NEW g \in Guards, DropGuard(g) PROVE TypeOK'
  <2>1. GuardRelease(entry, guard_refs[g]).entry \in Entries
    BY <1>5, ReleaseType
  <2> QED
    BY <1>4, <1>5, <1>9, <2>1 DEF DropGuard
<1>10. CASE DeregisterAll
  <2>1. /\ TearDown(Release(NoEntry, 0, 1)) /\ entry' = NoEntry /\ mirror' = "absent"
        /\ hint' = IsLive(NoEntry) /\ plain' = [c \in Calls |-> 0]
        /\ ended' = ended \union {entry.generation}
        /\ UNCHANGED <<guard_refs, next_generation, up, in, streaming>>
        /\ entry.state # "absent"
    BY <1>10 DEF DeregisterAll, SyncHint
  <2>2. armed' \in BOOLEAN /\ out' \in Seq(Frames) /\ terminals' \in [Generations -> Nat]
    BY <1>1, <2>1, TearDownType
  <2>3. hint' \in BOOLEAN
    BY <2>1 DEF IsLive
  <2>4. entry' \in Entries /\ mirror' \in EntryStates
    BY <2>1 DEF NoEntry, Entries, EntryStates
  <2>5. ended' \subseteq Generations
    BY <1>1, <2>1, PresentGeneration DEF TypeOK
  <2> QED
    BY <2>1, <2>2, <2>3, <2>4, <2>5 DEF TypeOK
<1> QED
  BY <1>2, <1>3, <1>7, <1>8, <1>9, <1>10 DEF CallerNext

\* The steps of the wire preserve the types.
LEMMA WireTypes ==
    ASSUME TypeOK, RegistryInv, WireNext
    PROVE  TypeOK'
<1>1. EntryOK /\ entry.generation \in Nat /\ in \in Seq(Answers) /\ out \in Seq(Frames)
  BY DEF RegistryInv, TypeOK, Entries
<1>2. in # <<>> => Tail(in) \in Seq(Answers) /\ Head(in) \in Answers
  BY <1>1, HeadTailProperties
<1>3. out # <<>> => Tail(out) \in Seq(Frames) /\ Head(out) \in Frames
  BY <1>1, HeadTailProperties
<1>4. CASE Server
  <2>1. out # <<>> /\ out' = Tail(out)
    BY <1>4 DEF Server, ServerSubscribes, ServerRefuses, ServerUnsubscribes
  <2>2. Head(out).generation \in Nat
    BY <1>3, <2>1 DEF Frames
  <2>3. in' \in Seq(Answers) /\ streaming' \in BOOLEAN
    <3>1. CASE ServerSubscribes
      <4>1. [kind |-> "ack", generation |-> Head(out).generation, named |-> TRUE] \in Answers
        BY <2>2 DEF Answers
      <4> QED
        BY <1>1, <3>1, <4>1, AppendProperties DEF ServerSubscribes
    <3>2. CASE ServerRefuses
      <4>1. PICK named \in Named :
               in' = Append(in, [kind |-> "reject", generation |-> Head(out).generation,
                                 named |-> named])
        BY <3>2 DEF ServerRefuses
      <4>2. [kind |-> "reject", generation |-> Head(out).generation, named |-> named] \in Answers
        BY <2>2, RegistryAssumption DEF Answers
      <4>3. in' \in Seq(Answers)
        BY <1>1, <4>1, <4>2, AppendProperties
      <4> QED
        BY <3>2, <4>3 DEF ServerRefuses, TypeOK
    <3>3. CASE ServerUnsubscribes
      BY <1>1, <3>3 DEF ServerUnsubscribes
    <3> QED
      BY <1>4, <3>1, <3>2, <3>3 DEF Server
  <2>4. UNCHANGED <<entry, guard_refs, next_generation, mirror, hint, up, armed, plain,
                    terminals, ended>>
    BY <1>4 DEF Server
  <2> QED
    BY <1>3, <2>1, <2>3, <2>4 DEF TypeOK
<1>5. CASE SubAck
  <2>1. /\ in # <<>> /\ in' = Tail(in) /\ armed' = FALSE
        /\ UNCHANGED <<guard_refs, next_generation, hint, up, out, streaming, plain, terminals,
                       ended>>
        /\ entry' = entry \/ entry' = [entry EXCEPT !.state = "acked"]
        /\ mirror' = mirror \/ mirror' = "acked"
    BY <1>5 DEF SubAck
  <2>2. entry' \in Entries /\ mirror' \in EntryStates
    BY <2>1 DEF TypeOK, Entries, EntryStates
  <2> QED
    BY <1>2, <2>1, <2>2 DEF TypeOK
<1>6. CASE SubReject
  <2>1. /\ in # <<>> /\ in' = Tail(in)
        /\ UNCHANGED <<guard_refs, next_generation, up, out, streaming, plain>>
    BY <1>6 DEF SubReject
  <2>2. CASE RejectConsumed(Head(in))
    BY <1>2, <2>1, <2>2 DEF RejectConsumed, TypeOK
  <2>3. CASE RejectTerminates(Head(in))
    <3>1. /\ IsLive(entry)
          /\ entry' = [entry EXCEPT !.state = "terminated",
                                    !.tombstone_holders = entry.count, !.count = 0]
          /\ mirror' = "terminated" /\ armed' = FALSE
          /\ hint' = IsLive(entry')
          /\ terminals' = [terminals EXCEPT ![entry.generation] = @ + 1]
          /\ ended' = ended \union {entry.generation}
      BY <2>3 DEF RejectTerminates, NoteTerminated, Terminal, SyncHint
    <3>2. entry.generation \in Generations
      BY <1>1, <3>1, PresentGeneration DEF IsLive
    <3>3. entry' \in Entries /\ mirror' \in EntryStates
      BY <3>1 DEF TypeOK, Entries, EntryStates
    <3>4. terminals' \in [Generations -> Nat] /\ ended' \subseteq Generations
      BY <3>1, <3>2 DEF TypeOK
    <3>5. hint' \in BOOLEAN
      BY <3>1 DEF IsLive
    <3> QED
      BY <1>2, <2>1, <3>1, <3>3, <3>4, <3>5 DEF TypeOK
  <2> QED
    BY <1>6, <2>2, <2>3 DEF SubReject
<1>7. CASE Disconnect
  <2>1. <<>> \in Seq(Frames) /\ <<>> \in Seq(Answers)
    OBVIOUS
  <2> QED
    BY <1>7, <2>1 DEF Disconnect, TypeOK
<1>8. CASE Reconnect
  <2>1. [kind |-> "subscribe", generation |-> entry.generation] \in Frames
    BY <1>1 DEF Frames
  <2>2. out' \in Seq(Frames)
    BY <1>8, <2>1 DEF Reconnect
  <2>3. armed' \in BOOLEAN /\ up' \in BOOLEAN
    BY <1>8 DEF Reconnect, IsLive
  <2>4. UNCHANGED <<entry, guard_refs, next_generation, mirror, hint, in, streaming, plain,
                    terminals, ended>>
    BY <1>8 DEF Reconnect
  <2> QED
    BY <2>2, <2>3, <2>4 DEF TypeOK
<1> QED
  BY <1>4, <1>5, <1>6, <1>7, <1>8 DEF WireNext

\* The counters of an empty registry balance.
LEMMA InitInv == Init => TypeOK /\ RegistryInv
<1> SUFFICES ASSUME Init PROVE TypeOK /\ RegistryInv
  OBVIOUS
<1>1. entry = NoEntry /\ entry.state = "absent"
  BY DEF Init, NoEntry
<1>2. NoEntry \in Entries /\ "absent" \in EntryStates
  BY DEF NoEntry, Entries, EntryStates
<1>3. <<>> \in Seq(Frames) /\ <<>> \in Seq(Answers)
  OBVIOUS
<1>4. TypeOK
  <2>1. guard_refs \in [Guards -> Nat] /\ plain \in [Calls -> Nat] /\ terminals \in [Generations -> Nat]
    BY DEF Init
  <2>2. next_generation \in 0..MaxGen
    BY RegistryAssumption DEF Init
  <2>3. hint \in BOOLEAN /\ up \in BOOLEAN /\ armed \in BOOLEAN /\ streaming \in BOOLEAN
    BY DEF Init
  <2>4. entry \in Entries /\ mirror \in EntryStates /\ ended \subseteq Generations
    BY <1>1, <1>2 DEF Init
  <2>5. out \in Seq(Frames) /\ in \in Seq(Answers)
    BY <1>3 DEF Init
  <2> QED
    BY <2>1, <2>2, <2>3, <2>4, <2>5 DEF TypeOK
<1>5. EntryOK /\ GuardSlots /\ PlainLedger
  BY <1>1 DEF EntryOK, GuardSlots, PlainLedger, IsLive, IsTombstone
<1>6. PastOnly
  BY DEF Init, PastOnly
<1> QED
  BY <1>4, <1>5, <1>6 DEF RegistryInv

\* Every step preserves the types and the ledgers.
LEMMA StepInv == TypeOK /\ RegistryInv /\ [Next]_vars => TypeOK' /\ RegistryInv'
<1> SUFFICES ASSUME TypeOK, RegistryInv, [Next]_vars PROVE TypeOK' /\ RegistryInv'
  OBVIOUS
<1>1. ASSUME NEW c \in Calls, Subscribe(c) PROVE RegistryInv'
  BY <1>1, SubscribeInv
<1>2. ASSUME NEW c \in Calls, Unsubscribe(c) PROVE RegistryInv'
  <2>1. /\ Released(BareRelease(entry)) /\ guard_refs' = guard_refs /\ plain[c] # 0
        /\ plain' = [plain EXCEPT ![c] = 0] /\ plain \in [Calls -> Nat]
    BY <1>2 DEF Unsubscribe, TypeOK
  <2>2. Cardinality({d \in Calls : plain'[d] # 0}) = Cardinality(Outstanding) - 1
    BY <2>1, CallMatched
  <2>3. Cardinality(Outstanding) >= 1
    <3>1. Outstanding # {}
      BY <2>1 DEF Outstanding
    <3>2. Cardinality(Outstanding) # 0
      BY <3>1, Counts, FS_EmptySet
    <3> QED
      BY <3>2, Counts
  <2>4. \A d \in Calls : plain'[d] \in {0, plain[d]}
    BY <2>1
  <2> QED
    BY <2>1, <2>2, <2>3, <2>4, BareInv
<1>3. ASSUME UnsubscribeSurplus PROVE RegistryInv'
  <2>1. Released(BareRelease(entry)) /\ guard_refs' = guard_refs /\ plain' = plain
    BY <1>3 DEF UnsubscribeSurplus
  <2>2. \A d \in Calls : plain'[d] \in {0, plain[d]}
    BY <2>1
  <2>3. \/ plain' = plain
        \/ Cardinality({d \in Calls : plain'[d] # 0}) = Cardinality(Outstanding) - 1
           /\ Cardinality(Outstanding) >= 1
    BY <2>1
  <2> QED
    BY <2>1, <2>2, <2>3, BareInv
<1>4. ASSUME NEW g \in Guards, SubscribeGuarded(g) PROVE RegistryInv'
  BY <1>4, SubscribeGuardedInv
<1>5. ASSUME NEW g \in Guards, DropGuard(g) PROVE RegistryInv'
  BY <1>5, DropGuardInv
<1>6. CallerNext => RegistryInv'
  BY <1>1, <1>2, <1>3, <1>4, <1>5, DeregisterAllInv DEF CallerNext
<1>7. WireNext => RegistryInv'
  BY SubRejectInv, WireInv DEF WireNext
<1>8. CASE UNCHANGED vars
  <2>1. TypeOK'
    BY <1>8 DEF vars, TypeOK
  <2> QED
    BY <1>8, <2>1, WireInv
<1>9. CASE CallerNext
  BY <1>6, <1>9, CallerTypes
<1>10. CASE WireNext
  BY <1>7, <1>10, WireTypes
<1> QED
  BY <1>8, <1>9, <1>10 DEF Next

\* The registry, its projections and its wire stay in their types: in particular no
\* counter of an entry ever wraps below zero, whatever is released.
THEOREM RegistryTypeCorrect == Spec => []TypeOK
  BY InitInv, StepInv, PTL DEF Spec

\* The refcount invariant: every guard ref of the entry's lifetime has a slot of its
\* own, and the remaining slots and credits are owed to plain calls.
THEOREM RegistryLedgers == Spec => []RegistryInv
  BY InitInv, StepInv, PTL DEF Spec

----------------------------------------------------------------------------
(* What a guard is promised. *)

\* A row of lifetime n is counted among the refs of n.
LEMMA RowCounted ==
    ASSUME NEW h \in Guards
    PROVE  GuardRefsAt(guard_refs[h]) # 0
<1>1. h \in Rows(guard_refs[h])
  BY DEF Rows
<1> QED
  BY <1>1, Counts, FS_EmptySet DEF GuardRefsAt

\* Whatever a plain release finds, a guarded live entry survives it.
LEMMA BareSpares ==
    ASSUME TypeOK, RegistryInv, Released(BareRelease(entry)), IsLive(entry),
           GuardRefsAt(entry.generation) # 0
    PROVE  IsLive(entry') /\ entry'.generation = entry.generation
<1>1. entry' = BareRelease(entry).entry
  BY DEF Released
<1>2. entry.state # "absent" /\ (entry.state \in EntryStates)
  BY DEF IsLive, TypeOK, Entries
<1>3. \/ OneSlotLess(entry, entry')
      \/ OneCreditLess(entry, entry')
      \/ entry' = entry
  BY <1>1, <1>2, BareFacts
<1> QED
  BY <1>3 DEF OneSlotLess, OneCreditLess, IsLive

\* A guard's drop takes the slot of its own row, so another row keeps the entry.
LEMMA DropSpares ==
    ASSUME TypeOK, RegistryInv, NEW g \in Guards, DropGuard(g),
           NEW h \in Guards, guard_refs'[h] = entry.generation, IsLive(entry)
    PROVE  IsLive(entry') /\ entry'.generation = entry.generation
<1> DEFINE r  == GuardRelease(entry, guard_refs[g])
           n  == entry.generation
           R2 == Cardinality({k \in Guards : guard_refs'[k] = n})
<1>1. /\ Released(r) /\ entry' = r.entry /\ guard_refs[g] # 0
      /\ guard_refs' = [guard_refs EXCEPT ![g] = 0] /\ guard_refs \in [Guards -> Nat]
  BY DEF DropGuard, Released, TypeOK
<1>2. entry.state # "absent" /\ n \in Nat \ {0} /\ GuardRefsAt(n) <= Holders(entry)
  BY DEF IsLive, RegistryInv, EntryOK, GuardSlots, TypeOK
<1>3. R2 = IF guard_refs[g] = n THEN GuardRefsAt(n) - 1 ELSE GuardRefsAt(n)
  BY <1>1, <1>2, RowConsumed
<1>4. R2 # 0
  <2>1. h \in {k \in Guards : guard_refs'[k] = n}
    OBVIOUS
  <2>2. IsFiniteSet({k \in Guards : guard_refs'[k] = n})
    <3>1. {k \in Guards : guard_refs'[k] = n} \in SUBSET Guards
      OBVIOUS
    <3> QED
      BY <3>1, RegistryAssumption, FS_Subset
  <2> QED
    BY <2>1, <2>2, FS_EmptySet
<1>5. ~(guard_refs[g] = n /\ Holders(entry) = 1)
  <2>1. GuardRefsAt(n) \in Nat /\ (guard_refs[g] = n => GuardRefsAt(n) # 0)
    BY Counts, RowCounted
  <2> HIDE DEF n, R2
  <2> QED
    BY <1>2, <1>3, <1>4, <2>1
<1>6. entry' = entry \/ OneSlotLess(entry, entry')
  BY <1>1, <1>2, <1>5, GuardFacts
<1> QED
  BY <1>6 DEF OneSlotLess, IsLive

\* Every step of a caller keeps the promise to the guards.
LEMMA CallerKeepsGuards ==
    ASSUME TypeOK, RegistryInv, GuardKeepsAlive, CallerNext
    PROVE  GuardKeepsAlive'
<1> SUFFICES ASSUME NEW h \in Guards, guard_refs'[h] # 0, guard_refs'[h] \notin ended'
             PROVE  IsLive(entry') /\ entry'.generation = guard_refs'[h]
  BY DEF GuardKeepsAlive
<1>1. guard_refs \in [Guards -> Nat]
  BY DEF TypeOK
<1>2. guard_refs'[h] = guard_refs[h] /\ ended' = ended =>
          IsLive(entry) /\ entry.generation = guard_refs[h]
  BY DEF GuardKeepsAlive
<1>3. ASSUME NEW c \in Calls, Subscribe(c)
      PROVE  IsLive(entry') /\ entry'.generation = guard_refs'[h]
  <2>1. Register(FALSE) /\ guard_refs' = guard_refs
    BY <1>3 DEF Subscribe
  <2> QED
    BY <1>2, <2>1, RegisterEntry
<1>4. ASSUME NEW g \in Guards, SubscribeGuarded(g)
      PROVE  IsLive(entry') /\ entry'.generation = guard_refs'[h]
  <2>1. Register(TRUE) /\ guard_refs' = [guard_refs EXCEPT ![g] = entry'.generation]
    BY <1>4 DEF SubscribeGuarded
  <2>2. CASE h = g
    BY <1>1, <2>1, <2>2, RegisterEntry
  <2>3. CASE h # g
    BY <1>1, <1>2, <2>1, <2>3, RegisterEntry
  <2> QED
    BY <2>2, <2>3
<1>5. ASSUME Released(BareRelease(entry)), guard_refs' = guard_refs
      PROVE  IsLive(entry') /\ entry'.generation = guard_refs'[h]
  <2>1. ended' = ended
    BY <1>5 DEF Released
  <2> QED
    BY <1>2, <1>5, <2>1, RowCounted, BareSpares
<1>6. ASSUME NEW g \in Guards, DropGuard(g)
      PROVE  IsLive(entry') /\ entry'.generation = guard_refs'[h]
  <2>1. ended' = ended /\ guard_refs' = [guard_refs EXCEPT ![g] = 0]
    BY <1>6 DEF DropGuard, Released
  <2>2. guard_refs'[h] = guard_refs[h]
    BY <1>1, <2>1
  <2> QED
    BY <1>2, <1>6, <2>1, <2>2, DropSpares
<1>7. CASE DeregisterAll
  <2>1. guard_refs' = guard_refs /\ ended' = ended \union {entry.generation}
    BY <1>7 DEF DeregisterAll
  <2> QED
    BY <2>1 DEF GuardKeepsAlive
<1> QED
  BY <1>3, <1>4, <1>5, <1>6, <1>7 DEF CallerNext, Unsubscribe, UnsubscribeSurplus

\* And so does every step of the wire: a reject ends the lifetime.
LEMMA WireKeepsGuards ==
    ASSUME TypeOK, RegistryInv, GuardKeepsAlive, WireNext \/ UNCHANGED vars
    PROVE  GuardKeepsAlive'
<1>1. CASE Server \/ SubAck \/ Disconnect \/ Reconnect \/ UNCHANGED vars
  <2>1. /\ guard_refs' = guard_refs /\ ended' = ended
        /\ \/ entry' = entry
           \/ entry.state = "pending" /\ entry' = [entry EXCEPT !.state = "acked"]
    BY <1>1 DEF Server, SubAck, Disconnect, Reconnect, vars
  <2>2. IsLive(entry) => IsLive(entry') /\ entry'.generation = entry.generation
    BY <2>1 DEF TypeOK, Entries, IsLive
  <2> QED
    BY <2>1, <2>2 DEF GuardKeepsAlive
<1>2. CASE SubReject
  <2>1. /\ guard_refs' = guard_refs
        /\ \/ entry' = entry /\ ended' = ended
           \/ ended' = ended \union {entry.generation}
    BY <1>2 DEF SubReject, RejectConsumed, RejectTerminates
  <2> QED
    BY <2>1 DEF GuardKeepsAlive
<1> QED
  BY <1>1, <1>2 DEF WireNext

\* A guard keeps its lifetime alive, whoever else unsubscribes: for any number of
\* guards and plain calls, and with surplus unsubscribes.
THEOREM GuardsAlwaysKeepAlive == Spec => []GuardKeepsAlive
<1>1. Init => GuardKeepsAlive
  BY DEF Init, GuardKeepsAlive
<1>2. TypeOK /\ RegistryInv /\ GuardKeepsAlive /\ [Next]_vars => GuardKeepsAlive'
  BY CallerKeepsGuards, WireKeepsGuards DEF Next
<1> QED
  BY <1>1, <1>2, RegistryTypeCorrect, RegistryLedgers, PTL DEF Spec

----------------------------------------------------------------------------
(* What the last release leaves. *)

\* No slot, credit or tombstone outlives the last holder of the entry's lifetime and
\* the last unmatched plain call: deregister_one has then removed the entry.
THEOREM NeverOrphaned == Spec => []NoOrphan
<1>1. TypeOK /\ RegistryInv => NoOrphan
  <2> SUFFICES ASSUME TypeOK, RegistryInv, \A c \in Calls : plain[c] = 0,
                      GuardRefsAt(entry.generation) = 0, entry.state # "absent"
               PROVE  FALSE
    BY DEF NoOrphan
  <2>1. Cardinality(Outstanding) = 0
    <3>1. Outstanding = {}
      BY DEF Outstanding
    <3> QED
      BY <3>1, FS_EmptySet
  <2>2. entry.state \in EntryStates /\ entry.stale_release_credits \in Nat
    BY DEF TypeOK, Entries
  <2>3. Holders(entry) >= 1 /\ Holders(entry) \in Nat
    BY <2>2 DEF RegistryInv, EntryOK, Holders, IsLive, IsTombstone, EntryStates, TypeOK, Entries
  <2>4. (Holders(entry) - 0) + entry.stale_release_credits <= 0
    BY <2>1 DEF RegistryInv, PlainLedger
  <2> QED
    BY <2>2, <2>3, <2>4
<1> QED
  BY <1>1, RegistryTypeCorrect, RegistryLedgers, PTL

----------------------------------------------------------------------------
(* Terminal events. *)

\* A step that publishes nothing, joins nobody and keeps the lifetime.
LEMMA TerminalKept ==
    ASSUME TypeOK, TerminalOnce, terminals' = terminals,
           \A c \in Calls : plain'[c] \in {0, plain[c]},
           \A g \in Guards : guard_refs'[g] \in {0, guard_refs[g]},
           IsLive(entry') <=> IsLive(entry),
           IsLive(entry) => entry'.generation = entry.generation
    PROVE  TerminalOnce'
<1> SUFFICES ASSUME NEW n \in Generations
             PROVE  /\ terminals'[n] <= 1
                    /\ IsLive(entry') /\ entry'.generation = n => terminals'[n] = 0
                    /\ terminals'[n] = 0 /\ Joined(n)' => IsLive(entry') /\ entry'.generation = n
  BY DEF TerminalOnce
<1>1. n # 0
  BY DEF Generations
<1>2. Joined(n)' => Joined(n)
  BY <1>1 DEF Joined
<1> QED
  BY <1>2 DEF TerminalOnce

\* A step that ends the live lifetime and publishes its terminal event.
LEMMA TerminalPublished ==
    ASSUME TypeOK, RegistryInv, TerminalOnce, IsLive(entry), ~IsLive(entry'),
           terminals' = [terminals EXCEPT ![entry.generation] = @ + 1],
           \A c \in Calls : plain'[c] \in {0, plain[c]},
           \A g \in Guards : guard_refs'[g] \in {0, guard_refs[g]}
    PROVE  TerminalOnce'
<1> SUFFICES ASSUME NEW n \in Generations
             PROVE  terminals'[n] <= 1 /\ ~(terminals'[n] = 0 /\ Joined(n)')
  BY DEF TerminalOnce
<1>1. n # 0 /\ terminals \in [Generations -> Nat]
  BY DEF Generations, TypeOK
<1>2. Joined(n)' => Joined(n)
  BY <1>1 DEF Joined
<1>3. CASE n = entry.generation
  <2>1. terminals[n] = 0
    BY <1>3 DEF TerminalOnce
  <2>2. terminals'[n] = 1
    BY <1>1, <1>3, <2>1
  <2> QED
    BY <2>2
<1>4. CASE n # entry.generation
  <2>1. terminals'[n] = terminals[n]
    BY <1>1, <1>4
  <2> QED
    BY <1>2, <1>4, <2>1 DEF TerminalOnce
<1> QED
  BY <1>3, <1>4

\* A registration publishes nothing; it starts a lifetime only when none is live, and
\* then every lifetime somebody still holds has had its event.
LEMMA TerminalRegister ==
    ASSUME TypeOK, RegistryInv, TerminalOnce, NEW b \in BOOLEAN, Register(b),
           \A c \in Calls : plain'[c] \in {plain[c], entry'.generation},
           \A g \in Guards : guard_refs'[g] \in {guard_refs[g], entry'.generation}
    PROVE  TerminalOnce'
<1>1. /\ terminals' = terminals /\ IsLive(entry')
      /\ IsLive(entry) => entry'.generation = entry.generation
      /\ ~IsLive(entry) => entry'.generation = next_generation + 1
  BY RegisterEntry
<1> SUFFICES ASSUME NEW n \in Generations
             PROVE  /\ terminals[n] <= 1
                    /\ entry'.generation = n => terminals[n] = 0
                    /\ terminals[n] = 0 /\ Joined(n)' => entry'.generation = n
  BY <1>1 DEF TerminalOnce
<1>2. Joined(n)' => Joined(n) \/ entry'.generation = n
  BY DEF Joined
<1>3. /\ terminals[n] <= 1
      /\ IsLive(entry) /\ entry.generation = n => terminals[n] = 0
      /\ terminals[n] = 0 /\ Joined(n) => IsLive(entry) /\ entry.generation = n
  BY DEF TerminalOnce
<1>4. ~IsLive(entry) /\ entry'.generation = n => terminals[n] = 0
  <2>1. next_generation \in Nat /\ (n > next_generation => terminals[n] = 0)
    BY DEF RegistryInv, PastOnly, TypeOK
  <2> QED
    BY <1>1, <2>1
<1> QED
  BY <1>1, <1>2, <1>3, <1>4

\* A release publishes exactly when it removes a live entry.
LEMMA TerminalReleased ==
    ASSUME TypeOK, RegistryInv, TerminalOnce, NEW r, Released(r),
           \A c \in Calls : plain'[c] \in {0, plain[c]},
           \A g \in Guards : guard_refs'[g] \in {0, guard_refs[g]},
           \/ entry.state = "absent" /\ r.entry = entry
           \/ entry.state # "absent" /\ r.entry = NoEntry /\ r.remaining = 0
           \/ /\ entry.state # "absent" /\ r.entry.state = entry.state
              /\ r.entry.generation = entry.generation
              /\ IsLive(entry) => r.remaining # 0
    PROVE  TerminalOnce'
<1>1. entry' = r.entry /\ TearDown(r) /\ EntryOK
  BY DEF Released, RegistryInv
<1>2. CASE IsLive(entry) /\ r.entry = NoEntry /\ r.remaining = 0
  <2>1. ~IsLive(entry')
    BY <1>1, <1>2 DEF IsLive, NoEntry
  <2>2. terminals' = [terminals EXCEPT ![entry.generation] = @ + 1]
    BY <1>1, <1>2, TearDownTerminals
  <2> QED
    BY <1>2, <2>1, <2>2, TerminalPublished
<1>3. CASE ~IsLive(entry)
  <2>1. terminals' = terminals
    BY <1>1, <1>3, TearDownTerminals
  <2>2. ~IsLive(entry')
    BY <1>1, <1>3 DEF IsLive, NoEntry
  <2> QED
    BY <1>3, <2>1, <2>2, TerminalKept
<1>4. CASE IsLive(entry) /\ r.remaining # 0 /\ r.entry.state = entry.state
           /\ r.entry.generation = entry.generation
  <2>1. terminals' = terminals
    BY <1>1, <1>4, TearDownTerminals
  <2>2. IsLive(entry') /\ entry'.generation = entry.generation
    BY <1>1, <1>4 DEF IsLive
  <2> QED
    BY <1>4, <2>1, <2>2, TerminalKept
<1> QED
  BY <1>2, <1>3, <1>4 DEF IsLive

\* Every lifetime publishes its terminal event once: the last release, the reject and
\* the forced teardown exclude each other, and a tombstone goes silently.
THEOREM TerminalsPublishedOnce == Spec => []TerminalOnce
<1>1. Init => TerminalOnce
  <2> SUFFICES ASSUME Init, NEW n \in Generations
               PROVE  terminals[n] = 0 /\ ~Joined(n) /\ ~IsLive(entry)
    BY DEF TerminalOnce
  <2>1. n # 0
    BY DEF Generations
  <2>2. ~IsLive(entry)
    BY DEF Init, NoEntry, IsLive
  <2> QED
    BY <2>1, <2>2 DEF Init, Joined
<1>2. TypeOK /\ RegistryInv /\ TerminalOnce /\ [Next]_vars => TerminalOnce'
  <2> SUFFICES ASSUME TypeOK, RegistryInv, TerminalOnce, [Next]_vars PROVE TerminalOnce'
    OBVIOUS
  <2>1. guard_refs \in [Guards -> Nat] /\ plain \in [Calls -> Nat]
    BY DEF TypeOK
  <2>2. ASSUME NEW c \in Calls, Subscribe(c) PROVE TerminalOnce'
    <3>1. /\ Register(FALSE) /\ guard_refs' = guard_refs
          /\ plain' = [plain EXCEPT ![c] = entry'.generation]
      BY <2>2 DEF Subscribe
    <3>2. /\ \A d \in Calls : plain'[d] \in {plain[d], entry'.generation}
          /\ \A g \in Guards : guard_refs'[g] \in {guard_refs[g], entry'.generation}
      BY <2>1, <3>1
    <3> QED
      BY <3>1, <3>2, TerminalRegister
  <2>3. ASSUME NEW g \in Guards, SubscribeGuarded(g) PROVE TerminalOnce'
    <3>1. /\ Register(TRUE) /\ plain' = plain
          /\ guard_refs' = [guard_refs EXCEPT ![g] = entry'.generation]
      BY <2>3 DEF SubscribeGuarded
    <3>2. /\ \A d \in Calls : plain'[d] \in {plain[d], entry'.generation}
          /\ \A h \in Guards : guard_refs'[h] \in {guard_refs[h], entry'.generation}
      BY <2>1, <3>1
    <3> QED
      BY <3>1, <3>2, TerminalRegister
  <2>4. ASSUME Released(BareRelease(entry)), guard_refs' = guard_refs,
               \A c \in Calls : plain'[c] \in {0, plain[c]}
        PROVE  TerminalOnce'
    <3> DEFINE r == BareRelease(entry)
    <3>1. \/ entry.state = "absent" /\ r.entry = entry
          \/ entry.state # "absent" /\ r.entry = NoEntry /\ r.remaining = 0
          \/ /\ entry.state # "absent" /\ r.entry.state = entry.state
             /\ r.entry.generation = entry.generation
             /\ IsLive(entry) => r.remaining # 0
      <4>1. IsLive(entry) => entry.count # 0
        BY DEF RegistryInv, EntryOK, TypeOK, Entries
      <4> QED
        BY <4>1, BareFacts DEF OneSlotLess, OneCreditLess
    <3>2. \A g \in Guards : guard_refs'[g] \in {0, guard_refs[g]}
      BY <2>4
    <3> HIDE DEF r
    <3> QED
      BY <2>4, <3>1, <3>2, TerminalReleased DEF r
  <2>5. ASSUME NEW g \in Guards, DropGuard(g) PROVE TerminalOnce'
    <3> DEFINE r == GuardRelease(entry, guard_refs[g])
    <3>1. \/ entry.state = "absent" /\ r.entry = entry
          \/ entry.state # "absent" /\ r.entry = NoEntry /\ r.remaining = 0
          \/ /\ entry.state # "absent" /\ r.entry.state = entry.state
             /\ r.entry.generation = entry.generation
             /\ IsLive(entry) => r.remaining # 0
      <4>1. IsLive(entry) => entry.count # 0
        BY DEF RegistryInv, EntryOK, TypeOK, Entries
      <4> QED
        BY <4>1, GuardFacts DEF OneSlotLess
    <3>2. /\ \A h \in Guards : guard_refs'[h] \in {0, guard_refs[h]}
          /\ \A c \in Calls : plain'[c] \in {0, plain[c]}
      BY <2>1, <2>5 DEF DropGuard
    <3>3. Released(r)
      BY <2>5 DEF DropGuard
    <3> HIDE DEF r
    <3> QED
      BY <3>1, <3>2, <3>3, TerminalReleased
  <2>6. ASSUME DeregisterAll PROVE TerminalOnce'
    <3> DEFINE r == Release(NoEntry, 0, 1)
    <3>1. /\ entry' = NoEntry /\ guard_refs' = guard_refs /\ TearDown(r) /\ r.remaining = 0
          /\ plain' = [c \in Calls |-> 0]
      BY <2>6 DEF DeregisterAll, Release
    <3>2. ~IsLive(entry')
      BY <3>1 DEF IsLive, NoEntry
    <3>3. /\ \A h \in Guards : guard_refs'[h] \in {0, guard_refs[h]}
          /\ \A c \in Calls : plain'[c] \in {0, plain[c]}
      BY <2>1, <3>1
    <3>4. IF IsLive(entry) THEN terminals' = [terminals EXCEPT ![entry.generation] = @ + 1]
                           ELSE terminals' = terminals
      BY <3>1, TearDownTerminals DEF RegistryInv
    <3> QED
      BY <3>2, <3>3, <3>4, TerminalPublished, TerminalKept
  <2>7. CallerNext => TerminalOnce'
    <3>1. ASSUME NEW c \in Calls, Unsubscribe(c) PROVE TerminalOnce'
      <4>1. /\ Released(BareRelease(entry)) /\ guard_refs' = guard_refs
            /\ plain' = [plain EXCEPT ![c] = 0]
        BY <3>1 DEF Unsubscribe
      <4>2. \A d \in Calls : plain'[d] \in {0, plain[d]}
        BY <2>1, <4>1
      <4> QED
        BY <2>4, <4>1, <4>2
    <3>2. ASSUME UnsubscribeSurplus PROVE TerminalOnce'
      BY <2>4, <3>2 DEF UnsubscribeSurplus
    <3> QED
      BY <2>2, <2>3, <2>5, <2>6, <3>1, <3>2 DEF CallerNext
  <2>8. ASSUME Server \/ SubAck \/ Disconnect \/ Reconnect \/ UNCHANGED vars PROVE TerminalOnce'
    <3>1. /\ guard_refs' = guard_refs /\ plain' = plain /\ terminals' = terminals
          /\ \/ entry' = entry
             \/ entry.state = "pending" /\ entry' = [entry EXCEPT !.state = "acked"]
      BY <2>8 DEF Server, SubAck, Disconnect, Reconnect, vars
    <3>2. /\ IsLive(entry') <=> IsLive(entry)
          /\ IsLive(entry) => entry'.generation = entry.generation
      BY <3>1 DEF TypeOK, Entries, IsLive
    <3> QED
      BY <3>1, <3>2, TerminalKept
  <2>9. ASSUME SubReject PROVE TerminalOnce'
    <3>1. guard_refs' = guard_refs /\ plain' = plain
      BY <2>9 DEF SubReject
    <3>2. CASE RejectConsumed(Head(in))
      <4>1. entry' = entry /\ terminals' = terminals
        BY <3>2 DEF RejectConsumed
      <4> QED
        BY <3>1, <4>1, TerminalKept
    <3>3. CASE RejectTerminates(Head(in))
      <4>1. /\ IsLive(entry) /\ entry'.state = "terminated"
            /\ terminals' = [terminals EXCEPT ![entry.generation] = @ + 1]
        BY <3>3 DEF RejectTerminates, NoteTerminated, Terminal, TypeOK, Entries
      <4>2. ~IsLive(entry')
        BY <4>1 DEF IsLive
      <4> QED
        BY <3>1, <4>1, <4>2, TerminalPublished
    <3> QED
      BY <2>9, <3>2, <3>3 DEF SubReject
  <2> QED
    BY <2>7, <2>8, <2>9 DEF Next, WireNext
<1> QED
  BY <1>1, <1>2, RegistryTypeCorrect, RegistryLedgers, PTL DEF Spec

----------------------------------------------------------------------------
(* What callers read, and what times a pending entry. *)

\* What a release does to the state of the entry: it stays, or the entry is gone
\* and the epoch moved; and the teardown runs for none that is still live.
LEMMA ReleaseStates ==
    ASSUME TypeOK, RegistryInv, NEW r,
           r = BareRelease(entry) \/ \E rec : r = GuardRelease(entry, rec)
    PROVE  /\ \/ r.entry.state = entry.state
              \/ r.entry.state = "absent" /\ r.moved = 1
           /\ IsLive(entry) /\ r.remaining = 0 => r.entry.state = "absent"
<1>1. \/ r.entry = entry /\ (entry.state = "absent" \/ r.remaining = entry.count)
      \/ r.entry = NoEntry /\ r.moved = 1
      \/ OneSlotLess(entry, r.entry) /\ (IsLive(entry) => r.remaining # 0)
      \/ OneCreditLess(entry, r.entry) /\ r.remaining = entry.count
  BY BareFacts, GuardFacts
<1>2. IsLive(entry) => entry.count # 0 /\ entry.state # "absent"
  BY DEF RegistryInv, EntryOK, TypeOK, Entries, IsLive
<1>3. NoEntry.state = "absent"
  BY DEF NoEntry
<1> QED
  BY <1>1, <1>2, <1>3 DEF OneSlotLess, OneCreditLess

\* A release keeps what callers read in step with the entry.
LEMMA ReleasedProjects ==
    ASSUME TypeOK, RegistryInv, ProjectionsAgree, NEW r, Released(r),
           r = BareRelease(entry) \/ \E rec : r = GuardRelease(entry, rec)
    PROVE  ProjectionsAgree'
<1>1. /\ entry' = r.entry
      /\ mirror' = IF r.entry.state = "absent" THEN "absent" ELSE mirror
      /\ hint' = IF r.moved > 0 THEN IsLive(r.entry) ELSE hint
  BY DEF Released, SyncHint
<1>2. CASE r.entry.state = "absent" /\ r.moved = 1
  BY <1>1, <1>2 DEF ProjectionsAgree
<1>3. CASE r.entry.state = entry.state
  BY <1>1, <1>3 DEF ProjectionsAgree, IsLive
<1> QED
  BY <1>2, <1>3, ReleaseStates

\* A release never leaves a pending entry without its timer.
LEMMA ReleasedTimes ==
    ASSUME TypeOK, RegistryInv, PendingIsTimed, NEW r, Released(r),
           r = BareRelease(entry) \/ \E rec : r = GuardRelease(entry, rec)
    PROVE  PendingIsTimed'
<1>1. entry' = r.entry /\ up' = up /\ TearDown(r)
  BY DEF Released
<1>2. CASE r.entry.state = "pending"
  <2>1. entry.state = "pending" /\ r.remaining # 0
    BY <1>2, ReleaseStates DEF IsLive
  <2>2. armed' = armed
    BY <1>1, <2>1 DEF TearDown, IsLive, IsTombstone
  <2> QED
    BY <1>1, <2>1, <2>2 DEF PendingIsTimed
<1>3. CASE r.entry.state # "pending"
  BY <1>1, <1>3 DEF PendingIsTimed
<1> QED
  BY <1>2, <1>3

\* register_one_and_emit projects the row and arms the timer on the 0 -> 1 edge,
\* which is every registration that makes the entry pending.
LEMMA RegisterProjects ==
    ASSUME TypeOK, RegistryInv, NEW b \in BOOLEAN, Register(b)
    PROVE  /\ ProjectionsAgree => ProjectionsAgree'
           /\ PendingIsTimed => PendingIsTimed'
<1>1. /\ IsLive(entry')
      /\ IsLive(entry) => entry'.count = entry.count + 1 /\ entry'.state = entry.state
      /\ ~IsLive(entry) => entry'.count = 1 /\ entry'.state = "pending"
  BY RegisterEntry
<1>2. IsLive(entry) => entry'.count # 1
  BY <1>1 DEF RegistryInv, EntryOK, TypeOK, Entries
<1>3. /\ mirror' = IF entry'.count = 1 THEN "pending" ELSE mirror
      /\ hint' = IsLive(entry')
      /\ entry'.count = 1 => armed' = up
      /\ entry'.count # 1 => armed' = armed
      /\ up' = up
  BY DEF Register, SyncHint
<1>4. CASE IsLive(entry)
  <2>1. entry'.state = entry.state /\ mirror' = mirror /\ armed' = armed
    BY <1>1, <1>2, <1>3, <1>4
  <2>2. ProjectionsAgree => ProjectionsAgree'
    BY <1>3, <2>1 DEF ProjectionsAgree
  <2> QED
    BY <1>3, <2>1, <2>2 DEF PendingIsTimed
<1>5. CASE ~IsLive(entry)
  BY <1>1, <1>3, <1>5 DEF ProjectionsAgree, PendingIsTimed
<1> QED
  BY <1>4, <1>5

\* The mirror row and the auth hint always say what the registry says, though each is
\* written by its own code: the mutators of the registry, the reactor's epoch check.
THEOREM ProjectionsAlwaysAgree == Spec => []ProjectionsAgree
<1>1. Init => ProjectionsAgree
  <2> SUFFICES ASSUME Init PROVE ProjectionsAgree
    OBVIOUS
  <2>1. entry.state = "absent" /\ mirror = "absent" /\ hint = FALSE
    BY DEF Init, NoEntry
  <2>2. IsLive(entry) = FALSE
    BY <2>1 DEF IsLive
  <2> QED
    BY <2>1, <2>2 DEF ProjectionsAgree
<1>2. TypeOK /\ RegistryInv /\ ProjectionsAgree /\ [Next]_vars => ProjectionsAgree'
  <2> SUFFICES ASSUME TypeOK, RegistryInv, ProjectionsAgree, [Next]_vars
               PROVE  ProjectionsAgree'
    OBVIOUS
  <2>1. ASSUME NEW c \in Calls, Subscribe(c) PROVE ProjectionsAgree'
    BY <2>1, RegisterProjects DEF Subscribe
  <2>2. ASSUME NEW g \in Guards, SubscribeGuarded(g) PROVE ProjectionsAgree'
    BY <2>2, RegisterProjects DEF SubscribeGuarded
  <2>3. ASSUME NEW c \in Calls, Unsubscribe(c) PROVE ProjectionsAgree'
    BY <2>3, ReleasedProjects DEF Unsubscribe
  <2>4. ASSUME NEW g \in Guards, DropGuard(g) PROVE ProjectionsAgree'
    BY <2>4, ReleasedProjects DEF DropGuard
  <2>5. CASE UnsubscribeSurplus
    BY <2>5, ReleasedProjects DEF UnsubscribeSurplus
  <2>6. CASE DeregisterAll
    BY <2>6 DEF DeregisterAll, SyncHint, ProjectionsAgree, NoEntry, IsLive
  <2>7. CASE Server \/ Disconnect \/ Reconnect \/ UNCHANGED vars
    BY <2>7 DEF Server, Disconnect, Reconnect, vars, ProjectionsAgree, IsLive
  <2>8. CASE SubAck
    <3>1. CASE armed /\ entry.state = "pending"
      <4>1. entry'.state = "acked" /\ mirror' = "acked" /\ hint' = hint
        BY <2>8, <3>1 DEF SubAck, TypeOK, Entries
      <4> QED
        BY <3>1, <4>1 DEF ProjectionsAgree, IsLive
    <3>2. CASE ~(armed /\ entry.state = "pending")
      <4>1. entry' = entry /\ mirror' = mirror /\ hint' = hint
        BY <2>8, <3>2 DEF SubAck
      <4> QED
        BY <4>1 DEF ProjectionsAgree, IsLive
    <3> QED
      BY <3>1, <3>2
  <2>9. CASE SubReject
    <3>1. CASE RejectTerminates(Head(in))
      <4>1. entry'.state = "terminated" /\ mirror' = "terminated"
        BY <3>1 DEF RejectTerminates, NoteTerminated, TypeOK, Entries
      <4>2. hint' = IsLive(entry')
        BY <3>1 DEF RejectTerminates, NoteTerminated, SyncHint
      <4> QED
        BY <4>1, <4>2 DEF ProjectionsAgree
    <3>2. CASE RejectConsumed(Head(in))
      BY <3>2 DEF RejectConsumed, ProjectionsAgree, IsLive
    <3> QED
      BY <2>9, <3>1, <3>2 DEF SubReject
  <2> QED
    BY <2>1, <2>2, <2>3, <2>4, <2>5, <2>6, <2>7, <2>8, <2>9 DEF Next, CallerNext, WireNext
<1> QED
  BY <1>1, <1>2, RegistryTypeCorrect, RegistryLedgers, PTL DEF Spec

\* A pending entry of a session has its ack timer, whatever answers of its earlier
\* lifetimes arrive: handle_sub_ack and the reject handler disarm it only when they
\* move the entry on.
THEOREM PendingIsAlwaysTimed == Spec => []PendingIsTimed
<1>1. Init => PendingIsTimed
  BY DEF Init, PendingIsTimed, NoEntry
<1>2. TypeOK /\ RegistryInv /\ PendingIsTimed /\ [Next]_vars => PendingIsTimed'
  <2> SUFFICES ASSUME TypeOK, RegistryInv, PendingIsTimed, [Next]_vars
               PROVE  PendingIsTimed'
    OBVIOUS
  <2>1. ASSUME NEW c \in Calls, Subscribe(c) PROVE PendingIsTimed'
    BY <2>1, RegisterProjects DEF Subscribe
  <2>2. ASSUME NEW g \in Guards, SubscribeGuarded(g) PROVE PendingIsTimed'
    BY <2>2, RegisterProjects DEF SubscribeGuarded
  <2>3. ASSUME NEW c \in Calls, Unsubscribe(c) PROVE PendingIsTimed'
    BY <2>3, ReleasedTimes DEF Unsubscribe
  <2>4. ASSUME NEW g \in Guards, DropGuard(g) PROVE PendingIsTimed'
    BY <2>4, ReleasedTimes DEF DropGuard
  <2>5. CASE UnsubscribeSurplus
    BY <2>5, ReleasedTimes DEF UnsubscribeSurplus
  <2>6. CASE DeregisterAll
    BY <2>6 DEF DeregisterAll, PendingIsTimed, NoEntry
  <2>7. CASE Server \/ Disconnect \/ UNCHANGED vars
    BY <2>7 DEF Server, Disconnect, vars, PendingIsTimed
  <2>8. CASE Reconnect
    BY <2>8 DEF Reconnect, PendingIsTimed, IsLive
  <2>9. CASE SubAck
    <3>1. up' = up /\ (entry'.state = "pending" => entry' = entry /\ ~armed)
      BY <2>9 DEF SubAck, TypeOK, Entries
    <3> QED
      BY <3>1 DEF PendingIsTimed
  <2>10. CASE SubReject
    <3>1. CASE RejectTerminates(Head(in))
      <4>1. entry'.state = "terminated"
        BY <3>1 DEF RejectTerminates, NoteTerminated, TypeOK, Entries
      <4> QED
        BY <4>1 DEF PendingIsTimed
    <3>2. CASE RejectConsumed(Head(in))
      BY <2>10, <3>2 DEF SubReject, RejectConsumed, PendingIsTimed
    <3> QED
      BY <2>10, <3>1, <3>2 DEF SubReject
  <2> QED
    BY <2>1, <2>2, <2>3, <2>4, <2>5, <2>6, <2>7, <2>8, <2>9, <2>10
       DEF Next, CallerNext, WireNext
<1> QED
  BY <1>1, <1>2, RegistryTypeCorrect, RegistryLedgers, PTL DEF Spec

=============================================================================
