--------------------------- MODULE RateLimitsProofs ---------------------------
(***************************************************************************)
(* Proofs about the connect-rate budget and the request trackers beside    *)
(* it, for every budget, window and set of connections, and for any        *)
(* threads, pairs, caps, decays and delays between reading the clock and   *)
(* taking the lock.  For the budget: attempts is always a suffix of the    *)
(* log, and what prune dropped from it is more than a window old.  For the *)
(* trackers: the counter, as it stands once Stale instants are allowed     *)
(* for, is compared with the exchange's own count of what was admitted.    *)
(***************************************************************************)
EXTENDS RateLimits, FiniteSetTheorems, SequenceTheorems, WellFoundedInduction, TLAPS

-----------------------------------------------------------------------------
(* The connect-rate budget.                                                *)

\* How many admitted attempts prune has dropped.
Dropped == Len(log) - Len(attempts)

\* The queue is the tail of the log, and the log is in order.
QueueIsTail ==
    /\ Dropped >= 0
    /\ \A i \in 1..Len(attempts) : attempts[i] = log[Dropped + i]

LogInOrder ==
    /\ \A i \in 1..Len(log) : log[i] <= now
    /\ \A i, j \in 1..Len(log) : i <= j => log[i] <= log[j]

\* A dropped attempt has left the window.
DroppedAreOld == \A i \in 1..Dropped : log[i] + Window < now

IInv ==
    /\ TypeOK
    /\ Len(attempts) <= Budget
    /\ QueueIsTail
    /\ LogInOrder
    /\ DroppedAreOld
    /\ WindowCap

----------------------------------------------------------------------------
\* Every set of naturals that is not empty has a least element.
LEMMA LeastNatural ==
    ASSUME NEW T, T \subseteq Nat, T # {}
    PROVE  \E x \in T : \A y \in T : x <= y
<1> DEFINE R == {ss \in Nat \X Nat : ss[1] < ss[2]}
<1>1. IsWellFoundedOn(R, Nat)
  BY NatLessThanWellFounded DEF OpToRel
<1> HIDE DEF R
<1>2. PICK x \in T : \A y \in T : ~(<<y, x>> \in R)
  BY <1>1, WFMin
<1>3. \A y \in T : ~(y < x)
  BY <1>2 DEF R
<1> QED  BY <1>3

\* prune stops: there is a first attempt to keep, or none is kept.
LEMMA KeptFromProperties ==
    ASSUME NEW q \in Seq(Instants), NEW cutoff \in Nat
    PROVE  /\ KeptFrom(q, cutoff) \in 1..Len(q) + 1
           /\ \A j \in 1..(KeptFrom(q, cutoff) - 1) : q[j] < cutoff
           /\ KeptFrom(q, cutoff) <= Len(q) => q[KeptFrom(q, cutoff)] >= cutoff
<1> USE BudgetAssumption
<1> DEFINE T == {i \in 1..Len(q) + 1 : i <= Len(q) => q[i] >= cutoff}
<1>1. T \subseteq Nat /\ Len(q) + 1 \in T
  OBVIOUS
<1>2. PICK i \in T : \A y \in T : i <= y
  BY <1>1, LeastNatural
<1>3. \A j \in 1..(i - 1) : q[j] < cutoff
  <2> TAKE j \in 1..(i - 1)
  <2>1. j \in 1..Len(q) /\ j \notin T
    BY <1>2
  <2>2. q[j] \in Nat
    BY <2>1, ElementOfSeq DEF Instants
  <2> QED  BY <2>1, <2>2
<1>4. \E x \in 1..Len(q) + 1 : /\ \A j \in 1..(x - 1) : q[j] < cutoff
                               /\ x <= Len(q) => q[x] >= cutoff
  BY <1>2, <1>3
<1> QED  BY <1>4 DEF KeptFrom

\* prune drops a prefix, all of it before the cutoff, and keeps the rest in order.
LEMMA PruneProperties ==
    ASSUME NEW q \in Seq(Instants), NEW t \in Instants
    PROVE  \E n \in 0..Len(q) :
               /\ Prune(q, t) \in Seq(Instants)
               /\ Len(Prune(q, t)) = Len(q) - n
               /\ \A i \in 1..Len(q) - n : Prune(q, t)[i] = q[n + i]
               /\ \A i \in 1..n : q[i] + Window < t
               /\ n < Len(q) => q[n + 1] + Window >= t
<1> USE BudgetAssumption
<1> DEFINE k == KeptFrom(q, Cutoff(t))
<1>1. Cutoff(t) \in Nat
  BY DEF Cutoff, Instants
<1>2. /\ k \in 1..Len(q) + 1
      /\ \A j \in 1..(k - 1) : q[j] < Cutoff(t)
      /\ k <= Len(q) => q[k] >= Cutoff(t)
  BY <1>1, KeptFromProperties
<1> HIDE DEF k
<1>3. \A i \in 1..Len(q) : q[i] \in Nat
  BY ElementOfSeq DEF Instants
<1>4. /\ \A j \in 1..(k - 1) : q[j] + Window < t
      /\ k <= Len(q) => q[k] + Window >= t
  BY <1>2, <1>3 DEF Cutoff, Instants
<1>5. /\ SubSeq(q, k, Len(q)) \in Seq(Instants)
      /\ Len(SubSeq(q, k, Len(q))) = Len(q) - (k - 1)
      /\ \A i \in 1..Len(q) - (k - 1) : SubSeq(q, k, Len(q))[i] = q[(k - 1) + i]
  BY <1>2, SubSeqProperties, ElementOfSeq
<1>6. Prune(q, t) = SubSeq(q, k, Len(q))
  BY DEF Prune, k
<1> DEFINE p == Prune(q, t)
           n == k - 1
<1>7. n \in 0..Len(q) /\ (n < Len(q) => k <= Len(q)) /\ n + 1 = k
  BY <1>2
<1>8. /\ p \in Seq(Instants)
      /\ Len(p) = Len(q) - n
      /\ \A i \in 1..Len(q) - n : p[i] = q[n + i]
  BY <1>5, <1>6
<1>9. /\ \A i \in 1..n : q[i] + Window < t
      /\ n < Len(q) => q[n + 1] + Window >= t
  BY <1>4, <1>7
<1> HIDE DEF n, p
<1>10. \E m \in 0..Len(q) :
               /\ p \in Seq(Instants)
               /\ Len(p) = Len(q) - m
               /\ \A i \in 1..Len(q) - m : p[i] = q[m + i]
               /\ \A i \in 1..m : q[i] + Window < t
               /\ m < Len(q) => q[m + 1] + Window >= t
  BY <1>7, <1>8, <1>9
<1> QED  BY <1>10 DEF p

----------------------------------------------------------------------------
\* try_consume keeps the invariant, whether it throttles or admits.
LEMMA TryConsumeInvariant ==
    ASSUME IInv, NEW c \in Conns, NEW d \in {Unarmed} \union Nat, TryConsume(c, d)
    PROVE  IInv'
<1> USE BudgetAssumption DEF Instants
<1> DEFINE q == Prune(attempts, now)
<1>1. /\ now \in Nat /\ now \in Instants /\ now' = now
      /\ attempts \in Seq(Instants) /\ log \in Seq(Instants)
      /\ Len(attempts) \in Nat /\ Len(log) \in Nat /\ Len(attempts) <= Budget
      /\ \A i \in 1..Len(log) : log[i] \in Nat
  BY ElementOfSeq, LenProperties DEF IInv, TypeOK, TryConsume
<1>2. PICK n \in 0..Len(attempts) :
          /\ q \in Seq(Instants)
          /\ Len(q) = Len(attempts) - n
          /\ \A i \in 1..Len(attempts) - n : q[i] = attempts[n + i]
          /\ \A i \in 1..n : attempts[i] + Window < now
  BY <1>1, PruneProperties
<1>3. /\ Len(q) \in Nat /\ Len(log) - Len(q) = Dropped + n /\ Dropped \in Nat
      /\ \A i \in 1..Len(q) : q[i] = log[Dropped + n + i]
      /\ \A i \in 1..Dropped + n : i \in 1..Len(log) /\ log[i] + Window < now
  <2>1. Dropped \in Nat /\ Len(q) \in Nat /\ Len(log) - Len(q) = Dropped + n
    BY <1>1, <1>2 DEF IInv, QueueIsTail, Dropped
  <2>2. \A i \in 1..Len(attempts) : attempts[i] = log[Dropped + i]
    BY DEF IInv, QueueIsTail
  <2>3. \A i \in 1..Dropped : log[i] + Window < now
    BY DEF IInv, DroppedAreOld
  <2>4. \A i \in 1..Len(q) : q[i] = log[Dropped + n + i]
    <3> TAKE i \in 1..Len(q)
    <3>1. /\ n + i \in 1..Len(attempts) /\ i \in 1..Len(attempts) - n
          /\ Dropped + (n + i) = Dropped + n + i
      BY <1>1, <1>2, <2>1
    <3>2. q[i] = attempts[n + i] /\ attempts[n + i] = log[Dropped + (n + i)]
      BY <1>2, <2>2, <3>1
    <3> QED  BY <3>1, <3>2
  <2>5. ASSUME NEW i \in 1..Dropped + n
        PROVE  i \in 1..Len(log) /\ log[i] + Window < now
    <3>1. CASE i <= Dropped
      BY <3>1, <1>1, <1>2, <2>1, <2>3
    <3>2. CASE i > Dropped
      <4>1. i - Dropped \in 1..n /\ i - Dropped \in 1..Len(attempts)
        BY <3>2, <1>1, <1>2, <2>1
      <4>2. attempts[i - Dropped] = log[i]
        BY <4>1, <2>1, <2>2
      <4>3. attempts[i - Dropped] + Window < now /\ i \in 1..Len(log)
        BY <4>1, <1>1, <1>2, <2>1, SMTT(30)
      <4> QED  BY <4>2, <4>3
    <3> QED  BY <3>1, <3>2, <2>1
  <2> QED  BY <2>1, <2>4, <2>5
<1> HIDE DEF q
<1>4. CASE Len(q) >= Budget /\ attempts' = q /\ due' = [due EXCEPT ![c] = ThrottleUntil(q)]
           /\ log' = log
  <2>1. ThrottleUntil(q) \in Nat
    <3>1. 1 \in 1..Len(q)
      BY <1>3, <1>4
    <3>2. q[1] \in Instants
      BY <1>2, <3>1, ElementOfSeq
    <3> QED  BY <3>2 DEF ThrottleUntil
  <2>2. TypeOK'
    BY <1>1, <1>2, <1>4, <2>1 DEF IInv, TypeOK
  <2>3. Dropped' = Dropped + n
    BY <1>3, <1>4 DEF Dropped
  <2>4. QueueIsTail' /\ DroppedAreOld'
    BY <1>1, <1>3, <1>4, <2>3 DEF QueueIsTail, DroppedAreOld
  <2>5. LogInOrder' /\ WindowCap'
    BY <1>1, <1>4 DEF IInv, LogInOrder, WindowCap
  <2> QED  BY <1>1, <1>2, <1>4, <2>2, <2>4, <2>5 DEF IInv
<1>5. CASE Len(q) < Budget /\ attempts' = Append(q, now) /\ due' = [due EXCEPT ![c] = d]
           /\ log' = Append(log, now)
  <2> DEFINE aq == Append(q, now)
             al == Append(log, now)
  <2>1. /\ aq \in Seq(Instants) /\ al \in Seq(Instants)
        /\ Len(aq) = Len(q) + 1 /\ Len(al) = Len(log) + 1
        /\ \A i \in 1..Len(q) : aq[i] = q[i]
        /\ \A i \in 1..Len(log) : al[i] = log[i]
        /\ aq[Len(q) + 1] = now /\ al[Len(log) + 1] = now
    BY <1>1, <1>2, AppendProperties
  <2>a. attempts' = aq /\ log' = al /\ Len(q) < Budget /\ due' = [due EXCEPT ![c] = d]
    BY <1>5
  <2> HIDE DEF aq, al
  <2>b. /\ Len(log) \in Nat /\ Len(q) \in Nat /\ n \in Nat /\ Dropped \in Nat
        /\ Len(log) - Len(q) = Dropped + n
        /\ Len(log') = Len(log) + 1 /\ Len(attempts') = Len(q) + 1
    <3>1. Len(log') = Len(log) + 1 /\ Len(attempts') = Len(q) + 1
      BY <2>1, <2>a
    <3> QED  BY <1>1, <1>2, <1>3, <3>1
  <2>2. TypeOK'
    BY <1>1, <2>a, <2>1 DEF IInv, TypeOK
  <2>3. Dropped' = Dropped + n
    <3>1. Dropped' = Len(log') - Len(attempts')
      BY DEF Dropped
    <3> QED  BY <2>b, <3>1
  <2>4. QueueIsTail'
    <3>1. ASSUME NEW i \in 1..Len(q) + 1
          PROVE  aq[i] = al[Dropped + n + i]
      <4>1. CASE i = Len(q) + 1
        <5>1. Dropped + n + i = Len(log) + 1
          BY <4>1, <2>b
        <5> QED  BY <4>1, <5>1, <2>1
      <4>2. CASE i \in 1..Len(q)
        <5>1. Dropped + n + i \in 1..Len(log)
          BY <4>2, <2>b
        <5>2. aq[i] = log[Dropped + n + i]
          BY <4>2, <1>3, <2>1
        <5> QED  BY <5>1, <5>2, <2>1
      <4> QED  BY <4>1, <4>2, <2>b
    <3> QED  BY <3>1, <2>a, <2>b, <2>3 DEF QueueIsTail
  <2>5. DroppedAreOld'
    BY <1>1, <1>2, <1>3, <2>a, <2>1, <2>3 DEF DroppedAreOld
  <2>6. LogInOrder'
    <3>1. \A i \in 1..Len(log) : log[i] <= now
      BY DEF IInv, LogInOrder
    <3>2. \A i, j \in 1..Len(log) : i <= j => log[i] <= log[j]
      BY DEF IInv, LogInOrder
    <3>3. ASSUME NEW i \in 1..Len(log) + 1 PROVE al[i] <= now
      <4>1. CASE i = Len(log) + 1
        BY <4>1, <1>1, <2>1
      <4>2. CASE i \in 1..Len(log)
        BY <4>2, <2>1, <3>1
      <4> QED  BY <4>1, <4>2, <2>b
    <3>4. ASSUME NEW i \in 1..Len(log) + 1, NEW j \in 1..Len(log) + 1, i <= j
          PROVE  al[i] <= al[j]
      <4>1. CASE j = Len(log) + 1
        BY <4>1, <2>1, <3>3
      <4>2. CASE j \in 1..Len(log)
        <5>1. i \in 1..Len(log)
          BY <4>2, <3>4, <2>b
        <5> QED  BY <4>2, <5>1, <2>1, <3>2, <3>4
      <4> QED  BY <4>1, <4>2, <2>b
    <3> QED  BY <3>3, <3>4, <1>1, <2>a, <2>b DEF LogInOrder
  <2>7. WindowCap'
    <3>1. ASSUME NEW i \in 1..Len(log) + 1, i + Budget <= Len(log) + 1
          PROVE  al[i + Budget] > al[i] + Window
      <4>1. i \in 1..Len(log)
        BY <2>b, <3>1
      <4>2. CASE i + Budget = Len(log) + 1
        <5>1. i \in 1..Dropped + n
          BY <2>a, <2>b, <4>1, <4>2
        <5>2. log[i] \in Nat /\ log[i] + Window < now
          BY <5>1, <4>1, <1>1, <1>3
        <5>3. al[i + Budget] = now /\ al[i] = log[i]
          BY <4>1, <4>2, <2>1
        <5> QED  BY <5>2, <5>3, <1>1
      <4>3. CASE i + Budget <= Len(log)
        <5>1. i + Budget \in 1..Len(log)
          BY <4>1, <4>3, <2>b
        <5>2. log[i + Budget] > log[i] + Window
          BY <4>1, <4>3 DEF IInv, WindowCap
        <5> QED  BY <4>1, <5>1, <5>2, <2>1
      <4> QED  BY <3>1, <4>2, <4>3, <2>b
    <3> QED  BY <3>1, <2>a, <2>b DEF WindowCap
  <2>8. Len(attempts') <= Budget
    BY <2>a, <2>b
  <2> QED  BY <2>2, <2>4, <2>5, <2>6, <2>7, <2>8 DEF IInv
<1> QED  BY <1>4, <1>5 DEF TryConsume, q

\* The invariant is inductive.
LEMMA BudgetInductive == IInv /\ [Next]_vars => IInv'
<1> SUFFICES ASSUME IInv, [Next]_vars PROVE IInv'
  OBVIOUS
<1> USE BudgetAssumption DEF Instants
<1>1. CASE Tick
  BY <1>1, LenProperties, ElementOfSeq
  DEF Tick, IInv, TypeOK, Dropped, QueueIsTail, LogInOrder, DroppedAreOld, WindowCap
<1>2. ASSUME NEW c \in Conns, Connect(c) PROVE IInv'
  <2>1. due[c] \in {Unarmed} \union Nat
    BY DEF IInv, TypeOK
  <2> QED  BY <1>2, <2>1, TryConsumeInvariant DEF Connect
<1>3. ASSUME NEW c \in Conns, WindowAdvanced(c) PROVE IInv'
  BY <1>3, TryConsumeInvariant DEF WindowAdvanced
<1>4. CASE UNCHANGED vars
  BY <1>4 DEF vars, IInv, TypeOK, Dropped, QueueIsTail, LogInOrder, DroppedAreOld, WindowCap
<1> QED  BY <1>1, <1>2, <1>3, <1>4 DEF Next

\* No window of the configured length ever holds more than Budget connect attempts
\* of the host, whatever the two connections do (try_consume, prune).
THEOREM WindowCapHolds == Spec => []WindowCap
<1>1. Init => IInv
  BY BudgetAssumption, EmptySeq
  DEF Init, Instants, IInv, TypeOK, Dropped, QueueIsTail, LogInOrder, DroppedAreOld, WindowCap
<1>2. IInv => WindowCap
  BY DEF IInv
<1> QED  BY <1>1, <1>2, BudgetInductive, PTL DEF Spec

----------------------------------------------------------------------------
\* While some timer is still to come, prune finds nothing to drop.
LEMMA SleeperKeepsQueue ==
    ASSUME IInv, NoNeedlessWait, NEW s \in Conns, due[s] >= now
    PROVE  LET q == Prune(attempts, now)
           IN  Len(q) = Budget /\ q[1] + Window = due[s]
<1> USE BudgetAssumption DEF Instants
<1> DEFINE q == Prune(attempts, now)
<1>1. Len(attempts) = Budget /\ attempts[1] + Window = due[s]
  BY DEF NoNeedlessWait
<1>2. attempts \in Seq(Instants) /\ now \in Instants /\ now \in Nat /\ due[s] \in Int
  BY DEF IInv, TypeOK, Unarmed
<1>3. PICK n \in 0..Len(attempts) :
          /\ Len(q) = Len(attempts) - n
          /\ \A i \in 1..Len(attempts) - n : q[i] = attempts[n + i]
          /\ \A i \in 1..n : attempts[i] + Window < now
  BY <1>2, PruneProperties
<1> HIDE DEF q
<1>4. n = 0
  <2> SUFFICES ASSUME n # 0 PROVE FALSE
    OBVIOUS
  <2>1. 1 \in 1..n
    BY <1>1, <1>3
  <2>2. attempts[1] + Window < now
    BY <1>3, <2>1
  <2> QED  BY <1>1, <1>2, <2>2
<1>5. Len(q) = Budget /\ q[1] = attempts[1]
  BY <1>1, <1>3, <1>4
<1> QED  BY <1>1, <1>5 DEF q

\* try_consume leaves every sleeper a reason to sleep.
LEMMA TryConsumeNoNeedlessWait ==
    ASSUME IInv, NoNeedlessWait, NEW c \in Conns, NEW d \in {Unarmed, due[c]}, TryConsume(c, d)
    PROVE  NoNeedlessWait'
<1> USE BudgetAssumption DEF Instants
<1> DEFINE q == Prune(attempts, now)
<1>1. /\ now \in Nat /\ now' = now /\ now \in Instants
      /\ due \in [Conns -> {Unarmed} \union Nat]
      /\ attempts \in Seq(Instants) /\ Len(attempts) \in Nat /\ Len(attempts) <= Budget
  BY LenProperties DEF IInv, TypeOK, TryConsume
<1>2. Len(q) \in Nat /\ Len(q) <= Budget
  <2>1. PICK n \in 0..Len(attempts) : q \in Seq(Instants) /\ Len(q) = Len(attempts) - n
    BY <1>1, PruneProperties
  <2> QED  BY <1>1, <2>1
<1>3. \A s \in Conns : due[s] >= now => Len(q) = Budget /\ q[1] + Window = due[s]
  BY SleeperKeepsQueue
<1> HIDE DEF q
<1>4. CASE Len(q) >= Budget /\ attempts' = q /\ due' = [due EXCEPT ![c] = ThrottleUntil(q)]
  <2>1. Len(q) = Budget
    BY <1>2, <1>4
  <2> SUFFICES ASSUME NEW s \in Conns, due'[s] >= now
               PROVE  Len(q) = Budget /\ q[1] + Window = due'[s]
    BY <1>1, <1>4 DEF NoNeedlessWait
  <2>2. CASE s = c
    BY <1>1, <1>4, <2>1, <2>2 DEF ThrottleUntil
  <2>3. CASE s # c
    BY <1>1, <1>3, <1>4, <2>1, <2>3
  <2> QED  BY <2>2, <2>3
<1>5. CASE Len(q) < Budget /\ due' = [due EXCEPT ![c] = d]
  <2>1. \A s \in Conns : ~(due[s] >= now)
    BY <1>2, <1>3, <1>5
  <2>2. \A s \in Conns : ~(due'[s] >= now)
    BY <1>1, <1>5, <2>1 DEF Unarmed
  <2> QED  BY <1>1, <2>2 DEF NoNeedlessWait
<1> QED  BY <1>4, <1>5 DEF TryConsume, q

\* A throttled connection never sleeps past the instant at which the shared window
\* frees a slot: the window stays full until exactly then (throttle_until_monotonic).
THEOREM NoNeedlessWaitHolds == Spec => []NoNeedlessWait
<1>1. Init => IInv /\ NoNeedlessWait
  BY BudgetAssumption, EmptySeq
  DEF Init, Instants, IInv, TypeOK, Dropped, QueueIsTail, LogInOrder, DroppedAreOld, WindowCap,
      NoNeedlessWait, Unarmed
<1>2. IInv /\ NoNeedlessWait /\ [Next]_vars => NoNeedlessWait'
  <2> SUFFICES ASSUME IInv, NoNeedlessWait, [Next]_vars PROVE NoNeedlessWait'
    OBVIOUS
  <2>1. CASE Tick
    BY <2>1, BudgetAssumption DEF Tick, IInv, TypeOK, Instants, Unarmed, NoNeedlessWait
  <2>2. ASSUME NEW c \in Conns, Connect(c) \/ WindowAdvanced(c) PROVE NoNeedlessWait'
    BY <2>2, TryConsumeNoNeedlessWait DEF Connect, WindowAdvanced
  <2>3. CASE UNCHANGED vars
    BY <2>3 DEF vars, NoNeedlessWait
  <2> QED  BY <2>1, <2>2, <2>3 DEF Next
<1> QED  BY <1>1, <1>2, BudgetInductive, PTL DEF Spec

-----------------------------------------------------------------------------
(* The trackers: the inductive invariant.                                  *)

\* An instant in a caller's hands is not from the future and not too old.
SamplesFresh ==
    /\ \A c \in Callers : sampled[c] # None => sampled[c] <= now /\ now - sampled[c] <= Stale
    /\ \A c \in Callers : owed[c] # None => sampled[c] # None

\* No counter is above its cap or ahead of the clock.
CountersFit == \A s \in Scopes : counter[s].current <= Cap[s] /\ counter[s].last <= now

\* A counter k of s, decayed up to now but for Stale instants, is not below l
\* but for u.
Covers(s, k, l, u) ==
    l <= u + AtLeastZero(k.current + Decay[s] * Stale - Decay[s] * (now - k.last))

LevelsCovered == \A s \in Scopes : Covers(s, counter[s], level[s], uncounted[s])

\* The API tracker vouches for all the exchange counts of the key.
ApiCounted == uncounted[Api] = 0

RateInv == RateTypeOK /\ SamplesFresh /\ CountersFit /\ LevelsCovered /\ ApiCounted

-----------------------------------------------------------------------------
(* Arithmetic.                                                             *)

LEMMA Distributes ==
    ASSUME NEW d \in Int, NEW a \in Int, NEW b \in Int
    PROVE  d * (a + b) = d * a + d * b
  OBVIOUS

LEMMA ProductType ==
    ASSUME NEW d \in Nat, NEW a \in Nat
    PROVE  d * a \in Nat
  OBVIOUS

LEMMA Monotone ==
    ASSUME NEW d \in Nat, NEW a \in Int, NEW b \in Int, a <= b
    PROVE  d * a \in Int /\ d * b \in Int /\ d * a <= d * b
  <1>1. d * (b - a) \in Nat
    BY ProductType
  <1>2. d * (a + (b - a)) = d * a + d * (b - a) /\ a + (b - a) = b
    BY Distributes
  <1> QED
    BY <1>1, <1>2

\* Rounded up, a quotient is enough and one less is not.
LEMMA RoundedUp ==
    ASSUME NEW m \in Nat, NEW d \in Nat \ {0}, NEW w, w = (m + d - 1) \div d
    PROVE  /\ w \in Nat
           /\ d * w >= m
           /\ w > 0 => d * (w - 1) < m
  OBVIOUS

-----------------------------------------------------------------------------
(* The LRU, the index and the prices.                                      *)

\* Taking an entry out leaves a sequence of the same things.
LEMMA WithoutType ==
    ASSUME NEW S, NEW q \in Seq(S), NEW P \in SUBSET DOMAIN q
    PROVE  Without(q, P) \in Seq(S)
  <1>1. CASE P = {}
    BY <1>1 DEF Without
  <1>2. CASE P # {}
    <2> DEFINE i == CHOOSE i \in P : \A j \in P : i <= j
    <2>1. DOMAIN q = 1..Len(q) /\ Len(q) \in Nat
      OBVIOUS
    <2>2. P \subseteq Nat
      BY <2>1
    <2>3. i \in P
      BY <1>2, <2>2, LeastNatural
    <2>4. Without(q, P) = SubSeq(q, 1, i - 1) \o SubSeq(q, i + 1, Len(q))
      BY <1>2 DEF Without, RemoveAt
    <2>5. i \in 1..Len(q)
      BY <2>1, <2>3
    <2> HIDE DEF i
    <2>6. SubSeq(q, 1, i - 1) \in Seq(S) /\ SubSeq(q, i + 1, Len(q)) \in Seq(S)
      BY <2>1, <2>5, SubSeqProperties
    <2> QED
      BY <2>4, <2>6, ConcatProperties
  <1> QED
    BY <1>1, <1>2

LEMMA PromoteType ==
    ASSUME NEW q \in Seq(Pairs), NEW p \in Pairs
    PROVE  Promote(q, p) \in Seq(Pairs) /\ Promote(q, p) # <<>>
  <1>1. Without(q, {i \in DOMAIN q : q[i] = p}) \in Seq(Pairs)
    BY WithoutType
  <1> QED
    BY <1>1, AppendProperties DEF Promote

Indexed == [id : Ids, pair : Pairs, sent : Nat]

LEMMA InsertType ==
    ASSUME index \in Seq(Indexed), NEW e \in Indexed
    PROVE  Insert(e) \in Seq(Indexed)
  <1> DEFINE q == Append(Without(index, Entry(e.id)), e)
  <1>1. Without(index, Entry(e.id)) \in Seq(Indexed)
    BY WithoutType DEF Entry
  <1>2. q \in Seq(Indexed) /\ q # <<>>
    BY <1>1, AppendProperties
  <1>3. Tail(q) \in Seq(Indexed)
    BY <1>2, HeadTailProperties
  <1> HIDE DEF q
  <1>4. Insert(e) \in {q, Tail(q)}
    BY DEF Insert, q
  <1> QED
    BY <1>2, <1>3, <1>4

\* The tracked pairs in some order.
LEMMA TrackedType ==
    ASSUME recency \in Seq(Pairs), NEW q \in SetToSeqs(Tracked)
    PROVE  q \in Seq(Pairs)
  <1> DEFINE D == 1..Len(recency)
  <1>1. DOMAIN recency = D /\ Len(recency) \in Nat /\ recency \in [D -> Pairs]
    OBVIOUS
  <1>2. Tracked \subseteq Pairs
    BY <1>1 DEF Tracked
  <1>3. recency \in Surjection(D, Tracked)
    BY <1>1 DEF Tracked, Surjection
  <1>4. IsFiniteSet(Tracked)
    BY <1>1, <1>3, FS_NatSurjection DEF ExistsSurjection
  <1>5. Cardinality(Tracked) \in Nat
    BY <1>4, FS_CardinalityType
  <1>6. q \in [1..Cardinality(Tracked) -> Tracked]
    BY DEF SetToSeqs
  <1> QED
    BY <1>2, <1>5, <1>6

\* Every operation has a price, whatever the age of its order.
LEMMA PriceType ==
    ASSUME NEW op \in {"AmendOrder", "CancelOrder"}, NEW age \in Nat
    PROVE  OrderAgeCost(op, age) \in Nat
  <1> DEFINE B == Brackets[op]
             under == {i \in DOMAIN B : age < B[i][1]}
  <1>1. Floor[op] \in Nat
    BY DEF Floor
  <1>2. CASE under = {}
    BY <1>1, <1>2 DEF OrderAgeCost
  <1>3. CASE under # {}
    <2> DEFINE i == CHOOSE i \in under : \A j \in under : i <= j
    <2>1. \A k \in DOMAIN B : k \in Nat /\ B[k][2] \in Nat
      <3>1. CASE op = "AmendOrder"
        <4>1. B = << <<5, 4>>, <<10, 3>>, <<15, 2>> >>
          BY <3>1 DEF Brackets
        <4> QED
          BY <4>1
      <3>2. CASE op = "CancelOrder"
        <4>1. B = << <<5, 8>>, <<10, 6>>, <<15, 5>>, <<45, 4>>, <<90, 2>>, <<300, 1>> >>
          BY <3>2 DEF Brackets
        <4> QED
          BY <4>1
      <3> QED
        BY <3>1, <3>2
    <2>2. under \subseteq Nat
      BY <2>1
    <2>3. i \in under
      BY <1>3, <2>2, LeastNatural
    <2>4. OrderAgeCost(op, age) = B[i][2]
      BY <1>3 DEF OrderAgeCost
    <2> QED
      BY <2>1, <2>3, <2>4
  <1> QED
    BY <1>2, <1>3

-----------------------------------------------------------------------------
(* Counters.                                                               *)

LEMMA PeekType ==
    ASSUME RateInv, NEW s \in Scopes, NEW t \in Nat
    PROVE  /\ PeekCurrent(s, t) \in Nat
           /\ PeekCurrent(s, t) <= counter[s].current /\ PeekCurrent(s, t) <= Cap[s]
           /\ Cap[s] \in Nat /\ Decay[s] \in Nat /\ counter[s].current \in Nat
           /\ counter[s].last \in Nat
  <1>1. /\ Cap[s] \in Nat /\ Decay[s] \in Nat /\ counter[s].current \in Nat
        /\ counter[s].last \in Nat /\ counter[s].current <= Cap[s]
    BY RateAssumption DEF RateInv, RateTypeOK, CountersFit
  <1>2. AtLeastZero(t - counter[s].last) \in Nat
    BY <1>1 DEF AtLeastZero
  <1>3. Decay[s] * AtLeastZero(t - counter[s].last) \in Nat
    BY <1>1, <1>2, ProductType
  <1> QED
    BY <1>1, <1>3 DEF PeekCurrent, AtLeastZero

\* What is not counted needs no counter.
LEMMA CoversNothing ==
    ASSUME RateInv, NEW s \in Scopes, NEW k \in [current : Nat, last : Nat],
           NEW l \in Nat, NEW u \in Nat, l <= u
    PROVE  Covers(s, k, l, u)
  <1>1. Decay[s] \in Nat /\ Stale \in Nat /\ now - k.last \in Int
    BY RateAssumption DEF RateInv, RateTypeOK
  <1>2. Decay[s] * Stale \in Int /\ Decay[s] * (now - k.last) \in Int
    BY <1>1
  <1> QED
    BY <1>2 DEF Covers, AtLeastZero

\* A counter that is left alone covers a level of which no more is counted.
LEMMA CoversSame ==
    ASSUME RateInv, NEW s \in Scopes, NEW l \in Nat, NEW u \in Nat,
           l - u <= level[s] - uncounted[s]
    PROVE  Covers(s, counter[s], l, u)
  <1> DEFINE z == Decay[s] * Stale
             y == Decay[s] * (now - counter[s].last)
  <1>1. /\ Decay[s] \in Nat /\ Stale \in Nat /\ now - counter[s].last \in Int
        /\ level[s] \in Nat /\ uncounted[s] \in Nat /\ counter[s].current \in Nat
    BY RateAssumption DEF RateInv, RateTypeOK
  <1>2. z \in Int /\ y \in Int
    BY <1>1
  <1>3. level[s] <= uncounted[s] + AtLeastZero(counter[s].current + z - y)
    BY DEF RateInv, LevelsCovered, Covers
  <1> HIDE DEF z, y
  <1>4. l <= u + AtLeastZero(counter[s].current + z - y)
    BY <1>1, <1>2, <1>3 DEF AtLeastZero
  <1> QED
    BY <1>4 DEF Covers, z, y

\* Every operation of a counter, charge, credit or snap, at an instant a caller
\* sampled, keeps it above a level that rose by no more than the counter: reading
\* the clock early costs at most what decays in Stale instants.
LEMMA TouchKeeps ==
    ASSUME RateInv, NEW c \in Callers, sampled[c] # None, NEW s \in Scopes,
           NEW n \in Nat, n <= Cap[s], NEW l \in Nat, NEW u \in Nat,
           l <= u \/ l - u <= level[s] - uncounted[s] + n - PeekCurrent(s, sampled[c]),
           NEW k, k = Touched(s, sampled[c], n)
    PROVE  /\ k \in [current : Nat, last : Nat]
           /\ k.current <= Cap[s] /\ k.last <= now
           /\ Covers(s, k, l, u)
  <1> DEFINE t == sampled[c]
             last == counter[s].last
             cur == counter[s].current
             pk == PeekCurrent(s, t)
             m == Later(t, last)
             slack == Decay[s] * Stale - Decay[s] * (now - m)
  <1>1. t \in Nat /\ t <= now /\ now - t <= Stale /\ now \in Nat /\ Stale \in Nat
    BY RateAssumption DEF RateInv, RateTypeOK, SamplesFresh
  <1>2. /\ last \in Nat /\ last <= now /\ cur \in Nat /\ Decay[s] \in Nat /\ Cap[s] \in Nat
        /\ level[s] \in Nat /\ uncounted[s] \in Nat
    BY <1>1, PeekType DEF RateInv, RateTypeOK, CountersFit
  <1>3. pk = AtLeastZero(cur - Decay[s] * AtLeastZero(t - last))
    BY DEF PeekCurrent
  <1>4. k = [current |-> n, last |-> m]
    BY DEF Touched
  <1>5. /\ pk \in Nat /\ m \in Nat /\ m <= now /\ slack \in Nat
        /\ level[s] <= uncounted[s] + AtLeastZero(cur + Decay[s] * Stale - Decay[s] * (now - last))
              => level[s] <= uncounted[s] + pk + slack
    <2> DEFINE d == Decay[s]
               x == d * (m - last)
               y == d * (now - m)
               z == d * Stale
    <2> HIDE DEF t, last, cur, pk, m, slack, d
    <2>1. /\ m \in Nat /\ m <= now /\ now - m <= Stale /\ m >= last
          /\ m - last = AtLeastZero(t - last) /\ d \in Nat
      BY <1>1, <1>2 DEF Later, AtLeastZero, m, d
    <2>2. y \in Int /\ z \in Int /\ y <= z
      BY <1>1, <2>1, Monotone
    <2>3. x \in Nat
      BY <1>2, <2>1, ProductType
    <2>4. d * (now - last) = y + x
      <3>1. now - last = (now - m) + (m - last) /\ now - m \in Int /\ m - last \in Int
        BY <1>1, <1>2, <2>1
      <3>2. d * ((now - m) + (m - last)) = y + x
        BY <2>1, <3>1, Distributes
      <3> QED
        BY <3>1, <3>2
    <2>5. pk = AtLeastZero(cur - x)
      BY <1>3, <2>1 DEF d
    <2>6. slack = z - y
      BY DEF slack, d
    <2> HIDE DEF x, y, z
    <2>7. AtLeastZero(cur + z - (y + x)) <= pk + slack /\ pk \in Nat /\ slack \in Nat
      BY <1>2, <2>2, <2>3, <2>5, <2>6 DEF AtLeastZero
    <2>8. cur + Decay[s] * Stale - Decay[s] * (now - last) = cur + z - (y + x)
      BY <2>4 DEF z, d
    <2>9. AtLeastZero(cur + z - (y + x)) \in Nat
      BY <1>2, <2>2, <2>3 DEF AtLeastZero
    <2> QED
      BY <1>2, <2>1, <2>7, <2>8, <2>9
  <1>6. level[s] <= uncounted[s] + pk + slack
    BY <1>5 DEF RateInv, LevelsCovered, Covers
  <1>7. l <= u + n + slack
    <2> HIDE DEF pk, slack, t, m, last, cur
    <2>1. l <= u \/ l - u <= level[s] - uncounted[s] + n - pk
      BY DEF pk, t
    <2> QED
      BY <1>2, <1>5, <1>6, <2>1
  <1>8. Covers(s, k, l, u)
    <2>1. k.current = n /\ k.last = m
      BY <1>4
    <2>2. /\ Decay[s] * Stale \in Int /\ Decay[s] * (now - m) \in Int
      BY <1>1, <1>2, <1>5
    <2>3. n + Decay[s] * Stale - Decay[s] * (now - m) = n + slack
      BY <2>2
    <2>4. AtLeastZero(n + slack) >= n + slack
      BY <1>5 DEF AtLeastZero
    <2> QED
      BY <1>5, <1>7, <2>1, <2>3, <2>4 DEF Covers, AtLeastZero
  <1> QED
    BY <1>4, <1>5, <1>8

\* Counters and levels that fit scope by scope.
LEMMA ScopesKeep ==
    ASSUME RateInv, UNCHANGED now,
           \A x \in Scopes : /\ counter'[x].current <= Cap[x]
                             /\ counter'[x].last <= now
                             /\ Covers(x, counter'[x], level'[x], uncounted'[x])
    PROVE  CountersFit' /\ LevelsCovered'
  BY DEF CountersFit, LevelsCovered, Covers, RateInv

LEMMA ForgetsType ==
    ASSUME RateInv, NEW s \in Scopes
    PROVE  Forgets(s) \subseteq Pairs /\ s \notin Forgets(s)
  <1>1. recency \in Seq(Pairs) /\ LruCap \in Nat \ {0}
    BY RateAssumption DEF RateInv, RateTypeOK
  <1>2. ASSUME Len(recency) >= LruCap
        PROVE  Head(recency) \in Pairs /\ Head(recency) \in Tracked
    <2>1. recency # <<>> /\ 1 \in DOMAIN recency /\ Head(recency) = recency[1]
      BY <1>1, <1>2
    <2> QED
      BY <1>1, <2>1 DEF Tracked
  <1> QED
    BY <1>2 DEF Forgets, Evicted

\* consume: the charged pair is promoted, the one that makes room forgotten.
LEMMA ConsumesKeeps ==
    ASSUME RateInv, NEW c \in Callers, sampled[c] # None, NEW s \in Scopes, NEW cost \in Nat,
           NEW n \in Nat, n <= Cap[s], n >= PeekCurrent(s, sampled[c]) + cost,
           Consumes(s, Touched(s, sampled[c], n)), Counted(s, cost), UNCHANGED now
    PROVE  /\ counter' \in [Scopes -> [current : Nat, last : Nat]]
           /\ recency' \in Seq(Pairs) /\ level' \in [Scopes -> Nat] /\ uncounted' \in [Scopes -> Nat]
           /\ ApiCounted' /\ CountersFit' /\ LevelsCovered'
  <1> DEFINE k == Touched(s, sampled[c], n)
  <1>1. /\ counter \in [Scopes -> [current : Nat, last : Nat]] /\ recency \in Seq(Pairs)
        /\ level \in [Scopes -> Nat] /\ uncounted \in [Scopes -> Nat] /\ now \in Nat
        /\ sampled[c] \in Nat
    BY DEF RateInv, RateTypeOK
  <1>2. Forgets(s) \subseteq Pairs /\ s \notin Forgets(s)
    BY ForgetsType
  <1>3. counter' = [x \in Scopes |-> IF x = s THEN k ELSE IF x \in Forgets(s) THEN Fresh ELSE counter[x]]
    BY DEF Consumes
  <1>4. /\ PeekCurrent(s, sampled[c]) \in Nat
        /\ \A x \in Scopes : Cap[x] \in Nat
    BY <1>1, PeekType
  <1>5. /\ level' \in [Scopes -> Nat] /\ uncounted' \in [Scopes -> Nat]
        /\ level'[s] = level[s] + cost /\ uncounted'[s] = uncounted[s]
        /\ \A x \in Scopes \ {s} : level'[x] = level[x]
        /\ \A x \in Scopes \ Forgets(s) : uncounted'[x] = uncounted[x]
        /\ \A x \in Forgets(s) : uncounted'[x] = level[x]
    BY <1>1, <1>2 DEF Counted, Scopes
  <1>6. level[s] \in Nat /\ uncounted[s] \in Nat
    BY <1>1
  <1>7. level'[s] - uncounted'[s] <= level[s] - uncounted[s] + n - PeekCurrent(s, sampled[c])
    BY <1>4, <1>5, <1>6
  <1> HIDE DEF k
  <1>8. /\ k \in [current : Nat, last : Nat]
        /\ k.current <= Cap[s] /\ k.last <= now
        /\ Covers(s, k, level'[s], uncounted'[s])
    <2>1. level'[s] \in Nat /\ uncounted'[s] \in Nat
      BY <1>5
    <2> QED
      BY <1>7, <2>1, TouchKeeps DEF k
  <1>9. Fresh \in [current : Nat, last : Nat] /\ Fresh.current = 0 /\ Fresh.last = 0
    BY DEF Fresh
  <1>10. counter' \in [Scopes -> [current : Nat, last : Nat]]
    BY <1>1, <1>3, <1>8, <1>9
  <1>11. ApiCounted'
    BY <1>2, <1>5, RateAssumption DEF RateInv, ApiCounted, Scopes
  <1>12. recency' \in Seq(Pairs)
    <2>1. CASE s = Api
      BY <1>1, <2>1 DEF Consumes
    <2>2. CASE s # Api
      <3>1. Promote(recency, s) \in Seq(Pairs) /\ Promote(recency, s) # <<>>
        BY <1>1, <2>2, PromoteType DEF Scopes
      <3>2. Tail(Promote(recency, s)) \in Seq(Pairs)
        BY <3>1, HeadTailProperties
      <3> QED
        BY <2>2, <3>1, <3>2 DEF Consumes
    <2> QED
      BY <2>1, <2>2
  <1>13. ASSUME NEW x \in Scopes
         PROVE  /\ counter'[x].current <= Cap[x]
                /\ counter'[x].last <= now
                /\ Covers(x, counter'[x], level'[x], uncounted'[x])
    <2>1. CASE x = s
      BY <1>3, <1>8, <2>1
    <2>2. CASE x # s /\ x \in Forgets(s)
      <3>1. counter'[x] = Fresh /\ level'[x] = level[x] /\ uncounted'[x] = level[x] /\ level[x] \in Nat
        BY <1>1, <1>3, <1>5, <2>2
      <3>2. Covers(x, Fresh, level[x], level[x])
        BY <1>9, <3>1, CoversNothing
      <3> QED
        BY <1>1, <1>4, <1>9, <3>1, <3>2
    <2>3. CASE x # s /\ x \notin Forgets(s)
      <3>1. counter'[x] = counter[x] /\ level'[x] = level[x] /\ uncounted'[x] = uncounted[x]
        BY <1>3, <1>5, <2>3
      <3> QED
        BY <3>1 DEF RateInv, CountersFit, LevelsCovered
    <2> QED
      BY <2>1, <2>2, <2>3
  <1>14. CountersFit' /\ LevelsCovered'
    BY <1>13, ScopesKeep
  <1> QED
    BY <1>5, <1>10, <1>11, <1>12, <1>14

-----------------------------------------------------------------------------
(* Every step keeps the invariant.                                         *)

\* A caller is done: its instant is given back.
LEMMA DoneKeeps ==
    ASSUME RateInv, NEW c \in Callers, Done(c), UNCHANGED now,
           \/ owed[c] = None /\ UNCHANGED owed
           \/ owed' = [owed EXCEPT ![c] = None]
    PROVE  /\ sampled' \in [Callers -> Nat \union {None}]
           /\ owed' \in [Callers -> [scope : Scopes, cost : Nat] \union {None}]
           /\ SamplesFresh'
  <1>1. /\ sampled \in [Callers -> Nat \union {None}]
        /\ owed \in [Callers -> [scope : Scopes, cost : Nat] \union {None}]
    BY DEF RateInv, RateTypeOK
  <1>2. sampled'[c] = None /\ \A d \in Callers \ {c} : sampled'[d] = sampled[d]
    BY <1>1 DEF Done
  <1>3. owed'[c] = None /\ \A d \in Callers \ {c} : owed'[d] = owed[d]
    BY <1>1
  <1>4. sampled' \in [Callers -> Nat \union {None}]
    BY <1>1 DEF Done
  <1>5. owed' \in [Callers -> [scope : Scopes, cost : Nat] \union {None}]
    BY <1>1
  <1> QED
    BY <1>2, <1>3, <1>4, <1>5 DEF RateInv, SamplesFresh

LEMMA TickKeeps ==
    ASSUME RateInv, RateTick
    PROVE  RateInv'
  <1>1. /\ now' = now + 1 /\ now \in Nat
        /\ level' = [s \in Scopes |-> AtLeastZero(level[s] - Decay[s])]
        /\ uncounted' = [s \in Scopes |-> Lesser(uncounted[s], level'[s])]
        /\ UNCHANGED <<counter, recency, index, sampled, owed>>
        /\ \A s \in Scopes : Decay[s] \in Nat /\ level[s] \in Nat /\ uncounted[s] \in Nat
        /\ \A s \in Scopes : counter[s].current \in Nat /\ counter[s].last \in Nat
        /\ Stale \in Nat
    BY RateAssumption DEF RateTick, Tick, RateInv, RateTypeOK
  <1>2. RateTypeOK'
    <2>1. level' \in [Scopes -> Nat]
      BY <1>1 DEF AtLeastZero
    <2>2. uncounted' \in [Scopes -> Nat]
      BY <1>1, <2>1 DEF Lesser
    <2> QED
      BY <1>1, <2>1, <2>2 DEF RateInv, RateTypeOK
  <1>3. SamplesFresh'
    BY <1>1 DEF RateInv, RateTypeOK, SamplesFresh, RateTick
  <1>4. CountersFit'
    BY <1>1 DEF RateInv, CountersFit
  <1>5. ASSUME NEW s \in Scopes
        PROVE  Covers(s, counter[s], level[s], uncounted[s])'
    <2> DEFINE d == Decay[s]
               z == d * Stale
               y == d * (now - counter[s].last)
    <2> HIDE DEF d
    <2>1. z \in Int /\ y \in Int /\ d \in Nat
      BY <1>1, <1>5 DEF d
    <2>2. d * (now' - counter[s].last) = y + d
      <3>0. counter[s].last \in Nat /\ now \in Nat /\ now' = now + 1
        BY <1>1
      <3>1. now' - counter[s].last = (now - counter[s].last) + 1 /\ now - counter[s].last \in Int
        BY <3>0
      <3>2. d * ((now - counter[s].last) + 1) = y + d * 1
        BY <2>1, <3>1, Distributes
      <3> QED
        BY <2>1, <3>1, <3>2
    <2>3. level[s] <= uncounted[s] + AtLeastZero(counter[s].current + z - y)
      BY <1>5 DEF RateInv, LevelsCovered, Covers, d
    <2> HIDE DEF y, z
    <2>4. AtLeastZero(level[s] - d) <= Lesser(uncounted[s], AtLeastZero(level[s] - d))
                                      + AtLeastZero(counter[s].current + z - (y + d))
      BY <1>1, <1>5, <2>1, <2>3 DEF AtLeastZero, Lesser
    <2>5. /\ level'[s] = AtLeastZero(level[s] - d) /\ counter'[s] = counter[s]
          /\ uncounted'[s] = Lesser(uncounted[s], AtLeastZero(level[s] - d))
      BY <1>1, <1>5 DEF d
    <2> QED
      BY <2>2, <2>4, <2>5 DEF Covers, d, z
  <1>6. LevelsCovered'
    BY <1>1, <1>5 DEF LevelsCovered
  <1>7. ApiCounted'
    <2>1. Api \in Scopes /\ level'[Api] \in Nat
      BY <1>2 DEF Scopes, RateTypeOK
    <2> QED
      BY <1>1, <2>1 DEF RateInv, ApiCounted, Lesser
  <1> QED
    BY <1>2, <1>3, <1>4, <1>6, <1>7 DEF RateInv

\* The budget has nothing to do with the trackers.
LEMMA BudgetKeeps ==
    ASSUME RateInv, UNCHANGED <<now, trackerVars>>
    PROVE  RateInv'
  BY DEF RateInv, RateTypeOK, SamplesFresh, CountersFit, LevelsCovered, Covers, ApiCounted, trackerVars

LEMMA AcceptedKeeps ==
    ASSUME RateInv, NEW id \in Ids, NEW p \in Pairs, NEW t \in 0..now, Accepted(id, p, t)
    PROVE  RateInv'
  <1>1. now \in Nat /\ t \in Nat /\ index \in Seq(Indexed)
    BY DEF RateInv, RateTypeOK, Indexed
  <1>2. [id |-> id, pair |-> p, sent |-> t] \in Indexed
    BY <1>1 DEF Indexed
  <1>3. index' \in Seq(Indexed)
    BY <1>1, <1>2, InsertType DEF Accepted
  <1>4. UNCHANGED <<now, counter, recency, sampled, owed, level, uncounted>>
    BY DEF Accepted
  <1>5. RateTypeOK'
    BY <1>3, <1>4 DEF RateInv, RateTypeOK, Indexed
  <1> QED
    BY <1>4, <1>5 DEF RateInv, SamplesFresh, CountersFit, LevelsCovered, Covers, ApiCounted

LEMMA SampleKeeps ==
    ASSUME RateInv, NEW c \in Callers, Sample(c)
    PROVE  RateInv'
  <1>1. /\ sampled \in [Callers -> Nat \union {None}] /\ now \in Nat /\ Stale \in Nat
        /\ sampled' = [sampled EXCEPT ![c] = now]
        /\ UNCHANGED <<now, counter, recency, index, owed, level, uncounted>>
    BY RateAssumption DEF RateInv, RateTypeOK, Sample
  <1>2. RateTypeOK'
    BY <1>1 DEF RateInv, RateTypeOK
  <1>3. SamplesFresh'
    BY <1>1, RateAssumption DEF RateInv, SamplesFresh
  <1> QED
    BY <1>1, <1>2, <1>3 DEF RateInv, CountersFit, LevelsCovered, Covers, ApiCounted

LEMMA PostWsKeeps ==
    ASSUME RateInv, NEW c \in Callers, PostWs(c)
    PROVE  RateInv'
  <1>1. UNCHANGED <<now, counter, recency, index, level, uncounted>>
    BY DEF PostWs
  <1>2. /\ sampled' \in [Callers -> Nat \union {None}]
        /\ owed' \in [Callers -> [scope : Scopes, cost : Nat] \union {None}]
        /\ SamplesFresh'
    BY DoneKeeps DEF PostWs
  <1> QED
    BY <1>1, <1>2 DEF RateInv, RateTypeOK, CountersFit, LevelsCovered, Covers, ApiCounted

\* A refund is a credit at the instant of the charge.
LEMMA RefundWsKeeps ==
    ASSUME RateInv, NEW c \in Callers, RefundWs(c)
    PROVE  RateInv'
  <1> DEFINE s == owed[c].scope
             cost == owed[c].cost
             pk == PeekCurrent(s, sampled[c])
             n == AtLeastZero(pk - cost)
             l == AtLeastZero(level[s] - cost)
             u == Lesser(uncounted[s], l)
             k == Touched(s, sampled[c], n)
  <1>1. /\ owed[c] # None /\ UNCHANGED <<now, recency, index>>
        /\ counter' = IF s \in Tracked THEN [counter EXCEPT ![s] = k] ELSE counter
        /\ level' = [level EXCEPT ![s] = l]
        /\ uncounted' = [uncounted EXCEPT ![s] = u]
    BY DEF RefundWs, Credited
  <1>2. /\ s \in Scopes /\ cost \in Nat /\ sampled[c] # None /\ sampled[c] \in Nat
        /\ level \in [Scopes -> Nat] /\ uncounted \in [Scopes -> Nat]
        /\ counter \in [Scopes -> [current : Nat, last : Nat]]
    BY <1>1 DEF RateInv, RateTypeOK, SamplesFresh
  <1>3. pk \in Nat /\ pk <= Cap[s] /\ Cap[s] \in Nat
    BY <1>2, PeekType
  <1>4. level[s] \in Nat /\ uncounted[s] \in Nat
    BY <1>2
  <1> HIDE DEF s, cost, pk
  <1>5. /\ n \in Nat /\ n <= Cap[s] /\ l \in Nat /\ u \in Nat
        /\ l <= u \/ l - u <= level[s] - uncounted[s] + n - pk
        /\ l - u <= level[s] - uncounted[s] \/ l <= u
    BY <1>2, <1>3, <1>4 DEF AtLeastZero, Lesser
  <1> HIDE DEF n, l, u, k
  <1>6. /\ k \in [current : Nat, last : Nat]
        /\ k.current <= Cap[s] /\ k.last <= now
        /\ Covers(s, k, l, u)
    BY <1>2, <1>5, TouchKeeps DEF k, pk
  <1>7. Covers(s, counter[s], l, u)
    <2>1. counter[s] \in [current : Nat, last : Nat]
      BY <1>2
    <2> QED
      BY <1>2, <1>5, <2>1, CoversSame, CoversNothing
  <1>8. CountersFit' /\ LevelsCovered'
    <2>1. ASSUME NEW x \in Scopes
          PROVE  /\ counter'[x].current <= Cap[x]
                 /\ counter'[x].last <= now
                 /\ Covers(x, counter'[x], level'[x], uncounted'[x])
      <3>1. CASE x = s
        <4>1. level'[x] = l /\ uncounted'[x] = u /\ (counter'[x] = k \/ counter'[x] = counter[x])
          BY <1>1, <1>2, <3>1
        <4> QED
          BY <1>6, <1>7, <3>1, <4>1 DEF RateInv, CountersFit
      <3>2. CASE x # s
        <4>1. counter'[x] = counter[x] /\ level'[x] = level[x] /\ uncounted'[x] = uncounted[x]
          BY <1>1, <1>2, <3>2
        <4> QED
          BY <4>1 DEF RateInv, CountersFit, LevelsCovered
      <3> QED
        BY <3>1, <3>2
    <2> QED
      BY <1>1, <2>1, ScopesKeep
  <1>9. /\ sampled' \in [Callers -> Nat \union {None}]
        /\ owed' \in [Callers -> [scope : Scopes, cost : Nat] \union {None}]
        /\ SamplesFresh'
    BY <1>1, DoneKeeps DEF RefundWs
  <1>10. /\ counter' \in [Scopes -> [current : Nat, last : Nat]]
         /\ level' \in [Scopes -> Nat] /\ uncounted' \in [Scopes -> Nat]
    BY <1>1, <1>2, <1>5, <1>6
  <1>11. ApiCounted'
    <2>1. uncounted[Api] = 0 /\ Api \in Scopes
      BY DEF RateInv, ApiCounted, Scopes
    <2>2. s = Api => u = 0
      BY <1>5, <2>1 DEF u, Lesser
    <2> QED
      BY <1>1, <1>2, <2>1, <2>2 DEF ApiCounted
  <1> QED
    BY <1>1, <1>8, <1>9, <1>10, <1>11 DEF RateInv, RateTypeOK

\* What Refuse, Admit, AdmitWs and Reprice leave of the types.
LEMMA ChargeKeeps ==
    ASSUME RateInv, NEW c \in Callers, Ready(c), UNCHANGED now,
           NEW s \in Scopes, NEW cost \in Nat, NEW n,
           \/ n = PeekCurrent(s, sampled[c]) + cost /\ Fits(s, sampled[c], cost)
           \/ n = PeekCurrent(s, sampled[c]) /\ cost = 0,
           Consumes(s, Touched(s, sampled[c], n)), Counted(s, cost)
    PROVE  /\ counter' \in [Scopes -> [current : Nat, last : Nat]]
           /\ recency' \in Seq(Pairs) /\ level' \in [Scopes -> Nat] /\ uncounted' \in [Scopes -> Nat]
           /\ ApiCounted' /\ CountersFit' /\ LevelsCovered'
  <1>1. sampled[c] # None /\ sampled[c] \in Nat
    BY DEF Ready, RateInv, RateTypeOK
  <1>2. /\ PeekCurrent(s, sampled[c]) \in Nat /\ PeekCurrent(s, sampled[c]) <= Cap[s]
        /\ Cap[s] \in Nat
    BY <1>1, PeekType
  <1>3. n \in Nat /\ n <= Cap[s] /\ n >= PeekCurrent(s, sampled[c]) + cost
    BY <1>2 DEF Fits
  <1> QED
    BY <1>1, <1>3, ConsumesKeeps

LEMMA RefuseKeeps ==
    ASSUME RateInv, NEW c \in Callers, NEW s \in Scopes, Refuse(c, s, 1)
    PROVE  RateInv'
  <1>1. /\ Ready(c) /\ UNCHANGED <<now, index, owed>> /\ owed[c] = None /\ Counted(s, 0)
        /\ Consumes(s, Touched(s, sampled[c], PeekCurrent(s, sampled[c])))
    BY DEF Refuse, Ready, Exceeded
  <1>2. /\ counter' \in [Scopes -> [current : Nat, last : Nat]]
        /\ recency' \in Seq(Pairs) /\ level' \in [Scopes -> Nat] /\ uncounted' \in [Scopes -> Nat]
        /\ ApiCounted' /\ CountersFit' /\ LevelsCovered'
    BY <1>1, ChargeKeeps
  <1>3. /\ sampled' \in [Callers -> Nat \union {None}]
        /\ owed' \in [Callers -> [scope : Scopes, cost : Nat] \union {None}]
        /\ SamplesFresh'
    BY <1>1, DoneKeeps DEF Refuse
  <1> QED
    BY <1>1, <1>2, <1>3 DEF RateInv, RateTypeOK

LEMMA AdmitKeeps ==
    ASSUME RateInv, NEW c \in Callers, NEW s \in Scopes, Admit(c, s, 1)
    PROVE  RateInv'
  <1>1. /\ Ready(c) /\ UNCHANGED <<now, index, owed>> /\ owed[c] = None /\ Counted(s, 1)
        /\ Consumes(s, Touched(s, sampled[c], PeekCurrent(s, sampled[c]) + 1))
        /\ Fits(s, sampled[c], 1)
    BY DEF Admit, Ready, Charged
  <1>2. /\ counter' \in [Scopes -> [current : Nat, last : Nat]]
        /\ recency' \in Seq(Pairs) /\ level' \in [Scopes -> Nat] /\ uncounted' \in [Scopes -> Nat]
        /\ ApiCounted' /\ CountersFit' /\ LevelsCovered'
    BY <1>1, ChargeKeeps
  <1>3. /\ sampled' \in [Callers -> Nat \union {None}]
        /\ owed' \in [Callers -> [scope : Scopes, cost : Nat] \union {None}]
        /\ SamplesFresh'
    BY <1>1, DoneKeeps DEF Admit
  <1> QED
    BY <1>1, <1>2, <1>3 DEF RateInv, RateTypeOK

LEMMA AdmitWsKeeps ==
    ASSUME RateInv, NEW c \in Callers, NEW s \in Scopes, AdmitWs(c, s, 1)
    PROVE  RateInv'
  <1>1. /\ Ready(c) /\ UNCHANGED <<now, index, sampled>> /\ Counted(s, 1)
        /\ Consumes(s, Touched(s, sampled[c], PeekCurrent(s, sampled[c]) + 1))
        /\ Fits(s, sampled[c], 1) /\ sampled[c] # None
        /\ owed' = [owed EXCEPT ![c] = [scope |-> s, cost |-> 1]]
    BY DEF AdmitWs, Ready, Charged
  <1>2. /\ counter' \in [Scopes -> [current : Nat, last : Nat]]
        /\ recency' \in Seq(Pairs) /\ level' \in [Scopes -> Nat] /\ uncounted' \in [Scopes -> Nat]
        /\ ApiCounted' /\ CountersFit' /\ LevelsCovered'
    BY <1>1, ChargeKeeps
  <1>3. /\ owed \in [Callers -> [scope : Scopes, cost : Nat] \union {None}]
        /\ [scope |-> s, cost |-> 1] \in [scope : Scopes, cost : Nat]
    BY DEF RateInv, RateTypeOK
  <1>4. owed' \in [Callers -> [scope : Scopes, cost : Nat] \union {None}]
    BY <1>1, <1>3
  <1>5. \A d \in Callers : owed'[d] # None => sampled[d] # None
    <2> TAKE d \in Callers
    <2>1. CASE d = c
      BY <1>1, <2>1
    <2>2. CASE d # c
      BY <1>1, <1>3, <2>2 DEF RateInv, SamplesFresh
    <2> QED
      BY <2>1, <2>2
  <1>6. SamplesFresh'
    BY <1>1, <1>5 DEF RateInv, SamplesFresh
  <1> QED
    BY <1>1, <1>2, <1>4, <1>6 DEF RateInv, RateTypeOK

\* Every scope keeps its counter or has it touched, and what is counted of its
\* level rises by no more than the counter.
LEMMA AllTouchedKeeps ==
    ASSUME RateInv, NEW c \in Callers, sampled[c] # None, UNCHANGED now,
           level' \in [Scopes -> Nat], uncounted' \in [Scopes -> Nat],
           \A x \in Scopes :
              \/ /\ counter'[x] = counter[x]
                 /\ level'[x] - uncounted'[x] <= level[x] - uncounted[x]
              \/ \E n \in Nat : /\ counter'[x] = Touched(x, sampled[c], n) /\ n <= Cap[x]
                                /\ level'[x] - uncounted'[x]
                                     <= level[x] - uncounted[x] + n - PeekCurrent(x, sampled[c])
    PROVE  CountersFit' /\ LevelsCovered'
  <1>1. ASSUME NEW x \in Scopes
        PROVE  /\ counter'[x].current <= Cap[x]
               /\ counter'[x].last <= now
               /\ Covers(x, counter'[x], level'[x], uncounted'[x])
    <2>1. level'[x] \in Nat /\ uncounted'[x] \in Nat
      OBVIOUS
    <2>2. CASE counter'[x] = counter[x] /\ level'[x] - uncounted'[x] <= level[x] - uncounted[x]
      <3>1. Covers(x, counter[x], level'[x], uncounted'[x])
        BY <2>1, <2>2, CoversSame
      <3> QED
        BY <2>2, <3>1 DEF RateInv, CountersFit
    <2>3. ASSUME NEW n \in Nat, counter'[x] = Touched(x, sampled[c], n), n <= Cap[x],
                 level'[x] - uncounted'[x]
                    <= level[x] - uncounted[x] + n - PeekCurrent(x, sampled[c])
          PROVE  /\ counter'[x].current <= Cap[x]
                 /\ counter'[x].last <= now
                 /\ Covers(x, counter'[x], level'[x], uncounted'[x])
      <3> DEFINE k == Touched(x, sampled[c], n)
      <3> HIDE DEF k
      <3>1. /\ k.current <= Cap[x] /\ k.last <= now
            /\ Covers(x, k, level'[x], uncounted'[x])
        BY <2>1, <2>3, TouchKeeps DEF k
      <3>2. counter'[x] = k
        BY <2>3 DEF k
      <3> QED
        BY <3>1, <3>2
    <2> QED
      BY <2>2, <2>3
  <1> QED
    BY <1>1, ScopesKeep

\* A counter touched at a caller's instant is a counter.
LEMMA TouchedType ==
    ASSUME RateInv, NEW c \in Callers, sampled[c] # None, NEW s \in Scopes, NEW n \in Nat
    PROVE  Touched(s, sampled[c], n) \in [current : Nat, last : Nat]
  <1>1. sampled[c] \in Nat /\ counter[s].last \in Nat
    BY DEF RateInv, RateTypeOK
  <1>2. Later(sampled[c], counter[s].last) \in Nat
    BY <1>1 DEF Later
  <1> QED
    BY <1>2 DEF Touched

LEMMA ChargeAccountWideKeeps ==
    ASSUME RateInv, NEW c \in Callers, NEW affected \in SUBSET Pairs,
           ChargeAccountWide(c, affected)
    PROVE  RateInv'
  <1> DEFINE t == sampled[c]
             n(x) == IF PeekCurrent(x, t) + 1 < Cap[x] THEN PeekCurrent(x, t) + 1 ELSE Cap[x]
  <1>1. /\ sampled[c] # None /\ owed[c] = None /\ t \in Nat
        /\ UNCHANGED <<now, recency, index, owed>>
        /\ counter \in [Scopes -> [current : Nat, last : Nat]]
        /\ level \in [Scopes -> Nat] /\ uncounted \in [Scopes -> Nat]
    BY DEF ChargeAccountWide, Ready, RateInv, RateTypeOK
  <1>2. counter' = [x \in Scopes |-> IF x \in Tracked THEN Touched(x, t, n(x)) ELSE counter[x]]
    BY DEF ChargeAccountWide, ChargedSaturating
  <1>3. ASSUME NEW x \in Scopes
        PROVE  /\ n(x) \in Nat /\ n(x) <= Cap[x] /\ n(x) >= PeekCurrent(x, t)
               /\ Excess(x, t) \in Nat
               /\ x \in Tracked => n(x) - PeekCurrent(x, t) + Excess(x, t) = 1
               /\ x \notin Tracked => Excess(x, t) = 1
    <2>1. /\ PeekCurrent(x, t) \in Nat /\ PeekCurrent(x, t) <= Cap[x] /\ Cap[x] \in Nat
      BY <1>1, PeekType
    <2> QED
      BY <2>1 DEF Excess, AtLeastZero
  <1> HIDE DEF n
  <1>4. \A x \in Scopes : Touched(x, t, n(x)) \in [current : Nat, last : Nat]
    BY <1>1, <1>3, TouchedType
  <1>5. counter' \in [Scopes -> [current : Nat, last : Nat]]
    BY <1>1, <1>2, <1>4
  <1>6. /\ level' = [x \in Scopes |-> IF x \in affected THEN level[x] + 1 ELSE level[x]]
        /\ uncounted' = [x \in Scopes |-> IF x \in affected THEN uncounted[x] + Excess(x, t)
                                          ELSE uncounted[x]]
    BY DEF ChargeAccountWide
  <1>7. level' \in [Scopes -> Nat] /\ uncounted' \in [Scopes -> Nat]
    BY <1>1, <1>3, <1>6
  <1>8. ApiCounted'
    <2>1. Api \notin affected /\ Api \in Scopes
      BY RateAssumption DEF Scopes
    <2> QED
      BY <1>6, <2>1 DEF RateInv, ApiCounted
  <1> HIDE DEF t
  <1>9. ASSUME NEW x \in Scopes
        PROVE  \/ /\ counter'[x] = counter[x]
                  /\ level'[x] - uncounted'[x] <= level[x] - uncounted[x]
               \/ \E m \in Nat : /\ counter'[x] = Touched(x, t, m) /\ m <= Cap[x]
                                 /\ level'[x] - uncounted'[x]
                                      <= level[x] - uncounted[x] + m - PeekCurrent(x, t)
    <2>1. /\ level[x] \in Nat /\ uncounted[x] \in Nat /\ PeekCurrent(x, t) \in Nat
      BY <1>1, PeekType
    <2>2. /\ x \in affected => level'[x] = level[x] + 1 /\ uncounted'[x] = uncounted[x] + Excess(x, t)
          /\ x \notin affected => level'[x] = level[x] /\ uncounted'[x] = uncounted[x]
      BY <1>6
    <2>3. CASE x \in Tracked
      <3>1. counter'[x] = Touched(x, t, n(x))
        BY <1>2, <2>3
      <3>2. /\ n(x) \in Nat /\ n(x) <= Cap[x] /\ n(x) >= PeekCurrent(x, t) /\ Excess(x, t) \in Nat
            /\ n(x) - PeekCurrent(x, t) + Excess(x, t) = 1
        BY <1>3, <2>3
      <3>3. level'[x] - uncounted'[x] <= level[x] - uncounted[x] + n(x) - PeekCurrent(x, t)
        BY <2>1, <2>2, <3>2
      <3> QED
        BY <3>1, <3>2, <3>3
    <2>4. CASE x \notin Tracked
      <3>1. counter'[x] = counter[x] /\ Excess(x, t) = 1
        BY <1>2, <1>3, <2>4
      <3>2. level'[x] - uncounted'[x] <= level[x] - uncounted[x]
        BY <2>1, <2>2, <3>1
      <3> QED
        BY <3>1, <3>2
    <2> QED
      BY <2>3, <2>4
  <1>10. CountersFit' /\ LevelsCovered'
    BY <1>1, <1>7, <1>9, AllTouchedKeeps DEF t
  <1>11. /\ sampled' \in [Callers -> Nat \union {None}]
         /\ owed' \in [Callers -> [scope : Scopes, cost : Nat] \union {None}]
         /\ SamplesFresh'
    BY <1>1, DoneKeeps DEF ChargeAccountWide
  <1> QED
    BY <1>1, <1>5, <1>7, <1>8, <1>10, <1>11 DEF RateInv, RateTypeOK

LEMMA SnapKeeps ==
    ASSUME RateInv, NEW c \in Callers, Ready(c), Done(c), NEW S,
           UNCHANGED <<now, index, owed, level, uncounted>>,
           recency' \in Seq(Pairs),
           counter' = [x \in Scopes |-> IF x \in S THEN SnappedToCap(x, sampled[c]) ELSE counter[x]]
    PROVE  RateInv'
  <1>1. /\ sampled[c] # None /\ owed[c] = None /\ sampled[c] \in Nat
        /\ counter \in [Scopes -> [current : Nat, last : Nat]]
        /\ level \in [Scopes -> Nat] /\ uncounted \in [Scopes -> Nat]
    BY DEF Ready, RateInv, RateTypeOK
  <1>2. counter' = [x \in Scopes |-> IF x \in S THEN Touched(x, sampled[c], Cap[x]) ELSE counter[x]]
    BY DEF SnappedToCap
  <1>3. \A x \in Scopes : Cap[x] \in Nat /\ Cap[x] <= Cap[x] /\ Cap[x] >= PeekCurrent(x, sampled[c])
    <2> TAKE x \in Scopes
    <2>1. Cap[x] \in Nat /\ PeekCurrent(x, sampled[c]) \in Nat /\ PeekCurrent(x, sampled[c]) <= Cap[x]
      BY <1>1, PeekType
    <2> QED
      BY <2>1
  <1>4. \A x \in Scopes : Touched(x, sampled[c], Cap[x]) \in [current : Nat, last : Nat]
    BY <1>1, <1>3, TouchedType
  <1>5. counter' \in [Scopes -> [current : Nat, last : Nat]]
    BY <1>1, <1>2, <1>4
  <1>6. CountersFit' /\ LevelsCovered'
    <2>1. ASSUME NEW x \in Scopes
          PROVE  \/ /\ counter'[x] = counter[x]
                    /\ level'[x] - uncounted'[x] <= level[x] - uncounted[x]
                 \/ \E n \in Nat : /\ counter'[x] = Touched(x, sampled[c], n) /\ n <= Cap[x]
                                   /\ level'[x] - uncounted'[x]
                                        <= level[x] - uncounted[x] + n - PeekCurrent(x, sampled[c])
      <3>1. /\ level'[x] = level[x] /\ uncounted'[x] = uncounted[x]
            /\ level[x] \in Nat /\ uncounted[x] \in Nat /\ PeekCurrent(x, sampled[c]) \in Nat
        BY <1>1, PeekType
      <3>2. level'[x] - uncounted'[x] <= level[x] - uncounted[x]
        BY <3>1
      <3>3. level'[x] - uncounted'[x] <= level[x] - uncounted[x] + Cap[x] - PeekCurrent(x, sampled[c])
        BY <1>3, <3>1
      <3>4. counter'[x] = counter[x] \/ counter'[x] = Touched(x, sampled[c], Cap[x])
        BY <1>2
      <3> QED
        BY <1>3, <3>2, <3>3, <3>4
    <2>2. level' \in [Scopes -> Nat] /\ uncounted' \in [Scopes -> Nat]
      BY <1>1
    <2> QED
      BY <1>1, <2>1, <2>2, AllTouchedKeeps
  <1>7. /\ sampled' \in [Callers -> Nat \union {None}]
        /\ owed' \in [Callers -> [scope : Scopes, cost : Nat] \union {None}]
        /\ SamplesFresh'
    BY <1>1, DoneKeeps
  <1> QED
    BY <1>5, <1>6, <1>7 DEF RateInv, RateTypeOK, ApiCounted

LEMMA SnapOneKeeps ==
    ASSUME RateInv, NEW c \in Callers, NEW s \in Scopes, SnapOne(c, s)
    PROVE  RateInv'
  <1>1. recency' \in Seq(Pairs)
    <2>1. recency \in Seq(Pairs)
      BY DEF RateInv, RateTypeOK
    <2> QED
      BY <2>1, PromoteType DEF SnapOne, Scopes
  <1>2. counter' = [x \in Scopes |-> IF x \in {s} THEN SnappedToCap(x, sampled[c]) ELSE counter[x]]
    BY DEF SnapOne, RateInv, RateTypeOK
  <1>3. Ready(c) /\ Done(c) /\ UNCHANGED <<now, index, owed, level, uncounted>>
    BY DEF SnapOne
  <1> QED
    BY <1>1, <1>2, <1>3, SnapKeeps

LEMMA SnapDomainKeeps ==
    ASSUME RateInv, NEW c \in Callers, SnapDomain(c)
    PROVE  RateInv'
  <1>1. recency' \in Seq(Pairs)
    BY TrackedType DEF SnapDomain, RateInv, RateTypeOK
  <1>2. counter' = [x \in Scopes |-> IF x \in Tracked THEN SnappedToCap(x, sampled[c]) ELSE counter[x]]
    BY DEF SnapDomain
  <1>3. Ready(c) /\ Done(c) /\ UNCHANGED <<now, index, owed, level, uncounted>>
    BY DEF SnapDomain
  <1> QED
    BY <1>1, <1>2, <1>3, SnapKeeps

LEMMA RepriceKeeps ==
    ASSUME RateInv, NEW c \in Callers, NEW op \in {"AmendOrder", "CancelOrder"}, NEW id \in Ids,
           Reprice(c, op, id)
    PROVE  RateInv'
  <1> DEFINE t == sampled[c]
             price(e) == OrderAgeCost(op, Seconds * AtLeastZero(t - e.sent))
  <1>1. /\ Ready(c) /\ owed[c] = None /\ t \in Nat /\ index \in Seq(Indexed)
    BY DEF Reprice, Ready, RateInv, RateTypeOK, Indexed
  <1>2. Done(c) /\ UNCHANGED <<now, owed>>
    BY DEF Reprice
  <1>3. /\ sampled' \in [Callers -> Nat \union {None}]
        /\ owed' \in [Callers -> [scope : Scopes, cost : Nat] \union {None}]
        /\ SamplesFresh'
    BY <1>1, <1>2, DoneKeeps
  <1>4. PICK i \in Entry(id) :
           /\ Consumes(index[i].pair,
                       IF Fits(index[i].pair, t, price(index[i]))
                       THEN Charged(index[i].pair, t, price(index[i]))
                       ELSE Exceeded(index[i].pair, t))
           /\ Counted(index[i].pair,
                      IF Fits(index[i].pair, t, price(index[i])) THEN price(index[i]) ELSE 0)
           /\ index' = Insert(index[i])
    BY DEF Reprice
  <1> DEFINE e == index[i]
             s == e.pair
             cost == price(e)
  <1>5. e \in Indexed
    BY <1>1 DEF Entry
  <1>6. s \in Pairs /\ s \in Scopes /\ e.sent \in Nat
    BY <1>5 DEF Indexed, Scopes
  <1>7. cost \in Nat
    <2>1. AtLeastZero(t - e.sent) \in Nat /\ Seconds \in Nat
      BY <1>1, <1>6, RateAssumption DEF AtLeastZero
    <2>2. Seconds * AtLeastZero(t - e.sent) \in Nat
      BY <2>1, ProductType
    <2> QED
      BY <2>2, PriceType
  <1>8. index' \in Seq(Indexed)
    BY <1>1, <1>4, <1>5, InsertType
  <1> HIDE DEF e, price
  <1>9. /\ Consumes(s, IF Fits(s, t, cost) THEN Charged(s, t, cost) ELSE Exceeded(s, t))
        /\ Counted(s, IF Fits(s, t, cost) THEN cost ELSE 0)
    BY <1>4 DEF e
  <1> HIDE DEF s, cost
  <1>10. /\ counter' \in [Scopes -> [current : Nat, last : Nat]]
         /\ recency' \in Seq(Pairs) /\ level' \in [Scopes -> Nat] /\ uncounted' \in [Scopes -> Nat]
         /\ ApiCounted' /\ CountersFit' /\ LevelsCovered'
    <2>1. CASE Fits(s, t, cost)
      <3>1. Consumes(s, Touched(s, t, PeekCurrent(s, t) + cost)) /\ Counted(s, cost)
        BY <1>9, <2>1 DEF Charged
      <3> QED
        BY <1>1, <1>2, <1>6, <1>7, <2>1, <3>1, ChargeKeeps
    <2>2. CASE ~Fits(s, t, cost)
      <3>1. Consumes(s, Touched(s, t, PeekCurrent(s, t))) /\ Counted(s, 0)
        BY <1>9, <2>2 DEF Exceeded
      <3> QED
        BY <1>1, <1>2, <1>6, <3>1, ChargeKeeps
    <2> QED
      BY <2>1, <2>2
  <1> QED
    BY <1>2, <1>3, <1>8, <1>10 DEF RateInv, RateTypeOK, Indexed

\* What is not charged here, all of it uncounted, leaves the account as it was.
LEMMA UnchargedKeeps ==
    ASSUME RateInv, NEW p \in Pairs, NEW age \in 0..now, NEW op \in {"AmendOrder", "CancelOrder"},
           Uncharged(p, OrderAgeCost(op, Seconds * age)),
           UNCHANGED <<now, counter>>
    PROVE  /\ level' \in [Scopes -> Nat] /\ uncounted' \in [Scopes -> Nat]
           /\ CountersFit' /\ LevelsCovered' /\ ApiCounted'
  <1> DEFINE cost == OrderAgeCost(op, Seconds * age)
  <1>1. /\ level' = [level EXCEPT ![p] = @ + cost]
        /\ uncounted' = [uncounted EXCEPT ![p] = @ + cost]
    BY DEF Uncharged
  <1>2. /\ level \in [Scopes -> Nat] /\ uncounted \in [Scopes -> Nat] /\ now \in Nat
        /\ p \in Scopes /\ p # Api /\ Api \in Scopes
    BY RateAssumption DEF RateInv, RateTypeOK, Scopes
  <1>3. cost \in Nat
    <2>1. age \in Nat /\ Seconds \in Nat
      BY <1>2, RateAssumption
    <2>2. Seconds * age \in Nat
      BY <2>1, ProductType
    <2> QED
      BY <2>2, PriceType
  <1> HIDE DEF cost
  <1>4. level' \in [Scopes -> Nat] /\ uncounted' \in [Scopes -> Nat]
    BY <1>1, <1>2, <1>3
  <1>5. \A x \in Scopes : level'[x] - uncounted'[x] <= level[x] - uncounted[x]
    <2> TAKE x \in Scopes
    <2>1. level[x] \in Nat /\ uncounted[x] \in Nat
      BY <1>2
    <2>2. CASE x = p
      <3>1. level'[x] = level[x] + cost /\ uncounted'[x] = uncounted[x] + cost
        BY <1>1, <1>2, <2>2
      <3> QED
        BY <1>3, <2>1, <3>1
    <2>3. CASE x # p
      <3>1. level'[x] = level[x] /\ uncounted'[x] = uncounted[x]
        BY <1>1, <1>2, <2>3
      <3> QED
        BY <2>1, <3>1
    <2> QED
      BY <2>2, <2>3
  <1>6. ASSUME NEW x \in Scopes
        PROVE  /\ counter'[x].current <= Cap[x]
               /\ counter'[x].last <= now
               /\ Covers(x, counter'[x], level'[x], uncounted'[x])
    <2>1. /\ level'[x] \in Nat /\ uncounted'[x] \in Nat
          /\ level'[x] - uncounted'[x] <= level[x] - uncounted[x]
      BY <1>4, <1>5
    <2>2. Covers(x, counter[x], level'[x], uncounted'[x])
      BY <2>1, CoversSame
    <2> QED
      BY <2>2 DEF RateInv, CountersFit
  <1>7. ApiCounted'
    BY <1>1, <1>2 DEF RateInv, ApiCounted
  <1>8. CountersFit' /\ LevelsCovered'
    BY <1>6, ScopesKeep
  <1> QED
    BY <1>4, <1>7, <1>8

\* An index miss.
LEMMA RepriceMissKeeps ==
    ASSUME RateInv, NEW c \in Callers, NEW op \in {"AmendOrder", "CancelOrder"}, NEW id \in Ids,
           NEW p \in Pairs, NEW age \in 0..now, RepriceMiss(c, op, id, p, age)
    PROVE  RateInv'
  <1>1. /\ sampled[c] # None /\ owed[c] = None /\ Done(c)
        /\ UNCHANGED <<now, counter, recency, index, owed>>
        /\ Uncharged(p, OrderAgeCost(op, Seconds * age))
    BY DEF RepriceMiss, Ready
  <1>2. /\ sampled' \in [Callers -> Nat \union {None}]
        /\ owed' \in [Callers -> [scope : Scopes, cost : Nat] \union {None}]
        /\ SamplesFresh'
    BY <1>1, DoneKeeps
  <1> QED
    BY <1>1, <1>2, UnchargedKeeps DEF RateInv, RateTypeOK

\* A cancel that is sent again.
LEMMA CancelAgainKeeps ==
    ASSUME RateInv, NEW p \in Pairs, NEW age \in 0..now, CancelAgain(p, age)
    PROVE  RateInv'
  <1>1. /\ UNCHANGED <<now, counter, recency, index, sampled, owed>>
        /\ Uncharged(p, OrderAgeCost("CancelOrder", Seconds * age))
    BY DEF CancelAgain
  <1>2. SamplesFresh'
    BY <1>1 DEF RateInv, SamplesFresh
  <1> QED
    BY <1>1, <1>2, UnchargedKeeps DEF RateInv, RateTypeOK

LEMMA RateStepKeeps ==
    ASSUME RateInv, [RateNext]_rateVars
    PROVE  RateInv'
  <1>1. CASE RateTick
    BY <1>1, TickKeeps
  <1>2. CASE BudgetStep
    <2>1. UNCHANGED <<now, trackerVars>>
      BY <1>2 DEF BudgetStep, Connect, WindowAdvanced, TryConsume
    <2> QED
      BY <2>1, BudgetKeeps
  <1>3. CASE \E id \in Ids, p \in Pairs, t \in 0..now : Accepted(id, p, t)
    BY <1>3, AcceptedKeeps
  <1>4. ASSUME NEW c \in Callers,
               \/ Sample(c) \/ PostWs(c) \/ RefundWs(c)
               \/ SnapDomain(c)
               \/ \E affected \in SUBSET Pairs : ChargeAccountWide(c, affected)
               \/ \E s \in Scopes : Refuse(c, s, 1) \/ Admit(c, s, 1) \/ SnapOne(c, s)
               \/ \E s \in Pairs : AdmitWs(c, s, 1)
               \/ \E op \in {"AmendOrder", "CancelOrder"}, id \in Ids :
                    \/ Reprice(c, op, id)
                    \/ \E p \in Pairs, age \in 0..now : RepriceMiss(c, op, id, p, age)
        PROVE  RateInv'
    <2>1. Pairs \subseteq Scopes
      BY DEF Scopes
    <2> QED
      BY <1>4, <2>1, SampleKeeps, PostWsKeeps, RefundWsKeeps, ChargeAccountWideKeeps, SnapDomainKeeps,
         RefuseKeeps, AdmitKeeps, SnapOneKeeps, AdmitWsKeeps, RepriceKeeps,
         RepriceMissKeeps
  <1>5. CASE \E p \in Pairs, age \in 0..now : CancelAgain(p, age)
    BY <1>5, CancelAgainKeeps
  <1>6. CASE UNCHANGED rateVars
    <2>1. UNCHANGED <<now, trackerVars>>
      BY <1>6 DEF rateVars, trackerVars
    <2> QED
      BY <2>1, BudgetKeeps
  <1> QED
    BY <1>1, <1>2, <1>3, <1>4, <1>5, <1>6 DEF RateNext

LEMMA RateStarts ==
    ASSUME RateInit
    PROVE  RateInv
  <1>1. now = 0 /\ \A s \in Scopes : Cap[s] \in Nat /\ Decay[s] \in Nat
    BY RateAssumption DEF RateInit, Init
  <1>2. RateTypeOK
    BY <1>1, RateAssumption DEF RateInit, RateTypeOK, Fresh
  <1>3. SamplesFresh
    BY DEF RateInit, SamplesFresh
  <1>4. CountersFit
    BY <1>1 DEF RateInit, CountersFit, Fresh
  <1>5. \A s \in Scopes : Covers(s, counter[s], level[s], uncounted[s])
    <2> TAKE s \in Scopes
    <2>1. Stale \in Nat
      BY RateAssumption
    <2>2. Decay[s] * Stale \in Nat /\ Decay[s] * (0 - 0) = 0
      BY <1>1, <2>1, ProductType
    <2>3. counter[s].current = 0 /\ counter[s].last = 0 /\ level[s] = 0 /\ uncounted[s] = 0
      BY DEF RateInit, Fresh
    <2> QED
      BY <1>1, <2>2, <2>3 DEF Covers, AtLeastZero
  <1>6. ApiCounted
    BY DEF RateInit, ApiCounted, Scopes
  <1> QED
    BY <1>2, <1>3, <1>4, <1>5, <1>6 DEF RateInv, LevelsCovered

-----------------------------------------------------------------------------
(* The theorems.                                                           *)

\* The inductive invariant of the trackers.
THEOREM TrackersInductive == RateSpec => []RateInv
  BY RateStarts, RateStepKeeps, PTL DEF RateSpec

\* Counters, the LRU, the index and the levels keep their types: a counter is
\* never below zero, whatever is credited or decays (RateLimitCounter).
THEOREM TrackersTypeCorrect == RateSpec => []RateTypeOK
  <1>1. RateInv => RateTypeOK
    BY DEF RateInv
  <1> QED
    BY <1>1, TrackersInductive, PTL

\* The exchange's counter of a scope stays within its cap, up to what decays
\* while a thread is held up between the clock and the lock and what no counter
\* here vouches for (the level of an evicted pair, the part of cancel_all beyond
\* the cap, the amends and cancels the index missed, the cancels that are sent
\* again), for any number of threads, any tier and any interleaving; for the API
\* key, with no such exception (SpotTradingRateLimitTracker, ApiRateLimitTracker).
THEOREM BurstsAlwaysBounded == RateSpec => []BurstBounded
  <1>1. RateInv => BurstBounded
    <2> SUFFICES ASSUME RateInv, NEW s \in Scopes
                 PROVE  level[s] <= Cap[s] + Decay[s] * Stale + uncounted[s]
      BY DEF BurstBounded, RateInv, ApiCounted
    <2> DEFINE k == counter[s]
               z == Decay[s] * Stale
               y == Decay[s] * (now - k.last)
    <2>1. /\ k.current \in Nat /\ k.current <= Cap[s] /\ Cap[s] \in Nat /\ now - k.last \in Nat
          /\ Decay[s] \in Nat /\ Stale \in Nat /\ level[s] \in Nat /\ uncounted[s] \in Nat
      BY RateAssumption DEF RateInv, RateTypeOK, CountersFit
    <2>2. z \in Nat /\ y \in Nat
      BY <2>1, ProductType
    <2>3. level[s] <= uncounted[s] + AtLeastZero(k.current + z - y)
      BY DEF RateInv, LevelsCovered, Covers
    <2> HIDE DEF k, y, z
    <2>4. level[s] <= Cap[s] + z + uncounted[s]
      BY <2>1, <2>2, <2>3 DEF AtLeastZero
    <2> QED
      BY <2>4 DEF z
  <1> QED
    BY <1>1, TrackersInductive, PTL

\* For a tier whose API counter decays at all, a throttled read that sleeps for
\* time_until_headroom fits when it wakes, and would not have an instant earlier
\* (compute_retry_backoff).
THEOREM BackoffAlwaysFits ==
    ASSUME Decay[Api] # 0
    PROVE  RateSpec => []BackoffFits
  <1>1. RateInv => BackoffFits
    <2> SUFFICES ASSUME RateInv, NEW cost \in 0..Cap[Api], NEW w, w = TimeUntilHeadroom(cost, now)
                 PROVE  /\ Fits(Api, now + w, cost)
                        /\ w > 0 => ~Fits(Api, now + w - 1, cost)
      BY DEF BackoffFits
    <2> DEFINE d == Decay[Api]
               cap == Cap[Api]
               cur == counter[Api].current
               e == now - counter[Api].last
               pk == AtLeastZero(cur - d * e)
               missing == AtLeastZero(cost - AtLeastZero(cap - pk))
    <2>1. Api \in Scopes /\ now \in Nat
      BY DEF Scopes, RateInv, RateTypeOK
    <2>2. /\ d \in Nat \ {0} /\ cap \in Nat /\ cur \in Nat /\ cur <= cap /\ e \in Nat
          /\ counter[Api].last \in Nat
      BY <2>1, RateAssumption DEF RateInv, RateTypeOK, CountersFit
    <2>3. cost \in Nat /\ cost <= cap
      BY <2>2
    <2>4. PeekCurrent(Api, now) = pk
      BY <2>1, <2>2 DEF PeekCurrent, AtLeastZero
    <2>5. w = (missing + d - 1) \div d
      BY <2>4 DEF TimeUntilHeadroom, Headroom
    <2>6. \A v \in Nat : PeekCurrent(Api, now + v) = AtLeastZero(cur - (d * e + d * v))
      <3> TAKE v \in Nat
      <3>1. AtLeastZero((now + v) - counter[Api].last) = e + v
        BY <2>1, <2>2 DEF AtLeastZero
      <3>2. d * (e + v) = d * e + d * v
        BY <2>2, Distributes
      <3> QED
        BY <3>1, <3>2 DEF PeekCurrent
    <2> DEFINE x == d * e
    <2>7. x \in Nat
      BY <2>2, ProductType
    <2> HIDE DEF d, cap, cur, e
    <2>8. /\ pk = AtLeastZero(cur - x) /\ pk \in Nat /\ pk <= cap /\ missing \in Nat
          /\ missing = AtLeastZero(cost - (cap - pk))
      BY <2>2, <2>3, <2>7 DEF AtLeastZero
    <2> HIDE DEF pk, missing, x
    <2>9. w \in Nat /\ d * w >= missing /\ (w > 0 => d * (w - 1) < missing)
      BY <2>2, <2>5, <2>8, RoundedUp
    <2>10. Fits(Api, now + w, cost)
      <3>1. d * w \in Nat
        BY <2>2, <2>9, ProductType
      <3> DEFINE y == d * w
      <3>2. PeekCurrent(Api, now + w) = AtLeastZero(cur - (x + y)) /\ y \in Nat /\ y >= missing
        BY <2>6, <2>9, <3>1 DEF x
      <3> HIDE DEF y
      <3>3. AtLeastZero(cur - (x + y)) + cost <= cap
        BY <2>2, <2>3, <2>7, <2>8, <3>2 DEF AtLeastZero
      <3> QED
        BY <3>2, <3>3 DEF Fits, cap
    <2>11. ASSUME w > 0
           PROVE  ~Fits(Api, now + w - 1, cost)
      <3>1. w - 1 \in Nat /\ now + w - 1 = now + (w - 1)
        BY <2>1, <2>9, <2>11
      <3>2. d * (w - 1) \in Nat
        BY <2>2, <3>1, ProductType
      <3> DEFINE y == d * (w - 1)
      <3>3. PeekCurrent(Api, now + w - 1) = AtLeastZero(cur - (x + y)) /\ y \in Nat /\ y < missing
        BY <2>6, <2>9, <2>11, <3>1, <3>2 DEF x
      <3> HIDE DEF y
      <3>4. AtLeastZero(cur - (x + y)) + cost > cap
        BY <2>2, <2>3, <2>7, <2>8, <3>3 DEF AtLeastZero
      <3>5. AtLeastZero(cur - (x + y)) \in Nat
        BY <2>2, <2>7, <3>3 DEF AtLeastZero
      <3> QED
        BY <2>2, <2>3, <3>3, <3>4, <3>5 DEF Fits, cap
    <2> QED
      BY <2>10, <2>11
  <1> QED
    BY <1>1, TrackersInductive, PTL

\* The trackers and the connect budget share the clock and nothing else: with
\* the trackers around it the budget is still the one of ConnectionRateBudget.
THEOREM TrackersKeepBudget == RateSpec => Spec
  <1>1. RateInit => Init
    BY DEF RateInit
  <1>2. [RateNext]_rateVars => [Next]_vars
    <2> SUFFICES ASSUME [RateNext]_rateVars
                 PROVE  [Next]_vars
      OBVIOUS
    <2>1. CASE RateTick \/ BudgetStep
      BY <2>1 DEF RateTick, BudgetStep, Next
    <2>2. CASE \E id \in Ids, p \in Pairs, t \in 0..now : Accepted(id, p, t)
      BY <2>2 DEF Accepted, vars
    <2>3. ASSUME NEW c \in Callers,
               \/ Sample(c) \/ PostWs(c) \/ RefundWs(c)
               \/ SnapDomain(c)
               \/ \E affected \in SUBSET Pairs : ChargeAccountWide(c, affected)
               \/ \E s \in Scopes : Refuse(c, s, 1) \/ Admit(c, s, 1) \/ SnapOne(c, s)
               \/ \E s \in Pairs : AdmitWs(c, s, 1)
               \/ \E op \in {"AmendOrder", "CancelOrder"}, id \in Ids :
                    \/ Reprice(c, op, id)
                    \/ \E p \in Pairs, age \in 0..now : RepriceMiss(c, op, id, p, age)
          PROVE  UNCHANGED vars
      BY <2>3 DEF vars, Sample, PostWs, RefundWs, ChargeAccountWide, SnapDomain, Refuse, Admit,
         SnapOne, AdmitWs, Reprice, RepriceMiss
    <2>4. CASE \E p \in Pairs, age \in 0..now : CancelAgain(p, age)
      BY <2>4 DEF CancelAgain, vars
    <2>5. CASE UNCHANGED rateVars
      BY <2>5 DEF rateVars, vars
    <2> QED
      BY <2>1, <2>2, <2>3, <2>4, <2>5 DEF RateNext
  <1> QED
    BY <1>1, <1>2, PTL DEF RateSpec, Spec

\* So the cap on connect attempts per window, and the exactness of the sleep of
\* a refused connection, hold of the client that does both (try_consume).
THEOREM BudgetHoldsBesideTrackers == RateSpec => [](WindowCap /\ NoNeedlessWait)
  BY TrackersKeepBudget, WindowCapHolds, NoNeedlessWaitHolds, PTL

=============================================================================
