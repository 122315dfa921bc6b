--------------------------- MODULE OrderBookProofs ---------------------------
(***************************************************************************)
(* Proofs about the maintained order book, for any prices, books, depths,  *)
(* caps and bounds: what on_book is given is the exchange's book as far as *)
(* the checksum vouches for it, and on a stream that missed nothing all of *)
(* it is, without a gap ever being declared.                               *)
(***************************************************************************)
EXTENDS OrderBook, FiniteSetTheorems, SequenceTheorems, NaturalsInduction, WellFoundedInduction,
        TLAPS

-----------------------------------------------------------------------------
(* The best levels of a side.                                              *)

\* The levels of a side that come before price p.
Above(s, levels, p) == {q \in Prices : levels[q] # 0 /\ Better(s, q, p)}

LEMMA AboveFinite ==
    ASSUME NEW s, NEW levels, NEW p
    PROVE  IsFiniteSet(Above(s, levels, p)) /\ Cardinality(Above(s, levels, p)) \in Nat
  <1>1. Above(s, levels, p) \in SUBSET Prices /\ IsFiniteSet(Prices)
    BY BookAssumption DEF Above
  <1>2. IsFiniteSet(Above(s, levels, p))
    BY <1>1, FS_Subset
  <1> QED
    BY <1>2, FS_CardinalityType

LEMMA TopIs ==
    ASSUME NEW s, NEW levels, NEW n, NEW p \in Prices
    PROVE  Top(s, levels, n)[p] = IF Cardinality(Above(s, levels, p)) < n THEN levels[p] ELSE 0
  BY DEF Top, Above

LEMMA TopType ==
    ASSUME NEW s, NEW levels \in Levels, NEW n
    PROVE  Top(s, levels, n) \in Levels
  BY DEF Top, Levels

\* Sides that agree at every price are the same.
LEMMA SameLevels ==
    ASSUME NEW a \in Levels, NEW b \in Levels, \A p \in Prices : a[p] = b[p]
    PROVE  a = b
  BY DEF Levels

\* Prices are in a strict order on either side.
LEMMA BetterOrders ==
    ASSUME NEW s
    PROVE  /\ \A p \in Prices : ~Better(s, p, p)
           /\ \A p, q \in Prices : p # q => Better(s, p, q) \/ Better(s, q, p)
           /\ \A p, q, r \in Prices : Better(s, p, q) /\ Better(s, q, r) => Better(s, p, r)
  BY BookAssumption DEF Better

\* What comes before a better price comes before this one.
LEMMA AboveNested ==
    ASSUME NEW s, NEW levels, NEW p \in Prices, NEW q \in Prices, Better(s, q, p)
    PROVE  /\ Above(s, levels, q) \subseteq Above(s, levels, p)
           /\ Cardinality(Above(s, levels, q)) <= Cardinality(Above(s, levels, p))
           /\ levels[q] # 0 => Cardinality(Above(s, levels, q)) < Cardinality(Above(s, levels, p))
  <1>1. Above(s, levels, q) \subseteq Above(s, levels, p)
    BY BetterOrders DEF Above
  <1>2. /\ IsFiniteSet(Above(s, levels, p))
        /\ Cardinality(Above(s, levels, p)) \in Nat /\ Cardinality(Above(s, levels, q)) \in Nat
    BY AboveFinite
  <1>3. /\ Cardinality(Above(s, levels, q)) <= Cardinality(Above(s, levels, p))
        /\ Cardinality(Above(s, levels, p)) = Cardinality(Above(s, levels, q)) =>
              Above(s, levels, p) = Above(s, levels, q)
    BY <1>1, <1>2, FS_Subset
  <1>4. levels[q] # 0 => q \in Above(s, levels, p) /\ q \notin Above(s, levels, q)
    BY BetterOrders DEF Above
  <1> QED
    BY <1>1, <1>2, <1>3, <1>4

\* Trimming a side to n levels leaves what comes before its first n + 1.
LEMMA TopAbove ==
    ASSUME NEW s, NEW levels, NEW n \in Nat, NEW p \in Prices,
           Cardinality(Above(s, levels, p)) <= n
    PROVE  Above(s, Top(s, levels, n), p) = Above(s, levels, p)
  <1>1. ASSUME NEW q \in Prices, Better(s, q, p)
        PROVE  Top(s, levels, n)[q] # 0 <=> levels[q] # 0
    <2>1. CASE levels[q] = 0
      BY <2>1, TopIs
    <2>2. CASE levels[q] # 0
      <3>1. Cardinality(Above(s, levels, q)) < Cardinality(Above(s, levels, p))
        BY <1>1, <2>2, AboveNested
      <3>2. Cardinality(Above(s, levels, q)) < n
        BY <3>1, AboveFinite
      <3> QED
        BY <2>2, <3>2, TopIs
    <2> QED
      BY <2>1, <2>2
  <1> QED
    BY <1>1 DEF Above

\* The best n levels of the best m are the best n.
LEMMA TopOfTop ==
    ASSUME NEW s, NEW levels \in Levels, NEW m \in Nat, NEW n \in Nat, n <= m
    PROVE  Top(s, Top(s, levels, m), n) = Top(s, levels, n)
  <1> DEFINE T == Top(s, levels, m)
  <1>1. ASSUME NEW p \in Prices
        PROVE  Top(s, T, n)[p] = Top(s, levels, n)[p]
    <2>1. /\ Top(s, T, n)[p] = IF Cardinality(Above(s, T, p)) < n THEN T[p] ELSE 0
          /\ Top(s, levels, n)[p] = IF Cardinality(Above(s, levels, p)) < n THEN levels[p] ELSE 0
          /\ T[p] = IF Cardinality(Above(s, levels, p)) < m THEN levels[p] ELSE 0
      BY TopIs
    <2>2. Cardinality(Above(s, levels, p)) \in Nat
      BY AboveFinite
    <2>3. CASE Cardinality(Above(s, levels, p)) < m
      <3>1. Above(s, T, p) = Above(s, levels, p)
        BY <2>2, <2>3, TopAbove
      <3> QED
        BY <2>1, <2>3, <3>1
    <2>4. CASE ~(Cardinality(Above(s, levels, p)) < m)
      BY <2>1, <2>2, <2>4
    <2> QED
      BY <2>3, <2>4
  <1>2. T \in Levels /\ Top(s, T, n) \in Levels /\ Top(s, levels, n) \in Levels
    BY TopType
  <1> QED
    BY <1>1, <1>2, SameLevels

\* Two sides that differ at most at price p.
SameBut(levels, after, p) == \A y \in Prices : y # p => after[y] = levels[y]

\* A change of one level leaves what comes before the better prices alone.
LEMMA ChangeAbove ==
    ASSUME NEW s, NEW levels, NEW after, NEW p \in Prices, SameBut(levels, after, p),
           NEW x \in Prices
    PROVE  /\ ~Better(s, p, x) => Above(s, after, x) = Above(s, levels, x)
           /\ Cardinality(Above(s, levels, x)) <= Cardinality(Above(s, after, x)) + 1
  <1>1. ~Better(s, p, x) => Above(s, after, x) = Above(s, levels, x)
    BY DEF Above, SameBut
  <1>2. Above(s, levels, x) \subseteq Above(s, after, x) \union {p}
    BY DEF Above, SameBut
  <1>3. /\ IsFiniteSet(Above(s, after, x)) /\ Cardinality(Above(s, after, x)) \in Nat
        /\ Cardinality(Above(s, levels, x)) \in Nat
    BY AboveFinite
  <1>4. /\ IsFiniteSet(Above(s, after, x) \union {p})
        /\ \/ Cardinality(Above(s, after, x) \union {p}) = Cardinality(Above(s, after, x))
           \/ Cardinality(Above(s, after, x) \union {p}) = Cardinality(Above(s, after, x)) + 1
    BY <1>3, FS_AddElement
  <1>5. Cardinality(Above(s, levels, x)) <= Cardinality(Above(s, after, x) \union {p})
    BY <1>2, <1>4, FS_Subset
  <1>6. Cardinality(Above(s, levels, x)) <= Cardinality(Above(s, after, x)) + 1
    BY <1>3, <1>4, <1>5
  <1> QED
    BY <1>1, <1>6

\* A change below the first n levels is not seen in them.
LEMMA ChangeBelow ==
    ASSUME NEW s, NEW levels \in Levels, NEW after \in Levels, NEW n \in Nat, NEW p \in Prices,
           SameBut(levels, after, p), ~(Cardinality(Above(s, levels, p)) < n)
    PROVE  Top(s, after, n) = Top(s, levels, n)
  <1>1. Above(s, after, p) = Above(s, levels, p)
    BY ChangeAbove, BetterOrders
  <1>2. ASSUME NEW x \in Prices
        PROVE  Top(s, after, n)[x] = Top(s, levels, n)[x]
    <2>1. /\ Top(s, after, n)[x] = IF Cardinality(Above(s, after, x)) < n THEN after[x] ELSE 0
          /\ Top(s, levels, n)[x] = IF Cardinality(Above(s, levels, x)) < n THEN levels[x] ELSE 0
      BY TopIs
    <2>2. CASE x = p
      BY <1>1, <2>1, <2>2
    <2>3. CASE x # p /\ ~Better(s, p, x)
      <3>1. Above(s, after, x) = Above(s, levels, x)
        BY <2>3, ChangeAbove
      <3>2. after[x] = levels[x]
        BY <2>3 DEF SameBut
      <3> QED
        BY <2>1, <3>1, <3>2
    <2>4. CASE x # p /\ Better(s, p, x)
      <3>1. /\ Cardinality(Above(s, after, p)) <= Cardinality(Above(s, after, x))
            /\ Cardinality(Above(s, levels, p)) <= Cardinality(Above(s, levels, x))
        BY <2>4, AboveNested
      <3>2. /\ Cardinality(Above(s, after, x)) \in Nat /\ Cardinality(Above(s, levels, x)) \in Nat
            /\ Cardinality(Above(s, levels, p)) \in Nat
        BY AboveFinite
      <3> QED
        BY <1>1, <2>1, <3>1, <3>2
    <2> QED
      BY <2>2, <2>3, <2>4
  <1>3. Top(s, after, n) \in Levels /\ Top(s, levels, n) \in Levels
    BY TopType
  <1> QED
    BY <1>2, <1>3, SameLevels

\* The levels, but for price p, that moved up into the first n when another left.
Moved(old, new, p) == {x \in Prices \ {p} : old[x] = 0 /\ new[x] # 0}

\* A client that keeps n levels and applies the one change the exchange names has
\* the exchange's n levels, but for a level that moved up and is not yet named.
LEMMA ChangeApplies ==
    ASSUME NEW s, NEW levels \in Levels, NEW after \in Levels, NEW n \in Nat, NEW p \in Prices,
           SameBut(levels, after, p), Top(s, levels, n) # Top(s, after, n),
           NEW kept, SameBut(Top(s, levels, n), kept, p), kept[p] = after[p], NEW x \in Prices
    PROVE  Top(s, kept, n)[x] =
              IF x \in Moved(Top(s, levels, n), Top(s, after, n), p) THEN 0
              ELSE Top(s, after, n)[x]
  <1> DEFINE old == Top(s, levels, n)
             new == Top(s, after, n)
  <1>1. Cardinality(Above(s, levels, p)) < n
    BY ChangeBelow
  <1>2. ASSUME NEW z \in Prices, Cardinality(Above(s, levels, z)) < n
        PROVE  Above(s, kept, z) = Above(s, after, z)
    <2>1. Cardinality(Above(s, levels, z)) <= n
      BY <1>2, AboveFinite
    <2>2. Above(s, old, z) = Above(s, levels, z)
      BY <2>1, TopAbove
    <2>3. ASSUME NEW y \in Prices, Better(s, y, z)
          PROVE  kept[y] # 0 <=> after[y] # 0
      <3>1. CASE y = p
        BY <3>1
      <3>2. CASE y # p
        <4>1. kept[y] = old[y] /\ after[y] = levels[y]
          BY <3>2 DEF SameBut
        <4>2. old[y] # 0 <=> levels[y] # 0
          BY <2>2, <2>3 DEF Above
        <4> QED
          BY <4>1, <4>2
      <3> QED
        BY <3>1, <3>2
    <2> QED
      BY <2>3 DEF Above
  <1>3. /\ Top(s, kept, n)[x] = IF Cardinality(Above(s, kept, x)) < n THEN kept[x] ELSE 0
        /\ new[x] = IF Cardinality(Above(s, after, x)) < n THEN after[x] ELSE 0
        /\ old[x] = IF Cardinality(Above(s, levels, x)) < n THEN levels[x] ELSE 0
    BY TopIs
  <1>4. CASE x = p
    <2>1. Above(s, kept, x) = Above(s, after, x)
      BY <1>1, <1>2, <1>4
    <2>2. x \notin Moved(old, new, p) /\ kept[x] = after[x]
      BY <1>4 DEF Moved
    <2> QED
      BY <1>3, <2>1, <2>2
  <1>5. CASE x # p /\ old[x] = 0
    <2>1. kept[x] = 0
      BY <1>5 DEF SameBut
    <2>2. new[x] # 0 => x \in Moved(old, new, p)
      BY <1>5 DEF Moved
    <2> QED
      BY <1>3, <2>1, <2>2
  <1>6. CASE x # p /\ old[x] # 0
    <2>1. Cardinality(Above(s, levels, x)) < n /\ levels[x] = old[x]
      BY <1>3, <1>6
    <2>2. Above(s, kept, x) = Above(s, after, x)
      BY <1>2, <2>1
    <2>3. kept[x] = after[x]
      BY <1>6, <2>1 DEF SameBut
    <2>4. x \notin Moved(old, new, p)
      BY <1>6 DEF Moved
    <2> QED
      BY <1>3, <2>2, <2>3, <2>4
  <1> QED
    BY <1>4, <1>5, <1>6

\* A level that moved up is the last of the n.
LEMMA MovedIsLast ==
    ASSUME NEW s, NEW levels, NEW after, NEW n \in Nat, NEW p \in Prices,
           SameBut(levels, after, p),
           NEW x \in Moved(Top(s, levels, n), Top(s, after, n), p)
    PROVE  Cardinality(Above(s, after, x)) >= n - 1
  <1>1. x \in Prices /\ x # p /\ Top(s, levels, n)[x] = 0 /\ Top(s, after, n)[x] # 0
    BY DEF Moved
  <1>2. /\ Top(s, after, n)[x] = IF Cardinality(Above(s, after, x)) < n THEN after[x] ELSE 0
        /\ Top(s, levels, n)[x] = IF Cardinality(Above(s, levels, x)) < n THEN levels[x] ELSE 0
    BY <1>1, TopIs
  <1>3. after[x] = levels[x]
    BY <1>1 DEF SameBut
  <1>4. Cardinality(Above(s, levels, x)) <= Cardinality(Above(s, after, x)) + 1
    BY <1>1, ChangeAbove
  <1>5. Cardinality(Above(s, after, x)) \in Nat /\ Cardinality(Above(s, levels, x)) \in Nat
    BY AboveFinite
  <1> QED
    BY <1>1, <1>2, <1>3, <1>4, <1>5

\* The best n levels of a side but for some, W, that come after all others of them.
Withholds(s, levels, n, W, shown) ==
    /\ \A x \in W : Cardinality(Above(s, levels, x)) >= n - 1
    /\ \A x \in Prices : shown[x] = IF x \in W THEN 0 ELSE Top(s, levels, n)[x]

\* What is withheld at the end of n levels is not seen in fewer.
LEMMA WithheldUnseen ==
    ASSUME NEW s, NEW levels \in Levels, NEW n \in Nat, NEW m \in Nat, m < n,
           NEW W, NEW shown \in Levels, Withholds(s, levels, n, W, shown)
    PROVE  Top(s, shown, m) = Top(s, levels, m)
  <1> USE DEF Withholds
  <1>1. Top(s, levels, n) \in Levels
    BY TopType
  <1>2. ASSUME NEW y \in Prices, Cardinality(Above(s, levels, y)) < n
        PROVE  Above(s, shown, y) = Above(s, levels, y)
    <2>1. Above(s, Top(s, levels, n), y) = Above(s, levels, y)
      BY <1>2, AboveFinite, TopAbove
    <2>2. ASSUME NEW z \in Prices, Better(s, z, y)
          PROVE  shown[z] # 0 <=> levels[z] # 0
      <3>1. CASE levels[z] = 0
        BY <3>1, TopIs
      <3>2. CASE levels[z] # 0
        <4>1. Cardinality(Above(s, levels, z)) < Cardinality(Above(s, levels, y))
          BY <2>2, <3>2, AboveNested
        <4>2. z \notin W
          BY <1>2, <4>1, AboveFinite
        <4>3. z \in Above(s, levels, y)
          BY <2>2, <3>2 DEF Above
        <4>4. Top(s, levels, n)[z] # 0
          BY <2>1, <4>3 DEF Above
        <4> QED
          BY <3>2, <4>2, <4>4
      <3> QED
        BY <3>1, <3>2
    <2> QED
      BY <2>2 DEF Above
  <1>3. ASSUME NEW y \in Prices
        PROVE  Top(s, shown, m)[y] = Top(s, levels, m)[y]
    <2>1. /\ Top(s, shown, m)[y] = IF Cardinality(Above(s, shown, y)) < m THEN shown[y] ELSE 0
          /\ Top(s, levels, m)[y] = IF Cardinality(Above(s, levels, y)) < m THEN levels[y] ELSE 0
          /\ Top(s, levels, n)[y] = IF Cardinality(Above(s, levels, y)) < n THEN levels[y] ELSE 0
      BY TopIs
    <2>2. Cardinality(Above(s, levels, y)) \in Nat
      BY AboveFinite
    <2>3. CASE Cardinality(Above(s, levels, y)) < m
      <3>1. Above(s, shown, y) = Above(s, levels, y)
        BY <1>2, <2>2, <2>3
      <3>2. y \notin W
        BY <2>2, <2>3
      <3> QED
        BY <2>1, <2>2, <2>3, <3>1, <3>2
    <2>4. CASE ~(Cardinality(Above(s, levels, y)) < m) /\ Cardinality(Above(s, levels, y)) < n
      BY <1>2, <2>1, <2>4
    <2>5. CASE ~(Cardinality(Above(s, levels, y)) < n)
      BY <2>1, <2>2, <2>5
    <2> QED
      BY <2>3, <2>4, <2>5
  <1>4. Top(s, shown, m) \in Levels /\ Top(s, levels, m) \in Levels
    BY <1>1, TopType
  <1> QED
    BY <1>3, <1>4, SameLevels

\* Trimming a side to n levels leaves at most n.
LEMMA TopFits ==
    ASSUME NEW s, NEW levels, NEW n \in Nat
    PROVE  Cardinality({p \in Prices : Top(s, levels, n)[p] # 0}) <= n
  <1> DEFINE T == {p \in Prices : Top(s, levels, n)[p] # 0}
             f == [p \in T |-> Cardinality(Above(s, levels, p))]
  <1>1. IsFiniteSet(T) /\ Cardinality(T) \in Nat
    <2>1. T \in SUBSET Prices /\ IsFiniteSet(Prices)
      BY BookAssumption
    <2>2. IsFiniteSet(T)
      BY <2>1, FS_Subset
    <2> QED
      BY <2>2, FS_CardinalityType
  <1>2. ASSUME NEW p \in T
        PROVE  p \in Prices /\ levels[p] # 0 /\ f[p] \in 0..(n - 1)
    <2>1. Cardinality(Above(s, levels, p)) < n /\ levels[p] # 0
      BY <1>2, TopIs
    <2>2. Cardinality(Above(s, levels, p)) \in Nat
      BY AboveFinite
    <2> QED
      BY <2>1, <2>2
  <1>3. ASSUME NEW p \in T, NEW q \in T, p # q
        PROVE  f[p] # f[q]
    <2>1. ASSUME NEW x \in T, NEW y \in T, Better(s, x, y)
          PROVE  f[x] # f[y]
      <3>1. Cardinality(Above(s, levels, x)) < Cardinality(Above(s, levels, y))
        BY <1>2, <2>1, AboveNested
      <3>2. Cardinality(Above(s, levels, x)) \in Nat /\ Cardinality(Above(s, levels, y)) \in Nat
        BY AboveFinite
      <3> QED
        BY <3>1, <3>2
    <2>2. Better(s, p, q) \/ Better(s, q, p)
      BY <1>3, BetterOrders
    <2> QED
      BY <2>1, <2>2
  <1>4. IsFiniteSet(0..(n - 1)) /\ Cardinality(0..(n - 1)) = n
    BY FS_Interval
  <1>5. f \in [T -> 0..(n - 1)]
    BY <1>2
  <1> HIDE DEF T, f
  <1>6. ~(Cardinality(0..(n - 1)) < Cardinality(T))
    BY <1>1, <1>3, <1>4, <1>5, FS_PigeonHole
  <1>7. Cardinality(T) <= n
    BY <1>1, <1>4, <1>6
  <1> QED
    BY <1>7 DEF T

\* A set of naturals has a least member.
LEMMA LeastNatural ==
    ASSUME NEW T, T \subseteq Nat, T # {}
    PROVE  \E x \in T : \A y \in T : x <= y
  <1> DEFINE R == {ss \in Nat \X Nat : ss[1] < ss[2]}
  <1>1. IsWellFoundedOn(R, Nat)
    BY NatLessThanWellFounded DEF OpToRel
  <1> HIDE DEF R
  <1>2. PICK x \in T : \A y \in T : ~(<<y, x>> \in R)
    BY <1>1, WFMin
  <1>3. \A y \in T : ~(y < x)
    BY <1>2 DEF R
  <1> QED
    BY <1>3

\* wire_depth always has a tier to give, with headroom over the checksum.
LEMMA WireDepthHeadroom ==
    ASSUME NEW d \in Tiers \union {0}
    PROVE  WireDepth(d) \in Nat /\ WireDepth(d) > ChecksumDepth /\ WireDepth(d) >= d
  <1> DEFINE T == {n \in Tiers : n >= d /\ n > ChecksumDepth}
  <1>1. T \subseteq Nat /\ T # {}
    <2>1. PICK n \in Tiers : n > ChecksumDepth
      BY BookAssumption
    <2>2. CASE n >= d
      BY <2>1, <2>2, BookAssumption
    <2>3. CASE ~(n >= d)
      <3>1. d \in Tiers /\ d \in Nat /\ d > ChecksumDepth /\ d >= d
        BY <2>1, <2>3, BookAssumption
      <3>2. d \in T
        BY <3>1
      <3> QED
        BY <3>2, BookAssumption
    <2> QED
      BY <2>2, <2>3
  <1>2. \E x \in T : \A y \in T : x <= y
    BY <1>1, LeastNatural
  <1>3. \E n \in Tiers : /\ n >= d /\ n > ChecksumDepth
                         /\ \A k \in Tiers : (k >= d /\ k > ChecksumDepth) => n <= k
    BY <1>2
  <1>4. WireDepth(d) \in Tiers /\ WireDepth(d) > ChecksumDepth /\ WireDepth(d) >= d
    BY <1>3 DEF WireDepth
  <1> QED
    BY <1>4, BookAssumption

-----------------------------------------------------------------------------
(* The inductive invariant.                                                *)

BookOf == [Sides -> Levels]

ChangeOf == [side : Sides, price : Prices, qty : Quantities \union {0}]

FrameOf ==
    [type : {"snapshot", "delta", "ack", "reject"}, book : BookOf, changes : SUBSET ChangeOf,
     checksum : BookOf, garbled : BOOLEAN, intact : BOOLEAN, depth : Nat, truth : BookOf,
     shown : BookOf]

IsData(f) == f.type \in {"snapshot", "delta"}

\* The checksum of a frame is of the exchange's book; a whole frame of a stream
\* with headroom shows all that the checksum covers, and a snapshot all it shows.
FrameTells(f) ==
    IsData(f) =>
        /\ f.checksum = Checksum(f.truth)
        /\ f.intact => ~f.garbled
        /\ f.intact /\ f.depth > ChecksumDepth => Checksum(f.shown) = f.checksum
        /\ f.intact /\ f.type = "snapshot" => TrimToDepth(f.book, f.depth) = f.shown

Telling == {f \in FrameOf : FrameTells(f)}

RequestOf == [channel : {"book", "raw"}, depth : Tiers \union {0}]

EntryTyped ==
    entry \in [state : {"absent", "live", "terminated"}, params : RequestOf]

Outgoing == Seq([op : {"sub", "unsub"}, depth : Nat])

BuilderOf ==
    [book : BookOf, depth : Nat, caller : Nat, resyncing : BOOLEAN, gaps : 0..(MaxGaps - 1),
     chained : BOOLEAN]

\* A builder is subscribed with headroom, keeps no more than it is subscribed to,
\* and one that awaits a snapshot is in step with nothing.
BuilderSound(b) ==
    /\ b \in BuilderOf
    /\ b.chained => ~b.resyncing
    /\ b.depth # 0 => b.depth > ChecksumDepth
    /\ \A s \in Sides : Cardinality({p \in Prices : b.book[s][p] # 0}) <= b.depth

\* A level still to be published is the exchange's.
ServerSound(ex, srv) ==
    /\ srv \in [on : BOOLEAN, depth : Nat, owed : SUBSET ChangeOf, intact : BOOLEAN]
    /\ ~srv.on => ~srv.intact /\ srv.owed = {}
    /\ \A c \in srv.owed : c.qty = Top(c.side, ex[c.side], srv.depth)[c.price]

\* What the exchange has published of its book, at depth n.
Shows(ex, n, owed) ==
    [s \in Sides |-> [p \in Prices |->
        IF \E c \in owed : c.side = s /\ c.price = p THEN 0 ELSE Top(s, ex[s], n)[p]]]

\* A book of depth n with some levels changed.
ChangedTo(book, changes, s, p) ==
    LET cs == {c \in changes : c.side = s /\ c.price = p}
    IN  IF cs = {} THEN book[s][p] ELSE (CHOOSE c \in cs : TRUE).qty

Change(book, changes, n) ==
    TrimToDepth([s \in Sides |-> [p \in Prices |-> ChangedTo(book, changes, s, p)]], n)

\* The books a client in step with the stream may hold when it has handled all
\* frames before the i-th: what the last data frame shows, or its builder's book.
Held(in, i, b, n) ==
    {in[j].shown : j \in {j \in 1..(i - 1) : /\ IsData(in[j])
                                             /\ \A k \in (j + 1)..(i - 1) : ~IsData(in[k])
                                             /\ in[j].intact /\ in[j].depth = n}}
    \union {x \in {b.book} : /\ \A k \in 1..(i - 1) : ~IsData(in[k])
                             /\ b.chained /\ b.depth = n}

\* A whole delta takes what such a client holds to what it shows.
Chain(in, b) ==
    \A i \in 1..Len(in) :
        in[i].type = "delta" /\ in[i].intact =>
            \A x \in Held(in, i, b, in[i].depth) :
                Change(x, in[i].changes, in[i].depth) = in[i].shown

\* At the end of the stream such a client holds what the exchange has published.
Tip(in, b, ex, srv) ==
    srv.intact =>
        \A x \in Held(in, Len(in) + 1, b, srv.depth) : x = Shows(ex, srv.depth, srv.owed)

\* The stream: frames that tell the exchange's book, and are in step with it.
StreamSound(in, b, ex, srv) ==
    /\ in \in Seq(Telling)
    /\ ServerSound(ex, srv)
    /\ Chain(in, b)
    /\ Tip(in, b, ex, srv)

LinkOf == [up : BOOLEAN, ack : BOOLEAN, resend : BOOLEAN, reseed : BOOLEAN, refused : BOOLEAN]

\* A connection that is down has no requests under way, and no stream.
LinkSound ==
    /\ link \in LinkOf
    /\ outbox \in Outgoing
    /\ ~link.up => outbox = <<>> /\ ~server.on

BookInv ==
    /\ exBook \in BookOf
    /\ StreamSound(inbox, builder, exBook, server)
    /\ LinkSound
    /\ EntryTyped
    /\ BuilderSound(builder)

-----------------------------------------------------------------------------
(* The stream: what a client in step with it holds.                        *)

\* A handled frame leaves the same client: the builder is as it was, or in step
\* with nothing, or it took the frame.
LEMMA HeldTail ==
    ASSUME NEW S, NEW in \in Seq(S), in # <<>>, NEW b, NEW b2, NEW n,
           NEW i \in Nat \ {0}, i <= Len(in),
           \/ IsData(Head(in)) /\ (b2.chained => /\ Head(in).intact /\ Head(in).depth = b2.depth
                                                 /\ b2.book = Head(in).shown)
           \/ ~IsData(Head(in)) /\ (b2.chained => b2 = b)
    PROVE  Held(Tail(in), i, b2, n) \subseteq Held(in, i + 1, b, n)
  <1>1. /\ Head(in) = in[1] /\ Len(in) \in Nat /\ Len(Tail(in)) = Len(in) - 1
        /\ \A k \in 1..(i - 1) : Tail(in)[k] = in[k + 1]
    BY HeadTailProperties
  <1>2. ASSUME NEW j \in 1..(i - 1), IsData(Tail(in)[j]),
               \A k \in (j + 1)..(i - 1) : ~IsData(Tail(in)[k]),
               Tail(in)[j].intact, Tail(in)[j].depth = n
        PROVE  Tail(in)[j].shown \in Held(in, i + 1, b, n)
    <2>1. j + 1 \in 1..((i + 1) - 1) /\ Tail(in)[j] = in[j + 1]
      BY <1>1
    <2>2. ASSUME NEW k \in ((j + 1) + 1)..((i + 1) - 1)
          PROVE  ~IsData(in[k])
      <3>1. k - 1 \in (j + 1)..(i - 1) /\ Tail(in)[k - 1] = in[(k - 1) + 1] /\ (k - 1) + 1 = k
        BY <1>1
      <3>2. ~IsData(Tail(in)[k - 1])
        BY <1>2, <3>1
      <3> QED
        BY <3>1, <3>2
    <2> QED
      BY <1>2, <2>1, <2>2 DEF Held
  <1>3. ASSUME \A k \in 1..(i - 1) : ~IsData(Tail(in)[k]), b2.chained, b2.depth = n
        PROVE  b2.book \in Held(in, i + 1, b, n)
    <2>1. ASSUME NEW k \in 2..((i + 1) - 1)
          PROVE  ~IsData(in[k])
      <3>1. k - 1 \in 1..(i - 1) /\ Tail(in)[k - 1] = in[(k - 1) + 1] /\ (k - 1) + 1 = k
        BY <1>1
      <3> QED
        BY <1>3, <3>1
    <2>2. CASE IsData(Head(in))
      <3>1. /\ 1 \in 1..((i + 1) - 1) /\ IsData(in[1]) /\ in[1].intact /\ in[1].depth = n
            /\ b2.book = in[1].shown
        BY <1>1, <1>3, <2>2
      <3>2. \A k \in (1 + 1)..((i + 1) - 1) : ~IsData(in[k])
        BY <2>1
      <3> QED
        BY <3>1, <3>2 DEF Held
    <2>3. CASE ~IsData(Head(in))
      <3>1. b2 = b
        BY <1>3, <2>3
      <3>2. \A k \in 1..((i + 1) - 1) : ~IsData(in[k])
        <4> TAKE k \in 1..((i + 1) - 1)
        <4>1. k = 1 \/ k \in 2..((i + 1) - 1)
          OBVIOUS
        <4> QED
          BY <1>1, <2>1, <2>3, <4>1
      <3> QED
        BY <1>3, <3>1, <3>2 DEF Held
    <2> QED
      BY <2>2, <2>3
  <1> QED
    BY <1>2, <1>3 DEF Held

\* A builder in step with nothing holds no book of the stream.
LEMMA HeldUnchained ==
    ASSUME NEW in, NEW b, NEW b2, NEW n, NEW i, b2.chained => b2 = b
    PROVE  Held(in, i, b2, n) \subseteq Held(in, i, b, n)
  BY DEF Held

\* A frame sent later changes nothing of what is held before it.
LEMMA HeldBefore ==
    ASSUME NEW S, NEW in \in Seq(S), NEW f, NEW b, NEW n, NEW i \in Nat, i <= Len(in) + 1
    PROVE  Held(Append(in, f), i, b, n) = Held(in, i, b, n)
  <1>1. \A k \in 1..(i - 1) : Append(in, f)[k] = in[k]
    OBVIOUS
  <1> DEFINE P(q, j) == /\ IsData(q[j])
                        /\ \A k \in (j + 1)..(i - 1) : ~IsData(q[k])
                        /\ q[j].intact /\ q[j].depth = n
             R(q) == \A k \in 1..(i - 1) : ~IsData(q[k])
  <1>2. \A j \in 1..(i - 1) : P(Append(in, f), j) <=> P(in, j)
    BY <1>1
  <1>3. R(Append(in, f)) <=> R(in)
    BY <1>1
  <1>4. {Append(in, f)[j].shown : j \in {j \in 1..(i - 1) : P(Append(in, f), j)}}
            = {in[j].shown : j \in {j \in 1..(i - 1) : P(in, j)}}
    <2>1. {j \in 1..(i - 1) : P(Append(in, f), j)} = {j \in 1..(i - 1) : P(in, j)}
      BY <1>2
    <2> HIDE DEF P
    <2> QED
      BY <1>1, <2>1
  <1> QED
    BY <1>3, <1>4 DEF Held

\* After a data frame what it shows is held, after another what was before it.
LEMMA HeldAfter ==
    ASSUME NEW S, NEW in \in Seq(S), NEW f, NEW b, NEW n
    PROVE  \A x \in Held(Append(in, f), Len(in) + 2, b, n) :
              IF IsData(f) THEN f.intact /\ f.depth = n /\ x = f.shown
              ELSE x \in Held(in, Len(in) + 1, b, n)
  <1> DEFINE out == Append(in, f)
             N == Len(in)
  <1>1. /\ N \in Nat /\ out[N + 1] = f /\ \A k \in 1..N : out[k] = in[k]
        /\ (N + 2) - 1 = N + 1 /\ (N + 1) - 1 = N
    OBVIOUS
  <1> HIDE DEF out, N
  <1>2. ASSUME NEW j \in 1..(N + 1), IsData(out[j]),
               \A k \in (j + 1)..(N + 1) : ~IsData(out[k]), out[j].intact, out[j].depth = n
        PROVE  IF IsData(f) THEN f.intact /\ f.depth = n /\ out[j].shown = f.shown
               ELSE out[j].shown \in Held(in, N + 1, b, n)
    <2>1. CASE j = N + 1
      BY <1>1, <1>2, <2>1
    <2>2. CASE j # N + 1
      <3>1. j \in 1..N /\ N + 1 \in (j + 1)..(N + 1)
        BY <1>1, <2>2
      <3>2. ~IsData(f)
        BY <1>1, <1>2, <3>1
      <3>3. \A k \in (j + 1)..N : ~IsData(in[k])
        BY <1>1, <1>2, <3>1
      <3>4. out[j] = in[j]
        BY <1>1, <3>1
      <3> QED
        BY <1>1, <1>2, <3>1, <3>2, <3>3, <3>4 DEF Held
    <2> QED
      BY <2>1, <2>2
  <1>3. ASSUME \A k \in 1..(N + 1) : ~IsData(out[k]), b.chained, b.depth = n
        PROVE  ~IsData(f) /\ b.book \in Held(in, N + 1, b, n)
    <2>1. ~IsData(f) /\ \A k \in 1..N : ~IsData(in[k])
      BY <1>1, <1>3
    <2> QED
      BY <1>1, <1>3, <2>1 DEF Held
  <1>4. \A x \in Held(out, N + 2, b, n) :
              IF IsData(f) THEN f.intact /\ f.depth = n /\ x = f.shown
              ELSE x \in Held(in, N + 1, b, n)
    BY <1>1, <1>2, <1>3 DEF Held
  <1> QED
    BY <1>4 DEF out, N

\* What is kept when frames are taken off the stream, or the builder is replaced.
LEMMA StreamConsumed ==
    ASSUME NEW S, NEW in \in Seq(S), NEW b, NEW b2, NEW ex, NEW srv,
           Chain(in, b), Tip(in, b, ex, srv), in # <<>>,
           \/ IsData(Head(in)) /\ (b2.chained => /\ Head(in).intact /\ Head(in).depth = b2.depth
                                                 /\ b2.book = Head(in).shown)
           \/ ~IsData(Head(in)) /\ (b2.chained => b2 = b)
    PROVE  Chain(Tail(in), b2) /\ Tip(Tail(in), b2, ex, srv)
  <1>1. /\ Len(in) \in Nat /\ Len(in) # 0 /\ Len(Tail(in)) = Len(in) - 1
        /\ \A k \in 1..Len(Tail(in)) : Tail(in)[k] = in[k + 1]
    BY HeadTailProperties, EmptySeq
  <1>2. ASSUME NEW i \in Nat \ {0}, i <= Len(in), NEW n
        PROVE  Held(Tail(in), i, b2, n) \subseteq Held(in, i + 1, b, n)
    BY <1>2, HeldTail
  <1>3. Chain(Tail(in), b2)
    <2>1. ASSUME NEW i \in 1..Len(Tail(in)), Tail(in)[i].type = "delta", Tail(in)[i].intact,
                 NEW x \in Held(Tail(in), i, b2, Tail(in)[i].depth)
          PROVE  Change(x, Tail(in)[i].changes, Tail(in)[i].depth) = Tail(in)[i].shown
      <3>1. i \in Nat \ {0} /\ i <= Len(in) /\ i + 1 \in 1..Len(in) /\ Tail(in)[i] = in[i + 1]
        BY <1>1
      <3>2. x \in Held(in, i + 1, b, in[i + 1].depth)
        BY <1>2, <2>1, <3>1
      <3> QED
        BY <2>1, <3>1, <3>2 DEF Chain
    <2> QED
      BY <2>1 DEF Chain
  <1>4. Tip(Tail(in), b2, ex, srv)
    <2>1. Len(Tail(in)) + 1 = Len(in) /\ Len(in) \in Nat \ {0} /\ Len(in) <= Len(in)
      BY <1>1
    <2>2. Held(Tail(in), Len(in), b2, srv.depth) \subseteq Held(in, Len(in) + 1, b, srv.depth)
      BY <1>2, <2>1
    <2> QED
      BY <2>1, <2>2 DEF Tip
  <1> QED
    BY <1>3, <1>4

LEMMA StreamKept ==
    ASSUME NEW in, NEW b, NEW b2, NEW ex, NEW srv, Chain(in, b), Tip(in, b, ex, srv),
           b2.chained => b2 = b
    PROVE  Chain(in, b2) /\ Tip(in, b2, ex, srv)
  <1>1. \A i, n : Held(in, i, b2, n) \subseteq Held(in, i, b, n)
    BY HeldUnchained
  <1> QED
    BY <1>1 DEF Chain, Tip

\* A session that is over has no stream.
LEMMA StreamOver ==
    ASSUME NEW b, NEW ex, NEW srv, ~srv.intact
    PROVE  Chain(<<>>, b) /\ Tip(<<>>, b, ex, srv)
  BY DEF Chain, Tip

\* A frame is sent: it must take what is held to what it shows, and show what the
\* exchange then has published.
LEMMA StreamExtended ==
    ASSUME NEW S, NEW in \in Seq(S), NEW b, NEW f, Chain(in, b),
           f.type = "delta" /\ f.intact =>
              \A x \in Held(in, Len(in) + 1, b, f.depth) : Change(x, f.changes, f.depth) = f.shown
    PROVE  Chain(Append(in, f), b)
  <1> DEFINE out == Append(in, f)
  <1>1. /\ Len(in) \in Nat /\ Len(out) = Len(in) + 1 /\ out[Len(in) + 1] = f
        /\ \A k \in 1..Len(in) : out[k] = in[k]
    OBVIOUS
  <1>2. ASSUME NEW i \in 1..Len(out), out[i].type = "delta", out[i].intact,
               NEW x \in Held(out, i, b, out[i].depth)
        PROVE  Change(x, out[i].changes, out[i].depth) = out[i].shown
    <2>1. i \in Nat /\ i <= Len(in) + 1
      BY <1>1
    <2>2. Held(out, i, b, out[i].depth) = Held(in, i, b, out[i].depth)
      BY <2>1, HeldBefore
    <2> HIDE DEF out
    <2>3. CASE i = Len(in) + 1
      BY <1>1, <1>2, <2>2, <2>3
    <2>4. CASE i # Len(in) + 1
      <3>1. i \in 1..Len(in) /\ out[i] = in[i]
        BY <1>1, <2>1, <2>4
      <3> QED
        BY <1>2, <2>2, <3>1 DEF Chain
    <2> QED
      BY <2>3, <2>4
  <1> QED
    BY <1>2 DEF Chain

LEMMA TipOfData ==
    ASSUME NEW S, NEW in \in Seq(S), NEW b, NEW f, NEW ex, NEW srv, IsData(f),
           srv.intact => f.shown = Shows(ex, srv.depth, srv.owed)
    PROVE  Tip(Append(in, f), b, ex, srv)
  <1>1. Len(Append(in, f)) + 1 = Len(in) + 2
    OBVIOUS
  <1>2. \A x \in Held(Append(in, f), Len(in) + 2, b, srv.depth) : x = f.shown
    BY HeldAfter
  <1> QED
    BY <1>1, <1>2 DEF Tip

LEMMA TipOfOther ==
    ASSUME NEW S, NEW in \in Seq(S), NEW b, NEW f, NEW ex, NEW srv, ~IsData(f),
           Tip(in, b, ex, srv)
    PROVE  Tip(Append(in, f), b, ex, srv)
  <1>1. Len(Append(in, f)) + 1 = Len(in) + 2
    OBVIOUS
  <1>2. \A x \in Held(Append(in, f), Len(in) + 2, b, srv.depth) :
            x \in Held(in, Len(in) + 1, b, srv.depth)
    BY HeldAfter
  <1> QED
    BY <1>1, <1>2 DEF Tip

-----------------------------------------------------------------------------
(* The builder.                                                            *)

LEMMA TrimTyped ==
    ASSUME NEW book \in BookOf, NEW n \in Nat
    PROVE  /\ TrimToDepth(book, n) \in BookOf
           /\ \A s \in Sides : Cardinality({p \in Prices : TrimToDepth(book, n)[s][p] # 0}) <= n
  <1>1. \A s \in Sides : book[s] \in Levels /\ TrimToDepth(book, n)[s] = Top(s, book[s], n)
    BY DEF BookOf, TrimToDepth
  <1>2. \A s \in Sides : Top(s, book[s], n) \in Levels
    BY <1>1, TopType
  <1> QED
    BY <1>1, <1>2, TopFits DEF BookOf, TrimToDepth

LEMMA ChecksumIsTrim ==
    ASSUME NEW book
    PROVE  Checksum(book) = TrimToDepth(book, ChecksumDepth)
  BY DEF Checksum, TrimToDepth

\* A book with some levels changed.
Edited(book, changes) == [s \in Sides |-> [p \in Prices |-> ChangedTo(book, changes, s, p)]]

LEMMA EditedTyped ==
    ASSUME NEW book \in BookOf, NEW changes \in SUBSET ChangeOf
    PROVE  Edited(book, changes) \in BookOf
  <1>1. ASSUME NEW s \in Sides, NEW p \in Prices
        PROVE  ChangedTo(book, changes, s, p) \in Quantities \union {0}
    <2> DEFINE cs == {c \in changes : c.side = s /\ c.price = p}
    <2>1. CASE cs = {}
      BY <2>1 DEF ChangedTo, BookOf, Levels
    <2>2. CASE cs # {}
      <3>1. (CHOOSE c \in cs : TRUE) \in cs
        BY <2>2
      <3>2. (CHOOSE c \in cs : TRUE).qty \in Quantities \union {0}
        BY <3>1 DEF ChangeOf
      <3> QED
        BY <2>2, <3>2 DEF ChangedTo
    <2> QED
      BY <2>1, <2>2
  <1> QED
    BY <1>1 DEF Edited, BookOf, Levels

LEMMA NoBuilderSound == BuilderSound(NoBuilder) /\ ~NoBuilder.chained /\ NoBuilder.depth = 0
  <1>1. NoBuilder.book \in BookOf
    BY DEF NoBuilder, BookOf, Levels
  <1>2. NoBuilder \in BuilderOf
    BY <1>1, BookAssumption DEF NoBuilder, BuilderOf
  <1>3. \A s \in Sides : {p \in Prices : NoBuilder.book[s][p] # 0} = {}
    BY DEF NoBuilder
  <1>4. \A s \in Sides : Cardinality({p \in Prices : NoBuilder.book[s][p] # 0}) <= NoBuilder.depth
    BY <1>3, FS_EmptySet DEF NoBuilder
  <1> QED
    BY <1>2, <1>4 DEF BuilderSound, NoBuilder

LEMMA NewBuilderSound ==
    ASSUME NEW r \in Requests
    PROVE  BuilderSound(NewBuilder(r)) /\ ~NewBuilder(r).chained
  <1>1. r.depth \in Tiers /\ r.depth \in Nat
    BY BookAssumption
  <1>2. WireDepth(r.depth) \in Nat /\ WireDepth(r.depth) > ChecksumDepth
    BY <1>1, WireDepthHeadroom
  <1>3. CASE r.channel = "book"
    <2> DEFINE b == NewBuilder(r)
    <2>1. b = [NoBuilder EXCEPT !.depth = WireDepth(r.depth), !.caller = r.depth]
      BY <1>3 DEF NewBuilder
    <2>2. NoBuilder \in BuilderOf /\ ~NoBuilder.chained
      BY NoBuilderSound DEF BuilderSound
    <2>3. /\ b \in BuilderOf /\ ~b.chained /\ b.depth = WireDepth(r.depth)
          /\ b.book = NoBuilder.book
      <3> HIDE DEF b
      <3> QED
        BY <1>1, <1>2, <2>1, <2>2 DEF BuilderOf
    <2>4. ASSUME NEW s \in Sides
          PROVE  Cardinality({p \in Prices : b.book[s][p] # 0}) <= b.depth
      <3>1. {p \in Prices : b.book[s][p] # 0} = {}
        BY <2>3 DEF NoBuilder
      <3> QED
        BY <1>2, <2>3, <3>1, FS_EmptySet
    <2> HIDE DEF b
    <2>5. BuilderSound(b) /\ ~b.chained
      BY <1>2, <2>3, <2>4 DEF BuilderSound
    <2> QED
      BY <2>5 DEF b
  <1>4. CASE r.channel # "book"
    BY <1>4, NoBuilderSound DEF NewBuilder
  <1> QED
    BY <1>3, <1>4

\* The head of the stream takes a builder in step to what it shows.
Continues(b, f) ==
    f.type = "delta" /\ f.intact /\ b.chained /\ b.depth = f.depth =>
        Change(b.book, f.changes, f.depth) = f.shown

\* A builder after frame f: in step with the stream, it has what the frame shows.
InStep(b, f) == b.chained => f.intact /\ f.depth = b.depth /\ b.book = f.shown

LEMMA HeadContinues ==
    ASSUME NEW S, NEW in \in Seq(S), in # <<>>, NEW b, Chain(in, b)
    PROVE  Continues(b, Head(in))
  <1>1. Head(in) = in[1] /\ 1 \in 1..Len(in) /\ \A k \in 1..(1 - 1) : ~IsData(in[k])
    BY HeadTailProperties, EmptySeq
  <1>2. b.chained /\ b.depth = in[1].depth => b.book \in Held(in, 1, b, in[1].depth)
    BY <1>1 DEF Held
  <1> QED
    BY <1>1, <1>2 DEF Continues, Chain

\* apply_snapshot and apply_delta.
LEMMA AppliedSound ==
    ASSUME NEW b, BuilderSound(b), NEW f \in FrameOf, FrameTells(f), IsData(f), Continues(b, f)
    PROVE  /\ Applied(b, f) \in BuilderOf
           /\ BuilderSound(Applied(b, f))
           /\ InStep(Applied(b, f), f)
           /\ Applied(b, f).depth = b.depth /\ Applied(b, f).caller = b.caller
           /\ Applied(b, f).gaps = b.gaps
           /\ Applied(b, f).chained =
                 (f.intact /\ f.depth = b.depth /\ (b.chained \/ f.type = "snapshot"))
           /\ f.type = "snapshot" => ~Applied(b, f).resyncing
           /\ f.type # "snapshot" => Applied(b, f).resyncing = b.resyncing
  <1> DEFINE book == IF f.type = "snapshot" THEN f.book ELSE Edited(b.book, f.changes)
             a == Applied(b, f)
             chained == f.intact /\ f.depth = b.depth /\ (b.chained \/ f.type = "snapshot")
             resyncing == b.resyncing /\ f.type # "snapshot"
  <1>1. /\ b \in BuilderOf /\ b.book \in BookOf /\ b.depth \in Nat
        /\ b.chained \in BOOLEAN /\ b.resyncing \in BOOLEAN
    BY DEF BuilderSound, BuilderOf
  <1>2. f.book \in BookOf /\ f.changes \in SUBSET ChangeOf /\ f.intact \in BOOLEAN
    BY DEF FrameOf
  <1>3. book \in BookOf
    BY <1>1, <1>2, EditedTyped
  <1>4. a = [b EXCEPT !.book = TrimToDepth(book, b.depth), !.resyncing = resyncing,
                      !.chained = chained]
    <2> DEFINE Changed(s, p) == {c \in f.changes : c.side = s /\ c.price = p}
               Level(s, p) ==
                   IF Changed(s, p) = {} THEN b.book[s][p]
                   ELSE LET q == (CHOOSE c \in Changed(s, p) : TRUE).qty
                        IN  IF DeltaDeletes(q) THEN 0 ELSE q
    <2>1. \A s, p : Level(s, p) = ChangedTo(b.book, f.changes, s, p)
      BY DEF ChangedTo, DeltaDeletes
    <2> HIDE DEF Level
    <2>2. [s \in Sides |-> [p \in Prices |-> Level(s, p)]] = Edited(b.book, f.changes)
      BY <2>1 DEF Edited
    <2> QED
      BY <2>2 DEF Applied, Level
  <1>5. /\ TrimToDepth(book, b.depth) \in BookOf
        /\ \A s \in Sides :
              Cardinality({p \in Prices : TrimToDepth(book, b.depth)[s][p] # 0}) <= b.depth
    BY <1>1, <1>3, TrimTyped
  <1>6. chained \in BOOLEAN /\ resyncing \in BOOLEAN
    BY <1>1, <1>2
  <1> DEFINE trimmed == TrimToDepth(book, b.depth)
  <1>7. chained => trimmed = f.shown
    <2>1. CASE f.type = "snapshot"
      BY <2>1 DEF FrameTells, IsData
    <2>2. CASE f.type = "delta"
      BY <2>2 DEF Continues, Change, Edited
    <2> QED
      BY <2>1, <2>2 DEF IsData
  <1>8. chained => ~resyncing
    BY DEF BuilderSound
  <1> HIDE DEF chained, resyncing, trimmed, a
  <1>9. a = [b EXCEPT !.book = trimmed, !.resyncing = resyncing, !.chained = chained]
    BY <1>4 DEF trimmed
  <1>10. /\ a \in BuilderOf /\ a.book = trimmed /\ a.depth = b.depth /\ a.caller = b.caller
         /\ a.gaps = b.gaps /\ a.chained = chained /\ a.resyncing = resyncing
    <2>1. trimmed \in BookOf
      BY <1>5 DEF trimmed
    <2> QED
      BY <1>1, <1>6, <1>9, <2>1 DEF BuilderOf
  <1>11. BuilderSound(a)
    BY <1>5, <1>8, <1>10 DEF BuilderSound, trimmed
  <1>12. InStep(a, f)
    BY <1>7, <1>10 DEF InStep, chained
  <1>13. /\ f.type = "snapshot" => ~a.resyncing
         /\ f.type # "snapshot" => a.resyncing = b.resyncing
    BY <1>1, <1>10 DEF resyncing
  <1> QED
    BY <1>10, <1>11, <1>12, <1>13 DEF a, chained

\* begin_resync
LEMMA ResyncSound ==
    ASSUME NEW b, BuilderSound(b)
    PROVE  BuilderSound(BeginResync(b)) /\ ~BeginResync(b).chained
  <1>1. b \in BuilderOf /\ NoBuilder.book \in BookOf /\ b.depth \in Nat
    BY NoBuilderSound DEF BuilderSound, BuilderOf
  <1> DEFINE a == BeginResync(b)
             none == NoBuilder.book
  <1>2. \A s \in Sides : {p \in Prices : none[s][p] # 0} = {}
    BY DEF NoBuilder
  <1>3. none \in BookOf
    BY <1>1
  <1>4. a = [b EXCEPT !.book = none, !.resyncing = TRUE, !.chained = FALSE]
    BY DEF BeginResync
  <1> HIDE DEF a, none
  <1>5. a \in BuilderOf /\ a.book = none /\ a.depth = b.depth /\ ~a.chained
    BY <1>1, <1>3, <1>4 DEF BuilderOf
  <1>6. \A s \in Sides : Cardinality({p \in Prices : a.book[s][p] # 0}) <= a.depth
    <2>1. Cardinality({}) <= a.depth
      BY <1>1, <1>5, FS_EmptySet
    <2> QED
      BY <1>2, <1>5, <2>1
  <1>7. BuilderSound(a)
    BY <1>5, <1>6 DEF BuilderSound
  <1> QED
    BY <1>5, <1>7 DEF a

\* A builder that only its gap streak or its chain tells from a sound one.
LEMMA SoundButFor ==
    ASSUME NEW b, BuilderSound(b), NEW g \in 0..(MaxGaps - 1)
    PROVE  /\ BuilderSound([b EXCEPT !.gaps = g])
           /\ [b EXCEPT !.gaps = g].chained = b.chained
           /\ [b EXCEPT !.gaps = g].book = b.book
           /\ [b EXCEPT !.gaps = g].depth = b.depth
           /\ [b EXCEPT !.gaps = g].caller = b.caller
           /\ [b EXCEPT !.gaps = g].gaps = g
           /\ BuilderSound([b EXCEPT !.chained = FALSE])
           /\ ~[b EXCEPT !.chained = FALSE].chained
  <1>1. b \in BuilderOf
    BY DEF BuilderSound
  <1> DEFINE a == [b EXCEPT !.gaps = g]
             c == [b EXCEPT !.chained = FALSE]
  <1>2. /\ a \in BuilderOf /\ a.chained = b.chained /\ a.book = b.book /\ a.depth = b.depth
        /\ a.caller = b.caller /\ a.resyncing = b.resyncing /\ a.gaps = g
    BY <1>1 DEF BuilderOf
  <1>3. /\ c \in BuilderOf /\ ~c.chained /\ c.book = b.book /\ c.depth = b.depth
        /\ c.resyncing = b.resyncing
    BY <1>1 DEF BuilderOf
  <1> HIDE DEF a, c
  <1>4. BuilderSound(a) /\ BuilderSound(c)
    BY <1>2, <1>3 DEF BuilderSound
  <1> QED
    BY <1>2, <1>3, <1>4 DEF a, c

\* drive_update: whatever comes of it, the builder is sound and, in step with the
\* stream, it has what the frame shows; a book is given out when its checksum is
\* the frame's.
LEMMA DriveSound ==
    ASSUME NEW f \in FrameOf, FrameTells(f), IsData(f), Continues(builder, f),
           BuilderSound(builder)
    PROVE  LET d == Drive(f)
           IN  /\ BuilderSound(d.builder)
               /\ InStep(d.builder, f)
               /\ d.outcome = "maintained" =>
                     /\ Checksum(d.builder.book) = f.checksum
                     /\ d.builder.depth > ChecksumDepth
               /\ (HasBuilder /\ Applied(builder, f).chained) => d.outcome = "maintained"
  <1> DEFINE a == Applied(builder, f)
             b == Validated(a, f)
             d == Drive(f)
  <1>1. /\ BuilderSound(a) /\ a \in BuilderOf /\ InStep(a, f) /\ a.depth = builder.depth
        /\ a.gaps = builder.gaps
        /\ a.chained = (f.intact /\ f.depth = builder.depth
                          /\ (builder.chained \/ f.type = "snapshot"))
    BY AppliedSound
  <1>2. MaxGaps \in Nat \ {0} /\ a.gaps \in 0..(MaxGaps - 1) /\ ChecksumDepth \in Nat \ {0}
    BY <1>1, BookAssumption DEF BuilderOf
  <1>3. CASE ~HasBuilder
    <2>1. d.outcome = "pass" /\ d.builder = NoBuilder
      BY <1>3 DEF Drive
    <2> HIDE DEF d
    <2>2. /\ BuilderSound(d.builder) /\ InStep(d.builder, f) /\ d.outcome # "maintained"
      BY <2>1, NoBuilderSound DEF InStep
    <2> QED
      BY <1>3, <2>2 DEF d
  <1>4. CASE HasBuilder /\ builder.resyncing /\ f.type = "delta"
    <2>1. d.outcome = "awaiting" /\ d.builder = builder
      BY <1>4 DEF Drive
    <2>2. ~builder.chained /\ ~a.chained
      BY <1>1, <1>4 DEF BuilderSound
    <2> HIDE DEF d
    <2>3. BuilderSound(d.builder) /\ InStep(d.builder, f) /\ d.outcome # "maintained"
      BY <2>1, <2>2 DEF InStep
    <2> QED
      BY <2>2, <2>3 DEF d
  <1>5. CASE HasBuilder /\ ~(builder.resyncing /\ f.type = "delta") /\ ~Parses(f)
    <2>1. d.outcome = "pass" /\ d.builder = [builder EXCEPT !.chained = FALSE]
      BY <1>5 DEF Drive
    <2>2. ~a.chained
      BY <1>1, <1>5 DEF Parses, FrameTells
    <2> HIDE DEF d
    <2>3. 0 \in 0..(MaxGaps - 1)
      BY <1>2
    <2>4. BuilderSound(d.builder) /\ ~d.builder.chained
      BY <2>1, <2>3, SoundButFor
    <2>5. InStep(d.builder, f) /\ d.outcome # "maintained"
      BY <2>1, <2>4 DEF InStep
    <2> QED
      BY <2>2, <2>4, <2>5 DEF d
  <1>6. CASE HasBuilder /\ ~(builder.resyncing /\ f.type = "delta") /\ Parses(f)
    <2>1. d = CASE b.gaps = 0 -> [outcome |-> "maintained", builder |-> b]
                [] b.gaps >= MaxGaps -> [outcome |-> "exhausted", builder |-> NoBuilder]
                [] OTHER -> [outcome |-> "gap", builder |-> b]
      BY <1>6 DEF Drive
    <2>2. CASE Checksum(a.book) = f.checksum
      <3>1. b = [a EXCEPT !.gaps = 0] /\ 0 \in 0..(MaxGaps - 1)
        BY <1>2, <2>2 DEF Validated
      <3> HIDE DEF a, b, d
      <3>2. /\ BuilderSound(b) /\ b.chained = a.chained /\ b.book = a.book /\ b.depth = a.depth
            /\ b.gaps = 0
        BY <1>1, <3>1, SoundButFor
      <3>3. d.outcome = "maintained" /\ d.builder = b
        BY <1>2, <2>1, <3>2
      <3>4. b.depth > ChecksumDepth /\ InStep(b, f)
        BY <1>1, <1>6, <3>2 DEF BuilderSound, HasBuilder, InStep
      <3> QED
        BY <2>2, <3>2, <3>3, <3>4 DEF d
    <2>3. CASE Checksum(a.book) # f.checksum
      <3>1. b = [a EXCEPT !.gaps = a.gaps + 1]
        BY <2>3 DEF Validated
      <3>2. ~a.chained
        <4>1. a.chained => /\ f.intact /\ f.depth = a.depth /\ a.book = f.shown
                           /\ a.depth > ChecksumDepth
          BY <1>1, <1>6 DEF InStep, BuilderSound, HasBuilder
        <4> QED
          BY <2>3, <4>1 DEF FrameTells
      <3> HIDE DEF a, b, d
      <3>3. b.gaps = a.gaps + 1
        BY <1>1, <3>1 DEF BuilderOf
      <3>4. CASE a.gaps + 1 >= MaxGaps
        <4>1. d.outcome = "exhausted" /\ d.builder = NoBuilder
          BY <1>2, <2>1, <3>3, <3>4
        <4>2. BuilderSound(d.builder) /\ InStep(d.builder, f) /\ d.outcome # "maintained"
          BY <4>1, NoBuilderSound DEF InStep
        <4> QED
          BY <3>2, <4>2 DEF d, a
      <3>5. CASE ~(a.gaps + 1 >= MaxGaps)
        <4>1. d.outcome = "gap" /\ d.builder = b /\ a.gaps + 1 \in 0..(MaxGaps - 1)
          BY <1>2, <2>1, <3>3, <3>5
        <4>2. BuilderSound(b) /\ b.chained = a.chained
          <5> DEFINE g == a.gaps + 1
          <5>1. g \in 0..(MaxGaps - 1) /\ b = [a EXCEPT !.gaps = g] /\ BuilderSound(a)
            BY <1>1, <3>1, <4>1
          <5> HIDE DEF g
          <5> QED
            BY <5>1, SoundButFor
        <4>3. BuilderSound(d.builder) /\ InStep(d.builder, f) /\ d.outcome # "maintained"
          BY <3>2, <4>1, <4>2 DEF InStep
        <4> QED
          BY <3>2, <4>3 DEF d, a
      <3> QED
        BY <3>4, <3>5
    <2> QED
      BY <2>2, <2>3
  <1> QED
    BY <1>3, <1>4, <1>5, <1>6

-----------------------------------------------------------------------------
(* The exchange's stream.                                                  *)

\* Books that agree on both sides are the same.
LEMMA SameBook ==
    ASSUME NEW a \in BookOf, NEW b \in BookOf,
           \A s \in Sides : \A p \in Prices : a[s][p] = b[s][p]
    PROVE  a = b
  <1>1. \A s \in Sides : a[s] \in Levels /\ b[s] \in Levels
    BY DEF BookOf
  <1>2. \A s \in Sides : a[s] = b[s]
    BY <1>1, SameLevels
  <1> QED
    BY <1>2 DEF BookOf

LEMMA ShowsTyped ==
    ASSUME NEW ex \in BookOf, NEW n \in Nat, NEW owed
    PROVE  /\ Shows(ex, n, owed) \in BookOf
           /\ Shows(ex, n, {}) = TrimToDepth(ex, n)
  <1>1. TrimToDepth(ex, n) \in BookOf
    BY TrimTyped
  <1>2. \A s \in Sides : \A p \in Prices :
            /\ TrimToDepth(ex, n)[s][p] = Top(s, ex[s], n)[p]
            /\ Top(s, ex[s], n)[p] \in Quantities \union {0}
    BY <1>1 DEF TrimToDepth, BookOf, Levels
  <1>3. Shows(ex, n, owed) \in BookOf /\ Shows(ex, n, {}) \in BookOf
    BY <1>2 DEF Shows, BookOf, Levels
  <1>4. \A s \in Sides : \A p \in Prices : Shows(ex, n, {})[s][p] = TrimToDepth(ex, n)[s][p]
    BY <1>2 DEF Shows
  <1> QED
    BY <1>1, <1>3, <1>4, SameBook

LEMMA TrimTwice ==
    ASSUME NEW ex \in BookOf, NEW m \in Nat, NEW n \in Nat, n <= m
    PROVE  TrimToDepth(TrimToDepth(ex, m), n) = TrimToDepth(ex, n)
  <1>1. \A s \in Sides : ex[s] \in Levels
    BY DEF BookOf
  <1>2. \A s \in Sides : Top(s, Top(s, ex[s], m), n) = Top(s, ex[s], n)
    BY <1>1, TopOfTop
  <1> QED
    BY <1>2 DEF TrimToDepth

\* The frame that publishes what was withheld brings a client in step up to date.
LEMMA OwedApplied ==
    ASSUME NEW ex \in BookOf, NEW srv, ServerSound(ex, srv)
    PROVE  Change(Shows(ex, srv.depth, srv.owed), srv.owed, srv.depth) = Shows(ex, srv.depth, {})
  <1> DEFINE n == srv.depth
             held == Shows(ex, n, srv.owed)
             all == TrimToDepth(ex, n)
  <1>1. n \in Nat /\ srv.owed \in SUBSET ChangeOf
    BY DEF ServerSound
  <1>2. held \in BookOf /\ all \in BookOf /\ Shows(ex, n, {}) = all
    BY <1>1, ShowsTyped, TrimTyped
  <1>3. Edited(held, srv.owed) \in BookOf
    BY <1>1, <1>2, EditedTyped
  <1>4. ASSUME NEW s \in Sides, NEW p \in Prices
        PROVE  Edited(held, srv.owed)[s][p] = all[s][p]
    <2> DEFINE cs == {c \in srv.owed : c.side = s /\ c.price = p}
    <2>1. Edited(held, srv.owed)[s][p] = ChangedTo(held, srv.owed, s, p)
      BY DEF Edited
    <2>2. all[s][p] = Top(s, ex[s], n)[p]
      BY DEF TrimToDepth
    <2>3. CASE cs = {}
      <3>1. held[s][p] = Top(s, ex[s], n)[p]
        BY <2>3 DEF Shows
      <3> QED
        BY <2>1, <2>2, <2>3, <3>1 DEF ChangedTo
    <2>4. CASE cs # {}
      <3>1. (CHOOSE c \in cs : TRUE) \in cs
        BY <2>4
      <3>2. \A c \in cs : c.qty = Top(s, ex[s], n)[p]
        BY DEF ServerSound
      <3>3. ChangedTo(held, srv.owed, s, p) = (CHOOSE c \in cs : TRUE).qty
        BY <2>4 DEF ChangedTo
      <3> HIDE DEF cs
      <3> QED
        BY <2>1, <2>2, <3>1, <3>2, <3>3
    <2> QED
      BY <2>3, <2>4
  <1>5. Edited(held, srv.owed) = all
    BY <1>2, <1>3, <1>4, SameBook
  <1>6. TrimToDepth(all, n) = all
    BY <1>1, TrimTwice
  <1> QED
    BY <1>2, <1>5, <1>6 DEF Change, Edited

\* The exchange's book after a change of one level.
Moving(ex, c) == [ex EXCEPT ![c.side][c.price] = c.qty]

LEMMA MoveTyped ==
    ASSUME NEW ex \in BookOf, NEW c \in ChangeOf
    PROVE  /\ Moving(ex, c) \in BookOf
           /\ SameBut(ex[c.side], Moving(ex, c)[c.side], c.price)
           /\ Moving(ex, c)[c.side][c.price] = c.qty
           /\ \A s \in Sides : s # c.side => Moving(ex, c)[s] = ex[s]
  <1>1. c.side \in Sides /\ c.price \in Prices /\ c.qty \in Quantities \union {0}
    BY DEF ChangeOf
  <1> QED
    BY <1>1 DEF BookOf, Levels, SameBut, Moving

\* What the exchange still owes after a change.
OwedBy(c, ex, ex2, n) ==
    {[side |-> c.side, price |-> x, qty |-> Top(c.side, ex2[c.side], n)[x]] :
        x \in Moved(Top(c.side, ex[c.side], n), Top(c.side, ex2[c.side], n), c.price)}

LEMMA OwedSound ==
    ASSUME NEW ex \in BookOf, NEW ex2 \in BookOf, NEW c \in ChangeOf, NEW n \in Nat
    PROVE  /\ OwedBy(c, ex, ex2, n) \in SUBSET ChangeOf
           /\ \A o \in OwedBy(c, ex, ex2, n) : o.qty = Top(o.side, ex2[o.side], n)[o.price]
           /\ \A s, p : (\E o \in OwedBy(c, ex, ex2, n) : o.side = s /\ o.price = p)
                           <=> /\ s = c.side
                               /\ p \in Moved(Top(c.side, ex[c.side], n),
                                              Top(c.side, ex2[c.side], n), c.price)
  <1>1. c.side \in Sides /\ ex2[c.side] \in Levels
    BY DEF ChangeOf, BookOf
  <1>2. Top(c.side, ex2[c.side], n) \in Levels
    BY <1>1, TopType
  <1> DEFINE M == Moved(Top(c.side, ex[c.side], n), Top(c.side, ex2[c.side], n), c.price)
  <1>3. \A x \in M : x \in Prices /\ Top(c.side, ex2[c.side], n)[x] \in Quantities \union {0}
    BY <1>2 DEF Moved, Levels
  <1> HIDE DEF M
  <1>4. OwedBy(c, ex, ex2, n) = {[side |-> c.side, price |-> x, qty |-> Top(c.side, ex2[c.side], n)[x]]
                                   : x \in M}
    BY DEF OwedBy, M
  <1>5. OwedBy(c, ex, ex2, n) \in SUBSET ChangeOf
    BY <1>1, <1>3, <1>4 DEF ChangeOf
  <1>6. \A o \in OwedBy(c, ex, ex2, n) : o.qty = Top(o.side, ex2[o.side], n)[o.price]
    BY <1>4
  <1>7. \A s, p : (\E o \in OwedBy(c, ex, ex2, n) : o.side = s /\ o.price = p)
                     <=> s = c.side /\ p \in M
    <2> TAKE s, p
    <2>1. ASSUME NEW o \in OwedBy(c, ex, ex2, n), o.side = s, o.price = p
          PROVE  s = c.side /\ p \in M
      BY <1>4, <2>1
    <2>2. ASSUME s = c.side, p \in M
          PROVE  \E o \in OwedBy(c, ex, ex2, n) : o.side = s /\ o.price = p
      <3> DEFINE o == [side |-> c.side, price |-> p, qty |-> Top(c.side, ex2[c.side], n)[p]]
      <3>1. o \in OwedBy(c, ex, ex2, n) /\ o.side = s /\ o.price = p
        BY <1>4, <2>2
      <3> QED
        BY <3>1
    <2> QED
      BY <2>1, <2>2
  <1> QED
    BY <1>5, <1>6, <1>7 DEF M

\* The frame of a change brings a client in step up to what is published, and all
\* that the checksum covers is.
LEMMA MoveApplied ==
    ASSUME NEW ex \in BookOf, NEW c \in ChangeOf, NEW n \in Nat,
           NEW ex2 \in BookOf, ex2 = Moving(ex, c),
           Top(c.side, ex[c.side], n) # Top(c.side, ex2[c.side], n)
    PROVE  /\ Change(Shows(ex, n, {}), {c}, n) = Shows(ex2, n, OwedBy(c, ex, ex2, n))
           /\ n > ChecksumDepth =>
                 Checksum(Shows(ex2, n, OwedBy(c, ex, ex2, n))) = Checksum(ex2)
  <1> DEFINE owed == OwedBy(c, ex, ex2, n)
             side == c.side
             old == Top(side, ex[side], n)
             new == Top(side, ex2[side], n)
             W == Moved(old, new, c.price)
             all == TrimToDepth(ex, n)
             kept == Edited(all, {c})
             shown == Shows(ex2, n, owed)
  <1>1. /\ ex2 \in BookOf /\ SameBut(ex[side], ex2[side], c.price) /\ ex2[side][c.price] = c.qty
        /\ \A s \in Sides : s # side => ex2[s] = ex[s]
    BY MoveTyped
  <1>2. side \in Sides /\ c.price \in Prices /\ c.qty \in Quantities \union {0}
    BY DEF ChangeOf
  <1>3. /\ \A s \in Sides : ex[s] \in Levels /\ ex2[s] \in Levels
        /\ all \in BookOf /\ Shows(ex, n, {}) = all /\ shown \in BookOf
    BY <1>1, TrimTyped, ShowsTyped DEF BookOf
  <1>4. kept \in BookOf
    BY <1>3, EditedTyped
  <1>5. TrimToDepth(kept, n) \in BookOf
    BY <1>4, TrimTyped
  <1>6. \A s, p : (\E o \in owed : o.side = s /\ o.price = p) <=> (s = side /\ p \in W)
    <2> HIDE DEF side, W, old, new
    <2>1. \A s, p : (\E o \in OwedBy(c, ex, ex2, n) : o.side = s /\ o.price = p)
                        <=> /\ s = c.side
                            /\ p \in Moved(Top(c.side, ex[c.side], n),
                                           Top(c.side, ex2[c.side], n), c.price)
      BY OwedSound
    <2> QED
      BY <2>1 DEF side, W, old, new
  <1>7. ASSUME NEW s \in Sides, NEW p \in Prices
        PROVE  shown[s][p] = IF s = side /\ p \in W THEN 0 ELSE Top(s, ex2[s], n)[p]
    <2>1. shown[s][p] = IF \E o \in owed : o.side = s /\ o.price = p THEN 0
                        ELSE Top(s, ex2[s], n)[p]
      BY DEF Shows
    <2>2. (\E o \in owed : o.side = s /\ o.price = p) <=> (s = side /\ p \in W)
      BY <1>6
    <2> HIDE DEF owed, W, shown
    <2> QED
      BY <2>1, <2>2
  <1>8. ASSUME NEW s \in Sides, NEW p \in Prices
        PROVE  kept[s][p] = IF s = side /\ p = c.price THEN c.qty ELSE Top(s, ex[s], n)[p]
    <2>1. kept[s][p] = ChangedTo(all, {c}, s, p) /\ all[s][p] = Top(s, ex[s], n)[p]
      BY DEF Edited, TrimToDepth
    <2> HIDE DEF all
    <2>2. CASE s = side /\ p = c.price
      <3>1. {x \in {c} : x.side = s /\ x.price = p} = {c}
        BY <2>2
      <3> QED
        BY <2>1, <2>2, <3>1 DEF ChangedTo
    <2>3. CASE ~(s = side /\ p = c.price)
      <3>1. {x \in {c} : x.side = s /\ x.price = p} = {}
        BY <2>3
      <3> QED
        BY <2>1, <2>3, <3>1 DEF ChangedTo
    <2> QED
      BY <2>2, <2>3
  <1>9. ASSUME NEW s \in Sides, NEW p \in Prices
        PROVE  TrimToDepth(kept, n)[s][p] = shown[s][p]
    <2>1. TrimToDepth(kept, n)[s][p] = Top(s, kept[s], n)[p]
      BY DEF TrimToDepth
    <2>2. CASE s = side
      <3> DEFINE k == kept[side]
                 levels == ex[side]
                 after == ex2[side]
                 price == c.price
      <3>1. SameBut(Top(side, levels, n), k, price) /\ k[price] = after[price]
        BY <1>1, <1>2, <1>8 DEF SameBut
      <3>2. /\ levels \in Levels /\ after \in Levels /\ SameBut(levels, after, price)
            /\ Top(side, levels, n) # Top(side, after, n) /\ price \in Prices
        BY <1>1, <1>2, <1>3
      <3>3. W = Moved(Top(side, levels, n), Top(side, after, n), price) /\ new = Top(side, after, n)
        OBVIOUS
      <3>4. kept[side] = k /\ Top(s, ex2[s], n)[p] = new[p]
        BY <2>2
      <3> HIDE DEF k, levels, after, kept, W, new, price
      <3>5. Top(side, k, n)[p] = IF p \in Moved(Top(side, levels, n), Top(side, after, n), price)
                                 THEN 0 ELSE Top(side, after, n)[p]
        BY <3>1, <3>2, ChangeApplies
      <3>6. shown[s][p] = IF p \in W THEN 0 ELSE Top(s, ex2[s], n)[p]
        BY <1>7, <2>2
      <3> HIDE DEF shown, side
      <3> QED
        BY <2>1, <2>2, <3>3, <3>4, <3>5, <3>6
    <2>3. CASE s # side
      <3>1. Top(s, ex[s], n) \in Levels /\ kept[s] \in Levels
        BY <1>3, <1>4, TopType DEF BookOf
      <3>2. \A x \in Prices : kept[s][x] = Top(s, ex[s], n)[x]
        BY <1>8, <2>3
      <3> HIDE DEF kept
      <3>3. kept[s] = Top(s, ex[s], n)
        BY <3>1, <3>2, SameLevels
      <3>4. Top(s, Top(s, ex[s], n), n) = Top(s, ex[s], n)
        BY <1>3, TopOfTop
      <3>5. shown[s][p] = Top(s, ex2[s], n)[p] /\ ex2[s] = ex[s]
        BY <1>1, <1>7, <2>3
      <3> HIDE DEF shown
      <3> QED
        BY <2>1, <3>3, <3>4, <3>5
    <2> QED
      BY <2>2, <2>3
  <1>10. TrimToDepth(kept, n) = shown
    BY <1>3, <1>5, <1>9, SameBook
  <1>11. Change(Shows(ex, n, {}), {c}, n) = shown
    BY <1>3, <1>10 DEF Change, Edited
  <1>12. ASSUME n > ChecksumDepth
         PROVE  Checksum(shown) = Checksum(ex2)
    <2>1. ChecksumDepth \in Nat /\ ChecksumDepth < n
      BY <1>12, BookAssumption
    <2>2. ASSUME NEW s \in Sides
          PROVE  Top(s, shown[s], ChecksumDepth) = Top(s, ex2[s], ChecksumDepth)
      <3> DEFINE V == IF s = side THEN W ELSE {}
      <3>1. V \in SUBSET Prices
        BY DEF Moved
      <3>2. \A x \in V : Cardinality(Above(s, ex2[s], x)) >= n - 1
        <4>1. CASE s = side
          BY <1>1, <1>2, <4>1, MovedIsLast
        <4>2. CASE s # side
          BY <4>2
        <4> QED
          BY <4>1, <4>2
      <3>3. \A x \in Prices : shown[s][x] = IF x \in V THEN 0 ELSE Top(s, ex2[s], n)[x]
        <4> TAKE x \in Prices
        <4>1. shown[s][x] = IF s = side /\ x \in W THEN 0 ELSE Top(s, ex2[s], n)[x]
          BY <1>7
        <4> HIDE DEF shown, W
        <4> QED
          BY <4>1
      <3>4. ex2[s] \in Levels /\ shown[s] \in Levels
        BY <1>3 DEF BookOf
      <3> DEFINE levels == ex2[s]
                 seen == shown[s]
      <3>5. /\ levels \in Levels /\ seen \in Levels
            /\ \A x \in V : Cardinality(Above(s, levels, x)) >= n - 1
            /\ \A x \in Prices : seen[x] = IF x \in V THEN 0 ELSE Top(s, levels, n)[x]
        BY <3>2, <3>3, <3>4
      <3>6. levels \in Levels /\ seen \in Levels /\ Withholds(s, levels, n, V, seen)
        BY <3>5 DEF Withholds
      <3> HIDE DEF V, shown, levels, seen
      <3>7. Top(s, seen, ChecksumDepth) = Top(s, levels, ChecksumDepth)
        BY <2>1, <3>6, WithheldUnseen
      <3> QED
        BY <3>7 DEF levels, seen
    <2> QED
      BY <2>2 DEF Checksum
  <1> QED
    BY <1>11, <1>12

\* A change that the subscribed levels do not show.
LEMMA MoveUnseen ==
    ASSUME NEW ex \in BookOf, NEW c \in ChangeOf, NEW n \in Nat,
           NEW ex2 \in BookOf, ex2 = Moving(ex, c),
           Top(c.side, ex[c.side], n) = Top(c.side, ex2[c.side], n)
    PROVE  Shows(ex2, n, {}) = Shows(ex, n, {})
  <1>1. \A s \in Sides : Top(s, ex2[s], n) = Top(s, ex[s], n)
    BY MoveTyped
  <1> QED
    BY <1>1 DEF Shows

\* A frame that is fit to be sent on a stream of depth n.
Fit(f, n) ==
    /\ f \in FrameOf /\ IsData(f) /\ ~f.intact /\ ~f.garbled /\ f.checksum = Checksum(f.truth)
    /\ n > ChecksumDepth => Checksum(f.shown) = f.checksum
    /\ f.type = "snapshot" => TrimToDepth(f.book, n) = f.shown

LEMMA FrameTyped ==
    ASSUME NEW type \in {"snapshot", "delta", "ack", "reject"}
    PROVE  /\ Frame(type) \in FrameOf
           /\ Frame(type).type = type /\ ~Frame(type).intact /\ ~Frame(type).garbled
  <1>1. NoBuilder.book \in BookOf
    BY NoBuilderSound DEF BuilderSound, BuilderOf
  <1> QED
    BY <1>1 DEF Frame, FrameOf

LEMMA SnapshotFit ==
    ASSUME NEW ex \in BookOf, NEW n \in Nat
    PROVE  /\ Fit(Snapshot(ex, n), n)
           /\ Snapshot(ex, n).type = "snapshot"
           /\ Snapshot(ex, n).shown = Shows(ex, n, {})
  <1> DEFINE top == TrimToDepth(ex, n)
             sum == Checksum(ex)
             f0 == Frame("snapshot")
             f == Snapshot(ex, n)
  <1>1. top \in BookOf /\ ChecksumDepth \in Nat
    BY TrimTyped, BookAssumption
  <1>2. sum \in BookOf
    BY <1>1, TrimTyped, ChecksumIsTrim
  <1>3. f0 \in FrameOf /\ f0.type = "snapshot" /\ ~f0.intact /\ ~f0.garbled
    BY FrameTyped
  <1>4. f = [f0 EXCEPT !.book = top, !.checksum = sum, !.truth = ex, !.shown = top]
    BY DEF Snapshot, TrimToDepth
  <1>5. TrimToDepth(top, n) = top /\ top = Shows(ex, n, {})
    BY TrimTwice, ShowsTyped
  <1>6. n > ChecksumDepth => Checksum(top) = sum
    BY <1>1, TrimTwice, ChecksumIsTrim
  <1>7. sum = Checksum(ex)
    OBVIOUS
  <1> HIDE DEF top, sum, f0, f
  <1>8. /\ f \in FrameOf /\ f.type = "snapshot" /\ ~f.intact /\ ~f.garbled
        /\ f.book = top /\ f.checksum = sum /\ f.truth = ex /\ f.shown = top
    BY <1>1, <1>2, <1>3, <1>4 DEF FrameOf
  <1>9. Fit(f, n)
    BY <1>5, <1>6, <1>7, <1>8 DEF Fit, IsData
  <1> QED
    BY <1>5, <1>8, <1>9 DEF f

LEMMA DeltaFit ==
    ASSUME NEW ex \in BookOf, NEW n \in Nat, NEW changes \in SUBSET ChangeOf, NEW owed,
           n > ChecksumDepth => Checksum(Shows(ex, n, owed)) = Checksum(ex)
    PROVE  /\ Fit(Delta(changes, ex, n, owed), n)
           /\ Delta(changes, ex, n, owed).type = "delta"
           /\ Delta(changes, ex, n, owed).changes = changes
           /\ Delta(changes, ex, n, owed).shown = Shows(ex, n, owed)
  <1> DEFINE shown == Shows(ex, n, owed)
             sum == Checksum(ex)
             f0 == Frame("delta")
             f == Delta(changes, ex, n, owed)
  <1>1. shown \in BookOf /\ ChecksumDepth \in Nat
    BY ShowsTyped, BookAssumption
  <1>2. sum \in BookOf
    BY <1>1, TrimTyped, ChecksumIsTrim
  <1>3. f0 \in FrameOf /\ f0.type = "delta" /\ ~f0.intact /\ ~f0.garbled
    BY FrameTyped
  <1>4. f = [f0 EXCEPT !.changes = changes, !.checksum = sum, !.truth = ex, !.shown = shown]
    BY DEF Delta, Shows
  <1>5. sum = Checksum(ex) /\ (n > ChecksumDepth => Checksum(shown) = sum)
    OBVIOUS
  <1>6. shown = Shows(ex, n, owed)
    OBVIOUS
  <1> HIDE DEF shown, sum, f0, f
  <1>7. /\ f \in FrameOf /\ f.type = "delta" /\ ~f.intact /\ ~f.garbled
        /\ f.changes = changes /\ f.checksum = sum /\ f.truth = ex /\ f.shown = shown
    BY <1>1, <1>2, <1>3, <1>4 DEF FrameOf
  <1>8. Fit(f, n)
    BY <1>5, <1>7 DEF Fit, IsData
  <1> QED
    BY <1>6, <1>7, <1>8 DEF f

\* A frame goes out, whole, garbled or not at all.
LEMMA StreamsSound ==
    ASSUME NEW s, NEW f, NEW before \in Seq(Telling), NEW used, NEW ex \in BookOf,
           Streams(s, f, before, used), ServerSound(ex, s), s.on, Fit(f, s.depth),
           Chain(before, builder), f.shown = Shows(ex, s.depth, s.owed),
           s.intact /\ f.type = "delta" =>
              \A x \in Held(before, Len(before) + 1, builder, s.depth) :
                 Change(x, f.changes, s.depth) = f.shown
    PROVE  StreamSound(inbox', builder, ex, server')
  <1>1. /\ s \in [on : BOOLEAN, depth : Nat, owed : SUBSET ChangeOf, intact : BOOLEAN]
        /\ f \in FrameOf /\ IsData(f)
    BY DEF ServerSound, Fit
  <1> DEFINE whole == [f EXCEPT !.intact = s.intact, !.depth = s.depth]
             garbled == [f EXCEPT !.garbled = TRUE]
             lost == [s EXCEPT !.intact = FALSE]
  <1>2. /\ whole \in FrameOf /\ whole.type = f.type /\ whole.book = f.book
        /\ whole.changes = f.changes /\ whole.checksum = f.checksum
        /\ whole.garbled = f.garbled /\ whole.intact = s.intact /\ whole.depth = s.depth
        /\ whole.truth = f.truth /\ whole.shown = f.shown
    BY <1>1 DEF FrameOf
  <1>3. /\ garbled \in FrameOf /\ garbled.type = f.type /\ garbled.intact = f.intact
        /\ garbled.checksum = f.checksum /\ garbled.truth = f.truth
    BY <1>1 DEF FrameOf
  <1>4. /\ lost \in [on : BOOLEAN, depth : Nat, owed : SUBSET ChangeOf, intact : BOOLEAN]
        /\ lost.on = s.on /\ lost.depth = s.depth /\ lost.owed = s.owed /\ ~lost.intact
    BY <1>1
  <1>5. \/ inbox' = Append(before, whole) /\ server' = s
        \/ server' = lost /\ (inbox' = before \/ inbox' = Append(before, garbled))
    BY DEF Streams
  <1> HIDE DEF whole, garbled, lost
  <1>6. whole \in Telling /\ garbled \in Telling /\ IsData(whole) /\ IsData(garbled)
    BY <1>1, <1>2, <1>3 DEF Telling, FrameTells, Fit, IsData
  <1>7. ServerSound(ex, lost) /\ \A in : Tip(in, builder, ex, lost)
    BY <1>4 DEF ServerSound, Tip
  <1>8. CASE inbox' = Append(before, whole) /\ server' = s
    <2>1. Chain(Append(before, whole), builder)
      BY <1>2, StreamExtended
    <2>2. Tip(Append(before, whole), builder, ex, s)
      BY <1>2, <1>6, TipOfData
    <2>3. Append(before, whole) \in Seq(Telling)
      BY <1>6
    <2> QED
      BY <1>8, <2>1, <2>2, <2>3 DEF StreamSound
  <1>9. CASE server' = lost /\ inbox' = before
    BY <1>7, <1>9 DEF StreamSound
  <1>10. CASE server' = lost /\ inbox' = Append(before, garbled)
    <2>1. ~garbled.intact
      BY <1>3 DEF Fit
    <2>2. Chain(Append(before, garbled), builder)
      BY <2>1, StreamExtended
    <2>3. Append(before, garbled) \in Seq(Telling)
      BY <1>6
    <2> QED
      BY <1>7, <1>10, <2>2, <2>3 DEF StreamSound
  <1> QED
    BY <1>5, <1>8, <1>9, <1>10

-----------------------------------------------------------------------------
(* Sending.                                                                *)

LEMMA UnsubscribedSound ==
    ASSUME NEW ex
    PROVE  ServerSound(ex, Unsubscribed) /\ ~Unsubscribed.intact
  BY DEF ServerSound, Unsubscribed

LEMMA DepthSubscribed ==
    ASSUME NEW r \in RequestOf
    PROVE  SubscribedDepth(r) \in Nat
  <1> DEFINE d == r.depth
  <1>1. d \in Tiers \union {0}
    BY DEF RequestOf
  <1>2. SubscribedDepth(r) = IF r.channel = "book" THEN WireDepth(d) ELSE d
    BY DEF SubscribedDepth
  <1> HIDE DEF d
  <1>3. d \in Nat
    BY <1>1, BookAssumption
  <1>4. WireDepth(d) \in Nat
    BY <1>1, WireDepthHeadroom
  <1> QED
    BY <1>2, <1>3, <1>4

\* What a send comes to: without a connection nothing is on its way.
OutcomeOf == {o \in [link : LinkOf, outbox : Outgoing] : ~o.link.up => o.outbox = <<>>}

LEMMA TornTyped == Torn \in LinkOf /\ ~Torn.up /\ <<>> \in Outgoing
  BY DEF Torn, LinkOf, Outgoing

LEMMA OutcomeTyped ==
    ASSUME NEW l \in LinkOf, NEW out \in Outgoing, NEW r \in RequestOf, ~l.up => out = <<>>
    PROVE  Subscribing(l, out, r) \subseteq OutcomeOf
  <1> DEFINE frame == [op |-> "sub", depth |-> SubscribedDepth(r)]
             awaited == [l EXCEPT !.ack = TRUE]
             due == [l EXCEPT !.ack = FALSE, !.resend = TRUE]
  <1>1. SubscribedDepth(r) \in Nat
    BY DepthSubscribed
  <1>2. Append(out, frame) \in Outgoing
    BY <1>1 DEF Outgoing
  <1>3. \A x \in Sendable(out, frame) : x \in Outgoing
    BY <1>2 DEF Sendable
  <1>4. awaited \in LinkOf /\ awaited.up = l.up /\ due \in LinkOf /\ due.up = l.up
    BY DEF LinkOf
  <1>5. CASE ~l.up
    <2>1. Subscribing(l, out, r) = {[link |-> l, outbox |-> out]}
      BY <1>5 DEF Subscribing
    <2> QED
      BY <2>1 DEF OutcomeOf
  <1>6. CASE l.up
    <2>1. Subscribing(l, out, r) =
              {[link |-> awaited, outbox |-> x] : x \in Sendable(out, frame)}
              \union {[link |-> due, outbox |-> out], [link |-> Torn, outbox |-> <<>>]}
      BY <1>6 DEF Subscribing
    <2> HIDE DEF awaited, due, frame
    <2>2. \A x \in Sendable(out, frame) : [link |-> awaited, outbox |-> x] \in OutcomeOf
      BY <1>3, <1>4, <1>6 DEF OutcomeOf
    <2>3. [link |-> due, outbox |-> out] \in OutcomeOf
      BY <1>4, <1>6 DEF OutcomeOf
    <2>4. [link |-> Torn, outbox |-> <<>>] \in OutcomeOf
      BY TornTyped DEF OutcomeOf
    <2> QED
      BY <2>1, <2>2, <2>3, <2>4
  <1> QED
    BY <1>5, <1>6

LEMMA UnsubscribingTyped ==
    ASSUME NEW l, NEW out \in Outgoing, NEW u \in Unsubscribing(l, out)
    PROVE  u \in Outgoing /\ (~l.up => u = out)
  <1>1. Append(out, [op |-> "unsub", depth |-> 0]) \in Outgoing
    BY DEF Outgoing
  <1> QED
    BY <1>1 DEF Unsubscribing, Sendable

LEMMA ReseedTyped ==
    ASSUME NEW l \in LinkOf, NEW out \in Outgoing, ~l.up => out = <<>>, EntryTyped,
           NEW o \in ReseedOutcomes(l, out)
    PROVE  o \in OutcomeOf
  <1>1. PICK u \in Unsubscribing(l, out) : \E o1 \in Subscribing(l, u, entry.params) :
            o = [o1 EXCEPT !.link.reseed = TRUE]
    BY DEF ReseedOutcomes
  <1>2. u \in Outgoing /\ (~l.up => u = <<>>)
    BY UnsubscribingTyped
  <1>3. PICK o1 \in Subscribing(l, u, entry.params) : o = [o1 EXCEPT !.link.reseed = TRUE]
    BY <1>1
  <1>4. entry.params \in RequestOf
    BY DEF EntryTyped
  <1>5. o1 \in OutcomeOf
    BY <1>2, <1>3, <1>4, OutcomeTyped
  <1>6. /\ o1 \in [link : LinkOf, outbox : Outgoing] /\ (~o1.link.up => o1.outbox = <<>>)
    BY <1>5 DEF OutcomeOf
  <1>7. /\ o \in [link : LinkOf, outbox : Outgoing] /\ o.outbox = o1.outbox
        /\ o.link.up = o1.link.up
    BY <1>3, <1>6 DEF LinkOf
  <1> QED
    BY <1>6, <1>7 DEF OutcomeOf

\* A send leaves the stream as it is, or ends the session and it.
LEMMA SendsSound ==
    ASSUME NEW o \in OutcomeOf, NEW frames, NEW calls, NEW b, Sends(o, frames, calls),
           StreamSound(frames, b, exBook, server)
    PROVE  StreamSound(inbox', b, exBook, server') /\ LinkSound'
  <1>1. /\ link' = o.link /\ outbox' = o.outbox /\ link' \in LinkOf /\ outbox' \in Outgoing
        /\ ~link'.up => outbox' = <<>>
    BY DEF Sends, OutcomeOf
  <1>2. CASE o.link.up
    BY <1>1, <1>2 DEF Sends, LinkSound
  <1>3. CASE ~o.link.up
    <2>1. inbox' = <<>> /\ server' = Unsubscribed
      BY <1>3 DEF Sends
    <2>2. <<>> \in Seq(Telling)
      OBVIOUS
    <2>3. Chain(<<>>, b) /\ Tip(<<>>, b, exBook, Unsubscribed)
      BY UnsubscribedSound, StreamOver
    <2>4. ~server'.on
      BY <2>1 DEF Unsubscribed
    <2>5. LinkSound'
      BY <1>1, <2>4 DEF LinkSound
    <2> QED
      BY <2>1, <2>2, <2>3, <2>5, UnsubscribedSound DEF StreamSound
  <1> QED
    BY <1>2, <1>3

-----------------------------------------------------------------------------
(* Every step keeps the invariant.                                         *)

LEMMA InitEstablishes == Init => BookInv
  <1> SUFFICES ASSUME Init PROVE BookInv
    OBVIOUS
  <1>1. exBook \in BookOf
    BY BookAssumption DEF Init, BookOf, Levels, Sides
  <1>2. StreamSound(inbox, builder, exBook, server)
    <2>1. inbox = <<>> /\ server = Unsubscribed /\ <<>> \in Seq(Telling)
      BY DEF Init
    <2>2. Chain(<<>>, builder) /\ Tip(<<>>, builder, exBook, Unsubscribed)
      BY UnsubscribedSound, StreamOver
    <2> QED
      BY <2>1, <2>2, UnsubscribedSound DEF StreamSound
  <1>3. LinkSound
    <2>1. link = [Torn EXCEPT !.up = TRUE] /\ outbox = <<>>
      BY DEF Init
    <2>2. link \in LinkOf /\ link.up
      BY <2>1, TornTyped DEF LinkOf
    <2> QED
      BY <2>1, <2>2 DEF LinkSound, Outgoing
  <1>4. EntryTyped
    BY DEF Init, EntryTyped, RequestOf
  <1>5. BuilderSound(builder)
    BY NoBuilderSound DEF Init
  <1> QED
    BY <1>1, <1>2, <1>3, <1>4, <1>5 DEF BookInv

\* The frame about to be handled.
LEMMA HeadTells ==
    ASSUME BookInv, inbox # <<>>
    PROVE  /\ Head(inbox) \in FrameOf /\ FrameTells(Head(inbox))
           /\ Continues(builder, Head(inbox))
           /\ Tail(inbox) \in Seq(Telling)
  <1>1. inbox \in Seq(Telling) /\ Chain(inbox, builder)
    BY DEF BookInv, StreamSound
  <1>2. Head(inbox) \in Telling /\ Tail(inbox) \in Seq(Telling)
    BY <1>1, HeadTailProperties
  <1> QED
    BY <1>1, <1>2, HeadContinues DEF Telling

\* A handled frame leaves the stream sound.
LEMMA RestSound ==
    ASSUME BookInv, inbox # <<>>, NEW b,
           \/ IsData(Head(inbox)) /\ InStep(b, Head(inbox))
           \/ ~IsData(Head(inbox)) /\ (b.chained => b = builder)
    PROVE  StreamSound(Tail(inbox), b, exBook, server)
  <1>1. /\ inbox \in Seq(Telling) /\ Chain(inbox, builder) /\ ServerSound(exBook, server)
        /\ Tip(inbox, builder, exBook, server)
    BY DEF BookInv, StreamSound
  <1>2. Chain(Tail(inbox), b) /\ Tip(Tail(inbox), b, exBook, server)
    BY <1>1, StreamConsumed DEF InStep
  <1> QED
    BY <1>1, <1>2, HeadTells DEF StreamSound

LEMMA DataFrameKeeps ==
    ASSUME BookInv, DataFrame
    PROVE  BookInv'
  <1> DEFINE f == Head(inbox)
             d == Drive(f)
  <1>1. inbox # <<>> /\ IsData(f) /\ exBook' = exBook /\ entry' = entry
    BY DEF DataFrame, IsData
  <1>2. f \in FrameOf /\ FrameTells(f) /\ Continues(builder, f)
    BY <1>1, HeadTells
  <1>3. BuilderSound(d.builder) /\ InStep(d.builder, f)
    BY <1>1, <1>2, DriveSound DEF BookInv
  <1>4. CASE d.outcome = "gap"
    <2> DEFINE b == BeginResync(d.builder)
    <2>1. BuilderSound(b) /\ ~b.chained
      BY <1>3, ResyncSound
    <2>2. RecoverBookGap(d.builder, Tail(inbox))
      BY <1>4 DEF DataFrame
    <2>3. builder' = b
      BY <2>2 DEF RecoverBookGap
    <2>4. PICK o \in ReseedOutcomes(link, outbox) : Sends(o, Tail(inbox), 0)
      BY <2>2 DEF RecoverBookGap
    <2>5. o \in OutcomeOf
      BY ReseedTyped DEF BookInv, LinkSound
    <2> HIDE DEF b
    <2>6. InStep(b, f)
      BY <2>1 DEF InStep
    <2>7. StreamSound(Tail(inbox), b, exBook, server)
      BY <1>1, <2>6, RestSound
    <2>8. StreamSound(inbox', b, exBook, server') /\ LinkSound'
      BY <2>4, <2>5, <2>7, SendsSound
    <2> QED
      BY <1>1, <2>1, <2>3, <2>8 DEF BookInv, EntryTyped
  <1>5. CASE d.outcome # "gap"
    <2>1. /\ builder' = d.builder /\ inbox' = Tail(inbox)
          /\ UNCHANGED <<outbox, link, server, spent>>
      BY <1>5 DEF DataFrame
    <2>2. StreamSound(Tail(inbox), d.builder, exBook, server)
      BY <1>1, <1>3, RestSound
    <2> QED
      BY <1>1, <1>3, <2>1, <2>2 DEF BookInv, EntryTyped, LinkSound
  <1> QED
    BY <1>4, <1>5

LEMMA AckKeeps ==
    ASSUME BookInv, Ack
    PROVE  BookInv'
  <1>1. /\ inbox # <<>> /\ ~IsData(Head(inbox)) /\ inbox' = Tail(inbox)
        /\ UNCHANGED <<exBook, server, outbox, entry, builder>>
        /\ link' = [link EXCEPT !.ack = FALSE, !.resend = FALSE]
    BY DEF Ack, IsData
  <1>2. StreamSound(Tail(inbox), builder, exBook, server)
    BY <1>1, RestSound
  <1>3. link' \in LinkOf /\ link'.up = link.up
    BY <1>1 DEF BookInv, LinkSound, LinkOf
  <1>4. LinkSound'
    BY <1>1, <1>3 DEF BookInv, LinkSound
  <1> QED
    BY <1>1, <1>2, <1>4 DEF BookInv, EntryTyped

\* A subscribe that failed.
LEMMA FailureSound ==
    ASSUME BookInv, NEW frames, SubscribeFails(frames),
           StreamSound(frames, builder, exBook, server)
    PROVE  StreamSound(inbox', builder, exBook, server') /\ LinkSound'
  <1> DEFINE due == [link EXCEPT !.ack = FALSE, !.resend = TRUE]
  <1>1. PICK o \in {[link |-> due, outbox |-> outbox], [link |-> Torn, outbox |-> <<>>]} :
            Sends(o, frames, 0)
    BY DEF SubscribeFails
  <1>2. due \in LinkOf /\ due.up = link.up /\ outbox \in Outgoing /\ (~link.up => outbox = <<>>)
    BY DEF BookInv, LinkSound, LinkOf
  <1> HIDE DEF due
  <1>3. [link |-> due, outbox |-> outbox] \in OutcomeOf
    BY <1>2 DEF OutcomeOf
  <1>4. [link |-> Torn, outbox |-> <<>>] \in OutcomeOf
    BY TornTyped DEF OutcomeOf
  <1>5. o \in OutcomeOf
    BY <1>1, <1>3, <1>4
  <1> QED
    BY <1>1, <1>5, SendsSound

LEMMA RejectKeeps ==
    ASSUME BookInv, Reject
    PROVE  BookInv'
  <1>1. /\ link.up /\ inbox # <<>> /\ ~IsData(Head(inbox))
        /\ UNCHANGED <<exBook, builder>>
    BY DEF Reject, IsData
  <1>2. StreamSound(Tail(inbox), builder, exBook, server)
    BY <1>1, RestSound
  <1>3. CASE inbox' = Tail(inbox) /\ UNCHANGED <<server, outbox, entry, link>>
    BY <1>1, <1>2, <1>3 DEF BookInv, EntryTyped, LinkSound
  <1>4. CASE /\ inbox' = Tail(inbox) /\ UNCHANGED <<server, outbox>>
             /\ entry' = [entry EXCEPT !.state = "terminated"]
             /\ link' = [link EXCEPT !.ack = FALSE, !.resend = FALSE, !.reseed = FALSE]
    <2>1. link' \in LinkOf /\ link'.up = link.up
      BY <1>4 DEF BookInv, LinkSound, LinkOf
    <2>2. LinkSound'
      BY <1>4, <2>1 DEF BookInv, LinkSound
    <2>3. EntryTyped'
      BY <1>4 DEF BookInv, EntryTyped
    <2> QED
      BY <1>1, <1>2, <1>4, <2>2, <2>3 DEF BookInv
  <1>5. CASE SubscribeFails(Tail(inbox)) /\ UNCHANGED entry
    <2>1. StreamSound(inbox', builder, exBook, server') /\ LinkSound'
      BY <1>1, <1>2, <1>5, FailureSound
    <2> QED
      BY <1>1, <1>5, <2>1 DEF BookInv, EntryTyped
  <1> QED
    BY <1>3, <1>4, <1>5 DEF Reject

LEMMA AckTimeoutKeeps ==
    ASSUME BookInv, AckTimeout
    PROVE  BookInv'
  <1>1. SubscribeFails(inbox) /\ UNCHANGED <<exBook, entry, builder>>
    BY DEF AckTimeout
  <1>2. StreamSound(inbox', builder, exBook, server') /\ LinkSound'
    BY <1>1, FailureSound DEF BookInv
  <1> QED
    BY <1>1, <1>2 DEF BookInv, EntryTyped

LEMMA ReseedTimeoutKeeps ==
    ASSUME BookInv, ReseedTimeout
    PROVE  BookInv'
  <1> DEFINE popped == [link EXCEPT !.reseed = FALSE]
  <1>1. UNCHANGED <<exBook, entry>>
    BY DEF ReseedTimeout
  <1>2. popped \in LinkOf /\ popped.up = link.up
    BY DEF BookInv, LinkSound, LinkOf
  <1>3. CASE link' = popped /\ UNCHANGED <<builder, server, inbox, outbox>>
    <2>1. LinkSound'
      BY <1>2, <1>3 DEF BookInv, LinkSound
    <2> QED
      BY <1>1, <1>3, <2>1 DEF BookInv, EntryTyped
  <1>4. CASE /\ ReseedTimeoutOutcome = "retry" /\ builder' = NoteReseedFailure(builder)
             /\ \E o \in ReseedOutcomes(popped, outbox) : Sends(o, inbox, 0)
    <2> DEFINE g == builder.gaps + 1
    <2>1. g \in 0..(MaxGaps - 1) /\ builder' = [builder EXCEPT !.gaps = g] /\ builder.resyncing
      <3>1. builder \in BuilderOf /\ builder.gaps \in 0..(MaxGaps - 1)
        BY DEF BookInv, BuilderSound, BuilderOf
      <3>2. builder' = [builder EXCEPT !.gaps = g]
        BY <1>4 DEF NoteReseedFailure
      <3>3. builder'.gaps = g
        BY <3>1, <3>2 DEF BuilderOf
      <3>4. builder.resyncing /\ ~(NoteReseedFailure(builder).gaps >= MaxGaps)
        BY <1>4 DEF ReseedTimeoutOutcome
      <3> QED
        BY <1>4, <3>1, <3>2, <3>3, <3>4, BookAssumption
    <2> HIDE DEF g
    <2>2. BuilderSound(builder') /\ builder'.chained = builder.chained
      <3> DEFINE b == builder
                 c == [b EXCEPT !.gaps = g]
      <3>1. BuilderSound(b) /\ builder' = c
        BY <2>1 DEF BookInv
      <3> HIDE DEF b
      <3>2. BuilderSound(c) /\ c.chained = b.chained
        BY <2>1, <3>1, SoundButFor, ZenonT(60)
      <3> QED
        BY <3>1, <3>2 DEF b
    <2>3. ~builder'.chained
      BY <2>1, <2>2 DEF BookInv, BuilderSound
    <2>4. StreamSound(inbox, builder', exBook, server)
      BY <2>3, StreamKept DEF BookInv, StreamSound
    <2>5. PICK o \in ReseedOutcomes(popped, outbox) : Sends(o, inbox, 0)
      BY <1>4
    <2>6. o \in OutcomeOf
      <3>1. outbox \in Outgoing /\ (~link.up => outbox = <<>>) /\ EntryTyped
        BY DEF BookInv, LinkSound
      <3> HIDE DEF popped
      <3> QED
        BY <1>2, <3>1, ReseedTyped
    <2>7. StreamSound(inbox', builder', exBook, server') /\ LinkSound'
      BY <2>4, <2>5, <2>6, SendsSound
    <2> QED
      BY <1>1, <2>2, <2>7 DEF BookInv, EntryTyped
  <1>5. CASE builder' = NoBuilder /\ link' = popped /\ UNCHANGED <<server, inbox, outbox>>
    <2>1. StreamSound(inbox, NoBuilder, exBook, server)
      BY NoBuilderSound, StreamKept DEF BookInv, StreamSound
    <2>2. LinkSound'
      BY <1>2, <1>5 DEF BookInv, LinkSound
    <2> QED
      BY <1>1, <1>5, <2>1, <2>2, NoBuilderSound DEF BookInv, EntryTyped
  <1> QED
    BY <1>3, <1>4, <1>5 DEF ReseedTimeout

LEMMA ResendDueKeeps ==
    ASSUME BookInv, ResendDue
    PROVE  BookInv'
  <1> DEFINE popped == [link EXCEPT !.resend = FALSE]
  <1>1. UNCHANGED <<exBook, entry, builder>>
    BY DEF ResendDue
  <1>2. PICK o \in Subscribing(popped, outbox, entry.params) : Sends(o, inbox, 0)
    BY DEF ResendDue
  <1>3. /\ popped \in LinkOf /\ popped.up = link.up /\ outbox \in Outgoing
        /\ ~link.up => outbox = <<>>
    BY DEF BookInv, LinkSound, LinkOf
  <1>4. entry.params \in RequestOf
    BY DEF BookInv, EntryTyped
  <1> HIDE DEF popped
  <1>5. o \in OutcomeOf
    BY <1>2, <1>3, <1>4, OutcomeTyped
  <1>6. StreamSound(inbox', builder, exBook, server') /\ LinkSound'
    BY <1>2, <1>5, SendsSound DEF BookInv
  <1> QED
    BY <1>1, <1>6 DEF BookInv, EntryTyped

\* A session starts without frames.
LEMMA NothingSound ==
    ASSUME BookInv, ~server.intact
    PROVE  StreamSound(<<>>, builder, exBook, server)
  <1>1. Chain(<<>>, builder) /\ Tip(<<>>, builder, exBook, server) /\ <<>> \in Seq(Telling)
    BY StreamOver
  <1> QED
    BY <1>1 DEF BookInv, StreamSound

LEMMA TearDownKeeps ==
    ASSUME BookInv, TearDown
    PROVE  BookInv'
  <1> DEFINE o == [link |-> Torn, outbox |-> <<>>]
  <1>1. Sends(o, <<>>, 0) /\ UNCHANGED <<exBook, entry, builder>>
    BY DEF TearDown
  <1>2. o \in OutcomeOf /\ o.link = Torn /\ o.outbox = <<>>
    BY TornTyped DEF OutcomeOf
  <1> HIDE DEF o
  <1>3. inbox' = <<>> /\ server' = Unsubscribed /\ link' = Torn /\ outbox' = <<>>
    BY <1>1, <1>2, TornTyped DEF Sends
  <1>4. StreamSound(<<>>, builder, exBook, Unsubscribed)
    <2>1. Chain(<<>>, builder) /\ Tip(<<>>, builder, exBook, Unsubscribed) /\ <<>> \in Seq(Telling)
      BY StreamOver, UnsubscribedSound
    <2> QED
      BY <2>1, UnsubscribedSound DEF StreamSound
  <1>5. LinkSound'
    BY <1>3, TornTyped DEF LinkSound, Unsubscribed
  <1> QED
    BY <1>1, <1>3, <1>4, <1>5 DEF BookInv, EntryTyped

LEMMA BringUpKeeps ==
    ASSUME BookInv, BringUp
    PROVE  BookInv'
  <1> DEFINE raised == [link EXCEPT !.up = TRUE]
  <1>1. ~link.up /\ UNCHANGED <<exBook, entry, builder>>
    BY DEF BringUp
  <1>2. raised \in LinkOf /\ raised.up /\ <<>> \in Outgoing
    BY TornTyped DEF BookInv, LinkSound, LinkOf
  <1>3. PICK o \in OutcomeOf : Sends(o, <<>>, 0)
    <2>1. CASE entry.state = "live"
      <3>1. PICK o \in ReplayOutcomes : Sends(o, <<>>, 0)
        BY <2>1 DEF BringUp
      <3>2. PICK o1 \in Subscribing(raised, <<>>, entry.params) :
              o = [o1 EXCEPT !.link.reseed = @ \/ (o1.link.ack /\ builder.resyncing),
                             !.link.refused = o1.link.resend]
        BY <3>1 DEF ReplayOutcomes
      <3>3. entry.params \in RequestOf
        BY DEF BookInv, EntryTyped
      <3> HIDE DEF raised
      <3>4. o1 \in OutcomeOf
        BY <1>2, <3>2, <3>3, OutcomeTyped
      <3> DEFINE watch == o1.link.reseed \/ (o1.link.ack /\ builder.resyncing)
                 refused == o1.link.resend
      <3>5. /\ o1 \in [link : LinkOf, outbox : Outgoing] /\ o1.link \in LinkOf
            /\ ~o1.link.up => o1.outbox = <<>>
        BY <3>4 DEF OutcomeOf
      <3>6. watch \in BOOLEAN /\ refused \in BOOLEAN
        BY <3>5 DEF LinkOf
      <3>7. o = [o1 EXCEPT !.link.reseed = watch, !.link.refused = refused]
        BY <3>2
      <3> HIDE DEF watch, refused
      <3>8. /\ o \in [link : LinkOf, outbox : Outgoing] /\ o.outbox = o1.outbox
            /\ o.link.up = o1.link.up
        BY <3>5, <3>6, <3>7 DEF LinkOf
      <3>9. o \in OutcomeOf
        BY <3>5, <3>8 DEF OutcomeOf
      <3> QED
        BY <3>1, <3>9
    <2>2. CASE entry.state # "live"
      <3>1. Sends([link |-> raised, outbox |-> <<>>], <<>>, 0)
        BY <2>2 DEF BringUp
      <3> HIDE DEF raised
      <3>2. [link |-> raised, outbox |-> <<>>] \in OutcomeOf
        BY <1>2 DEF OutcomeOf
      <3> QED
        BY <3>1, <3>2
    <2> QED
      BY <2>1, <2>2
  <1>4. ~server.intact
    BY <1>1 DEF BookInv, LinkSound, StreamSound, ServerSound
  <1>5. StreamSound(<<>>, builder, exBook, server)
    BY <1>4, NothingSound
  <1>6. StreamSound(inbox', builder, exBook, server') /\ LinkSound'
    BY <1>3, <1>5, SendsSound
  <1> QED
    BY <1>1, <1>6 DEF BookInv, EntryTyped

LEMMA SubscribeKeeps ==
    ASSUME BookInv, NEW r \in Requests, Subscribe(r)
    PROVE  BookInv'
  <1>1. /\ entry' = [state |-> "live", params |-> r] /\ builder' = NewBuilder(r)
        /\ exBook' = exBook
    BY DEF Subscribe
  <1>2. PICK o \in Subscribing(link, outbox, r) : Sends(o, inbox, 1)
    BY DEF Subscribe
  <1>3. r \in RequestOf
    BY BookAssumption DEF RequestOf
  <1>4. o \in OutcomeOf
    BY <1>2, <1>3, OutcomeTyped DEF BookInv, LinkSound
  <1>5. BuilderSound(builder') /\ ~builder'.chained
    BY <1>1, NewBuilderSound
  <1>6. StreamSound(inbox, builder', exBook, server)
    BY <1>5, StreamKept DEF BookInv, StreamSound
  <1>7. StreamSound(inbox', builder', exBook, server') /\ LinkSound'
    BY <1>2, <1>4, <1>6, SendsSound
  <1>8. EntryTyped'
    BY <1>1, <1>3 DEF EntryTyped
  <1> QED
    BY <1>1, <1>5, <1>7, <1>8 DEF BookInv

LEMMA UnsubscribeKeeps ==
    ASSUME BookInv, Unsubscribe
    PROVE  BookInv'
  <1>1. /\ entry' = [entry EXCEPT !.state = "absent"] /\ builder' = NoBuilder
        /\ link' = [link EXCEPT !.ack = FALSE, !.resend = FALSE, !.reseed = FALSE]
        /\ outbox' \in Unsubscribing(link, outbox) \/ outbox' = outbox
        /\ UNCHANGED <<exBook, server, inbox>>
    BY DEF Unsubscribe
  <1>2. link' \in LinkOf /\ link'.up = link.up
    BY <1>1 DEF BookInv, LinkSound, LinkOf
  <1>3. outbox' \in Outgoing /\ (~link.up => outbox' = outbox)
    BY <1>1, UnsubscribingTyped DEF BookInv, LinkSound
  <1>4. LinkSound'
    BY <1>1, <1>2, <1>3 DEF BookInv, LinkSound
  <1>5. EntryTyped'
    BY <1>1 DEF BookInv, EntryTyped
  <1>6. StreamSound(inbox, NoBuilder, exBook, server)
    BY NoBuilderSound, StreamKept DEF BookInv, StreamSound
  <1> QED
    BY <1>1, <1>4, <1>5, <1>6, NoBuilderSound DEF BookInv

LEMMA ServesKeeps ==
    ASSUME BookInv, Serves
    PROVE  BookInv'
  <1>1. outbox # <<>> /\ outbox' = Tail(outbox) /\ UNCHANGED <<exBook, entry, builder, link>>
    BY DEF Serves
  <1>2. /\ link.up /\ LinkSound'
        /\ Head(outbox) \in [op : {"sub", "unsub"}, depth : Nat]
    <2>1. outbox \in Outgoing /\ link.up
      BY <1>1 DEF BookInv, LinkSound
    <2>2. Tail(outbox) \in Outgoing /\ Head(outbox) \in [op : {"sub", "unsub"}, depth : Nat]
      BY <1>1, <2>1, HeadTailProperties DEF Outgoing
    <2> QED
      BY <1>1, <2>1, <2>2 DEF BookInv, LinkSound
  <1>3. /\ inbox \in Seq(Telling) /\ Chain(inbox, builder) /\ ServerSound(exBook, server)
        /\ Tip(inbox, builder, exBook, server) /\ exBook \in BookOf
    BY DEF BookInv, StreamSound
  <1>4. ASSUME NEW type \in {"ack", "reject"}
        PROVE  StreamSound(Append(inbox, Frame(type)), builder, exBook, server)
    <2>1. /\ Frame(type) \in FrameOf /\ ~IsData(Frame(type)) /\ Frame(type).type # "delta"
      BY FrameTyped DEF IsData
    <2>2. Frame(type) \in Telling
      BY <2>1 DEF Telling, FrameTells
    <2>3. Chain(Append(inbox, Frame(type)), builder)
      BY <1>3, <2>1, StreamExtended
    <2>4. Tip(Append(inbox, Frame(type)), builder, exBook, server)
      BY <1>3, <2>1, TipOfOther
    <2> QED
      BY <1>3, <2>2, <2>3, <2>4 DEF StreamSound
  <1>5. CASE server' = Unsubscribed /\ UNCHANGED inbox
    <2>1. Tip(inbox, builder, exBook, Unsubscribed)
      BY UnsubscribedSound DEF Tip
    <2> QED
      BY <1>1, <1>2, <1>3, <1>5, <2>1, UnsubscribedSound DEF BookInv, StreamSound, EntryTyped
  <1>6. CASE inbox' = Append(inbox, Frame("reject")) /\ UNCHANGED server
    BY <1>1, <1>2, <1>4, <1>6 DEF BookInv, EntryTyped
  <1>7. CASE LET n == Head(outbox).depth
             IN  Streams([on |-> TRUE, depth |-> n, owed |-> {}, intact |-> TRUE],
                         Snapshot(exBook, n), Append(inbox, Frame("ack")), spent)
    <2> DEFINE n == Head(outbox).depth
               s == [on |-> TRUE, depth |-> n, owed |-> {}, intact |-> TRUE]
               f == Snapshot(exBook, n)
               before == Append(inbox, Frame("ack"))
    <2>1. n \in Nat
      BY <1>2
    <2>2. Streams(s, f, before, spent)
      BY <1>7
    <2>3. ServerSound(exBook, s) /\ s.on /\ s.depth = n /\ s.owed = {}
      BY <2>1 DEF ServerSound
    <2>4. Fit(f, n) /\ f.type = "snapshot" /\ f.shown = Shows(exBook, n, {})
      BY <1>3, <2>1, SnapshotFit
    <2>5. before \in Seq(Telling) /\ Chain(before, builder)
      BY <1>4 DEF StreamSound
    <2> HIDE DEF n, s, f, before
    <2>6. /\ Fit(f, s.depth) /\ f.shown = Shows(exBook, s.depth, s.owed)
          /\ f.type # "delta"
      BY <2>3, <2>4
    <2>7. StreamSound(inbox', builder, exBook, server')
      BY <1>3, <2>2, <2>3, <2>5, <2>6, StreamsSound
    <2> QED
      BY <1>1, <1>2, <2>7 DEF BookInv, EntryTyped
  <1> QED
    BY <1>5, <1>6, <1>7 DEF Serves

LEMMA PublishesKeeps ==
    ASSUME BookInv, Publishes
    PROVE  BookInv'
  <1> DEFINE n == server.depth
             owed == server.owed
             s == [server EXCEPT !.owed = {}]
             f == Delta(owed, exBook, n, {})
  <1>1. owed # {} /\ Streams(s, f, inbox, spent) /\ UNCHANGED <<exBook, outbox, entry, builder, link>>
    BY DEF Publishes
  <1>2. /\ inbox \in Seq(Telling) /\ Chain(inbox, builder) /\ ServerSound(exBook, server)
        /\ Tip(inbox, builder, exBook, server) /\ exBook \in BookOf
    BY DEF BookInv, StreamSound
  <1>3. /\ server \in [on : BOOLEAN, depth : Nat, owed : SUBSET ChangeOf, intact : BOOLEAN]
        /\ server.on /\ n \in Nat /\ owed \in SUBSET ChangeOf
    BY <1>1, <1>2 DEF ServerSound
  <1>4. /\ s \in [on : BOOLEAN, depth : Nat, owed : SUBSET ChangeOf, intact : BOOLEAN]
        /\ s.on /\ s.depth = n /\ s.owed = {} /\ s.intact = server.intact
    BY <1>3
  <1>5. Change(Shows(exBook, n, owed), owed, n) = Shows(exBook, n, {})
    BY <1>2, OwedApplied
  <1>6. n > ChecksumDepth => Checksum(Shows(exBook, n, {})) = Checksum(exBook)
    <2>1. Shows(exBook, n, {}) = TrimToDepth(exBook, n) /\ ChecksumDepth \in Nat
      BY <1>2, <1>3, ShowsTyped, BookAssumption
    <2> QED
      BY <1>2, <1>3, <2>1, TrimTwice, ChecksumIsTrim
  <1>7. /\ Fit(f, n) /\ f.type = "delta" /\ f.changes = owed /\ f.shown = Shows(exBook, n, {})
    BY <1>2, <1>3, <1>6, DeltaFit
  <1>8. server.intact => \A x \in Held(inbox, Len(inbox) + 1, builder, n) : x = Shows(exBook, n, owed)
    BY <1>2 DEF Tip
  <1> HIDE DEF n, owed, s, f
  <1>9. ServerSound(exBook, s)
    BY <1>4 DEF ServerSound
  <1>10. /\ Fit(f, s.depth) /\ f.shown = Shows(exBook, s.depth, s.owed)
         /\ s.intact => \A x \in Held(inbox, Len(inbox) + 1, builder, s.depth) :
                           Change(x, f.changes, s.depth) = f.shown
    BY <1>4, <1>5, <1>7, <1>8
  <1>11. StreamSound(inbox', builder, exBook, server')
    BY <1>1, <1>2, <1>4, <1>9, <1>10, StreamsSound
  <1>12. link.up
    BY <1>3 DEF BookInv, LinkSound
  <1> QED
    BY <1>1, <1>2, <1>11, <1>12 DEF BookInv, EntryTyped, LinkSound

LEMMA ChangesKeeps ==
    ASSUME BookInv, NEW c \in Moves, Changes(c)
    PROVE  BookInv'
  <1> DEFINE n == server.depth
             old == Top(c.side, exBook[c.side], n)
             new == Top(c.side, exBook'[c.side], n)
             owed == OwedBy(c, exBook, exBook', n)
             used == [spent EXCEPT !.changes = @ + 1]
  <1>1. /\ server.owed = {} /\ exBook' = Moving(exBook, c)
        /\ UNCHANGED <<outbox, entry, builder, link>>
    BY DEF Changes, Moving
  <1>2. c \in ChangeOf
    BY BookAssumption DEF ChangeOf, Sides
  <1>3. /\ inbox \in Seq(Telling) /\ Chain(inbox, builder) /\ ServerSound(exBook, server)
        /\ Tip(inbox, builder, exBook, server) /\ exBook \in BookOf
    BY DEF BookInv, StreamSound
  <1>4. /\ server \in [on : BOOLEAN, depth : Nat, owed : SUBSET ChangeOf, intact : BOOLEAN]
        /\ n \in Nat
    BY <1>3 DEF ServerSound
  <1>5. exBook' \in BookOf
    BY <1>1, <1>2, <1>3, MoveTyped
  <1>6. server.intact => \A x \in Held(inbox, Len(inbox) + 1, builder, n) : x = Shows(exBook, n, {})
    BY <1>1, <1>3 DEF Tip
  <1>7. CASE server.on /\ old # new
    <2> DEFINE s == [server EXCEPT !.owed = owed]
               f == Delta({c}, exBook', n, owed)
    <2>1. Streams(s, f, inbox, used)
      BY <1>7 DEF Changes, OwedBy, Moved
    <2>2. owed \in SUBSET ChangeOf /\ \A o \in owed : o.qty = Top(o.side, exBook'[o.side], n)[o.price]
      BY <1>2, <1>3, <1>4, <1>5, OwedSound
    <2>3. /\ Change(Shows(exBook, n, {}), {c}, n) = Shows(exBook', n, owed)
          /\ n > ChecksumDepth => Checksum(Shows(exBook', n, owed)) = Checksum(exBook')
      BY <1>1, <1>2, <1>3, <1>4, <1>5, <1>7, MoveApplied
    <2> HIDE DEF owed
    <2>4. /\ Fit(f, n) /\ f.type = "delta" /\ f.changes = {c} /\ f.shown = Shows(exBook', n, owed)
      <3>1. {c} \in SUBSET ChangeOf
        BY <1>2
      <3> QED
        BY <1>4, <1>5, <2>3, <3>1, DeltaFit
    <2>5. /\ s \in [on : BOOLEAN, depth : Nat, owed : SUBSET ChangeOf, intact : BOOLEAN]
          /\ s.on /\ s.depth = n /\ s.owed = owed /\ s.intact = server.intact
      BY <1>4, <1>7, <2>2
    <2> HIDE DEF s, f, n, used
    <2>6. ServerSound(exBook', s)
      BY <2>2, <2>5 DEF ServerSound
    <2>7. /\ Fit(f, s.depth) /\ f.shown = Shows(exBook', s.depth, s.owed)
          /\ s.intact => \A x \in Held(inbox, Len(inbox) + 1, builder, s.depth) :
                            Change(x, f.changes, s.depth) = f.shown
      BY <1>6, <2>3, <2>4, <2>5
    <2>8. StreamSound(inbox', builder, exBook', server')
      BY <1>3, <1>5, <2>1, <2>5, <2>6, <2>7, StreamsSound
    <2>9. link.up
      BY <1>7 DEF BookInv, LinkSound
    <2> QED
      BY <1>1, <1>5, <2>8, <2>9 DEF BookInv, EntryTyped, LinkSound
  <1>8. CASE ~(server.on /\ old # new)
    <2>1. UNCHANGED <<server, inbox>>
      BY <1>8 DEF Changes
    <2>2. ServerSound(exBook', server)
      BY <1>1, <1>3 DEF ServerSound
    <2>3. Tip(inbox, builder, exBook', server)
      <3>1. CASE ~server.on
        BY <1>3, <3>1 DEF Tip, ServerSound
      <3>2. CASE server.on
        <4>1. Shows(exBook', n, {}) = Shows(exBook, n, {})
          BY <1>1, <1>2, <1>3, <1>4, <1>5, <1>8, <3>2, MoveUnseen
        <4> QED
          BY <1>1, <1>6, <4>1 DEF Tip
      <3> QED
        BY <3>1, <3>2
    <2> QED
      BY <1>1, <1>3, <1>5, <2>1, <2>2, <2>3 DEF BookInv, EntryTyped, LinkSound, StreamSound
  <1> QED
    BY <1>7, <1>8

LEMMA NextKeeps ==
    ASSUME BookInv, [Next]_vars
    PROVE  BookInv'
  <1>1. CASE UNCHANGED vars
    BY <1>1 DEF vars, BookInv, StreamSound, LinkSound, EntryTyped
  <1>2. CASE Client
    BY <1>2, DataFrameKeeps, AckKeeps, RejectKeeps, ReseedTimeoutKeeps, AckTimeoutKeeps,
       ResendDueKeeps, TearDownKeeps, BringUpKeeps, SubscribeKeeps, UnsubscribeKeeps DEF Client
  <1>3. CASE Exchange
    BY <1>3, ServesKeeps, ChangesKeeps, PublishesKeeps DEF Exchange
  <1> QED
    BY <1>1, <1>2, <1>3 DEF Next

-----------------------------------------------------------------------------
(* The theorems.                                                           *)

\* The invariant: every frame on its way tells the exchange's book, and takes a
\* client that missed nothing from one published book to the next.
THEOREM BookInductive == Spec => []BookInv
  <1>1. Init => BookInv
    BY InitEstablishes
  <1>2. BookInv /\ [Next]_vars => BookInv'
    BY NextKeeps
  <1> QED
    BY <1>1, <1>2, PTL DEF Spec

\* The types; the book never keeps more levels than its subscribed depth
\* (trim_to_depth), and the gap streak stays under MAX_CONSECUTIVE_BOOK_GAPS.
THEOREM BookTypeCorrect == Spec => []TypeOK
  <1>1. BookInv => TypeOK
    BY DEF BookInv, TypeOK, BuilderSound, BuilderOf, EntryTyped, BookOf
  <1> QED
    BY <1>1, BookInductive, PTL

\* What on_book is given by a handled frame.
LEMMA OnBookMaintained ==
    ASSUME BookInv, NEW f \in NextFrame, NEW u \in OnBook(f), u.kind = "maintained"
    PROVE  /\ f \in FrameOf /\ FrameTells(f) /\ IsData(f)
           /\ BuilderSound(u.builder) /\ InStep(u.builder, f)
           /\ Checksum(u.builder.book) = f.checksum /\ u.builder.depth > ChecksumDepth
           /\ u.book = BuildUpdate(u.builder)
  <1> DEFINE d == Drive(f)
  <1>1. inbox # <<>> /\ f = Head(inbox) /\ IsData(f)
    BY DEF NextFrame, IsData
  <1>2. f \in FrameOf /\ FrameTells(f) /\ Continues(builder, f)
    BY <1>1, HeadTells
  <1>3. /\ BuilderSound(d.builder) /\ InStep(d.builder, f)
        /\ d.outcome = "maintained" => /\ Checksum(d.builder.book) = f.checksum
                                       /\ d.builder.depth > ChecksumDepth
    BY <1>1, <1>2, DriveSound DEF BookInv
  <1>4. /\ d.outcome = "maintained" /\ u.builder = d.builder
        /\ u.book = BuildUpdate(d.builder)
    <2> HIDE DEF d
    <2>1. u \in CASE d.outcome = "maintained" ->
                       {[kind |-> "maintained", book |-> BuildUpdate(d.builder), builder |-> d.builder]}
                  [] d.outcome = "pass" /\ Parses(f) ->
                       {[kind |-> "frame", book |-> f.book, builder |-> d.builder]}
                  [] OTHER -> {}
      BY DEF OnBook, d
    <2> QED
      BY <2>1
  <1> QED
    BY <1>1, <1>2, <1>3, <1>4

\* For any prices, books and depths, whatever was lost, garbled, late or rejected
\* before, a book given out agrees with the exchange's as far as the checksum and
\* the caller reach (validate_and_record).
THEOREM DeliveredAlwaysValid == Spec => []DeliveredValid
  <1>1. BookInv => DeliveredValid
    <2> SUFFICES ASSUME BookInv, NEW f \in NextFrame, NEW u \in OnBook(f), u.kind = "maintained",
                        NEW s \in Sides
                 PROVE  LET n == IF u.builder.caller < ChecksumDepth THEN u.builder.caller
                                 ELSE ChecksumDepth
                        IN  Top(s, u.book[s], n) = Top(s, f.truth[s], n)
      BY DEF DeliveredValid
    <2> DEFINE b == u.builder
               n == IF b.caller < ChecksumDepth THEN b.caller ELSE ChecksumDepth
               mine == b.book[s]
               theirs == f.truth[s]
    <2>1. /\ f \in FrameOf /\ FrameTells(f) /\ IsData(f) /\ BuilderSound(b)
          /\ Checksum(b.book) = f.checksum /\ u.book = BuildUpdate(b)
      BY OnBookMaintained
    <2>2. b \in BuilderOf /\ b.caller \in Nat /\ ChecksumDepth \in Nat
      BY <2>1, BookAssumption DEF BuilderSound, BuilderOf
    <2>3. mine \in Levels /\ theirs \in Levels
      BY <2>1, <2>2 DEF BuilderOf, FrameOf, BookOf
    <2>4. n \in Nat /\ n <= b.caller /\ n <= ChecksumDepth
      BY <2>2
    <2>5. u.book[s] = Top(s, mine, b.caller)
      BY <2>1 DEF BuildUpdate
    <2>6. Top(s, mine, ChecksumDepth) = Top(s, theirs, ChecksumDepth)
      <3>1. Checksum(b.book)[s] = Checksum(f.truth)[s]
        BY <2>1 DEF FrameTells
      <3> QED
        BY <3>1 DEF Checksum
    <2> HIDE DEF n, mine, theirs, b
    <2>7. Top(s, Top(s, mine, b.caller), n) = Top(s, mine, n)
      BY <2>2, <2>3, <2>4, TopOfTop
    <2>8. /\ Top(s, Top(s, mine, ChecksumDepth), n) = Top(s, mine, n)
          /\ Top(s, Top(s, theirs, ChecksumDepth), n) = Top(s, theirs, n)
      BY <2>2, <2>3, <2>4, TopOfTop
    <2>9. Top(s, u.book[s], n) = Top(s, theirs, n)
      BY <2>5, <2>6, <2>7, <2>8
    <2> QED
      BY <2>9 DEF n, theirs, b
  <1> QED
    BY <1>1, BookInductive, PTL

\* For any prices, books and depths, a stream that missed nothing since its
\* snapshot never makes the client declare a gap or withhold a frame
\* (trim_to_depth, delta_level_deletes, wire_depth).
THEOREM NeverFalseGap == Spec => []NoFalseGap
  <1>1. BookInv => NoFalseGap
    <2> SUFFICES ASSUME BookInv, NEW f \in NextFrame, HasBuilder, Applied(builder, f).chained
                 PROVE  \E u \in OnBook(f) : u.kind = "maintained"
      BY DEF NoFalseGap
    <2> DEFINE d == Drive(f)
               u == [kind |-> "maintained", book |-> BuildUpdate(d.builder), builder |-> d.builder]
    <2>1. inbox # <<>> /\ f = Head(inbox) /\ IsData(f)
      BY DEF NextFrame, IsData
    <2>2. f \in FrameOf /\ FrameTells(f) /\ Continues(builder, f)
      BY <2>1, HeadTells
    <2>3. d.outcome = "maintained"
      BY <2>1, <2>2, DriveSound DEF BookInv
    <2>4. OnBook(f) = {u}
      BY <2>3 DEF OnBook
    <2> QED
      BY <2>4
  <1> QED
    BY <1>1, BookInductive, PTL

\* For any prices, books and depths, on such a stream the whole of the book given
\* out is what the exchange has published, below the checksum's reach too.
THEOREM DeliveredAlwaysExact == Spec => []DeliveredExact
  <1>1. BookInv => DeliveredExact
    <2> SUFFICES ASSUME BookInv, NEW f \in NextFrame, NEW u \in OnBook(f), u.kind = "maintained",
                        u.builder.chained, NEW s \in Sides
                 PROVE  u.book[s] = Top(s, f.shown[s], u.builder.caller)
      BY DEF DeliveredExact
    <2>1. InStep(u.builder, f) /\ u.book = BuildUpdate(u.builder)
      BY OnBookMaintained
    <2> QED
      BY <2>1 DEF InStep, BuildUpdate
  <1> QED
    BY <1>1, BookInductive, PTL

=============================================================================
