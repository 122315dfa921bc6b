------------------------ MODULE OrderCompositionProofs ------------------------
(***************************************************************************)
(* Proofs that what is on the wire means what the caller described, for    *)
(* any prices, leverages and instants and any order of the setters.  The   *)
(* argument: each row has each of its keys at most once (OptReads), so the *)
(* exchange reads back field by field what was composed; the fields of a   *)
(* type that the transport has no key for are those the type does not use, *)
(* or those validation has refused.  Dates rest on the arithmetic of       *)
(* civil_from_days against the counted calendar (TimeReads).               *)
(***************************************************************************)
EXTENDS OrderComposition, FiniteSetTheorems, NaturalsInduction, WellFoundedInduction, TLAPS

-----------------------------------------------------------------------------
(* The calendar.                                                           *)

\* The leap years from 1970 up to y, without y.
LeapYears(y) == {x \in 1970..(y - 1) : IsLeap(x)}

\* The closed form of their number.
Leaps(n) == n \div 4 - n \div 100 + n \div 400

\* A year of an era, counted from March of the year 0.
EraYear(era, yoe) == yoe + era * 400

HasLeast(T) == \E x \in T : \A y \in T : x <= y

\* Every set of naturals that is not empty has a least element.
LEMMA LeastNatural ==
    ASSUME NEW T, T \subseteq Nat, T # {}
    PROVE  HasLeast(T)
<1> DEFINE R == {ss \in Nat \X Nat : ss[1] < ss[2]}
<1>1. IsWellFoundedOn(R, Nat)
  BY NatLessThanWellFounded DEF OpToRel
<1> HIDE DEF R
<1>2. PICK x \in T : \A y \in T : ~(<<y, x>> \in R)
  BY <1>1, WFMin
<1>3. \A y \in T : ~(y < x)
  BY <1>2 DEF R
<1> QED  BY <1>3 DEF HasLeast

\* Its step.
LEMMA LeapsStep ==
    ASSUME NEW n \in Nat
    PROVE  /\ Leaps(n) \in Int
           /\ Leaps(n + 1) = Leaps(n) + (IF IsLeap(n + 1) THEN 1 ELSE 0)
  BY DEF Leaps, IsLeap

LEMMA LeapYearsStep ==
    ASSUME NEW n \in Nat
    PROVE  LeapYears(1970 + n + 1) =
             IF IsLeap(1970 + n) THEN LeapYears(1970 + n) \union {1970 + n} ELSE LeapYears(1970 + n)
<1>1. \A x \in Int : x \in 1970..(1970 + n + 1 - 1) <=> x \in 1970..(1970 + n - 1) \/ x = 1970 + n
  OBVIOUS
<1> QED  BY <1>1 DEF LeapYears

\* Counted and computed, the leap years of the first n years are as many.
Good(n) ==
    /\ IsFiniteSet(LeapYears(1970 + n))
    /\ Cardinality(LeapYears(1970 + n)) = Leaps(1970 + n - 1) - 477

\* Were there years for which they are not, there would be a least one.
LEMMA AllGood == \A n \in Nat : Good(n)
<1> DEFINE B == {n \in Nat : ~Good(n)}
<1>2. Good(0)
  <2>1. LeapYears(1970) = {}
    BY DEF LeapYears
  <2>2. Leaps(1969) = 477
    BY DEF Leaps
  <2> QED  BY <2>1, <2>2, FS_EmptySet DEF Good
<1>3. ASSUME NEW n \in Nat, Good(n) PROVE Good(n + 1)
  <2> DEFINE S == LeapYears(1970 + n)
             k == 1969 + n
  <2>1. IsFiniteSet(S) /\ Cardinality(S) = Leaps(k) - 477
    <3>1. 1970 + n - 1 = k
      OBVIOUS
    <3> QED  BY <1>3, <3>1 DEF Good
  <2>2. 1970 + n \notin S
    BY DEF LeapYears
  <2>3. LeapYears(1970 + (n + 1)) = IF IsLeap(1970 + n) THEN S \union {1970 + n} ELSE S
    <3>1. 1970 + (n + 1) = 1970 + n + 1
      OBVIOUS
    <3> QED  BY <3>1, LeapYearsStep
  <2>4. Leaps(k) \in Int /\ Leaps(1970 + n) = Leaps(k) + (IF IsLeap(1970 + n) THEN 1 ELSE 0)
    <3>1. k + 1 = 1970 + n /\ k \in Nat
      OBVIOUS
    <3> QED  BY <3>1, LeapsStep
  <2>5. /\ IsFiniteSet(S \union {1970 + n})
        /\ Cardinality(S \union {1970 + n}) = Cardinality(S) + 1
    BY <2>1, <2>2, FS_AddElement
  <2>6. 1970 + (n + 1) - 1 = 1970 + n
    OBVIOUS
  <2> HIDE DEF S, k
  <2> QED  BY <2>1, <2>3, <2>4, <2>5, <2>6 DEF Good
<1>4. B = {}
  <2> SUFFICES ASSUME B # {} PROVE FALSE
    OBVIOUS
  <2>1. PICK n \in B : \A z \in B : n <= z
    <3>1. B \subseteq Nat /\ B # {}
      OBVIOUS
    <3> HIDE DEF B
    <3>2. HasLeast(B)
      BY <3>1, LeastNatural
    <3> QED  BY <3>2 DEF HasLeast
  <2>2. n # 0
    BY <1>2
  <2>3. n - 1 \in Nat /\ n - 1 < n /\ n - 1 + 1 = n
    BY <2>2
  <2>4. n - 1 \notin B
    BY <2>1, <2>3
  <2>5. Good(n - 1)
    BY <2>3, <2>4
  <2>6. Good(n - 1 + 1)
    BY <2>3, <2>5, <1>3
  <2> QED  BY <2>3, <2>6
<1> QED  BY <1>4

LEMMA LeapYearsCounted ==
    ASSUME NEW y \in Nat, y >= 1970
    PROVE  Cardinality(LeapYears(y)) = Leaps(y - 1) - 477
<1>1. y - 1970 \in Nat /\ 1970 + (y - 1970) = y
  OBVIOUS
<1>2. Good(y - 1970)
  BY <1>1, AllGood
<1> QED  BY <1>1, <1>2 DEF Good

\* Within an era: the year of the era, the day of its year, and when it has 366.
YearOf(doe) == (doe - doe \div 1460 + doe \div 36524 - doe \div 146096) \div 365
YearStart(y) == 365 * y + y \div 4 - y \div 100

LEMMA YearOfEra ==
    ASSUME NEW doe \in Nat, doe < 146097
    PROVE  /\ YearOf(doe) \in 0..399
           /\ doe - YearStart(YearOf(doe)) \in 0..365
           /\ doe - YearStart(YearOf(doe)) = 365 => IsLeap(YearOf(doe) + 1)
<1>1. YearOf(doe) \in 0..399
  BY DEF YearOf
<1>2. YearStart(YearOf(doe)) <= doe
  BY DEF YearOf, YearStart
<1>3. doe - YearStart(YearOf(doe)) <= 365
  BY DEF YearOf, YearStart
<1>4. doe - YearStart(YearOf(doe)) = 365 => IsLeap(YearOf(doe) + 1)
  BY DEF YearOf, YearStart, IsLeap
<1>5. YearStart(YearOf(doe)) \in Int
  BY <1>1 DEF YearStart
<1> HIDE DEF YearOf, YearStart
<1> QED  BY <1>1, <1>2, <1>3, <1>4, <1>5

\* Within a year that starts on 1 March: the month and the day, and the days
\* before the month in the calendar's own year.
LEMMA MonthOfYear ==
    ASSUME NEW doy \in 0..365
    PROVE  LET mp == (5 * doy + 2) \div 153
               m == IF mp < 10 THEN mp + 3 ELSE mp - 9
               d == doy - (153 * mp + 2) \div 5 + 1
           IN  /\ m \in 1..12 /\ d \in Int
               /\ m <= 2 => doy = 306 + (IF m = 1 THEN 0 ELSE 31) + d - 1
               /\ m > 2 => doy = <<0, 31, 59, 90, 120, 151, 181, 212, 243, 273, 304, 334>>[m] - 59 + d - 1
<1> DEFINE mp == (5 * doy + 2) \div 153
<1>1. mp \in 0..11
  OBVIOUS
<1>2. \/ mp = 0 \/ mp = 1 \/ mp = 2 \/ mp = 3 \/ mp = 4 \/ mp = 5
      \/ mp = 6 \/ mp = 7 \/ mp = 8 \/ mp = 9 \/ mp = 10 \/ mp = 11
  BY <1>1
<1> HIDE DEF mp
<1> QED  BY <1>2 DEF mp

\* The leap years of whole eras and of a part of one.
LEMMA LeapsOfEra ==
    \A era \in Nat, yoe \in 0..399 :
        Leaps(EraYear(era, yoe)) = 97 * era + yoe \div 4 - yoe \div 100
  BY DEF Leaps, EraYear

\* The date composed for a day is read as that day.
LEMMA DayReads ==
    ASSUME NEW day \in Nat
    PROVE  LET c == CivilFromDays(day)
           IN  /\ c \in [y : Int, m : Int, d : Int]
               /\ 365 * (c.y - 1970) + Cardinality({x \in 1970..(c.y - 1) : IsLeap(x)})
                  + MonthStart(c.y, c.m) + c.d - 1 = day
<1> DEFINE z == day + 719468
           era == z \div 146097
           doe == z - era * 146097
           yoe == YearOf(doe)
           doy == doe - YearStart(yoe)
           mp == (5 * doy + 2) \div 153
           m == IF mp < 10 THEN mp + 3 ELSE mp - 9
           d == doy - (153 * mp + 2) \div 5 + 1
           y == yoe + era * 400 + (IF m <= 2 THEN 1 ELSE 0)
           k == yoe + era * 400
           tab == <<0, 31, 59, 90, 120, 151, 181, 212, 243, 273, 304, 334>>
<1>1. CivilFromDays(day) = [y |-> y, m |-> m, d |-> d]
  BY DEF CivilFromDays, YearOf, YearStart
<1>2. /\ era \in Nat /\ era >= 4 /\ doe \in Nat /\ doe < 146097
      /\ era = 4 => doe >= 135080
      /\ day = era * 146097 + doe - 719468
  OBVIOUS
<1> HIDE DEF era, doe
<1>3. yoe \in 0..399 /\ doy \in 0..365
  BY <1>2, YearOfEra
<1>4. era = 4 => yoe >= 369
  BY <1>2 DEF YearOf
<1>5. doe = YearStart(yoe) + doy /\ YearStart(yoe) = 365 * yoe + yoe \div 4 - yoe \div 100
  BY <1>2, <1>3 DEF YearStart
<1>6. era = 4 /\ yoe = 369 => doy >= 306
  BY <1>2, <1>3, <1>5
<1> HIDE DEF yoe, doy
<1>7. /\ m \in 1..12 /\ d \in Int
      /\ m <= 2 => doy = 306 + (IF m = 1 THEN 0 ELSE 31) + d - 1
      /\ m > 2 => doy = tab[m] - 59 + d - 1
      /\ m > 2 => tab[m] \in Int
  BY <1>3, MonthOfYear
<1>8. doy >= 306 => m <= 2
  BY <1>3
<1> HIDE DEF m, d, tab
<1>9. k \in Nat /\ y \in Nat /\ y = (IF m <= 2 THEN k + 1 ELSE k) /\ y >= 1970
  BY <1>2, <1>3, <1>4, <1>6, <1>7, <1>8
<1>10. Cardinality({x \in 1970..(y - 1) : IsLeap(x)}) = Leaps(y - 1) - 477
  <2> HIDE DEF y
  <2> QED  BY <1>9, LeapYearsCounted DEF LeapYears
<1>11. Leaps(k) = 97 * era + yoe \div 4 - yoe \div 100
  <2>1. era \in Nat /\ yoe \in 0..399
    BY <1>2, <1>3
  <2>2. Leaps(EraYear(era, yoe)) = 97 * era + yoe \div 4 - yoe \div 100
    BY <2>1, LeapsOfEra
  <2> QED  BY <2>2 DEF EraYear
<1>12. /\ Leaps(k) \in Int /\ Leaps(k - 1) \in Int
       /\ m > 2 => Leaps(k) = Leaps(k - 1) + (IF IsLeap(k) THEN 1 ELSE 0)
  <2> HIDE DEF k, y
  <2>1. k - 1 \in Nat /\ k - 1 + 1 = k
    BY <1>9
  <2> QED  BY <1>9, <2>1, LeapsStep
<1>13. MonthStart(y, m) = tab[m] + (IF m > 2 /\ IsLeap(y) THEN 1 ELSE 0)
  BY DEF MonthStart, tab
<1>14. CASE m > 2
  <2>1. y = k /\ MonthStart(y, m) = tab[m] + (IF IsLeap(k) THEN 1 ELSE 0)
    BY <1>7, <1>9, <1>13, <1>14
  <2> DEFINE L == Leaps(k)
             P == Leaps(k - 1)
             T == tab[m]
             S == yoe \div 4 - yoe \div 100
  <2>2. T \in Int /\ S \in Int /\ doy = T - 59 + d - 1 /\ L = P + (IF IsLeap(k) THEN 1 ELSE 0)
        /\ L = 97 * era + S /\ P \in Int /\ L \in Int /\ doe = 365 * yoe + S + doy
    BY <1>3, <1>5, <1>7, <1>11, <1>12, <1>14
  <2> HIDE DEF L, P, T, S
  <2>3. 365 * (k - 1970) + (P - 477) + (T + (IF IsLeap(k) THEN 1 ELSE 0)) + d - 1 = day
    BY <1>2, <1>3, <1>7, <2>2
  <2> QED  BY <1>1, <1>7, <1>9, <1>10, <2>1, <2>3 DEF P, T
<1>15. CASE m <= 2
  <2>1. y = k + 1 /\ y - 1 = k /\ MonthStart(y, m) = (IF m = 1 THEN 0 ELSE 31)
    BY <1>7, <1>9, <1>13, <1>15 DEF tab
  <2> DEFINE L == Leaps(k)
             S == yoe \div 4 - yoe \div 100
  <2>2. S \in Int /\ L = 97 * era + S /\ L \in Int /\ doe = 365 * yoe + S + doy
    BY <1>3, <1>5, <1>11, <1>12
  <2> HIDE DEF L, S
  <2>3. 365 * (k + 1 - 1970) + (L - 477) + (IF m = 1 THEN 0 ELSE 31) + d - 1 = day
    BY <1>2, <1>3, <1>7, <1>15, <2>2
  <2> QED  BY <1>1, <1>7, <1>9, <1>10, <2>1, <2>3 DEF L
<1> QED  BY <1>7, <1>14, <1>15

\* The time of day composed is read as that time.
LEMMA MinuteReads ==
    ASSUME NEW r \in Int
    PROVE  (r \div 60) * 60 + (r % 60) = r
  OBVIOUS

LEMMA ClockReads ==
    ASSUME NEW n \in Int
    PROVE  (n \div 3600) * 3600 + ((n % 3600) \div 60) * 60 + (n % 60) = n
<1> DEFINE h == n \div 3600
           r == n % 3600
           q == r \div 60
<1>1. h \in Int /\ r \in Int /\ n = h * 3600 + r
  OBVIOUS
<1>2. n % 60 = r % 60
  OBVIOUS
<1> HIDE DEF h, r
<1>3. q * 60 + (r % 60) = r
  BY <1>1, MinuteReads
<1>4. q \in Int /\ r % 60 \in Int
  BY <1>1
<1> DEFINE k == r % 60
<1> HIDE DEF q, k
<1>5. h * 3600 + q * 60 + k = n
  <2>1. q * 60 + k = r /\ k \in Int
    BY <1>3, <1>4 DEF k
  <2> QED  BY <1>1, <1>4, <2>1
<1> QED  BY <1>2, <1>5 DEF h, q, r, k

\* An instant composed for the WS reads as that instant.
LEMMA TimeReads ==
    ASSUME NEW t \in Times
    PROVE  WsTime(t) # None /\ ReadWsTime(WsTime(t)) = t
<1> DEFINE c == CivilFromDays(t.day)
           w == [date |-> c, hh |-> t.tod \div 3600, mi |-> (t.tod % 3600) \div 60, ss |-> t.tod % 60]
<1>1. t \in [day : Nat, tod : Nat] /\ t.tod < 86400
  BY TimesAssumption
<1>2. /\ c \in [y : Int, m : Int, d : Int]
      /\ 365 * (c.y - 1970) + Cardinality({x \in 1970..(c.y - 1) : IsLeap(x)})
                  + MonthStart(c.y, c.m) + c.d - 1 = t.day
  BY <1>1, DayReads
<1>3. WsTime(t) = w
  <2>1. t # None
    BY NoneAssumption
  <2> QED  BY <2>1 DEF WsTime
<1> HIDE DEF c
<1>4. w \in [date : [y : Int, m : Int, d : Int], hh : Int, mi : Int, ss : Int]
  <2>1. t.tod \div 3600 \in Int /\ (t.tod % 3600) \div 60 \in Int /\ t.tod % 60 \in Int
    BY <1>1
  <2> QED  BY <1>2, <2>1
<1>5. w # None
  <2> HIDE DEF w
  <2> QED  BY <1>4, NoneAssumption
<1>6. w.hh * 3600 + w.mi * 60 + w.ss = t.tod
  <2>1. w.hh = t.tod \div 3600 /\ w.mi = (t.tod % 3600) \div 60 /\ w.ss = t.tod % 60
    OBVIOUS
  <2> HIDE DEF w
  <2> DEFINE n == t.tod
  <2>2. n \in Int
    BY <1>1
  <2> HIDE DEF n
  <2>3. (n \div 3600) * 3600 + ((n % 3600) \div 60) * 60 + (n % 60) = n
    BY <2>2, ClockReads
  <2> QED  BY <2>1, <2>3 DEF n
<1>7. ReadWsTime(w) = [day |-> t.day, tod |-> t.tod]
  <2>1. w.date = c
    OBVIOUS
  <2> HIDE DEF w
  <2> QED  BY <1>2, <1>5, <1>6, <2>1 DEF ReadWsTime
<1>8. t = [day |-> t.day, tod |-> t.tod]
  BY <1>1
<1> QED  BY <1>3, <1>5, <1>7, <1>8

-----------------------------------------------------------------------------
(* Rows.                                                                   *)

\* A key that a row has once reads as its value, one it does not have as None.
LEMMA OptReads ==
    ASSUME NEW row, NEW key, NEW v, Opt(key, v) \subseteq row,
           \A p \in row : p[1] = key => p \in Opt(key, v)
    PROVE  Get(row, key) = v
<1>1. CASE v = None
  <2>1. ~\E p \in row : p[1] = key
    BY <1>1 DEF Opt
  <2> QED  BY <1>1, <2>1 DEF Get
<1>2. CASE v # None
  <2>1. <<key, v>> \in row /\ \A p \in row : p[1] = key => p = <<key, v>>
    BY <1>2 DEF Opt
  <2>2. (CHOOSE p \in row : p[1] = key) = <<key, v>>
    BY <2>1
  <2> QED  BY <2>1, <2>2 DEF Get
<1> QED  BY <1>1, <1>2

LEMMA OptKey ==
    ASSUME NEW key, NEW v, NEW p \in Opt(key, v)
    PROVE  p[1] = key
  BY DEF Opt

\* What the exchange reads of a REST row is the order, but for reduce_only.
Orders ==
    [type : OrderTypes, price : Prices \union {None}, price2 : Prices \union {None},
     leverage : Leverages \union {None}, margin : BOOLEAN, oflags : SUBSET OFlags,
     reduce : BOOLEAN \union {None}, trigger : {"index", None}, tif : {"gtc", "fok", None},
     stp : {"cancel-both", None}, start : Times \union {None}, expire : Times \union {None},
     userref : {"ref", None}, id : {"own", "auto", None}, close : Closes \union {NoClose}]

\* No value is None.
LEMMA StringsPresent ==
    /\ \A s \in OrderTypes \union CloseTypes : s # None
    /\ \A s \in {"neg", "zero", "pos", "static", "quote", "pct", "base"} : s # None
    /\ TRUE # None /\ FALSE # None
  BY NoneAssumption DEF Words

LEMMA RestGets ==
    ASSUME NEW o \in Orders
    PROVE  LET row == RestRow(o)
           IN  /\ Get(row, "ordertype") = o.type
               /\ Get(row, "price") = RestPrice(o.price)
               /\ Get(row, "price2") = RestPrice(o.price2)
               /\ Get(row, "leverage") = o.leverage
               /\ Get(row, "oflags") = (IF o.oflags = {} THEN None ELSE o.oflags)
               /\ Get(row, "reduce_only") = (IF o.reduce = TRUE THEN TRUE ELSE None)
               /\ Get(row, "stptype") = o.stp
               /\ Get(row, "trigger") = o.trigger
               /\ Get(row, "timeinforce") = o.tif
               /\ Get(row, "starttm") = o.start
               /\ Get(row, "expiretm") = o.expire
               /\ Get(row, "userref") = o.userref
               /\ Get(row, "cl_ord_id") = o.id
               /\ Get(row, "close[ordertype]") = o.close.type
               /\ Get(row, "close[price]") = RestPrice(o.close.price)
               /\ Get(row, "close[price2]") = RestPrice(o.close.price2)
<1> DEFINE row == RestRow(o)
           flags == IF o.oflags = {} THEN None ELSE o.oflags
           reduce == IF o.reduce = TRUE THEN TRUE ELSE None
<1>1. {<<"ordertype", o.type>>} = Opt("ordertype", o.type)
  <2>1. o.type # None
    BY StringsPresent DEF Orders
  <2> QED  BY <2>1 DEF Opt
<1>2. (IF o.oflags = {} THEN {} ELSE {<<"oflags", o.oflags>>}) = Opt("oflags", flags)
  <2>1. o.oflags # None
    BY NoneAssumption DEF Orders
  <2> QED  BY <2>1 DEF Opt
<1>3. Flag("reduce_only", o.reduce = TRUE) = Opt("reduce_only", reduce)
  BY NoneAssumption DEF Opt, Flag
<1> HIDE DEF flags, reduce
<1>4. row = Opt("ordertype", o.type) \union Opt("price", RestPrice(o.price))
            \union Opt("price2", RestPrice(o.price2)) \union Opt("leverage", o.leverage)
            \union Opt("oflags", flags) \union Opt("reduce_only", reduce)
            \union Opt("stptype", o.stp) \union Opt("trigger", o.trigger)
            \union Opt("timeinforce", o.tif)
            \union Opt("starttm", o.start) \union Opt("expiretm", o.expire)
            \union Opt("userref", o.userref) \union Opt("cl_ord_id", o.id)
            \union Opt("close[ordertype]", o.close.type)
            \union Opt("close[price]", RestPrice(o.close.price))
            \union Opt("close[price2]", RestPrice(o.close.price2))
  BY <1>1, <1>2, <1>3 DEF RestRow
<1> HIDE DEF row
<1>5. Get(row, "ordertype") = o.type
  BY <1>4, OptKey, OptReads
<1>6. Get(row, "price") = RestPrice(o.price)
  BY <1>4, OptKey, OptReads
<1>7. Get(row, "price2") = RestPrice(o.price2)
  BY <1>4, OptKey, OptReads
<1>8. Get(row, "leverage") = o.leverage
  BY <1>4, OptKey, OptReads
<1>9. Get(row, "oflags") = flags
  BY <1>4, OptKey, OptReads
<1>10. Get(row, "reduce_only") = reduce
  BY <1>4, OptKey, OptReads
<1>11. Get(row, "stptype") = o.stp
  BY <1>4, OptKey, OptReads
<1>12. Get(row, "trigger") = o.trigger
  BY <1>4, OptKey, OptReads
<1>13. Get(row, "timeinforce") = o.tif
  BY <1>4, OptKey, OptReads
<1>14. Get(row, "starttm") = o.start
  BY <1>4, OptKey, OptReads
<1>15. Get(row, "expiretm") = o.expire
  BY <1>4, OptKey, OptReads
<1>16. Get(row, "userref") = o.userref
  BY <1>4, OptKey, OptReads
<1>17. Get(row, "cl_ord_id") = o.id
  BY <1>4, OptKey, OptReads
<1>18. Get(row, "close[ordertype]") = o.close.type
  BY <1>4, OptKey, OptReads
<1>19. Get(row, "close[price]") = RestPrice(o.close.price)
  BY <1>4, OptKey, OptReads
<1>20. Get(row, "close[price2]") = RestPrice(o.close.price2)
  BY <1>4, OptKey, OptReads
<1> QED
  BY <1>5, <1>6, <1>7, <1>8, <1>9, <1>10, <1>11, <1>12, <1>13, <1>14, <1>15, <1>16, <1>17, <1>18, <1>19, <1>20 DEF row, flags, reduce

\* A price survives REST, unless it is absolute and negative.
LEMMA RestPriceReads ==
    ASSUME NEW p \in Prices \union {None}, p # [unit |-> "static", sign |-> "neg"]
    PROVE  ReadRestPrice(RestPrice(p)) = p
<1>1. CASE p = None
  BY <1>1 DEF ReadRestPrice, RestPrice
<1>2. CASE p # None
  <2>1. p \in PriceRecords /\ (p.unit = "static" => p.sign # "neg")
    BY <1>2, PricesAssumption DEF PriceRecords
  <2> DEFINE r == RestPrice(p)
  <2>2. r \in [prefix : {"", "+", "-"}, pct : BOOLEAN, zero : BOOLEAN]
    BY <1>2, <2>1 DEF RestPrice, PriceRecords
  <2>3. r # None
    <3> HIDE DEF r
    <3> QED  BY <2>2, NoneAssumption
  <2>4. p = [unit |-> p.unit, sign |-> p.sign]
    BY <2>1 DEF PriceRecords
  <2>5. /\ r.prefix = (IF p.sign = "neg" THEN "-" ELSE IF p.unit = "static" THEN "" ELSE "+")
        /\ r.pct = (p.unit = "pct") /\ r.zero = (p.sign = "zero")
    BY <1>2 DEF RestPrice
  <2>6. p.unit \in {"static", "quote", "pct"} /\ p.sign \in {"neg", "zero", "pos"}
    BY <2>1 DEF PriceRecords
  <2> HIDE DEF r
  <2>7. ReadRestPrice(r) = [unit |-> p.unit, sign |-> p.sign]
    BY <2>1, <2>3, <2>5, <2>6 DEF ReadRestPrice
  <2> QED  BY <2>4, <2>7 DEF r
<1> QED  BY <1>1, <1>2

-----------------------------------------------------------------------------
(* Meaning.                                                                *)

\* A record with the fields of an order.
Shaped(a) ==
    a = [type |-> a.type, price |-> a.price, price2 |-> a.price2, leverage |-> a.leverage,
         margin |-> a.margin, oflags |-> a.oflags, reduce |-> a.reduce, trigger |-> a.trigger,
         tif |-> a.tif, stp |-> a.stp, start |-> a.start, expire |-> a.expire,
         userref |-> a.userref, id |-> a.id,
         close |-> [type |-> a.close.type, price |-> a.close.price, price2 |-> a.close.price2]]

\* What each field of a request becomes.
MeansOf(a) ==
    [type |-> a.type,
     price |-> IF a.type \in {"market", "settle-position"} THEN None ELSE a.price,
     price2 |-> IF a.type \in WsTriggerTypes \cap LimitPriceBearing THEN a.price2 ELSE None,
     leverage |-> a.leverage, margin |-> a.margin,
     oflags |-> IF "fcib" \in a.oflags THEN a.oflags \ {"fciq"} ELSE a.oflags,
     reduce |-> a.reduce = TRUE,
     trigger |-> IF a.type \in WsTriggerTypes THEN a.trigger ELSE None,
     tif |-> a.tif, stp |-> a.stp, start |-> a.start, expire |-> a.expire,
     userref |-> a.userref, id |-> a.id,
     close |-> [type |-> a.close.type, price |-> a.close.price,
                price2 |-> IF a.close.type \in {None, "limit"} THEN None ELSE a.close.price2]]

LEMMA MeaningOf ==
    ASSUME NEW a, Shaped(a)
    PROVE  Meaning(a) = MeansOf(a)
<1> DEFINE m == Meaning(a)
           n == MeansOf(a)
<1>1. DOMAIN a = {"type", "price", "price2", "leverage", "margin", "oflags", "reduce", "trigger",
                  "tif", "stp", "start", "expire", "userref", "id", "close"}
  BY DEF Shaped
<1>2. DOMAIN a.close = {"type", "price", "price2"}
  BY DEF Shaped
<1>3. m.close = n.close
  BY <1>1, <1>2 DEF Meaning, MeansOf
<1>4. /\ m.type = n.type /\ m.price = n.price /\ m.price2 = n.price2
      /\ m.leverage = n.leverage /\ m.margin = n.margin /\ m.oflags = n.oflags
  BY <1>1 DEF Meaning, MeansOf
<1>5. m.reduce = n.reduce /\ m.trigger = n.trigger
  BY <1>1 DEF Meaning, MeansOf
<1>6. /\ m.tif = n.tif
      /\ m.stp = n.stp /\ m.start = n.start /\ m.expire = n.expire
      /\ m.userref = n.userref /\ m.id = n.id
  BY <1>1 DEF Meaning, MeansOf
<1>7. m = [x \in DOMAIN a |-> m[x]] /\ n = [x \in DOMAIN a |-> n[x]]
  <2>1. m = [x \in DOMAIN m |-> m[x]] /\ DOMAIN m = DOMAIN a
    BY ZenonT(60) DEF Meaning
  <2>2. DOMAIN n = DOMAIN a
    BY <1>1 DEF MeansOf
  <2>3. n = [x \in DOMAIN n |-> n[x]]
    BY DEF MeansOf
  <2> HIDE DEF m, n
  <2> QED  BY <2>1, <2>2, <2>3
<1> HIDE DEF m, n
<1>8. \A x \in DOMAIN a : m[x] = n[x]
  BY <1>1, <1>3, <1>4, <1>5, <1>6
<1>9. m = n
  BY <1>7, <1>8
<1> QED  BY <1>9 DEF m, n

LEMMA OrderShaped ==
    ASSUME NEW o \in Orders
    PROVE  Shaped(o)
<1>1. o.close = [type |-> o.close.type, price |-> o.close.price, price2 |-> o.close.price2]
  BY DEF Orders, Closes, NoClose
<1> QED  BY <1>1 DEF Orders, Shaped

\* On REST an order without margin and without a negative absolute price reads
\* as what it means.
LEMMA RestMeans ==
    ASSUME NEW o \in Orders, ~o.margin, wire.transport = "Rest", ~Misread(OrderPrices(o))
    PROVE  Meaning(ReadRest(RestRow(o))) = Meaning(o)
<1> DEFINE a == ReadRest(RestRow(o))
<1>1. /\ a.type = o.type /\ a.price = o.price /\ a.price2 = o.price2
      /\ a.leverage = o.leverage /\ a.margin = o.margin /\ a.oflags = o.oflags
      /\ (a.reduce = TRUE) = (o.reduce = TRUE) /\ a.trigger = o.trigger /\ a.tif = o.tif
      /\ a.stp = o.stp /\ a.start = o.start /\ a.expire = o.expire
      /\ a.userref = o.userref /\ a.id = o.id /\ a.close.type = o.close.type
      /\ a.close.price = o.close.price /\ a.close.price2 = o.close.price2
  <2>1. o.price \in Prices \union {None} /\ o.price2 \in Prices \union {None}
    BY DEF Orders
  <2>2. o.close.price \in Prices \union {None} /\ o.close.price2 \in Prices \union {None}
    BY PricesAssumption DEF Orders, Closes, NoClose
  <2>3. (IF o.oflags = {} THEN None ELSE o.oflags) = None => o.oflags = {}
    BY NoneAssumption DEF Orders
  <2>4. (IF o.reduce = TRUE THEN TRUE ELSE None) = TRUE <=> o.reduce = TRUE
    BY NoneAssumption
  <2>5. o.margin = FALSE
    BY DEF Orders
  <2>6. /\ ReadRestPrice(RestPrice(o.price)) = o.price
        /\ ReadRestPrice(RestPrice(o.price2)) = o.price2
        /\ ReadRestPrice(RestPrice(o.close.price)) = o.close.price
        /\ ReadRestPrice(RestPrice(o.close.price2)) = o.close.price2
    BY <2>1, <2>2, RestPriceReads DEF Misread, OrderPrices
  <2> QED  BY RestGets, <2>3, <2>4, <2>5, <2>6, ZenonT(60) DEF ReadRest
<1>2. Shaped(a)
  BY DEF Shaped, ReadRest
<1>3. Shaped(o)
  BY OrderShaped
<1> HIDE DEF a
<1>4. Meaning(a) = MeansOf(a) /\ Meaning(o) = MeansOf(o)
  BY <1>2, <1>3, MeaningOf
<1>5. MeansOf(a) = MeansOf(o)
  BY <1>1 DEF MeansOf
<1> QED  BY <1>4, <1>5 DEF a

-----------------------------------------------------------------------------
(* The WS parameters.                                                      *)

SignOf(p) == IF p = None THEN None ELSE p.sign
UnitOf(p) == IF p = None THEN None ELSE p.unit
Mark(b) == IF b THEN TRUE ELSE None

\* The price of an order that is a limit, the one that is a trigger, and what it refers to.
LimitOf(o) ==
    IF o.type \in {"limit", "iceberg"} THEN o.price
    ELSE IF o.type \in WsTriggerTypes \cap LimitPriceBearing THEN o.price2 ELSE None

TriggerOf(o) == IF o.type \in WsTriggerTypes THEN o.price ELSE None

ReferenceOf(o) == IF o.type \in WsTriggerTypes THEN o.trigger ELSE None

FeeOf(o) ==
    IF "fcib" \in o.oflags THEN "base" ELSE IF "fciq" \in o.oflags THEN "quote" ELSE None

\* The prices of a conditional close that the WS has a key for.
ConditionalTriggers == {"stop-loss", "take-profit", "stop-loss-limit", "take-profit-limit"}

CloseTrigger(c) == IF c.type \in ConditionalTriggers THEN SignOf(c.price) ELSE None

CloseLimit(c) ==
    IF c.type \in ConditionalTriggers THEN SignOf(c.price2)
    ELSE IF c.type = "limit" THEN c.price.sign ELSE None

\* A price is its number and its type.
LEMMA WsPriceOpts ==
    ASSUME NEW key, NEW p \in Prices \union {None}
    PROVE  WsPrice(key, p) = Opt(key, SignOf(p)) \union Opt(TypeKey(key), UnitOf(p))
<1>1. CASE p = None
  BY <1>1 DEF WsPrice, Opt, SignOf, UnitOf
<1>2. CASE p # None
  <2>1. p \in PriceRecords
    BY <1>2, PricesAssumption
  <2>2. p.sign # None /\ p.unit # None
    BY <2>1, StringsPresent DEF PriceRecords
  <2> QED  BY <1>2, <2>2 DEF WsPrice, Opt, SignOf, UnitOf
<1> QED  BY <1>1, <1>2

LEMMA FlagOpt ==
    ASSUME NEW key, NEW b \in BOOLEAN
    PROVE  Flag(key, b) = Opt(key, Mark(b))
  BY StringsPresent DEF Flag, Opt, Mark

LEMMA PriceFieldsOpts ==
    ASSUME NEW o \in Orders
    PROVE  WsPriceFields(o) =
             Opt("limit_price", SignOf(LimitOf(o))) \union Opt("limit_price_type", UnitOf(LimitOf(o)))
             \union Opt("triggers.price", SignOf(TriggerOf(o)))
             \union Opt("triggers.price_type", UnitOf(TriggerOf(o)))
             \union Opt("triggers.reference", ReferenceOf(o))
<1>1. o.price \in Prices \union {None} /\ o.price2 \in Prices \union {None} /\ o.type \in OrderTypes
  BY DEF Orders
<1>2. TypeKey("limit_price") = "limit_price_type" /\ TypeKey("triggers.price") = "triggers.price_type"
  BY DEF TypeKey
<1>3. \A k : Opt(k, None) = {}
  BY DEF Opt
<1>4. SignOf(None) = None /\ UnitOf(None) = None
  BY DEF SignOf, UnitOf
<1>5. \A key : /\ WsPrice(key, o.price) = Opt(key, SignOf(o.price)) \union Opt(TypeKey(key), UnitOf(o.price))
              /\ WsPrice(key, o.price2) = Opt(key, SignOf(o.price2)) \union Opt(TypeKey(key), UnitOf(o.price2))
  BY <1>1, WsPriceOpts
<1>6. CASE o.type \in {"limit", "iceberg"}
  <2>1. LimitOf(o) = o.price /\ TriggerOf(o) = None /\ ReferenceOf(o) = None
    BY <1>6 DEF LimitOf, TriggerOf, ReferenceOf, WsTriggerTypes, Trailing
  <2>2. WsPriceFields(o) = WsPrice("limit_price", o.price)
    BY <1>6 DEF WsPriceFields, WsTriggerTypes, Trailing
  <2> QED  BY <1>2, <1>3, <1>4, <1>5, <2>1, <2>2
<1>7. CASE o.type \in WsTriggerTypes
  <2>1. TriggerOf(o) = o.price /\ ReferenceOf(o) = o.trigger
        /\ LimitOf(o) = IF o.type \in LimitPriceBearing THEN o.price2 ELSE None
    BY <1>7 DEF LimitOf, TriggerOf, ReferenceOf, WsTriggerTypes, Trailing
  <2>2. WsPriceFields(o) =
           WsPrice("triggers.price", o.price) \union Opt("triggers.reference", o.trigger)
           \union (IF o.type \in LimitPriceBearing THEN WsPrice("limit_price", o.price2) ELSE {})
    BY <1>7 DEF WsPriceFields, WsTriggerTypes, Trailing
  <2> QED  BY <1>2, <1>3, <1>4, <1>5, <2>1, <2>2
<1>8. CASE o.type \notin {"limit", "iceberg"} \union WsTriggerTypes
  <2>1. LimitOf(o) = None /\ TriggerOf(o) = None /\ ReferenceOf(o) = None
    BY <1>8 DEF LimitOf, TriggerOf, ReferenceOf
  <2>2. WsPriceFields(o) = {}
    BY <1>8 DEF WsPriceFields
  <2> QED  BY <1>3, <1>4, <2>1, <2>2
<1> QED  BY <1>6, <1>7, <1>8

LEMMA CloseOpts ==
    ASSUME NEW c \in Closes \union {NoClose}
    PROVE  WsClose(c) =
             Opt("conditional.order_type", c.type)
             \union Opt("conditional.trigger_price", CloseTrigger(c))
             \union Opt("conditional.limit_price", CloseLimit(c))
<1>1. \A k : Opt(k, None) = {}
  BY DEF Opt
<1>2. CASE c.type \in ConditionalTriggers
  BY <1>2 DEF WsClose, CloseTrigger, CloseLimit, ConditionalTriggers, SignOf
<1>3. CASE c.type = "limit"
  <2>1. c \in Closes
    BY <1>3, StringsPresent DEF NoClose, CloseTypes
  <2>2. c.price \in PriceRecords
    BY <2>1, PricesAssumption DEF Closes
  <2>3. c.price.sign # None
    BY <2>2, StringsPresent DEF PriceRecords
  <2>4. Opt("conditional.limit_price", c.price.sign) = {<<"conditional.limit_price", c.price.sign>>}
    BY <2>3 DEF Opt
  <2> QED  BY <1>1, <1>3, <2>4 DEF WsClose, CloseTrigger, CloseLimit, ConditionalTriggers
<1>4. CASE c.type \notin ConditionalTriggers \union {"limit"}
  BY <1>1, <1>4 DEF WsClose, CloseTrigger, CloseLimit, ConditionalTriggers
<1> QED  BY <1>2, <1>3, <1>4

\* What the exchange reads of each parameter.
LEMMA WsGets ==
    ASSUME NEW o \in Orders
    PROVE  LET row == WsRow(o)
           IN  /\ Get(row, "order_type") = o.type
               /\ Get(row, "limit_price") = SignOf(LimitOf(o))
               /\ Get(row, "limit_price_type") = UnitOf(LimitOf(o))
               /\ Get(row, "triggers.price") = SignOf(TriggerOf(o))
               /\ Get(row, "triggers.price_type") = UnitOf(TriggerOf(o))
               /\ Get(row, "triggers.reference") = ReferenceOf(o)
               /\ Get(row, "post_only") = Mark("post" \in o.oflags)
               /\ Get(row, "no_mpp") = Mark("nompp" \in o.oflags)
               /\ Get(row, "fee_preference") = FeeOf(o)
               /\ Get(row, "margin") = Mark(o.margin)
               /\ Get(row, "reduce_only") = Mark(o.reduce = TRUE)
               /\ Get(row, "stp_type") = o.stp
               /\ Get(row, "time_in_force") = o.tif
               /\ Get(row, "effective_time") = WsTime(o.start)
               /\ Get(row, "expire_time") = WsTime(o.expire)
               /\ Get(row, "order_userref") = o.userref
               /\ Get(row, "cl_ord_id") = o.id
               /\ Get(row, "conditional.order_type") = o.close.type
               /\ Get(row, "conditional.trigger_price") = CloseTrigger(o.close)
               /\ Get(row, "conditional.limit_price") = CloseLimit(o.close)
<1> DEFINE row == WsRow(o)
<1>1. {<<"order_type", o.type>>} = Opt("order_type", o.type)
  <2>1. o.type # None
    BY StringsPresent DEF Orders
  <2> QED  BY <2>1 DEF Opt
<1>2. WsFlags(o.oflags) = Opt("post_only", Mark("post" \in o.oflags))
          \union Opt("no_mpp", Mark("nompp" \in o.oflags)) \union Opt("fee_preference", FeeOf(o))
  <2>1. /\ Flag("post_only", "post" \in o.oflags) = Opt("post_only", Mark("post" \in o.oflags))
        /\ Flag("no_mpp", "nompp" \in o.oflags) = Opt("no_mpp", Mark("nompp" \in o.oflags))
    BY StringsPresent DEF Flag, Opt, Mark
  <2> QED  BY <2>1 DEF WsFlags, FeeOf
<1>3. /\ Flag("margin", o.margin) = Opt("margin", Mark(o.margin))
      /\ Flag("reduce_only", o.reduce = TRUE) = Opt("reduce_only", Mark(o.reduce = TRUE))
      /\ o.close \in Closes \union {NoClose}
  BY FlagOpt DEF Orders
<1>4. row = Opt("order_type", o.type)
            \union Opt("limit_price", SignOf(LimitOf(o)))
            \union Opt("limit_price_type", UnitOf(LimitOf(o)))
            \union Opt("triggers.price", SignOf(TriggerOf(o)))
            \union Opt("triggers.price_type", UnitOf(TriggerOf(o)))
            \union Opt("triggers.reference", ReferenceOf(o))
            \union Opt("post_only", Mark("post" \in o.oflags))
            \union Opt("no_mpp", Mark("nompp" \in o.oflags))
            \union Opt("fee_preference", FeeOf(o))
            \union Opt("margin", Mark(o.margin))
            \union Opt("reduce_only", Mark(o.reduce = TRUE))
            \union Opt("stp_type", o.stp)
            \union Opt("time_in_force", o.tif)
            \union Opt("effective_time", WsTime(o.start))
            \union Opt("expire_time", WsTime(o.expire))
            \union Opt("order_userref", o.userref)
            \union Opt("cl_ord_id", o.id)
            \union Opt("conditional.order_type", o.close.type)
            \union Opt("conditional.trigger_price", CloseTrigger(o.close))
            \union Opt("conditional.limit_price", CloseLimit(o.close))
  BY <1>1, <1>2, <1>3, PriceFieldsOpts, CloseOpts DEF WsRow
<1> HIDE DEF row
<1>5. Get(row, "order_type") = o.type
  BY <1>4, OptKey, OptReads
<1>6. Get(row, "limit_price") = SignOf(LimitOf(o))
  BY <1>4, OptKey, OptReads
<1>7. Get(row, "limit_price_type") = UnitOf(LimitOf(o))
  BY <1>4, OptKey, OptReads
<1>8. Get(row, "triggers.price") = SignOf(TriggerOf(o))
  BY <1>4, OptKey, OptReads
<1>9. Get(row, "triggers.price_type") = UnitOf(TriggerOf(o))
  BY <1>4, OptKey, OptReads
<1>10. Get(row, "triggers.reference") = ReferenceOf(o)
  BY <1>4, OptKey, OptReads
<1>11. Get(row, "post_only") = Mark("post" \in o.oflags)
  BY <1>4, OptKey, OptReads
<1>12. Get(row, "no_mpp") = Mark("nompp" \in o.oflags)
  BY <1>4, OptKey, OptReads
<1>13. Get(row, "fee_preference") = FeeOf(o)
  BY <1>4, OptKey, OptReads
<1>14. Get(row, "margin") = Mark(o.margin)
  BY <1>4, OptKey, OptReads
<1>15. Get(row, "reduce_only") = Mark(o.reduce = TRUE)
  BY <1>4, OptKey, OptReads
<1>16. Get(row, "stp_type") = o.stp
  BY <1>4, OptKey, OptReads
<1>17. Get(row, "time_in_force") = o.tif
  BY <1>4, OptKey, OptReads
<1>18. Get(row, "effective_time") = WsTime(o.start)
  BY <1>4, OptKey, OptReads
<1>19. Get(row, "expire_time") = WsTime(o.expire)
  BY <1>4, OptKey, OptReads
<1>20. Get(row, "order_userref") = o.userref
  BY <1>4, OptKey, OptReads
<1>21. Get(row, "cl_ord_id") = o.id
  BY <1>4, OptKey, OptReads
<1>22. Get(row, "conditional.order_type") = o.close.type
  BY <1>4, OptKey, OptReads
<1>23. Get(row, "conditional.trigger_price") = CloseTrigger(o.close)
  BY <1>4, OptKey, OptReads
<1>24. Get(row, "conditional.limit_price") = CloseLimit(o.close)
  BY <1>4, OptKey, OptReads
<1> QED
  BY <1>5, <1>6, <1>7, <1>8, <1>9, <1>10, <1>11, <1>12, <1>13, <1>14, <1>15, <1>16, <1>17, <1>18, <1>19, <1>20, <1>21, <1>22, <1>23, <1>24 DEF row

LEMMA WsPriceReads ==
    ASSUME NEW row, NEW key, NEW p \in Prices \union {None},
           Get(row, key) = SignOf(p), Get(row, TypeKey(key)) = UnitOf(p)
    PROVE  ReadWsPrice(row, key) = p
<1>1. CASE p = None
  BY <1>1 DEF ReadWsPrice, SignOf
<1>2. CASE p # None
  <2>1. p \in PriceRecords
    BY <1>2, PricesAssumption
  <2>2. p.sign # None /\ p = [unit |-> p.unit, sign |-> p.sign]
    BY <2>1, StringsPresent DEF PriceRecords
  <2>3. ReadWsPrice(row, key) = [unit |-> p.unit, sign |-> p.sign]
    BY <1>2, <2>2 DEF ReadWsPrice, SignOf, UnitOf
  <2> QED  BY <2>2, <2>3
<1> QED  BY <1>1, <1>2

\* An absolute price survives where the parameters have no type for it.
LEMMA ClosePriceReads ==
    ASSUME NEW p \in Prices \union {None}, ~IsOffset(p)
    PROVE  ReadWsClosePrice(SignOf(p)) = p
<1>1. CASE p = None
  BY <1>1 DEF ReadWsClosePrice, SignOf
<1>2. CASE p # None
  <2>1. p \in PriceRecords /\ p.unit = "static"
    BY <1>2, PricesAssumption DEF IsOffset
  <2>2. p = [unit |-> "static", sign |-> p.sign] /\ p.sign # None
    BY <2>1, StringsPresent DEF PriceRecords
  <2> QED  BY <1>2, <2>1, <2>2 DEF ReadWsClosePrice, SignOf
<1> QED  BY <1>1, <1>2

\* The close of an order that is placed on the WS.
LEMMA WsCloseReads ==
    ASSUME NEW o \in Orders, EntryOK(o), ~WsUnrepresentable(o)
    PROVE  LET a == ReadWs(WsRow(o))
               c == o.close
           IN  /\ a.close.type = c.type /\ a.close.price = c.price
               /\ c.type \notin {None, "limit"} => a.close.price2 = c.price2
<1> DEFINE row == WsRow(o)
           c == o.close
           type == Get(row, "conditional.order_type")
           trigger == Get(row, "conditional.trigger_price")
           limit == Get(row, "conditional.limit_price")
           r == [type |-> type,
                 price |-> IF type = "limit" THEN ReadWsClosePrice(limit) ELSE ReadWsClosePrice(trigger),
                 price2 |-> IF type = "limit" THEN None ELSE ReadWsClosePrice(limit)]
<1>1. ReadWs(row).close = r
  BY DEF ReadWs
<1>2. type = c.type /\ trigger = CloseTrigger(c) /\ limit = CloseLimit(c)
  BY WsGets
<1> HIDE DEF type, trigger, limit, row
<1>3. c \in Closes \union {NoClose} /\ c.price \in Prices \union {None} /\ c.price2 \in Prices \union {None}
  BY PricesAssumption DEF Orders, Closes, NoClose
<1>4. ~IsOffset(c.price) /\ ~IsOffset(c.price2)
  BY DEF WsUnrepresentable
<1>5. ReadWsClosePrice(SignOf(c.price)) = c.price /\ ReadWsClosePrice(SignOf(c.price2)) = c.price2
  BY <1>3, <1>4, ClosePriceReads
<1>6. c # NoClose => c.type \notin Trailing
  BY <1>4 DEF EntryOK, TrailingPriceOK
<1>7. CASE c = NoClose
  <2>1. c.type = None /\ c.price = None /\ None \notin CloseTypes
    BY <1>7, StringsPresent DEF NoClose
  <2>2. trigger = None
    BY <1>2, <2>1 DEF CloseTrigger, ConditionalTriggers, CloseTypes
  <2>3. r.type = c.type /\ r.price = c.price
    BY <1>2, <2>1, <2>2 DEF ReadWsClosePrice, CloseTypes
  <2> QED  BY <1>1, <2>1, <2>3 DEF row
<1>8. CASE c # NoClose /\ c.type = "limit"
  <2>1. c.price # None
    BY <1>3, <1>8, PricesAssumption, NoneAssumption DEF Closes
  <2>2. limit = SignOf(c.price)
    BY <1>2, <1>8, <2>1 DEF CloseLimit, ConditionalTriggers, SignOf
  <2>3. r.type = c.type /\ r.price = c.price
    BY <1>2, <1>5, <1>8, <2>2
  <2> QED  BY <1>1, <1>8, <2>3 DEF row
<1>9. CASE c # NoClose /\ c.type # "limit"
  <2>1. c.type \in ConditionalTriggers
    BY <1>3, <1>6, <1>9 DEF Closes, CloseTypes, Trailing, ConditionalTriggers
  <2>2. trigger = SignOf(c.price) /\ limit = SignOf(c.price2)
    BY <1>2, <2>1 DEF CloseTrigger, CloseLimit
  <2>3. r.type = c.type /\ r.price = c.price /\ r.price2 = c.price2
    BY <1>2, <1>5, <1>9, <2>2
  <2> QED  BY <1>1, <2>3 DEF row
<1> QED  BY <1>7, <1>8, <1>9

\* Its prices.
LEMMA WsPricesRead ==
    ASSUME NEW o \in Orders, EntryOK(o)
    PROVE  LET a == ReadWs(WsRow(o))
           IN  /\ a.type = o.type
               /\ o.type \notin {"market", "settle-position"} => a.price = o.price
               /\ o.type \in WsTriggerTypes \cap LimitPriceBearing => a.price2 = o.price2
<1> DEFINE row == WsRow(o)
           type == Get(row, "order_type")
           trigger == ReadWsPrice(row, "triggers.price")
           limit == ReadWsPrice(row, "limit_price")
<1>1. type = o.type
  BY WsGets
<1>2. LimitOf(o) \in Prices \union {None} /\ TriggerOf(o) \in Prices \union {None}
  BY DEF LimitOf, TriggerOf, Orders
<1>3. TypeKey("limit_price") = "limit_price_type" /\ TypeKey("triggers.price") = "triggers.price_type"
  BY DEF TypeKey
<1>4. trigger = TriggerOf(o) /\ limit = LimitOf(o)
  <2>1. /\ Get(row, "limit_price") = SignOf(LimitOf(o))
        /\ Get(row, TypeKey("limit_price")) = UnitOf(LimitOf(o))
        /\ Get(row, "triggers.price") = SignOf(TriggerOf(o))
        /\ Get(row, TypeKey("triggers.price")) = UnitOf(TriggerOf(o))
    BY <1>3, WsGets
  <2> HIDE DEF row
  <2> QED  BY <1>2, <2>1, WsPriceReads
<1>5. /\ ReadWs(row).type = type
      /\ ReadWs(row).price = (IF type \in WsTriggerTypes THEN trigger ELSE limit)
      /\ ReadWs(row).price2 = (IF type \in WsTriggerTypes THEN limit ELSE None)
  BY DEF ReadWs
<1> HIDE DEF type, trigger, limit
<1>6. o.type \in OrderTypes \ {"unknown"}
  BY DEF Orders, EntryOK, OrderGatesOK
<1>7. o.type \notin {"market", "settle-position"} =>
        (IF type \in WsTriggerTypes THEN trigger ELSE limit) = o.price
  BY <1>1, <1>4, <1>6 DEF TriggerOf, LimitOf, OrderTypes, WsTriggerTypes, Trailing
<1>8. o.type \in WsTriggerTypes \cap LimitPriceBearing => limit = o.price2
  BY <1>1, <1>4 DEF LimitOf, WsTriggerTypes, Trailing
<1> QED  BY <1>1, <1>5, <1>7, <1>8

\* On the WS an order that can be placed there reads as what it means.
LEMMA WsMeans ==
    ASSUME NEW o \in Orders, EntryOK(o), ~WsUnrepresentable(o)
    PROVE  Meaning(ReadWs(WsRow(o))) = Meaning(o)
<1> DEFINE row == WsRow(o)
           a == ReadWs(row)
<1>1. /\ a.type = o.type
      /\ o.type \notin {"market", "settle-position"} => a.price = o.price
      /\ o.type \in WsTriggerTypes \cap LimitPriceBearing => a.price2 = o.price2
  BY WsPricesRead
<1>2. /\ a.close.type = o.close.type /\ a.close.price = o.close.price
      /\ o.close.type \notin {None, "limit"} => a.close.price2 = o.close.price2
  BY WsCloseReads
<1>3. a.leverage = o.leverage /\ a.margin = o.margin
  <2>1. o.leverage = None /\ o.margin \in BOOLEAN
    BY DEF WsUnrepresentable, Orders
  <2>2. (Mark(o.margin) # None) = o.margin
    BY <2>1, StringsPresent DEF Mark
  <2>3. a.leverage = None /\ a.margin = (Mark(o.margin) # None)
    BY WsGets DEF ReadWs
  <2> QED  BY <2>1, <2>2, <2>3
<1>4. (IF "fcib" \in a.oflags THEN a.oflags \ {"fciq"} ELSE a.oflags)
        = (IF "fcib" \in o.oflags THEN o.oflags \ {"fciq"} ELSE o.oflags)
  <2>1. o.oflags \subseteq {"fcib", "fciq", "nompp", "post"}
    BY DEF Orders, OFlags
  <2>2. a.oflags = (IF "post" \in o.oflags THEN {"post"} ELSE {})
            \union (IF "nompp" \in o.oflags THEN {"nompp"} ELSE {})
            \union (IF "fcib" \in o.oflags THEN {"fcib"} ELSE IF "fciq" \in o.oflags THEN {"fciq"} ELSE {})
    BY WsGets, StringsPresent DEF ReadWs, Mark, FeeOf
  <2> HIDE DEF a
  <2> QED  BY <2>1, <2>2
<1>5. (a.reduce = TRUE) = (o.reduce = TRUE)
  <2>1. a.reduce = Mark(o.reduce = TRUE)
    BY WsGets DEF ReadWs
  <2> QED  BY <2>1, StringsPresent DEF Mark
<1>6. o.type \in WsTriggerTypes => a.trigger = o.trigger
  <2>1. a.trigger = ReferenceOf(o)
    BY WsGets DEF ReadWs
  <2> QED  BY <2>1 DEF ReferenceOf
<1>7. /\ a.tif = o.tif /\ a.stp = o.stp /\ a.userref = o.userref /\ a.id = o.id
  BY WsGets DEF ReadWs
<1>8. a.start = o.start /\ a.expire = o.expire
  <2>1. a.start = ReadWsTime(WsTime(o.start)) /\ a.expire = ReadWsTime(WsTime(o.expire))
    BY WsGets DEF ReadWs
  <2>2. ReadWsTime(WsTime(None)) = None
    BY DEF ReadWsTime, WsTime
  <2>3. o.start \in Times \union {None} /\ o.expire \in Times \union {None}
    BY DEF Orders
  <2> HIDE DEF a
  <2> QED  BY <2>1, <2>2, <2>3, TimeReads
<1>9. Shaped(a)
  BY DEF Shaped, ReadWs
<1>10. Shaped(o)
  BY OrderShaped
<1> HIDE DEF a
<1>11. Meaning(a) = MeansOf(a) /\ Meaning(o) = MeansOf(o)
  BY <1>9, <1>10, MeaningOf
<1>12. MeansOf(a) = MeansOf(o)
  BY <1>1, <1>2, <1>3, <1>4, <1>5, <1>6, <1>7, <1>8 DEF MeansOf
<1> QED  BY <1>11, <1>12 DEF a, row

-----------------------------------------------------------------------------
(* Amends.                                                                 *)

Amends ==
    [order_qty : {"qty", None}, limit_price : Prices \union {None},
     post_only : BOOLEAN \union {None}, trigger_price : Prices \union {None},
     display_qty : {"qty", None}]

LEMMA RestAmendReads ==
    ASSUME NEW a \in Amends, wire.transport = "Rest", ~Misread(AmendPrices(a))
    PROVE  ReadAmend(RestAmend(a)) = a
<1> DEFINE row == RestAmend(a)
<1>1. row = Opt("order_qty", a.order_qty) \union Opt("limit_price", RestPrice(a.limit_price))
            \union Opt("post_only", a.post_only) \union Opt("trigger_price", RestPrice(a.trigger_price))
            \union Opt("display_qty", a.display_qty)
  BY DEF RestAmend
<1> HIDE DEF row
<1>2. Get(row, "order_qty") = a.order_qty
  BY <1>1, OptKey, OptReads
<1>3. Get(row, "limit_price") = RestPrice(a.limit_price)
  BY <1>1, OptKey, OptReads
<1>4. Get(row, "post_only") = a.post_only
  BY <1>1, OptKey, OptReads
<1>5. Get(row, "trigger_price") = RestPrice(a.trigger_price)
  BY <1>1, OptKey, OptReads
<1>6. Get(row, "display_qty") = a.display_qty
  BY <1>1, OptKey, OptReads
<1>7. /\ ReadRestPrice(RestPrice(a.limit_price)) = a.limit_price
      /\ ReadRestPrice(RestPrice(a.trigger_price)) = a.trigger_price
  BY RestPriceReads DEF Amends, Misread, AmendPrices
<1>8. ReadAmend(row) = [order_qty |-> a.order_qty, limit_price |-> a.limit_price,
                        post_only |-> a.post_only, trigger_price |-> a.trigger_price,
                        display_qty |-> a.display_qty]
  BY <1>2, <1>3, <1>4, <1>5, <1>6, <1>7 DEF ReadAmend
<1>9. a = [order_qty |-> a.order_qty, limit_price |-> a.limit_price, post_only |-> a.post_only,
           trigger_price |-> a.trigger_price, display_qty |-> a.display_qty]
  BY DEF Amends
<1> QED  BY <1>8, <1>9 DEF row

LEMMA WsAmendReads ==
    ASSUME NEW a \in Amends, a.display_qty = None, wire.transport # "Rest"
    PROVE  ReadAmend(WsAmend(a)) = a
<1> DEFINE row == WsAmend(a)
<1>1. a.limit_price \in Prices \union {None} /\ a.trigger_price \in Prices \union {None}
  BY DEF Amends
<1>2. TypeKey("limit_price") = "limit_price_type" /\ TypeKey("trigger_price") = "trigger_price_type"
  BY DEF TypeKey
<1>3. row = Opt("order_qty", a.order_qty) \union Opt("limit_price", SignOf(a.limit_price))
            \union Opt("limit_price_type", UnitOf(a.limit_price)) \union Opt("post_only", a.post_only)
            \union Opt("trigger_price", SignOf(a.trigger_price))
            \union Opt("trigger_price_type", UnitOf(a.trigger_price)) \union Opt("display_qty", None)
  <2>1. Opt("display_qty", None) = {}
    BY DEF Opt
  <2> QED  BY <1>1, <1>2, <2>1, WsPriceOpts DEF WsAmend
<1> HIDE DEF row
<1>4. Get(row, "order_qty") = a.order_qty
  BY <1>3, OptKey, OptReads
<1>5. Get(row, "limit_price") = SignOf(a.limit_price) /\ Get(row, "limit_price_type") = UnitOf(a.limit_price)
  BY <1>3, OptKey, OptReads
<1>6. Get(row, "post_only") = a.post_only
  BY <1>3, OptKey, OptReads
<1>7. Get(row, "trigger_price") = SignOf(a.trigger_price) /\ Get(row, "trigger_price_type") = UnitOf(a.trigger_price)
  BY <1>3, OptKey, OptReads
<1>8. Get(row, "display_qty") = None
  BY <1>3, OptKey, OptReads
<1>9. ReadWsPrice(row, "limit_price") = a.limit_price /\ ReadWsPrice(row, "trigger_price") = a.trigger_price
  BY <1>1, <1>2, <1>5, <1>7, WsPriceReads
<1>10. ReadAmend(row) = [order_qty |-> a.order_qty, limit_price |-> a.limit_price,
                         post_only |-> a.post_only, trigger_price |-> a.trigger_price,
                         display_qty |-> a.display_qty]
  BY <1>4, <1>6, <1>8, <1>9 DEF ReadAmend
<1>11. a = [order_qty |-> a.order_qty, limit_price |-> a.limit_price, post_only |-> a.post_only,
           trigger_price |-> a.trigger_price, display_qty |-> a.display_qty]
  BY DEF Amends
<1> QED  BY <1>10, <1>11 DEF row

-----------------------------------------------------------------------------
(* The inductive invariant.                                                *)

\* The request is one the setters build; an order has one entry.
Requests ==
    [kind : Kinds, entries : Seq(Orders), pad : Pads \union {0}, amend : Amends,
     validate : BOOLEAN, deadline : BOOLEAN]

Built ==
    /\ req \in Requests
    /\ Last \in Nat \ {0}
    /\ req.kind = "order" => Last = 1

\* What is on the wire was composed of this request, for a transport that takes it.
Composed ==
    stage = "sent" =>
        /\ wire.transport \in Transports
        /\ wire.rows = Compose(wire.transport)
        /\ Validates /\ Representable(wire.transport)

Inv == Built /\ Composed

\* Setters keep a request well formed.
LEMMA NewTyped == NewOrder \in Orders /\ NewAmend \in Amends
  BY DEF NewOrder, NewAmend, Orders, Amends, OrderTypes, OFlags

LEMMA SetTyped ==
    ASSUME NEW o \in Orders, NEW f \in DOMAIN Choices, NEW v \in Choices[f]
    PROVE  [o EXCEPT ![f] = v] \in Orders
  BY DEF Orders, Choices, OFlags

LEMMA AmendTyped ==
    ASSUME NEW a \in Amends, NEW f \in DOMAIN AmendChoices, NEW v \in AmendChoices[f]
    PROVE  [a EXCEPT ![f] = v] \in Amends
  BY DEF Amends, AmendChoices

LEMMA PutTyped ==
    ASSUME Built, NEW o \in Orders, Put(o)
    PROVE  Built'
<1>1. req.entries \in Seq(Orders) /\ Last \in 1..Len(req.entries) /\ Last = Len(req.entries)
  BY DEF Built, Requests, Last
<1> DEFINE e == [req.entries EXCEPT ![Last] = o]
<1>2. e \in Seq(Orders) /\ Len(e) = Len(req.entries)
  BY <1>1
<1>3. req' = [req EXCEPT !.entries = e]
  BY DEF Put
<1> HIDE DEF e
<1> QED  BY <1>2, <1>3 DEF Built, Requests, Last

LEMMA InitInv == Init => Inv
<1> SUFFICES ASSUME Init PROVE Inv
  OBVIOUS
<1>1. PICK k \in Kinds :
         req = [kind |-> k, entries |-> <<NewOrder>>, pad |-> 0, amend |-> NewAmend,
                validate |-> FALSE, deadline |-> FALSE]
  BY DEF Init
<1>2. <<NewOrder>> \in Seq(Orders) /\ Len(<<NewOrder>>) = 1
  BY NewTyped
<1>3. Built
  BY <1>1, <1>2, NewTyped DEF Built, Requests, Last
<1> QED  BY <1>3 DEF Init, Inv, Composed

LEMMA NextInv ==
    ASSUME Inv, [Next]_vars
    PROVE  Inv'
<1> USE DEF Inv
<1>1. CASE Set
  <2>1. PICK f \in DOMAIN Choices : \E v \in Choices[f] : Put([req.entries[Last] EXCEPT ![f] = v])
    BY <1>1 DEF Set
  <2>2. PICK v \in Choices[f] : Put([req.entries[Last] EXCEPT ![f] = v])
    BY <2>1
  <2>3. req.entries[Last] \in Orders
    BY DEF Built, Requests, Last
  <2>4. Built'
    BY <2>2, <2>3, SetTyped, PutTyped
  <2>5. stage' # "sent"
    BY <1>1 DEF Set, Building
  <2> QED  BY <2>4, <2>5 DEF Composed
<1>2. ASSUME NEW on \in BOOLEAN, PostOnly(on) PROVE Inv'
  <2> DEFINE o == req.entries[Last]
             fl == IF on THEN o.oflags \union {"post"} ELSE o.oflags \ {"post"}
  <2>1. o \in Orders
    BY DEF Built, Requests, Last
  <2>2. [o EXCEPT !.oflags = fl] \in Orders
    BY <2>1 DEF Orders, OFlags
  <2>3. Put([o EXCEPT !.oflags = fl])
    BY <1>2 DEF PostOnly
  <2>4. Built'
    <3> HIDE DEF o, fl
    <3> QED  BY <2>2, <2>3, PutTyped
  <2>5. stage' # "sent"
    BY <1>2 DEF PostOnly, Building
  <2> QED  BY <2>4, <2>5 DEF Composed
<1>3. CASE SetAmend
  <2>1. PICK f \in DOMAIN AmendChoices : \E v \in AmendChoices[f] : req' = [req EXCEPT !.amend[f] = v]
    BY <1>3 DEF SetAmend
  <2>2. PICK v \in AmendChoices[f] : req' = [req EXCEPT !.amend[f] = v]
    BY <2>1
  <2> DEFINE a == [req.amend EXCEPT ![f] = v]
  <2>3. a \in Amends /\ req' = [req EXCEPT !.amend = a]
    BY <2>2, AmendTyped DEF Built, Requests
  <2> HIDE DEF a
  <2>4. Built'
    BY <2>3 DEF Built, Requests, Last
  <2>5. stage' # "sent"
    BY <1>3 DEF SetAmend, Building
  <2> QED  BY <2>4, <2>5 DEF Composed
<1>4. CASE SetValidate \/ SetDeadline
  <2>1. Built'
    BY <1>4 DEF SetValidate, SetDeadline, Built, Requests, Last
  <2>2. stage' # "sent"
    BY <1>4 DEF SetValidate, SetDeadline, Building
  <2> QED  BY <2>1, <2>2 DEF Composed
<1>5. CASE AddEntry
  <2> DEFINE e == Append(req.entries, NewOrder)
  <2>1. e \in Seq(Orders) /\ Len(e) \in Nat \ {0}
    BY NewTyped DEF Built, Requests
  <2>2. req' = [req EXCEPT !.entries = e] /\ req.kind = "batch"
    BY <1>5 DEF AddEntry
  <2> HIDE DEF e
  <2>3. Built'
    BY <2>1, <2>2 DEF Built, Requests, Last
  <2>4. stage' # "sent"
    BY <1>5 DEF AddEntry, Building
  <2> QED  BY <2>3, <2>4 DEF Composed
<1>6. CASE PadBatch
  <2>1. Built'
    BY <1>6 DEF PadBatch, Built, Requests, Last
  <2>2. stage' # "sent"
    BY <1>6 DEF PadBatch
  <2> QED  BY <2>1, <2>2 DEF Composed
<1>7. CASE Submit
  <2> DEFINE e == [i \in DOMAIN req.entries |-> WithClOrdId(req.entries[i])]
  <2>1. \A o \in Orders : WithClOrdId(o) \in Orders
    BY DEF WithClOrdId, Orders
  <2>2. req.entries \in Seq(Orders)
    BY DEF Built, Requests
  <2>3. e \in Seq(Orders) /\ Len(e) = Len(req.entries)
    BY <2>1, <2>2
  <2>4. req' = [req EXCEPT !.entries = e]
    BY <1>7 DEF Submit
  <2> HIDE DEF e
  <2>5. Built'
    BY <2>3, <2>4 DEF Built, Requests, Last
  <2>6. stage' # "sent"
    BY <1>7 DEF Submit
  <2> QED  BY <2>5, <2>6 DEF Composed
<1>8. ASSUME NEW t \in Transports, Await(t) PROVE Inv'
  <2>1. UNCHANGED req
    BY <1>8 DEF Await
  <2>2. Built'
    BY <2>1 DEF Built, Last
  <2>3. ASSUME stage' = "sent" PROVE Composed'
    <3>1. Validates /\ Representable(t)
      BY <1>8, <2>3 DEF Await
    <3>2. wire' = [transport |-> t, rows |-> Compose(t), validate |-> req.validate]
      BY <1>8, <2>3 DEF Await
    <3>3. wire'.transport = t /\ wire'.rows = Compose(t)
      BY <3>2
    <3>4. Validates' /\ Representable(t)'
      BY <2>1, <3>1 DEF Validates, Representable, BatchOK, MixUnplaceable, Entries, Last
    <3>5. Compose(t)' = Compose(t)
      BY <2>1 DEF Compose
    <3> QED  BY <3>3, <3>4, <3>5 DEF Composed, Representable, Compose
  <2> QED  BY <2>2, <2>3 DEF Composed
<1>9. CASE UNCHANGED vars
  <2>1. UNCHANGED <<req, stage, wire>>
    BY <1>9 DEF vars
  <2> QED
    BY <2>1 DEF Built, Composed, Last, Compose, Validates, Representable, BatchOK, MixUnplaceable, Entries
<1> QED  BY <1>1, <1>2, <1>3, <1>4, <1>5, <1>6, <1>7, <1>8, <1>9 DEF Next

-----------------------------------------------------------------------------
(* The theorems.                                                           *)

\* Every request is one the setters build, and what was sent was composed of it
\* (PendingTrade, add_order_to_form, compose_add_order_params).
THEOREM CompositionInductive == Spec => []Inv
  BY InitInv, NextInv, PTL DEF Spec

\* For any prices, instants and leverages, and any order of the setters, what was
\* sent reads as the request: on the WS always, on REST for every entry that
\* carries no negative absolute price (Price::to_rest_form).
THEOREM WireAlwaysMeansOrder == Spec => []WireMeansOrder
<1>1. ASSUME Inv, stage = "sent" PROVE WireMeansOrder
  <2> DEFINE t == wire.transport
  <2>1. /\ req \in Requests /\ req.entries \in Seq(Orders) /\ req.amend \in Amends
        /\ Last \in Nat \ {0} /\ (req.kind = "order" => Last = 1)
    BY <1>1 DEF Inv, Built, Requests
  <2>2. t \in Transports /\ wire.rows = Compose(t) /\ Validates /\ Representable(t)
    BY <1>1 DEF Inv, Composed
  <2>3. CASE req.kind = "amend"
    <3>1. wire.rows[1] = (IF t = "Rest" THEN RestAmend(req.amend) ELSE WsAmend(req.amend))
      BY <2>2, <2>3 DEF Compose
    <3>2. t = "Rest" \/ req.amend.display_qty = None
      BY <2>2, <2>3 DEF Representable
    <3>3. Misread(AmendPrices(req.amend)) \/ ReadAmend(wire.rows[1]) = req.amend
      BY <2>1, <3>1, <3>2, RestAmendReads, WsAmendReads
    <3> QED  BY <2>3, <3>3 DEF WireMeansOrder
  <2>4. ASSUME req.kind # "amend", NEW i \in DOMAIN req.entries
        PROVE  LET read == IF t = "Rest" THEN ReadRest(wire.rows[i]) ELSE ReadWs(wire.rows[i])
               IN  Misread(OrderPrices(req.entries[i])) \/ Meaning(read) = Meaning(req.entries[i])
    <3> DEFINE o == req.entries[i]
    <3>1. o \in Orders /\ o \in Entries
      BY <2>1 DEF Entries
    <3>2. wire.rows[i] = (IF t = "Rest" THEN RestRow(o) ELSE WsRow(o))
      BY <2>2, <2>4 DEF Compose
    <3>3. req.kind \in {"order", "batch"}
      BY <2>1, <2>4 DEF Requests, Kinds
    <3>4. EntryOK(o)
      <4>1. CASE req.kind = "order"
        <5>1. i = 1
          BY <2>1, <4>1 DEF Last
        <5>2. AddOrderOK(req.entries[1])
          BY <2>2, <4>1 DEF Validates
        <5> QED  BY <5>1, <5>2 DEF AddOrderOK
      <4>2. CASE req.kind = "batch"
        BY <2>2, <3>1, <4>2 DEF Validates, BatchOK
      <4> QED  BY <3>3, <4>1, <4>2
    <3>5. IF t = "Rest" THEN ~o.margin ELSE ~WsUnrepresentable(o)
      BY <2>2, <2>4, <3>1 DEF Representable, RestUnrepresentable, Transports
    <3> HIDE DEF o, t
    <3>6. CASE t = "Rest"
      BY <3>1, <3>2, <3>5, <3>6, RestMeans DEF o, t
    <3>7. CASE t # "Rest"
      BY <3>1, <3>2, <3>4, <3>5, <3>7, WsMeans DEF o
    <3> QED  BY <3>6, <3>7
  <2> QED  BY <2>3, <2>4 DEF WireMeansOrder
<1>2. Inv => WireMeansOrder
  BY <1>1 DEF WireMeansOrder
<1> QED  BY <1>2, CompositionInductive, PTL

\* Validation lets no request through that no transport can carry.
THEOREM SomeTransportAlwaysTakesIt == Spec => []SomeTransportTakesIt
<1>1. ASSUME Inv, stage = "pending", Validates PROVE \E t \in Transports : Representable(t)
  <2>1. /\ req.kind \in Kinds /\ req.entries \in Seq(Orders)
        /\ Last \in Nat \ {0} /\ (req.kind = "order" => Last = 1)
    BY <1>1 DEF Inv, Built, Requests
  <2>2. CASE req.kind = "amend"
    BY <2>2 DEF Representable, Transports
  <2>3. CASE req.kind = "order"
    <3>1. Entries = {req.entries[1]}
      BY <2>1, <2>3 DEF Entries, Last
    <3>2. ~(RestUnrepresentable(req.entries[1]) /\ WsUnrepresentable(req.entries[1]))
      BY <1>1, <2>3 DEF Validates, AddOrderOK
    <3>3. CASE ~RestUnrepresentable(req.entries[1])
      <4>1. Representable("Rest")
        BY <2>3, <3>1, <3>3 DEF Representable
      <4> QED  BY <4>1 DEF Transports
    <3>4. CASE ~WsUnrepresentable(req.entries[1])
      <4>1. Representable("WsV2Auth")
        BY <2>3, <3>1, <3>4 DEF Representable
      <4> QED  BY <4>1 DEF Transports
    <3> QED  BY <3>2, <3>3, <3>4
  <2>4. CASE req.kind = "batch"
    <3>1. ~MixUnplaceable
      BY <1>1, <2>4 DEF Validates, BatchOK
    <3>2. CASE \A o \in Entries : ~RestUnrepresentable(o)
      <4>1. Representable("Rest")
        BY <2>4, <3>2 DEF Representable
      <4> QED  BY <4>1 DEF Transports
    <3>3. CASE \A o \in Entries : ~WsUnrepresentable(o)
      <4>1. Representable("WsV2Auth")
        BY <2>4, <3>3 DEF Representable
      <4> QED  BY <4>1 DEF Transports
    <3> QED  BY <3>1, <3>2, <3>3 DEF MixUnplaceable
  <2> QED  BY <2>1, <2>2, <2>3, <2>4 DEF Kinds
<1>2. Inv => SomeTransportTakesIt
  BY <1>1 DEF SomeTransportTakesIt
<1> QED  BY <1>2, CompositionInductive, PTL

=============================================================================
