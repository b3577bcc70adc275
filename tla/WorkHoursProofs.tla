---------------------------- MODULE WorkHoursProofs ----------------------------
(***************************************************************************)
(* The arithmetic of worked hours, for sheets of any number of sessions    *)
(* and for all instants, schedules and lunch breaks.                       *)
(*                                                                         *)
(* Hours are sums over the sessions of a sheet, by the folds of the        *)
(* community modules.  What such a sum is follows from a least             *)
(* counterexample: a nonempty set of numbers has a smallest one.           *)
(***************************************************************************)
EXTENDS MCWorkHours, FiniteSetTheorems, WellFoundedInduction, TLAPS

-----------------------------------------------------------------------------
(* Numbers.                                                                *)

LEMMA AllNumbers ==
  ASSUME NEW T \in SUBSET Nat, 0 \in T, \A n \in T : n + 1 \in T
  PROVE  T = Nat
<1> SUFFICES ASSUME Nat \ T # {} PROVE FALSE
  OBVIOUS
<1> DEFINE Less == {ss \in Nat \X Nat : ss[1] < ss[2]}
<1>1. IsWellFoundedOn(Less, Nat)
  BY NatLessThanWellFounded DEF OpToRel
<1>2. \A n, m \in Nat : n < m => <<n, m>> \in Less
  OBVIOUS
<1> HIDE DEF Less
<1>3. PICK m \in Nat \ T : \A n \in Nat \ T : ~(<<n, m>> \in Less)
  BY <1>1, WFMin, Zenon
<1>4. m - 1 \in Nat /\ m - 1 < m /\ m = (m - 1) + 1
  BY <1>3
<1>5. m - 1 \notin T
  BY <1>4
<1> QED
  BY <1>2, <1>3, <1>4, <1>5

-----------------------------------------------------------------------------
(* Sums.                                                                   *)

Chosen(s) == CHOOSE x \in s : TRUE

Sums(f, S, g) ==
  g = [s \in SUBSET S |-> IF s = {} THEN 0 ELSE f[Chosen(s)] + g[s \ {Chosen(s)}]]

LEMMA SumIs ==
  ASSUME NEW f, NEW S
  PROVE  SumFunctionOnSet(f, S) = (CHOOSE g : Sums(f, S, g))[S]
  BY DEF SumFunctionOnSet, FoldFunctionOnSet, MapThenFoldSet, Sums, Chosen

(* A chosen element is taken away.                                         *)
LEMMA Smaller ==
  ASSUME NEW s, IsFiniteSet(s), s # {}
  PROVE  /\ Chosen(s) \in s /\ IsFiniteSet(s \ {Chosen(s)})
         /\ Cardinality(s) \in Nat /\ Cardinality(s \ {Chosen(s)}) \in Nat
         /\ Cardinality(s) = Cardinality(s \ {Chosen(s)}) + 1
<1>1. Chosen(s) \in s
  BY DEF Chosen
<1>2. /\ IsFiniteSet(s \ {Chosen(s)}) /\ Cardinality(s) \in Nat
      /\ Cardinality(s \ {Chosen(s)}) \in Nat
  BY FS_CardinalityType, FS_RemoveElement
<1>3. Cardinality(s \ {Chosen(s)}) = Cardinality(s) - 1
  BY <1>1, FS_RemoveElement
<1> QED
  BY <1>1, <1>2, <1>3

(* The sums over the subsets of a finite set exist: by the size of subsets.*)
LEMMA SumsExist ==
  ASSUME NEW f, NEW S, IsFiniteSet(S)
  PROVE  \E g : Sums(f, S, g)
<1> DEFINE Small(n) == {s \in SUBSET S : Cardinality(s) <= n}
           Value(h, s) == IF s = {} THEN 0 ELSE f[Chosen(s)] + h[s \ {Chosen(s)}]
           T == {n \in Nat : \E h : h = [s \in Small(n) |-> Value(h, s)]}
<1>0. \A s \in SUBSET S : IsFiniteSet(s) /\ Cardinality(s) \in Nat
  BY FS_Subset, FS_CardinalityType
<1>1. 0 \in T
  <2> DEFINE h == [s \in Small(0) |-> 0]
  <2>1. \A s \in Small(0) : s = {}
    BY <1>0, FS_EmptySet
  <2>2. h = [s \in Small(0) |-> Value(h, s)]
    BY <2>1
  <2> QED
    BY <2>2
<1>2. ASSUME NEW n \in T PROVE n + 1 \in T
  <2>1. PICK h : h = [s \in Small(n) |-> Value(h, s)]
    OBVIOUS
  <2> DEFINE more == [s \in Small(n + 1) |-> IF s \in Small(n) THEN h[s] ELSE Value(h, s)]
  <2>2. \A s \in Small(n) : s \in Small(n + 1) /\ more[s] = h[s] /\ h[s] = Value(h, s)
    <3>1. \A s \in Small(n) : s \in Small(n + 1)
      BY <1>0
    <3> QED
      BY <2>1, <3>1
  <2>3. \A s \in Small(n + 1) : s # {} => s \ {Chosen(s)} \in Small(n)
    BY <1>0, Smaller
  <2>4. ASSUME NEW s \in Small(n + 1) PROVE more[s] = Value(more, s)
    <3>1. CASE s = {}
      BY <2>2, <3>1
    <3>2. CASE s # {}
      <4>1. s \ {Chosen(s)} \in Small(n)
        BY <2>3, <3>2
      <4>2. more[s \ {Chosen(s)}] = h[s \ {Chosen(s)}]
        BY <2>2, <4>1
      <4> HIDE DEF Small
      <4>3. more[s] = Value(h, s)
        BY <2>2
      <4> QED
        BY <3>2, <4>2, <4>3
    <3> QED
      BY <3>1, <3>2
  <2>5. more = [s \in Small(n + 1) |-> Value(more, s)]
    <3> HIDE DEF Small, Value
    <3> QED
      BY <2>4
  <2> HIDE DEF more, Small, Value
  <2>6. n + 1 \in Nat
    OBVIOUS
  <2> QED
    BY <2>5, <2>6
<1> HIDE DEF T
<1>3. Cardinality(S) \in T
  BY <1>0, <1>1, <1>2, AllNumbers DEF T
<1>4. Small(Cardinality(S)) = SUBSET S
  BY FS_Subset
<1> QED
  BY <1>3, <1>4 DEF T, Sums

(* Two sums over a set: what holds of 0 and 0, and stays when one element  *)
(* is added to both, holds of both sums.                                   *)
LEMMA TwoSums ==
  ASSUME NEW f, NEW g, NEW S, IsFiniteSet(S), NEW R, <<0, 0, 0>> \in R,
         \A x \in S : \A n, a, b :
           <<n, a, b>> \in R => <<n + 1, f[x] + a, g[x] + b>> \in R
  PROVE  <<Cardinality(S), SumFunctionOnSet(f, S), SumFunctionOnSet(g, S)>> \in R
<1> DEFINE F == CHOOSE h : Sums(f, S, h)
           G == CHOOSE h : Sums(g, S, h)
           T == {n \in Nat : \A s \in SUBSET S : Cardinality(s) = n => <<n, F[s], G[s]>> \in R}
<1>0. \A s \in SUBSET S : IsFiniteSet(s) /\ Cardinality(s) \in Nat
  BY FS_Subset, FS_CardinalityType
<1>1. Sums(f, S, F) /\ Sums(g, S, G)
  BY SumsExist
<1> HIDE DEF F, G
<1>2. F[{}] = 0 /\ G[{}] = 0
  BY <1>1 DEF Sums
<1>3. ASSUME NEW s \in SUBSET S, s # {}
      PROVE  /\ F[s] = f[Chosen(s)] + F[s \ {Chosen(s)}]
             /\ G[s] = g[Chosen(s)] + G[s \ {Chosen(s)}]
  BY <1>1, <1>3 DEF Sums
<1>4. 0 \in T
  BY <1>0, <1>2, FS_EmptySet
<1>5. ASSUME NEW n \in T PROVE n + 1 \in T
  <2>0. n \in Nat /\ n + 1 \in Nat
    OBVIOUS
  <2>1. ASSUME NEW s \in SUBSET S, Cardinality(s) = n + 1
        PROVE  <<n + 1, F[s], G[s]>> \in R
    <3>0. Cardinality({}) = 0
      BY FS_EmptySet
    <3>1. s # {}
      <4> HIDE DEF T
      <4> QED
        BY <2>0, <2>1, <3>0
    <3>2. Chosen(s) \in S /\ s \ {Chosen(s)} \in SUBSET S /\ Cardinality(s \ {Chosen(s)}) = n
      BY <1>0, <2>0, <2>1, <3>1, Smaller
    <3>3. <<n, F[s \ {Chosen(s)}], G[s \ {Chosen(s)}]>> \in R
      BY <3>2
    <3> QED
      BY <1>3, <3>1, <3>2, <3>3
  <2> QED
    BY <2>0, <2>1
<1> HIDE DEF T
<1>6. Cardinality(S) \in T
  BY <1>0, <1>4, <1>5, AllNumbers DEF T
<1> QED
  BY <1>6, SumIs DEF T, F, G

-----------------------------------------------------------------------------
(* Rounding.                                                               *)

LEMMA RoundNear ==
  ASSUME NEW m \in Nat
  PROVE  /\ RoundHours(m) \in Nat
         /\ 3 * RoundHours(m) - 5 * m <= 1 /\ 5 * m - 3 * RoundHours(m) <= 1
  BY DEF RoundHours

LEMMA RoundMonotone ==
  ASSUME NEW m \in Nat, NEW n \in Nat, m <= n
  PROVE  RoundHours(m) <= RoundHours(n)
  BY DEF RoundHours

LEMMA MinutesNat ==
  ASSUME NEW a \in Nat, NEW b \in Int, b > a
  PROVE  DifferenceInMinutes(b, a) \in Nat
  BY DEF DifferenceInMinutes

LEMMA MinutesMonotone ==
  ASSUME NEW a \in Nat, NEW b \in Int, NEW c \in Int, b > a, c >= b
  PROVE  DifferenceInMinutes(b, a) <= DifferenceInMinutes(c, a)
  BY DEF DifferenceInMinutes

LEMMA NetNear ==
  ASSUME NEW raw \in Nat, NEW lunch \in Nat
  PROVE  /\ NetHours(raw, lunch) \in Int
         /\ 3 * NetHours(raw, lunch) - (3 * raw - 5 * lunch) <= 1
         /\ (3 * raw - 5 * lunch) - 3 * NetHours(raw, lunch) <= 1
  BY DEF NetHours

LEMMA NetMonotone ==
  ASSUME NEW raw \in Nat, NEW more \in Nat, NEW lunch \in Nat, raw <= more
  PROVE  NetHours(raw, lunch) <= NetHours(more, lunch)
  BY DEF NetHours

(* The standard hours, cut to minutes as a check-out and rounded again.    *)
LEMMA CheckOutRounds ==
  ASSUME NEW m \in Nat, NEW c \in Nat
  PROVE  LET standard == RoundHours(m)
             w == (36 * standard + 60 * c) \div 60
         IN  /\ standard \in Nat /\ w \in Nat
             /\ m % 3 = 0 => w = m + c
             /\ m % 3 # 0 => w = m - (m % 3) + 1 + c
             /\ 3 * standard = IF m % 3 = 0 THEN 5 * m
                               ELSE IF m % 3 = 1 THEN 5 * m + 1 ELSE 5 * m - 1
<1> DEFINE j == m \div 3
           i == m % 3
           standard == RoundHours(m)
<1>1. j \in Nat /\ i \in 0 .. 2 /\ m = 3 * j + i
  OBVIOUS
<1> HIDE DEF j, i
<1>2. standard = IF i = 0 THEN 5 * j ELSE IF i = 1 THEN 5 * j + 2 ELSE 5 * j + 3
  BY <1>1 DEF RoundHours
<1> HIDE DEF standard
<1>3. (36 * standard + 60 * c) \div 60 = c + 3 * j + (IF i = 0 THEN 0 ELSE 1)
  BY <1>1, <1>2
<1> QED
  BY <1>1, <1>2, <1>3 DEF i, standard

LEMMA StandardRestored ==
  ASSUME NEW m \in Nat, m > 0, NEW lunch \in Nat
  PROVE  LET standard == RoundHours(m)
             w == (36 * standard + 60 * lunch) \div 60
             net == NetHours(RoundHours(w), lunch)
             lost == standard - (IF net > 0 THEN net ELSE 0)
         IN  /\ lost \in 0 .. 2
             /\ lunch % 3 = 0 => lost <= 1
             /\ lunch % 3 = 0 /\ m % 3 = 0 => lost = 0
<1> DEFINE standard == RoundHours(m)
           w == (36 * standard + 60 * lunch) \div 60
           net == NetHours(RoundHours(w), lunch)
           j == m \div 3
           i == m % 3
           l == lunch \div 3
           e == lunch % 3
           x == IF i = 0 THEN 0 ELSE 1
           y == x + e
<1>1. j \in Nat /\ i \in 0 .. 2 /\ m = 3 * j + i
  OBVIOUS
<1>2. l \in Nat /\ e \in 0 .. 2 /\ lunch = 3 * l + e
  OBVIOUS
<1>3. w = 3 * j + x + 3 * l + e
  <2>1. /\ i = 0 => w = m + lunch
        /\ i # 0 => w = m - i + 1 + lunch
    BY CheckOutRounds
  <2> HIDE DEF w, j, i, l, e
  <2> QED
    BY <1>1, <1>2, <2>1
<1>4. standard = 5 * j + (IF i = 0 THEN 0 ELSE IF i = 1 THEN 2 ELSE 3)
  <2>1. 3 * standard = IF i = 0 THEN 5 * m ELSE IF i = 1 THEN 5 * m + 1 ELSE 5 * m - 1
    BY CheckOutRounds
  <2>2. standard \in Nat
    BY CheckOutRounds
  <2> HIDE DEF standard, j, i
  <2> QED
    BY <1>1, <2>1, <2>2
<1> HIDE DEF w, standard, j, i, l, e
<1>5. RoundHours(w) = 5 * j + 5 * l + (IF y = 0 THEN 0 ELSE IF y = 1 THEN 2
                                        ELSE IF y = 2 THEN 3 ELSE 5)
  BY <1>1, <1>2, <1>3 DEF RoundHours
<1>6. net = 5 * j + (IF y = 0 THEN 0 ELSE IF y = 1 THEN 2 ELSE IF y = 2 THEN 3 ELSE 5)
                  - (IF e = 0 THEN 0 ELSE IF e = 1 THEN 2 ELSE 3)
  <2> DEFINE r == RoundHours(w)
  <2>1. NetHours(r, lunch) = (6 * r - 10 * lunch + 3) \div 6
    BY DEF NetHours
  <2> HIDE DEF r
  <2> QED
    BY <1>1, <1>2, <1>5, <2>1 DEF r
<1> HIDE DEF net
<1>7. /\ standard - net \in 0 .. 2 /\ net \in Int /\ net >= 0
      /\ e = 0 => standard - net <= 1
      /\ e = 0 /\ i = 0 => standard = net
  BY <1>1, <1>2, <1>4, <1>6
<1>8. (IF net > 0 THEN net ELSE 0) = net
  BY <1>7
<1>9. /\ standard - (IF net > 0 THEN net ELSE 0) \in 0 .. 2
      /\ e = 0 => standard - (IF net > 0 THEN net ELSE 0) <= 1
      /\ e = 0 /\ i = 0 => standard - (IF net > 0 THEN net ELSE 0) = 0
  BY <1>4, <1>1, <1>7, <1>8
<1> QED
  BY <1>9, Zenon DEF net, w, standard, e, i

-----------------------------------------------------------------------------
(* Sheets.                                                                 *)

(* A session of a sheet: open, or closed after it started.                 *)
Worked(s) ==
  s.in \in Nat /\ (Closed(s) => s.out \in Int /\ s.out > s.in)

Sheet(items) ==
  items \in Seq(Session) /\ \A k \in DOMAIN items : Worked(items[k])

LEMMA SessionNear ==
  ASSUME NEW s, Worked(s)
  PROVE  /\ SessionHours(s) \in Nat /\ SessionMinutes(s) \in Nat
         /\ 3 * SessionHours(s) - 5 * SessionMinutes(s) <= 1
         /\ 5 * SessionMinutes(s) - 3 * SessionHours(s) <= 1
<1>1. CASE Closed(s)
  <2> DEFINE m == DifferenceInMinutes(s.out, s.in)
  <2>1. m \in Nat
    BY <1>1, MinutesNat DEF Worked
  <2>2. SessionHours(s) = RoundHours(m) /\ SessionMinutes(s) = m
    BY <1>1 DEF SessionHours, SessionMinutes
  <2> HIDE DEF m
  <2> QED
    BY <2>1, <2>2, RoundNear
<1>2. CASE ~Closed(s)
  BY <1>2 DEF SessionHours, SessionMinutes
<1> QED
  BY <1>1, <1>2

LEMMA SheetDomain ==
  ASSUME NEW items \in Seq(Session)
  PROVE  /\ IsFiniteSet(DOMAIN items) /\ Cardinality(DOMAIN items) = Len(items)
         /\ Len(items) \in Nat /\ DOMAIN items = 1 .. Len(items)
<1>1. Len(items) \in Nat /\ DOMAIN items = 1 .. Len(items)
  OBVIOUS
<1>2. IsFiniteSet(1 .. Len(items)) /\ Cardinality(1 .. Len(items)) = Len(items)
  BY <1>1, FS_Interval
<1> QED
  BY <1>1, <1>2

(* Each rounded session is at most a third of a hundredth off.             *)
LEMMA SheetNear ==
  ASSUME NEW items, Sheet(items)
  PROVE  /\ RawHours(items) \in Nat /\ Minutes(items) \in Nat
         /\ 3 * RawHours(items) - 5 * Minutes(items) <= Len(items)
         /\ 5 * Minutes(items) - 3 * RawHours(items) <= Len(items)
<1> DEFINE S == DOMAIN items
           f == [k \in S |-> SessionHours(items[k])]
           g == [k \in S |-> SessionMinutes(items[k])]
           R == {p \in Nat \X Nat \X Nat :
                   3 * p[2] - 5 * p[3] <= p[1] /\ 5 * p[3] - 3 * p[2] <= p[1]}
<1>1. IsFiniteSet(S) /\ Cardinality(S) = Len(items)
  BY SheetDomain DEF Sheet
<1>2. \A x \in S : /\ f[x] \in Nat /\ g[x] \in Nat
                   /\ 3 * f[x] - 5 * g[x] <= 1 /\ 5 * g[x] - 3 * f[x] <= 1
  BY SessionNear DEF Sheet
<1> HIDE DEF f, g, S
<1>3. <<0, 0, 0>> \in R
  OBVIOUS
<1>4. ASSUME NEW x \in S, NEW n, NEW a, NEW b, <<n, a, b>> \in R
      PROVE  <<n + 1, f[x] + a, g[x] + b>> \in R
  <2>1. /\ n \in Nat /\ a \in Nat /\ b \in Nat
        /\ 3 * a - 5 * b <= n /\ 5 * b - 3 * a <= n
    BY <1>4
  <2> DEFINE u == f[x]
             v == g[x]
  <2>2. u \in Nat /\ v \in Nat /\ 3 * u - 5 * v <= 1 /\ 5 * v - 3 * u <= 1
    BY <1>2
  <2> HIDE DEF u, v
  <2>3. <<n + 1, u + a, v + b>> \in R
    BY <2>1, <2>2
  <2> QED
    BY <2>3 DEF u, v
<1> HIDE DEF R
<1>5. <<Len(items), SumFunctionOnSet(f, S), SumFunctionOnSet(g, S)>> \in R
  BY <1>1, <1>3, <1>4, TwoSums
<1>6. RawHours(items) = SumFunctionOnSet(f, S) /\ Minutes(items) = SumFunctionOnSet(g, S)
  BY DEF RawHours, Minutes, SumFunction, f, g, S
<1> QED
  BY <1>5, <1>6 DEF R

(* Longer sessions have more hours.                                        *)
LEMMA SheetMonotone ==
  ASSUME NEW items, NEW more, Sheet(items), Sheet(more), DOMAIN more = DOMAIN items,
         \A k \in DOMAIN items : SessionHours(items[k]) <= SessionHours(more[k])
  PROVE  RawHours(items) <= RawHours(more)
<1> DEFINE S == DOMAIN items
           f == [k \in S |-> SessionHours(items[k])]
           g == [k \in S |-> SessionHours(more[k])]
           R == {p \in Nat \X Nat \X Nat : p[2] <= p[3]}
<1>1. IsFiniteSet(S) /\ Cardinality(S) = Len(items)
  BY SheetDomain DEF Sheet
<1>2. \A x \in S : f[x] \in Nat /\ g[x] \in Nat /\ f[x] <= g[x]
  BY SessionNear DEF Sheet
<1> HIDE DEF f, g, S
<1>3. <<0, 0, 0>> \in R
  OBVIOUS
<1>4. ASSUME NEW x \in S, NEW n, NEW a, NEW b, <<n, a, b>> \in R
      PROVE  <<n + 1, f[x] + a, g[x] + b>> \in R
  BY <1>2, <1>4
<1> HIDE DEF R
<1>5. <<Len(items), SumFunctionOnSet(f, S), SumFunctionOnSet(g, S)>> \in R
  BY <1>1, <1>3, <1>4, TwoSums
<1>6. RawHours(items) = SumFunctionOnSet(f, S) /\ RawHours(more) = SumFunctionOnSet(g, S)
  BY DEF RawHours, SumFunction, f, g, S
<1> QED
  BY <1>5, <1>6 DEF R

(* One session is its own sum.                                             *)
LEMMA SheetOfOne ==
  ASSUME NEW items, Sheet(items), Len(items) = 1
  PROVE  RawHours(items) = SessionHours(items[1])
<1> DEFINE S == DOMAIN items
           f == [k \in S |-> SessionHours(items[k])]
           h == SessionHours(items[1])
           R == {p \in Nat \X Nat \X Nat :
                   (p[1] = 0 /\ p[2] = 0) \/ (p[1] = 1 /\ p[2] = h) \/ p[1] > 1}
<1>1. IsFiniteSet(S) /\ Cardinality(S) = 1 /\ S = 1 .. 1
  BY SheetDomain DEF Sheet
<1>2. \A x \in S : f[x] = h /\ h \in Nat
  BY <1>1, SessionNear DEF Sheet
<1> HIDE DEF f, S, h
<1>3. <<0, 0, 0>> \in R
  OBVIOUS
<1>4. ASSUME NEW x \in S, NEW n, NEW a, NEW b, <<n, a, b>> \in R
      PROVE  <<n + 1, f[x] + a, f[x] + b>> \in R
  BY <1>2, <1>4
<1> HIDE DEF R
<1>5. <<1, SumFunctionOnSet(f, S), SumFunctionOnSet(f, S)>> \in R
  BY <1>1, <1>3, <1>4, TwoSums
<1>6. RawHours(items) = SumFunctionOnSet(f, S)
  BY DEF RawHours, SumFunction, f, S
<1> QED
  BY <1>5, <1>6 DEF R, h

(* What getWorkedHoursByDay returns.                                       *)
LEMMA WorkedHoursAre ==
  ASSUME NEW items, RawHours(items) \in Nat, NEW lunch \in Nat, NEW sk \in BOOLEAN
  PROVE  WorkedHoursByDay(items, lunch, sk)
           = IF sk THEN RawHours(items)
             ELSE IF NetHours(RawHours(items), lunch) > 0
                  THEN NetHours(RawHours(items), lunch) ELSE 0
<1> DEFINE raw == RawHours(items)
           net == NetHours(raw, lunch)
<1>1. raw = 0 => ~(net > 0)
  BY DEF NetHours
<1>2. WorkedHoursByDay(items, lunch, sk)
        = CASE raw <= 0 -> 0
            [] raw > 0 /\ sk -> raw
            [] OTHER -> IF net > 0 THEN net ELSE 0
  BY DEF WorkedHoursByDay
<1>3. raw \in Nat
  OBVIOUS
<1> HIDE DEF raw, net
<1>4. CASE raw = 0
  BY <1>1, <1>2, <1>4 DEF raw, net
<1>5. CASE raw # 0
  <2>1. ~(raw <= 0) /\ raw > 0
    BY <1>3, <1>5
  <2> QED
    BY <1>2, <2>1 DEF raw, net
<1> QED
  BY <1>4, <1>5

(* A session gets an end.                                                  *)
LEMMA EndChanged ==
  ASSUME NEW items \in Seq(Session), NEW k \in DOMAIN items, NEW t \in Int
  PROVE  LET more == [items EXCEPT ![k].out = t]
         IN  /\ more \in Seq(Session) /\ DOMAIN more = DOMAIN items
             /\ more[k].in = items[k].in /\ more[k].out = t
             /\ \A j \in DOMAIN items : j # k => more[j] = items[j]
<1> DEFINE more == [items EXCEPT ![k].out = t]
           new == [items[k] EXCEPT !.out = t]
<1>1. items[k] \in Session
  OBVIOUS
<1>2. new \in Session /\ new.in = items[k].in /\ new.out = t
  BY <1>1 DEF Session
<1>3. more = [items EXCEPT ![k] = new]
  OBVIOUS
<1> HIDE DEF new
<1>4. /\ [items EXCEPT ![k] = new] \in Seq(Session)
      /\ DOMAIN [items EXCEPT ![k] = new] = DOMAIN items
      /\ [items EXCEPT ![k] = new][k] = new
      /\ \A j \in DOMAIN items : j # k => [items EXCEPT ![k] = new][j] = items[j]
  BY <1>2
<1> HIDE DEF more
<1> QED
  BY <1>2, <1>3, <1>4 DEF more

LEMMA SheetEnds ==
  ASSUME NEW items, Sheet(items), NEW k \in DOMAIN items, NEW t \in Int, t > items[k].in
  PROVE  LET more == [items EXCEPT ![k].out = t]
         IN  Sheet(more) /\ DOMAIN more = DOMAIN items
<1> DEFINE more == [items EXCEPT ![k].out = t]
<1>1. /\ more \in Seq(Session) /\ DOMAIN more = DOMAIN items
      /\ more[k].in = items[k].in /\ more[k].out = t
      /\ \A j \in DOMAIN items : j # k => more[j] = items[j]
  BY EndChanged DEF Sheet
<1> HIDE DEF more
<1>2. \A j \in DOMAIN items : Worked(more[j])
  BY <1>1 DEF Sheet, Worked
<1> QED
  BY <1>1, <1>2 DEF Sheet, more

-----------------------------------------------------------------------------
(* What holds of every sheet.                                              *)

SheetInv == Sheet(sheet) /\ schedule \in Schedule /\ skip \in BOOLEAN

LEMMA SheetInit == Init => SheetInv
<1> SUFFICES ASSUME Init PROVE SheetInv
  OBVIOUS
<1>1. Sheet(<<>>)
  BY DEF Sheet
<1>2. \A span \in Spans, lunch \in Lunches :
        [start |-> 480, end |-> 480 + span, lunch |-> lunch] \in Schedule
  BY SheetAssumption DEF Schedule
<1> QED
  BY <1>1, <1>2 DEF Init, SheetInv

LEMMA SheetStep == SheetInv /\ [Next]_vars => SheetInv'
<1> SUFFICES ASSUME SheetInv, [Next]_vars PROVE SheetInv'
  OBVIOUS
<1>0. sheet \in Seq(Session)
  BY DEF SheetInv, Sheet
<1>1. CASE OpenSession
  <2>1. PICK t \in Grid : sheet' = Append(sheet, [in |-> t, out |-> None])
    BY <1>1 DEF OpenSession
  <2> DEFINE s == [in |-> t, out |-> None]
  <2>2. s \in Session /\ Worked(s)
    BY SheetAssumption DEF Session, Worked, Closed
  <2> HIDE DEF s
  <2>3. Append(sheet, s) \in Seq(Session)
    BY <1>0, <2>2
  <2>4. ASSUME NEW k \in DOMAIN Append(sheet, s) PROVE Worked(Append(sheet, s)[k])
    <3>1. k \in DOMAIN sheet \/ k = Len(sheet) + 1
      BY <1>0
    <3>2. k \in DOMAIN sheet => Append(sheet, s)[k] = sheet[k]
      BY <1>0
    <3>3. k = Len(sheet) + 1 => Append(sheet, s)[k] = s
      BY <1>0
    <3> QED
      BY <2>2, <3>1, <3>2, <3>3 DEF SheetInv, Sheet
  <2> QED
    BY <1>1, <2>1, <2>3, <2>4 DEF s, OpenSession, SheetInv, Sheet
<1>2. CASE CloseSession
  <2>1. PICK t \in Grid : /\ t > Last(sheet).in
                          /\ sheet' = [sheet EXCEPT ![Len(sheet)].out = t]
    BY <1>2 DEF CloseSession
  <2>2. Len(sheet) \in DOMAIN sheet /\ t \in Int
    BY <1>0, <1>2, SheetAssumption DEF CloseSession
  <2>3. t > sheet[Len(sheet)].in
    BY <2>1 DEF Last
  <2>4. Sheet(sheet')
    BY <2>1, <2>2, <2>3, SheetEnds DEF SheetInv
  <2> QED
    BY <1>2, <2>4 DEF CloseSession, SheetInv
<1>3. CASE UNCHANGED vars
  BY <1>3 DEF vars, SheetInv
<1> QED
  BY <1>1, <1>2, <1>3 DEF Next

LEMMA SheetAlways == Spec => []SheetInv
  BY SheetInit, SheetStep, PTL DEF Spec

(* Stored hours stay within a third of a hundredth for each session and    *)
(* one more for the lunch break of the minutes worked, and are not         *)
(* negative, for any number of sessions and any lunch break.               *)
THEOREM HoursFollowMinutes == Spec => []HoursTrackMinutes
<1>1. SheetInv => HoursTrackMinutes
  <2> SUFFICES ASSUME SheetInv PROVE HoursTrackMinutes
    OBVIOUS
  <2> DEFINE a == RawHours(sheet)
             b == Minutes(sheet)
             n == Len(sheet)
             l == schedule.lunch
             net == NetHours(a, l)
             h == Hours(sheet)
             m == NetMinutes
  <2>1. a \in Nat /\ b \in Nat /\ 3 * a - 5 * b <= n /\ 5 * b - 3 * a <= n
    BY SheetNear DEF SheetInv
  <2>2. n \in Nat /\ l \in Nat /\ skip \in BOOLEAN
    BY SheetDomain DEF SheetInv, Sheet, Schedule
  <2>3. net \in Int /\ 3 * net - (3 * a - 5 * l) <= 1 /\ (3 * a - 5 * l) - 3 * net <= 1
    BY <2>1, <2>2, NetNear
  <2>4. h = IF skip THEN a ELSE IF net > 0 THEN net ELSE 0
    BY <2>1, <2>2, WorkedHoursAre DEF Hours
  <2>5. m = IF skip THEN (IF b > 0 THEN b ELSE 0) ELSE (IF b - l > 0 THEN b - l ELSE 0)
    BY <2>1, <2>2 DEF NetMinutes
  <2> HIDE DEF a, b, n, l, net, h, m
  <2>6. CASE skip
    BY <2>1, <2>2, <2>4, <2>5, <2>6 DEF HoursTrackMinutes, Distance, h, m, n
  <2>7. CASE ~skip
    <3>1. h \in Nat /\ m \in Nat /\ 3 * h - 5 * m <= n + 1 /\ 5 * m - 3 * h <= n + 1
      BY <2>1, <2>2, <2>3, <2>4, <2>5, <2>7
    <3> QED
      BY <3>1, <2>2 DEF HoursTrackMinutes, Distance, h, m, n
  <2> QED
    BY <2>6, <2>7
<1> QED
  BY <1>1, SheetAlways, PTL

(* Leaving later never lowers the hours, for any sheet.                    *)
THEOREM LeavingLaterPays == Spec => []LeavingLaterNeverCostsHours
<1>1. SheetInv => LeavingLaterNeverCostsHours
  <2> SUFFICES ASSUME SheetInv, NEW k \in DOMAIN sheet, NEW t \in Grid,
                      Closed(sheet[k]), t > sheet[k].out
               PROVE  Hours([sheet EXCEPT ![k].out = t]) >= Hours(sheet)
    BY DEF LeavingLaterNeverCostsHours
  <2> DEFINE more == [sheet EXCEPT ![k].out = t]
             l == schedule.lunch
  <2>1. /\ Sheet(sheet) /\ Worked(sheet[k]) /\ t \in Int /\ l \in Nat
        /\ skip \in BOOLEAN
    BY SheetAssumption DEF SheetInv, Sheet, Schedule
  <2>2. t > sheet[k].in
    BY <2>1 DEF Worked
  <2>3. Sheet(more) /\ DOMAIN more = DOMAIN sheet
    BY <2>1, <2>2, SheetEnds
  <2>4. /\ more[k].in = sheet[k].in /\ more[k].out = t
        /\ \A j \in DOMAIN sheet : j # k => more[j] = sheet[j]
    BY <2>1, EndChanged DEF Sheet
  <2> HIDE DEF more, l
  <2>5. SessionHours(sheet[k]) <= SessionHours(more[k])
    <3> DEFINE x == DifferenceInMinutes(sheet[k].out, sheet[k].in)
               y == DifferenceInMinutes(t, sheet[k].in)
    <3>1. x \in Nat /\ y \in Nat /\ x <= y
      <4> DEFINE a == sheet[k].in
                 b == sheet[k].out
      <4>1. a \in Nat /\ b \in Int /\ t \in Int /\ b > a /\ t > a /\ t >= b
        BY <2>1, <2>2 DEF Worked
      <4> HIDE DEF a, b
      <4>2. /\ DifferenceInMinutes(b, a) \in Nat /\ DifferenceInMinutes(t, a) \in Nat
            /\ DifferenceInMinutes(b, a) <= DifferenceInMinutes(t, a)
        BY <4>1, MinutesNat, MinutesMonotone
      <4> QED
        BY <4>2 DEF a, b
    <3>2. SessionHours(sheet[k]) = RoundHours(x)
      BY DEF SessionHours
    <3>3. Closed(more[k])
      BY <2>1, <2>4, NoneAssumption DEF Closed
    <3>4. SessionHours(more[k]) = RoundHours(y)
      BY <2>4, <3>3 DEF SessionHours
    <3> HIDE DEF x, y
    <3> QED
      BY <3>1, <3>2, <3>4, RoundMonotone
  <2>6. \A j \in DOMAIN sheet : SessionHours(sheet[j]) <= SessionHours(more[j])
    <3>1. \A j \in DOMAIN sheet : SessionHours(sheet[j]) \in Nat
      BY <2>1, SessionNear DEF Sheet
    <3> QED
      BY <2>4, <2>5, <3>1
  <2>7. RawHours(sheet) \in Nat /\ RawHours(more) \in Nat /\ RawHours(sheet) <= RawHours(more)
    BY <2>1, <2>3, <2>6, SheetNear, SheetMonotone
  <2>8. /\ NetHours(RawHours(sheet), l) \in Int /\ NetHours(RawHours(more), l) \in Int
        /\ NetHours(RawHours(sheet), l) <= NetHours(RawHours(more), l)
    BY <2>1, <2>7, NetNear, NetMonotone
  <2>9. /\ WorkedHoursByDay(sheet, l, skip)
             = IF skip THEN RawHours(sheet)
               ELSE IF NetHours(RawHours(sheet), l) > 0 THEN NetHours(RawHours(sheet), l) ELSE 0
        /\ WorkedHoursByDay(more, l, skip)
             = IF skip THEN RawHours(more)
               ELSE IF NetHours(RawHours(more), l) > 0 THEN NetHours(RawHours(more), l) ELSE 0
    BY <2>1, <2>7, WorkedHoursAre
  <2>10. WorkedHoursByDay(more, l, skip) >= WorkedHoursByDay(sheet, l, skip)
    BY <2>1, <2>7, <2>8, <2>9
  <2> QED
    BY <2>10 DEF Hours, more, l
<1> QED
  BY <1>1, SheetAlways, PTL

(* The nightly job restores the standard hours of any schedule, but for    *)
(* at most one hundredth, and one more when the lunch break rounds too.    *)
THEOREM StandardDayRestored == Spec => []AutoCheckoutRestoresStandard
<1>1. SheetInv => AutoCheckoutRestoresStandard
  <2> DEFINE m == schedule.end - schedule.start - schedule.lunch
             l == schedule.lunch
             standard == RoundHours(m)
             in == Last(sheet).in
             out == AutoCheckOut(in, schedule, skip)
             items == AutoClose(sheet, schedule, skip)
             lost == standard - Hours(items)
  <2> SUFFICES ASSUME SheetInv, Len(sheet) = 1, ~Closed(sheet[1]), m > 0
               PROVE  /\ lost \in 0 .. 2
                      /\ skip \/ l % 3 = 0 => lost <= 1
                      /\ (skip \/ l % 3 = 0) /\ m % 3 = 0 => lost = 0
    BY DEF AutoCheckoutRestoresStandard, StandardHoursPerDay, StandardLost,
           OneOpenSession, PaidMinutes
  <2>1. /\ m \in Nat /\ l \in Nat /\ skip \in BOOLEAN /\ sheet \in Seq(Session)
        /\ Sheet(sheet)
    BY DEF SheetInv, Sheet, Schedule
  <2>2. 1 \in DOMAIN sheet /\ in = sheet[1].in /\ in \in Nat
    BY <2>1 DEF Last, Sheet, Worked
  <2> DEFINE c == IF skip THEN 0 ELSE l
             w == (36 * standard + 60 * c) \div 60
  <2>3. /\ standard \in Nat /\ w \in Nat /\ c \in Nat
        /\ m % 3 = 0 => w = m + c
        /\ m % 3 # 0 => w = m - (m % 3) + 1 + c
        /\ 3 * standard = IF m % 3 = 0 THEN 5 * m
                          ELSE IF m % 3 = 1 THEN 5 * m + 1 ELSE 5 * m - 1
    BY <2>1, CheckOutRounds
  <2>4. out = in + 36 * standard + 60 * c
    BY <2>1, <2>3 DEF AutoCheckOut, StandardHoursPerDay
  <2> HIDE DEF m, l
  <2>5. standard >= 1
    BY <2>1, <2>3
  <2> HIDE DEF standard, c, in, out, w
  <2>6. out \in Int /\ out > in /\ out - in = 36 * standard + 60 * c
    BY <2>2, <2>3, <2>4, <2>5
  <2>7. DifferenceInMinutes(out, in) = w
    BY <2>2, <2>6 DEF DifferenceInMinutes, w
  <2>8. items = [sheet EXCEPT ![1].out = out]
    BY DEF AutoClose, EndLast, in, out
  <2>9. /\ Sheet(items) /\ DOMAIN items = DOMAIN sheet
        /\ items[1].in = in /\ items[1].out = out
    <3> HIDE DEF items
    <3> DEFINE more == [sheet EXCEPT ![1].out = out]
    <3>1. out > sheet[1].in /\ out \in Int /\ sheet \in Seq(Session)
      BY <2>1, <2>2, <2>6
    <3>2. Sheet(more) /\ DOMAIN more = DOMAIN sheet
      BY <2>1, <2>2, <3>1, SheetEnds
    <3>3. more[1].in = sheet[1].in /\ more[1].out = out
      BY <2>2, <3>1, EndChanged
    <3> HIDE DEF more
    <3>4. items = more
      BY <2>8 DEF more
    <3> QED
      BY <2>2, <3>2, <3>3, <3>4
  <2> HIDE DEF items
  <2>10. Len(items) = 1
    BY <2>9 DEF Sheet
  <2>11. RawHours(items) = RoundHours(w)
    <3>1. Closed(items[1])
      BY <2>6, <2>9, NoneAssumption DEF Closed
    <3> QED
      BY <2>7, <2>9, <2>10, <3>1, SheetOfOne DEF SessionHours
  <2>12. RoundHours(w) \in Nat
    BY <2>3, RoundNear
  <2>13. Hours(items) = IF skip THEN RoundHours(w)
                        ELSE IF NetHours(RoundHours(w), l) > 0
                             THEN NetHours(RoundHours(w), l) ELSE 0
    BY <2>1, <2>11, <2>12, WorkedHoursAre DEF Hours, l
  <2>14. CASE skip
    <3>1. c = 0
      BY <2>14 DEF c
    <3>2. /\ m % 3 = 0 => RoundHours(w) = standard
          /\ RoundHours(w) <= standard /\ standard <= RoundHours(w) + 1
      BY <2>1, <2>3, <3>1 DEF RoundHours
    <3> QED
      BY <2>3, <2>12, <2>13, <2>14, <3>2
  <2>15. CASE ~skip
    <3>1. c = l
      BY <2>15 DEF c
    <3> QED
      <4> DEFINE n == NetHours(RoundHours(w), l)
                 rest == standard - (IF n > 0 THEN n ELSE 0)
      <4>1. w = (36 * RoundHours(m) + 60 * l) \div 60
        BY <3>1 DEF w, standard
      <4>2. /\ rest \in 0 .. 2
            /\ l % 3 = 0 => rest <= 1
            /\ l % 3 = 0 /\ m % 3 = 0 => rest = 0
        BY <2>1, <4>1, StandardRestored DEF standard
      <4>3. lost = rest
        BY <2>13, <2>15
      <4> HIDE DEF rest, lost
      <4> QED
        BY <2>15, <4>2, <4>3
  <2> QED
    BY <2>14, <2>15
<1> QED
  BY <1>1, SheetAlways, PTL
=============================================================================
