------------------------ MODULE WeeklyCalendarProofs ------------------------
(***************************************************************************)
(* What holds of the weekly calendar for every length of the day and every *)
(* finite set of windows: where its next window is, and what its measured  *)
(* length is.                                                              *)
(*                                                                         *)
(* The measured length is a fold. What is said of it is proved without an  *)
(* induction theorem: of the sets of windows for which it failed, there    *)
(* would be one with the fewest windows (LeastNatural).                    *)
(***************************************************************************)
EXTENDS WeeklyCalendar, FiniteSetTheorems, WellFoundedInduction, TLAPS

(* A set of natural numbers that is not empty has a least element.          *)
LEMMA LeastNatural ==
  ASSUME NEW C \in SUBSET Nat, C # {}
  PROVE  \E n \in C : \A m \in C : n <= m
<1> DEFINE R == OpToRel(<, Nat)
<1>1. IsWellFoundedOn(R, Nat)
  BY NatLessThanWellFounded
<1>2. PICK n \in C : \A m \in C : ~(<<m, n>> \in R)
  <2> HIDE DEF R
  <2> QED
    BY <1>1, WFMin
<1>3. ASSUME NEW m \in C, m < n
      PROVE  <<m, n>> \in R
  BY <1>3 DEF OpToRel
<1>4. \A m \in C : m \in Nat /\ n \in Nat
  OBVIOUS
<1>5. \A m \in C : ~(m < n)
  BY <1>2, <1>3
<1> HIDE DEF R
<1> QED
  BY <1>4, <1>5

(* A set that has 0, and with each number the next one, has them all.       *)
LEMMA AllNaturals ==
  ASSUME NEW I, 0 \in I, \A n \in Nat : n \in I => n + 1 \in I
  PROVE  Nat \subseteq I
<1> SUFFICES ASSUME Nat \ I # {}
             PROVE  FALSE
  OBVIOUS
<1>1. PICK n \in Nat \ I : \A m \in Nat \ I : n <= m
  BY LeastNatural
<1>2. n # 0 /\ n - 1 \in Nat
  BY <1>1
<1>3. n - 1 \in I
  BY <1>1, <1>2
<1> QED
  BY <1>1, <1>2, <1>3

(* Of finitely many things with a number each, one has the greatest: the    *)
(* one with the fewest greater ones.                                        *)
LEMMA GreatestExists ==
  ASSUME NEW T, IsFiniteSet(T), T # {}, NEW v \in [T -> Int]
  PROVE  \E t \in T : \A s \in T : v[s] <= v[t]
<1> DEFINE Greater(t) == {s \in T : v[t] < v[s]}
           Counts == {Cardinality(Greater(t)) : t \in T}
<1>1. \A t \in T : IsFiniteSet(Greater(t)) /\ Cardinality(Greater(t)) \in Nat
  BY FS_Subset, FS_CardinalityType
<1>2. Counts \in SUBSET Nat /\ Counts # {}
  BY <1>1
<1>3. PICK n \in Counts : \A m \in Counts : n <= m
  <2> HIDE DEF Counts
  <2> QED
    BY <1>2, LeastNatural
<1>4. PICK t \in T : n = Cardinality(Greater(t))
  BY <1>3
<1> SUFFICES ASSUME NEW s \in T, ~(v[s] <= v[t])
             PROVE  FALSE
  BY <1>4
<1>5. \A u \in T : v[u] \in Int
  OBVIOUS
<1>6. Greater(s) \subseteq Greater(t) /\ s \in Greater(t) /\ s \notin Greater(s)
  BY <1>5
<1>7. Cardinality(Greater(s)) \in Counts
  OBVIOUS
<1> HIDE DEF Greater, Counts
<1>8. Cardinality(Greater(s)) <= Cardinality(Greater(t))
       /\ Cardinality(Greater(t)) # Cardinality(Greater(s))
  BY <1>1, <1>6, FS_Subset
<1>9. n <= Cardinality(Greater(s))
  BY <1>3, <1>7
<1> QED
  BY <1>1, <1>4, <1>8, <1>9

(* The maximum of a finite set of numbers, and the minimum of a set of      *)
(* natural numbers.                                                         *)
LEMMA MaxIsGreatest ==
  ASSUME NEW S \in SUBSET Int, IsFiniteSet(S), S # {}
  PROVE  Max(S) \in S /\ \A x \in S : x <= Max(S)
<1> DEFINE v == [x \in S |-> x]
<1>1. v \in [S -> Int]
  OBVIOUS
<1>2. PICK t \in S : \A s \in S : v[s] <= v[t]
  <2> HIDE DEF v
  <2> QED
    BY <1>1, GreatestExists
<1>3. \E x \in S : \A s \in S : x >= s
  BY <1>2
<1>4. Max(S) \in S /\ \A x \in S : Max(S) >= x
  BY <1>3 DEF Max
<1> QED
  BY <1>4

LEMMA MinIsLeast ==
  ASSUME NEW S \in SUBSET Nat, S # {}
  PROVE  Min(S) \in S /\ \A x \in S : Min(S) <= x
  BY LeastNatural DEF Min

-----------------------------------------------------------------------------
(* Coalescing.                                                              *)

(* What the accumulator starts with, and what a set of windows leads to,    *)
(* given what its subsets lead to.                                          *)
NoWindow == [measured |-> 0, last |-> [start |-> 0, end |-> 0]]
FoldStep(g, T) ==
  IF T = {} THEN NoWindow ELSE Coalesce(LatestStart(T), g[T \ {LatestStart(T)}])

(* A finite set of windows has one that starts last.                        *)
LEMMA LatestStartIsLast ==
  ASSUME NEW T, IsFiniteSet(T), T # {}, \A w \in T : w.start \in Int
  PROVE  LatestStart(T) \in T /\ \A w \in T : w.start <= LatestStart(T).start
<1> DEFINE v == [w \in T |-> w.start]
<1>1. v \in [T -> Int]
  OBVIOUS
<1>2. PICK t \in T : \A w \in T : v[w] <= v[t]
  <2> HIDE DEF v
  <2> QED
    BY <1>1, GreatestExists
<1>3. \E x \in T : \A w \in T : w.start <= x.start
  BY <1>2
<1> QED
  BY <1>3 DEF LatestStart

(* The fold over a finite set of windows is what its equation says: there   *)
(* is a function that satisfies it for the sets of up to k windows, for     *)
(* every k.                                                                 *)
LEMMA CoalescedIsFold ==
  ASSUME NEW S, IsFiniteSet(S), \A w \in S : w.start \in Int
  PROVE  \E g : /\ \A T \in SUBSET S : g[T] = FoldStep(g, T)
                /\ Coalesced(S) = g[S]
<1> DEFINE Subsets == SUBSET S
           Rest(T) == T \ {LatestStart(T)}
           UpTo(g, k) == \A T \in Subsets : Cardinality(T) <= k => g[T] = FoldStep(g, T)
           I == {k \in Nat : \E g : UpTo(g, k)}
           Folds(g) == g = [T \in Subsets |-> FoldStep(g, T)]
<1>1. ASSUME NEW T \in Subsets
      PROVE  /\ IsFiniteSet(T) /\ Cardinality(T) \in Nat
             /\ Cardinality(T) = 0 => T = {}
             /\ Cardinality(T) <= Cardinality(S)
  BY FS_Subset, FS_CardinalityType, FS_EmptySet
<1>2. ASSUME NEW T \in Subsets, T # {}
      PROVE  Rest(T) \in Subsets /\ Cardinality(Rest(T)) = Cardinality(T) - 1
  <2>1. IsFiniteSet(T) /\ \A w \in T : w.start \in Int
    BY <1>1
  <2>2. LatestStart(T) \in T
    BY <1>2, <2>1, LatestStartIsLast
  <2> QED
    BY <2>1, <2>2, FS_RemoveElement
<1>3. {} \in Subsets /\ S \in Subsets
  OBVIOUS
<1>4. ASSUME NEW g, NEW T
      PROVE  FoldStep(g, T) = IF T = {} THEN NoWindow ELSE Coalesce(LatestStart(T), g[Rest(T)])
  BY DEF FoldStep
<1>5. Coalesced(S) = (CHOOSE g : Folds(g))[S]
  BY DEF Coalesced, MapThenFoldSet, FoldStep, NoWindow
<1> HIDE DEF Subsets, Rest
<1>6. 0 \in I
  <2> DEFINE g == [T \in Subsets |-> NoWindow]
  <2>1. ASSUME NEW T \in Subsets, Cardinality(T) <= 0
        PROVE  g[T] = FoldStep(g, T)
    <3>1. T = {}
      BY <1>1, <2>1
    <3> QED
      BY <1>4, <3>1
  <2> QED
    BY <2>1
<1>7. ASSUME NEW k \in Nat, k \in I
      PROVE  k + 1 \in I
  <2>1. PICK g : UpTo(g, k)
    BY <1>7
  <2> DEFINE h == [T \in Subsets |-> FoldStep(g, T)]
  <2>2. ASSUME NEW T \in Subsets, Cardinality(T) <= k + 1, T # {}
        PROVE  h[T] = FoldStep(h, T)
    <3>1. Rest(T) \in Subsets /\ Cardinality(Rest(T)) <= k
      BY <1>1, <1>2, <2>2
    <3>2. g[Rest(T)] = h[Rest(T)]
      BY <2>1, <3>1
    <3> QED
      BY <1>4, <2>2, <3>2
  <2>3. h[{}] = FoldStep(h, {})
    BY <1>3, <1>4
  <2>4. UpTo(h, k + 1)
    BY <2>2, <2>3
  <2> HIDE DEF UpTo, h
  <2> QED
    BY <2>4
<1>8. Cardinality(S) \in I
  <2> HIDE DEF I
  <2>1. Nat \subseteq I
    BY <1>6, <1>7, AllNaturals
  <2>2. Cardinality(S) \in Nat
    BY <1>1, <1>3
  <2> QED
    BY <2>1, <2>2
<1>9. PICK f : UpTo(f, Cardinality(S))
  BY <1>8
<1> DEFINE h == [T \in Subsets |-> f[T]]
<1>10. ASSUME NEW T \in Subsets
      PROVE  h[T] = FoldStep(h, T)
  <2>1. f[T] = FoldStep(f, T)
    BY <1>1, <1>9
  <2>2. T # {} => f[Rest(T)] = h[Rest(T)]
    BY <1>2
  <2> QED
    BY <1>4, <2>1, <2>2
<1>11. Folds(h)
  BY <1>10
<1>12. PICK g : Folds(g) /\ Coalesced(S) = g[S]
  <2> HIDE DEF Folds
  <2> QED
    BY <1>5, <1>11
<1>13. \A T \in Subsets : g[T] = FoldStep(g, T)
  BY <1>12
<1> QED
  BY <1>12, <1>13 DEF Subsets

(* A window lasts a minute at least, and ends within the week.              *)
WellFormed(w) ==
  /\ w \in [start : Nat, end : Nat]
  /\ w.start \in Minutes
  /\ w.start < w.end - 1 /\ w.end <= Week + 1

(* The minutes before b that are contained in windows of T, and those they  *)
(* last: not their closing minutes.                                         *)
ContainedBefore(T, b) == {m \in Minutes : m < b /\ ContainsMinute(T, m)}
LastingBefore(T, b) ==
  {m \in Minutes : m < b /\ \E w \in T : w.start <= m /\ m < w.end - 1}

(* What the accumulator says of the windows so far: the last range is       *)
(* contained in them, none of them ends after it, and what was measured is  *)
(* about the minutes before it.                                             *)
MeasureInv(T, acc) ==
  /\ acc \in [measured : Nat, last : [start : Nat, end : Nat]]
  /\ acc.last.start <= acc.last.end /\ acc.last.end <= Week + 1
  /\ acc.last.start = 0 \/ \E w \in T : w.start = acc.last.start
  /\ \A w \in T : w.end <= acc.last.end
  /\ \A m \in Nat : acc.last.start <= m /\ m < acc.last.end => ContainsMinute(T, m)
  /\ Cardinality(LastingBefore(T, acc.last.start)) <= acc.measured
  /\ acc.measured <= Cardinality(ContainedBefore(T, acc.last.start))

(* Sets of minutes are finite.                                              *)
LEMMA MinutesFinite ==
  ASSUME NEW M \in SUBSET Minutes
  PROVE  IsFiniteSet(M) /\ Cardinality(M) \in Nat
<1>1. Week - 1 \in Int
  BY DayAssumption DEF Week
<1>2. IsFiniteSet(Minutes)
  BY <1>1, FS_Interval DEF Minutes
<1>3. IsFiniteSet(M)
  BY <1>2, FS_Subset
<1> QED
  BY <1>3, FS_CardinalityType

(* What a range lasts is the number of its minutes but the closing one.     *)
LEMMA RangeLengthIsCardinality ==
  ASSUME NEW r \in [start : Nat, end : Nat], r.start <= r.end
  PROVE  /\ IsFiniteSet(r.start .. r.end - 2)
         /\ RangeLength(r) \in Nat
         /\ Cardinality(r.start .. r.end - 2) = RangeLength(r)
<1>1. r.start \in Int /\ r.end - 2 \in Int
  OBVIOUS
<1>2. /\ IsFiniteSet(r.start .. r.end - 2)
      /\ Cardinality(r.start .. r.end - 2)
           = IF r.start > r.end - 2 THEN 0 ELSE (r.end - 2) - r.start + 1
  BY <1>1, FS_Interval
<1> QED
  BY <1>2 DEF RangeLength

(* The measure with the last range lies between the minutes that the        *)
(* windows last and those that they contain, up to any minute b after it.   *)
LEMMA MeasureUpTo ==
  ASSUME NEW T, \A w \in T : WellFormed(w), NEW acc, MeasureInv(T, acc),
         NEW b \in Nat, acc.last.end - 1 <= b
  PROVE  LET length == acc.measured + RangeLength(acc.last)
         IN /\ Cardinality(LastingBefore(T, b)) <= length
            /\ length <= Cardinality(ContainedBefore(T, b))
<1> DEFINE ls == acc.last.start
           e == acc.last.end
           R == ls .. e - 2
           L0 == LastingBefore(T, ls)
           L1 == LastingBefore(T, b)
           C0 == ContainedBefore(T, ls)
           C1 == ContainedBefore(T, b)
<1>1. /\ acc.measured \in Nat /\ ls \in Nat /\ e \in Nat /\ ls <= e /\ e <= Week + 1
      /\ acc.last \in [start : Nat, end : Nat] /\ Week \in Nat
  BY DayAssumption DEF MeasureInv, Week
<1>2. IsFiniteSet(R) /\ RangeLength(acc.last) \in Nat /\ Cardinality(R) = RangeLength(acc.last)
  BY <1>1, RangeLengthIsCardinality
<1>3. /\ L0 \in SUBSET Minutes /\ L1 \in SUBSET Minutes
      /\ C0 \in SUBSET Minutes /\ C1 \in SUBSET Minutes
  BY DEF LastingBefore, ContainedBefore
<1>4. L1 \subseteq L0 \union R
  <2> SUFFICES ASSUME NEW m \in L1, ~(m < ls)
               PROVE  m \in R
    BY DEF LastingBefore
  <2>1. m \in Nat /\ \E w \in T : w.start <= m /\ m < w.end - 1
    BY DEF LastingBefore, Minutes
  <2>2. PICK w \in T : m < w.end - 1
    BY <2>1
  <2>3. w.end \in Nat /\ w.end <= e
    BY DEF WellFormed, MeasureInv
  <2> QED
    BY <1>1, <2>1, <2>2, <2>3
<1>5. C0 \union R \subseteq C1 /\ C0 \intersect R = {}
  <2>1. ASSUME NEW m \in C0
        PROVE  m \in C1 /\ m \notin R
    <3>1. m \in Minutes /\ m < ls /\ ContainsMinute(T, m) /\ m \in Nat
      BY DEF ContainedBefore, Minutes
    <3>2. C0 # {} => ls <= b
      BY <1>1, <3>1 DEF MeasureInv, WellFormed
    <3> QED
      BY <1>1, <3>1, <3>2 DEF ContainedBefore
  <2>2. ASSUME NEW m \in R
        PROVE  m \in C1
    <3>1. m \in Nat /\ ls <= m /\ m < e /\ m < b /\ m \in Minutes
      BY <1>1 DEF Minutes
    <3>2. ContainsMinute(T, m)
      BY <3>1 DEF MeasureInv
    <3> QED
      BY <3>1, <3>2 DEF ContainedBefore
  <2> QED
    BY <2>1, <2>2
<1>6. Cardinality(L0) <= acc.measured /\ acc.measured <= Cardinality(C0)
  BY DEF MeasureInv
<1>7. /\ IsFiniteSet(L0) /\ Cardinality(L0) \in Nat /\ Cardinality(L1) \in Nat
      /\ IsFiniteSet(C0) /\ Cardinality(C0) \in Nat
      /\ IsFiniteSet(C1) /\ Cardinality(C1) \in Nat
  BY <1>3, MinutesFinite
<1> HIDE DEF ls, e, R, L0, L1, C0, C1
<1>8. Cardinality(L1) <= Cardinality(L0) + Cardinality(R)
  <2>1. IsFiniteSet(L0 \union R) /\ Cardinality(L1) <= Cardinality(L0 \union R)
    BY <1>2, <1>4, <1>7, FS_Subset, FS_Union
  <2>2. /\ Cardinality(L0 \intersect R) \in Nat
        /\ Cardinality(L0 \union R)
             = Cardinality(L0) + Cardinality(R) - Cardinality(L0 \intersect R)
    BY <1>2, <1>7, FS_Union, FS_Intersection, FS_CardinalityType
  <2> QED
    BY <1>2, <1>7, <2>1, <2>2
<1>9. Cardinality(C0) + Cardinality(R) <= Cardinality(C1)
  <2>1. Cardinality(C0 \union R) = Cardinality(C0) + Cardinality(R)
    <3>1. /\ Cardinality(C0 \union R)
               = Cardinality(C0) + Cardinality(R) - Cardinality(C0 \intersect R)
          /\ Cardinality(C0 \intersect R) = 0
      BY <1>2, <1>5, <1>7, FS_Union, FS_EmptySet
    <3> QED
      BY <1>2, <1>7, <3>1
  <2>2. Cardinality(C0 \union R) <= Cardinality(C1)
    BY <1>5, <1>7, FS_Subset
  <2> QED
    BY <2>1, <2>2
<1>10. /\ Cardinality(L1) <= acc.measured + RangeLength(acc.last)
       /\ acc.measured + RangeLength(acc.last) <= Cardinality(C1)
  BY <1>1, <1>2, <1>6, <1>7, <1>8, <1>9
<1> QED
  BY <1>10 DEF L1, C1

(* Coalescing a window that starts no earlier than the others keeps what    *)
(* the accumulator says, now of the windows with this one.                  *)
LEMMA CoalesceStep ==
  ASSUME NEW U, NEW w, \A v \in U \union {w} : WellFormed(v),
         \A v \in U : v.start <= w.start,
         NEW acc, MeasureInv(U, acc)
  PROVE  MeasureInv(U \union {w}, Coalesce(w, acc))
<1> DEFINE T == U \union {w}
           new == Coalesce(w, acc)
           ls == acc.last.start
           e == acc.last.end
<1>1. /\ acc \in [measured : Nat, last : [start : Nat, end : Nat]]
      /\ acc.measured \in Nat /\ ls \in Nat /\ e \in Nat /\ ls <= e /\ e <= Week + 1
      /\ Week \in Nat /\ w \in [start : Nat, end : Nat]
      /\ w.start \in Nat /\ w.end \in Nat /\ w.end <= Week + 1 /\ w.start < w.end - 1
  BY DayAssumption DEF MeasureInv, WellFormed, Week
<1>2. \A v \in U : v.start \in Nat /\ v.end \in Nat /\ v.end <= e
  BY DEF WellFormed, MeasureInv
<1>3. ls <= w.start
  BY <1>1, <1>2 DEF MeasureInv
<1>4. \A m : ContainsMinute(U, m) => ContainsMinute(T, m)
  BY DEF ContainsMinute
<1>5. \A b \in Nat : b <= w.start =>
        /\ LastingBefore(T, b) = LastingBefore(U, b)
        /\ ContainedBefore(T, b) = ContainedBefore(U, b)
  <2> SUFFICES ASSUME NEW b \in Nat, b <= w.start
               PROVE  /\ LastingBefore(T, b) = LastingBefore(U, b)
                      /\ ContainedBefore(T, b) = ContainedBefore(U, b)
    OBVIOUS
  <2>1. \A m \in Minutes : m < b => ~(w.start <= m)
    BY <1>1 DEF Minutes
  <2> QED
    BY <2>1 DEF LastingBefore, ContainedBefore, ContainsMinute
<1>6. CASE w.start > e
  <2>1. new = [measured |-> acc.measured + RangeLength(acc.last), last |-> w]
    BY <1>6 DEF Coalesce
  <2>2. /\ Cardinality(LastingBefore(U, w.start)) <= acc.measured + RangeLength(acc.last)
        /\ acc.measured + RangeLength(acc.last) <= Cardinality(ContainedBefore(U, w.start))
    <3> DEFINE b == w.start
    <3>1. /\ \A v \in U : WellFormed(v)
          /\ b \in Nat /\ acc.last.end - 1 <= b
      BY <1>1, <1>6
    <3> HIDE DEF b
    <3>2. /\ Cardinality(LastingBefore(U, b)) <= acc.measured + RangeLength(acc.last)
          /\ acc.measured + RangeLength(acc.last) <= Cardinality(ContainedBefore(U, b))
      BY <3>1, MeasureUpTo
    <3> QED
      BY <3>2 DEF b
  <2>3. RangeLength(acc.last) \in Nat
    BY <1>1, RangeLengthIsCardinality
  <2>4. \A v \in T : v.end <= w.end
    BY <1>1, <1>2, <1>6
  <2>5. \A m \in Nat : w.start <= m /\ m < w.end => ContainsMinute(T, m)
    BY DEF ContainsMinute
  <2>6. /\ new \in [measured : Nat, last : [start : Nat, end : Nat]]
        /\ new.last = w /\ new.measured = acc.measured + RangeLength(acc.last)
    BY <1>1, <2>1, <2>3
  <2>7. /\ Cardinality(LastingBefore(T, w.start)) <= new.measured
        /\ new.measured <= Cardinality(ContainedBefore(T, w.start))
    <3> DEFINE b == w.start
    <3> HIDE DEF T, new
    <3>1. b \in Nat /\ b <= w.start
      BY <1>1
    <3>2. /\ LastingBefore(T, b) = LastingBefore(U, b)
          /\ ContainedBefore(T, b) = ContainedBefore(U, b)
      <4> HIDE DEF b
      <4> QED
        BY <1>5, <3>1
    <3> QED
      BY <2>2, <2>6, <3>2
  <2>8. w \in T
    OBVIOUS
  <2> HIDE DEF new, T
  <2>9. MeasureInv(T, new)
    <3>1. /\ new.last.start <= new.last.end /\ new.last.end <= Week + 1
          /\ \E v \in T : v.start = new.last.start
          /\ \A v \in T : v.end <= new.last.end
          /\ \A m \in Nat : new.last.start <= m /\ m < new.last.end => ContainsMinute(T, m)
      BY <1>1, <2>4, <2>5, <2>6, <2>8
    <3>2. /\ Cardinality(LastingBefore(T, new.last.start)) <= new.measured
          /\ new.measured <= Cardinality(ContainedBefore(T, new.last.start))
      BY <2>6, <2>7
    <3> QED
      BY <2>6, <3>1, <3>2 DEF MeasureInv
  <2> QED
    BY <2>9 DEF new, T
<1>7. CASE ~(w.start > e)
  <2> DEFINE e1 == IF e < w.end THEN w.end ELSE e
  <2>1. Max({e, w.end}) = e1
    BY <1>1 DEF Max
  <2>2. /\ new = [acc EXCEPT !.last.end = e1]
        /\ e1 \in Nat /\ e <= e1 /\ w.end <= e1 /\ e1 <= Week + 1 /\ (e1 = e \/ e1 = w.end)
    BY <1>1, <1>7, <2>1 DEF Coalesce
  <2> HIDE DEF e1
  <2>3. /\ new \in [measured : Nat, last : [start : Nat, end : Nat]]
        /\ new.measured = acc.measured /\ new.last.start = ls /\ new.last.end = e1
    BY <1>1, <2>2
  <2>4. \A v \in T : v.end <= e1
    BY <1>1, <1>2, <2>2
  <2>5. ASSUME NEW m \in Nat, ls <= m, m < e1
        PROVE  ContainsMinute(T, m)
    <3>1. CASE m < e
      BY <1>4, <2>5, <3>1 DEF MeasureInv
    <3>2. CASE ~(m < e)
      BY <1>1, <1>7, <2>2, <2>5, <3>2 DEF ContainsMinute
    <3> QED
      BY <3>1, <3>2
  <2>6. ls = 0 \/ \E v \in T : v.start = ls
    BY DEF MeasureInv
  <2>7. /\ Cardinality(LastingBefore(T, ls)) <= acc.measured
        /\ acc.measured <= Cardinality(ContainedBefore(T, ls))
    BY <1>1, <1>3, <1>5 DEF MeasureInv
  <2>8. ls <= e1
    BY <1>1, <2>2
  <2> HIDE DEF new, ls, T
  <2>9. MeasureInv(T, new)
    <3>1. /\ new.last.start <= new.last.end /\ new.last.end <= Week + 1
          /\ new.last.start = 0 \/ \E v \in T : v.start = new.last.start
          /\ \A v \in T : v.end <= new.last.end
          /\ \A m \in Nat : new.last.start <= m /\ m < new.last.end => ContainsMinute(T, m)
      BY <2>2, <2>3, <2>4, <2>5, <2>6, <2>8
    <3>2. /\ Cardinality(LastingBefore(T, new.last.start)) <= new.measured
          /\ new.measured <= Cardinality(ContainedBefore(T, new.last.start))
      BY <2>3, <2>7
    <3> QED
      BY <2>3, <3>1, <3>2 DEF MeasureInv
  <2> QED
    BY <2>9 DEF new, T
<1> QED
  BY <1>6, <1>7

(* The accumulator of no window says nothing wrong of none.                 *)
LEMMA CoalesceInitially == MeasureInv({}, NoWindow)
<1>1. /\ NoWindow \in [measured : Nat, last : [start : Nat, end : Nat]]
      /\ NoWindow.measured = 0 /\ NoWindow.last.start = 0 /\ NoWindow.last.end = 0
  BY DEF NoWindow
<1>2. LastingBefore({}, 0) = {} /\ ContainedBefore({}, 0) = {}
  BY DEF LastingBefore, ContainedBefore, ContainsMinute
<1>3. Week \in Nat
  BY DayAssumption DEF Week
<1> HIDE DEF NoWindow
<1> QED
  BY <1>1, <1>2, <1>3, FS_EmptySet DEF MeasureInv

(* Of a finite set of windows the accumulator says the truth in the end.    *)
LEMMA CoalescedMeasures ==
  ASSUME NEW S, IsFiniteSet(S), \A w \in S : WellFormed(w)
  PROVE  MeasureInv(S, Coalesced(S))
<1>1. \A w \in S : w.start \in Int
  BY DEF WellFormed
<1>2. PICK g : (\A T \in SUBSET S : g[T] = FoldStep(g, T)) /\ Coalesced(S) = g[S]
  BY <1>1, CoalescedIsFold
<1> DEFINE Subsets == SUBSET S
           Rest(T) == T \ {LatestStart(T)}
           Right(T) == MeasureInv(T, g[T])
           I == {k \in Nat : \A T \in Subsets : Cardinality(T) = k => Right(T)}
<1>3. ASSUME NEW T \in Subsets
      PROVE  IsFiniteSet(T) /\ Cardinality(T) \in Nat /\ (Cardinality(T) = 0 => T = {})
  BY FS_Subset, FS_CardinalityType, FS_EmptySet
<1>4. Right({})
  BY <1>2, CoalesceInitially DEF FoldStep
<1>5. ASSUME NEW T \in Subsets, T # {}
      PROVE  /\ Rest(T) \in Subsets /\ Cardinality(Rest(T)) = Cardinality(T) - 1
             /\ Right(Rest(T)) => Right(T)
  <2>1. IsFiniteSet(T) /\ \A w \in T : w.start \in Int /\ WellFormed(w)
    BY <1>1, <1>3
  <2>2. LatestStart(T) \in T /\ \A w \in T : w.start <= LatestStart(T).start
    BY <1>5, <2>1, LatestStartIsLast
  <2>3. Rest(T) \in Subsets /\ Cardinality(Rest(T)) = Cardinality(T) - 1
    BY <2>1, <2>2, FS_RemoveElement
  <2>4. g[T] = Coalesce(LatestStart(T), g[Rest(T)])
    BY <1>2, <1>5 DEF FoldStep
  <2>5. T = Rest(T) \union {LatestStart(T)} /\ \A v \in Rest(T) : v.start <= LatestStart(T).start
    BY <2>2
  <2>6. ASSUME Right(Rest(T))
        PROVE  Right(T)
    <3> HIDE DEF Rest
    <3>1. MeasureInv(Rest(T) \union {LatestStart(T)}, Coalesce(LatestStart(T), g[Rest(T)]))
      BY <2>1, <2>5, <2>6, CoalesceStep
    <3> QED
      BY <2>4, <2>5, <3>1
  <2> QED
    BY <2>3, <2>6
<1>6. S \in Subsets
  OBVIOUS
<1> HIDE DEF Subsets, Rest, Right
<1>7. 0 \in I
  BY <1>3, <1>4
<1>8. ASSUME NEW k \in Nat, k \in I
      PROVE  k + 1 \in I
  <2> SUFFICES ASSUME NEW T \in Subsets, Cardinality(T) = k + 1
               PROVE  Right(T)
    OBVIOUS
  <2>1. CASE T = {}
    BY <1>4, <2>1
  <2>2. CASE T # {}
    <3>1. Rest(T) \in Subsets /\ Cardinality(Rest(T)) = k
      BY <1>5, <2>2
    <3>2. Right(Rest(T))
      BY <1>8, <3>1
    <3> QED
      BY <1>5, <2>2, <3>2
  <2> QED
    BY <2>1, <2>2
<1>9. \A k \in Nat : \A T \in Subsets : Cardinality(T) = k => Right(T)
  <2>1. Nat \subseteq I
    <3> HIDE DEF I
    <3> QED
      BY <1>7, <1>8, AllNaturals
  <2> QED
    BY <2>1
<1>10. Right(S)
  BY <1>3, <1>6, <1>9
<1> QED
  BY <1>2, <1>10 DEF Right

(* The measured length is no less than the number of minutes that windows   *)
(* last, and no more than that of the minutes they contain, their closing   *)
(* minutes included: overlaps are counted once, whatever the order in which *)
(* windows that start together are coalesced.                               *)
THEOREM MeasuredLength ==
  ASSUME NEW S, IsFiniteSet(S), \A w \in S : WellFormed(w)
  PROVE  /\ LengthMinutes(S) \in Nat
         /\ Cardinality({m \in Minutes : \E w \in S : w.start <= m /\ m < w.end - 1})
              <= LengthMinutes(S)
         /\ LengthMinutes(S) <= Cardinality({m \in Minutes : ContainsMinute(S, m)})
<1> DEFINE acc == Coalesced(S)
<1>1. MeasureInv(S, acc)
  BY CoalescedMeasures
<1>2. Week \in Nat
  BY DayAssumption DEF Week
<1>3. /\ {m \in Minutes : \E w \in S : w.start <= m /\ m < w.end - 1} = LastingBefore(S, Week)
      /\ {m \in Minutes : ContainsMinute(S, m)} = ContainedBefore(S, Week)
  BY <1>2 DEF LastingBefore, ContainedBefore, Minutes
<1>4. LengthMinutes(S) = acc.measured + RangeLength(acc.last)
  BY DEF LengthMinutes
<1> HIDE DEF acc
<1>5. /\ acc.last \in [start : Nat, end : Nat] /\ acc.last.start <= acc.last.end
      /\ acc.measured \in Nat /\ acc.last.end - 1 <= Week
  BY <1>1, <1>2 DEF MeasureInv
<1>6. RangeLength(acc.last) \in Nat
  BY <1>5, RangeLengthIsCardinality
<1>7. /\ Cardinality(LastingBefore(S, Week)) <= acc.measured + RangeLength(acc.last)
      /\ acc.measured + RangeLength(acc.last) <= Cardinality(ContainedBefore(S, Week))
  BY <1>1, <1>2, <1>5, MeasureUpTo
<1>8. acc.measured + RangeLength(acc.last) \in Nat
  BY <1>5, <1>6
<1> QED
  BY <1>3, <1>4, <1>7, <1>8

-----------------------------------------------------------------------------
(* The next window.                                                         *)

(* Minutes of this week and the next, as minutes of the week.               *)
LEMMA MinuteAhead ==
  ASSUME NEW x \in Nat, x < 2 * Week
  PROVE  x % Week = IF x < Week THEN x ELSE x - Week
<1>1. Week \in Nat \ {0}
  BY DayAssumption DEF Week
<1>2. \A w \in Nat \ {0} : \A y \in 0 .. w - 1 : y % w = y /\ (w + y) % w = y
  BY SMT
<1>3. CASE x < Week
  <2>1. x \in 0 .. Week - 1
    BY <1>1, <1>3
  <2> QED
    BY <1>1, <1>2, <1>3, <2>1
<1>4. CASE ~(x < Week)
  <2>1. x - Week \in 0 .. Week - 1 /\ x = Week + (x - Week)
    BY <1>1, <1>4
  <2> QED
    BY <1>1, <1>2, <1>4, <2>1
<1> QED
  BY <1>3, <1>4

(* The strategy reports the next window, and how far ahead it is, as the    *)
(* nearest minute that a window contains: in the window that is open, at    *)
(* the next start of this week, or at the first start of the next one.      *)
THEOREM NearestWindow ==
  ASSUME NEW S, S # {}, \A w \in S : WellFormed(w), NEW minute \in Minutes
  PROVE  LET contained == {m \in Minutes : ContainsMinute(S, m)}
             ahead == {d \in 0 .. Week : (minute + d) % Week \in contained}
         IN /\ RemainingTo(S, minute) = Min(ahead)
            /\ NextWindowMinuteInWeek(S, minute) = (minute + Min(ahead)) % Week
<1> DEFINE contained == {m \in Minutes : ContainsMinute(S, m)}
           ahead == {d \in 0 .. Week : (minute + d) % Week \in contained}
           Nearest(r) == r \in ahead /\ \A d \in ahead : r <= d
<1>1. /\ Week \in Nat \ {0} /\ minute \in Nat /\ minute < Week
      /\ \A w \in S : /\ w.start \in Nat /\ w.end \in Nat /\ w.start \in Minutes
                      /\ w.start < w.end
  BY DayAssumption DEF Week, Minutes, WellFormed
<1>2. \A w \in S : ContainsMinute(S, w.start)
  BY <1>1 DEF ContainsMinute
<1>3. \A d \in 0 .. Week :
        /\ minute + d < Week => (minute + d) % Week = minute + d
        /\ ~(minute + d < Week) => (minute + d) % Week = minute + d - Week
  <2> SUFFICES ASSUME NEW d \in 0 .. Week, NEW x \in Nat, x = minute + d
               PROVE  /\ x < Week => x % Week = x
                      /\ ~(x < Week) => x % Week = x - Week
    BY <1>1
  <2>1. x < 2 * Week
    BY <1>1
  <2> QED
    BY <2>1, MinuteAhead
<1>4. ASSUME NEW r, Nearest(r)
      PROVE  Min(ahead) = r
  <2>1. ahead \in SUBSET Nat /\ ahead # {}
    <3>1. ahead \subseteq 0 .. Week /\ 0 .. Week \subseteq Nat
      OBVIOUS
    <3> HIDE DEF ahead
    <3> QED
      BY <1>4, <3>1
  <2> HIDE DEF ahead
  <2>2. Min(ahead) \in ahead /\ \A d \in ahead : Min(ahead) <= d
    BY <2>1, MinIsLeast
  <2>3. r \in Nat /\ Min(ahead) \in Nat /\ r <= Min(ahead) /\ Min(ahead) <= r
    BY <1>4, <2>1, <2>2
  <2> QED
    BY <2>3
<1>5. Starts(S) \in SUBSET Nat /\ Starts(S) # {}
  BY <1>1 DEF Starts
<1>6. ASSUME NEW d \in ahead
      PROVE  /\ d \in Nat
             /\ \E w \in S : /\ w.start <= (minute + d) % Week
                             /\ (minute + d) % Week < w.end
  BY <1>1 DEF ContainsMinute
<1>7. ASSUME NEW s \in Minutes, NEW r \in 0 .. Week, (minute + r) % Week = s,
             ContainsMinute(S, s)
      PROVE  r \in ahead
  BY <1>7
<1> HIDE DEF ahead, contained
<1>8. CASE ContainsMinute(S, minute)
  <2>1. 0 \in 0 .. Week /\ (minute + 0) % Week = minute
    BY <1>1, <1>3
  <2>2. Nearest(0)
    BY <1>6, <1>7, <1>8, <2>1
  <2>3. RemainingTo(S, minute) = 0 /\ NextWindowMinuteInWeek(S, minute) = minute
    BY <1>8 DEF RemainingTo, NextWindowMinuteInWeek
  <2> QED
    BY <1>4, <2>1, <2>2, <2>3 DEF ahead, contained
<1>9. CASE ~ContainsMinute(S, minute) /\ StartsThisWeek(S, minute) # {}
  <2> DEFINE s == Min(StartsThisWeek(S, minute))
             r == s - minute
  <2>1. /\ s \in Starts(S) /\ s >= minute
        /\ \A w \in S : w.start >= minute => s <= w.start
    <3>1. StartsThisWeek(S, minute) \in SUBSET Nat
      BY <1>5 DEF StartsThisWeek
    <3>2. s \in StartsThisWeek(S, minute) /\ \A x \in StartsThisWeek(S, minute) : s <= x
      BY <1>9, <3>1, MinIsLeast
    <3> QED
      BY <3>2 DEF StartsThisWeek, Starts
  <2> HIDE DEF s
  <2>2. s \in Minutes /\ s \in Nat /\ s < Week /\ ContainsMinute(S, s)
    BY <1>1, <1>2, <2>1 DEF Starts, Minutes
  <2>3. r \in 0 .. Week /\ (minute + r) % Week = s
    BY <1>1, <1>3, <2>1, <2>2
  <2>4. ASSUME NEW d \in ahead, d < r
        PROVE  FALSE
    <3>1. d \in Nat /\ d \in 0 .. Week /\ minute + d < s
      BY <1>1, <1>6, <2>1, <2>2, <2>4
    <3>2. (minute + d) % Week = minute + d
      BY <1>1, <1>3, <2>2, <3>1
    <3>3. PICK w \in S : w.start <= minute + d /\ minute + d < w.end
      BY <1>6, <3>2
    <3>4. CASE w.start >= minute
      BY <1>1, <2>1, <2>2, <3>1, <3>3, <3>4
    <3>5. CASE ~(w.start >= minute)
      BY <1>1, <1>9, <3>1, <3>3, <3>5 DEF ContainsMinute
    <3> QED
      BY <3>4, <3>5
  <2>5. Nearest(r)
    BY <1>1, <1>6, <1>7, <2>2, <2>3, <2>4
  <2>6. RemainingTo(S, minute) = r /\ NextWindowMinuteInWeek(S, minute) = s
    BY <1>9 DEF RemainingTo, NextWindowMinuteInWeek, s
  <2> QED
    BY <1>4, <2>3, <2>5, <2>6 DEF ahead, contained
<1>10. CASE ~ContainsMinute(S, minute) /\ StartsThisWeek(S, minute) = {}
  <2> DEFINE s == Min(Starts(S))
             r == Week - minute + s
  <2>1. s \in Starts(S) /\ \A w \in S : s <= w.start /\ ~(w.start >= minute)
    BY <1>5, <1>10, MinIsLeast DEF StartsThisWeek, Starts
  <2> HIDE DEF s
  <2>2. s \in Minutes /\ s \in Nat /\ s < minute /\ ContainsMinute(S, s)
    BY <1>1, <1>2, <2>1 DEF Starts, Minutes
  <2>3. r \in 0 .. Week /\ (minute + r) % Week = s
    BY <1>1, <1>3, <2>2
  <2>4. ASSUME NEW d \in ahead, d < r
        PROVE  FALSE
    <3>1. d \in Nat /\ d \in 0 .. Week /\ minute + d < Week + s
      BY <1>1, <1>6, <2>2, <2>3, <2>4
    <3>2. (minute + d) % Week = IF minute + d < Week THEN minute + d ELSE minute + d - Week
      BY <1>3, <3>1
    <3>3. PICK w \in S : w.start <= (minute + d) % Week /\ (minute + d) % Week < w.end
      BY <1>6
    <3>4. w.start \in Nat /\ w.end \in Nat /\ s <= w.start /\ w.start < minute
      BY <1>1, <2>1
    <3>5. CASE minute + d < Week
      BY <1>1, <1>10, <3>1, <3>2, <3>3, <3>4, <3>5 DEF ContainsMinute
    <3>6. CASE ~(minute + d < Week)
      BY <1>1, <2>2, <3>1, <3>2, <3>3, <3>4, <3>6
    <3> QED
      BY <3>5, <3>6
  <2>5. Nearest(r)
    BY <1>1, <1>6, <1>7, <2>2, <2>3, <2>4
  <2>6. RemainingTo(S, minute) = r /\ NextWindowMinuteInWeek(S, minute) = s
    BY <1>10 DEF RemainingTo, NextWindowMinuteInWeek, s
  <2> QED
    BY <1>4, <2>3, <2>5, <2>6 DEF ahead, contained
<1> QED
  BY <1>8, <1>9, <1>10

=============================================================================
