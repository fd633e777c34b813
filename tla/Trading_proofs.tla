---------------------------- MODULE Trading_proofs ----------------------------
(***************************************************************************)
(* Theorems about the skills on a growing series, for any sessions,        *)
(* calendar, windows and thresholds.  A skill is run on the whole series   *)
(* or the last year of it every time; what ties its answers on two series  *)
(* together is that it reads only rows both of them have.                  *)
(***************************************************************************)
EXTENDS Trading, Extrema

-----------------------------------------------------------------------------
(***************************************************************************)
(* Sums.  SumFunctionOnSet takes one element after another; a function on  *)
(* the subsets that satisfies that recursion is built for one size after   *)
(* the other, and the least size at which it fails is the contradiction.   *)
(***************************************************************************)
Chosen(s) == CHOOSE x \in s : TRUE
Summed(f, g, s) == IF s = {} THEN 0 ELSE f[Chosen(s)] + g[s \ {Chosen(s)}]
Small(S, n) == {s \in SUBSET S : Cardinality(s) <= n}
SumsUpTo(S, f, n) ==
    \E g \in [Small(S, n) -> Nat] : \A s \in Small(S, n) : g[s] = Summed(f, g, s)

LEMMA WithoutChosen ==
    ASSUME NEW S, IsFiniteSet(S), NEW s \in SUBSET S, s # {}
    PROVE  /\ Chosen(s) \in S /\ s \ {Chosen(s)} \in SUBSET S
           /\ Cardinality(s) \in Nat \ {0}
           /\ Cardinality(s \ {Chosen(s)}) = Cardinality(s) - 1
<1>1. Chosen(s) \in s
  BY DEF Chosen
<1>2. IsFiniteSet(s)
  BY FS_Subset
<1>3. Cardinality(s) \in Nat /\ Cardinality(s) # 0
  BY <1>2, FS_CardinalityType, FS_EmptySet
<1>4. Cardinality(s \ {Chosen(s)}) = Cardinality(s) - 1
  BY <1>1, <1>2, FS_RemoveElement
<1> QED  BY <1>1, <1>3, <1>4

LEMMA EverySizeIsSummed ==
    ASSUME NEW S, IsFiniteSet(S), NEW f \in [S -> Nat], NEW n \in Nat
    PROVE  SumsUpTo(S, f, n)
<1> DEFINE bad == {m \in Nat : ~ SumsUpTo(S, f, m)}
<1> SUFFICES ASSUME bad # {} PROVE FALSE
  OBVIOUS
<1>1. Min(bad) \in bad /\ \A x \in bad : Min(bad) <= x
  BY Smallest
<1> DEFINE m == Min(bad)
<1>2. m \in Nat /\ ~ SumsUpTo(S, f, m) /\ (m # 0 => SumsUpTo(S, f, m - 1))
  BY <1>1
<1> HIDE DEF m, bad
<1>3. ASSUME NEW s \in SUBSET S PROVE IsFiniteSet(s) /\ Cardinality(s) \in Nat /\ (Cardinality(s) = 0 <=> s = {})
  BY FS_Subset, FS_CardinalityType, FS_EmptySet
<1>4. CASE m = 0
  <2> DEFINE g == [s \in Small(S, 0) |-> 0]
  <2>1. \A s \in Small(S, 0) : s = {}
    BY <1>3 DEF Small
  <2>2. g \in [Small(S, 0) -> Nat] /\ \A s \in Small(S, 0) : g[s] = Summed(f, g, s)
    BY <2>1 DEF Summed
  <2> QED  BY <1>2, <1>4, <2>2 DEF SumsUpTo
<1>5. CASE m # 0
  <2>1. PICK g \in [Small(S, m - 1) -> Nat] : \A s \in Small(S, m - 1) : g[s] = Summed(f, g, s)
    BY <1>2, <1>5 DEF SumsUpTo
  <2> DEFINE h == [s \in Small(S, m) |-> Summed(f, g, s)]
  <2>2. ASSUME NEW s \in Small(S, m), s # {}
        PROVE  s \ {Chosen(s)} \in Small(S, m - 1) /\ s \ {Chosen(s)} \in Small(S, m) /\ f[Chosen(s)] \in Nat
    <3>1. s \in SUBSET S /\ Cardinality(s) <= m
      BY DEF Small
    <3>2. /\ Chosen(s) \in S /\ s \ {Chosen(s)} \in SUBSET S
          /\ Cardinality(s) \in Nat \ {0} /\ Cardinality(s \ {Chosen(s)}) = Cardinality(s) - 1
      BY <2>2, <3>1, WithoutChosen
    <3> QED  BY <1>2, <3>1, <3>2 DEF Small
  <2>3. ASSUME NEW s \in Small(S, m) PROVE Summed(f, g, s) \in Nat
    <3>1. CASE s = {}
      BY <3>1 DEF Summed
    <3>2. CASE s # {}
      BY <2>2, <3>2 DEF Summed
    <3> QED  BY <3>1, <3>2
  <2>4. h \in [Small(S, m) -> Nat]
    BY <2>3
  <2>5. ASSUME NEW s \in Small(S, m) PROVE h[s] = Summed(f, h, s)
    <3>1. CASE s = {}
      BY <3>1 DEF Summed
    <3>2. CASE s # {}
      <4>1. h[s \ {Chosen(s)}] = g[s \ {Chosen(s)}]
        BY <2>1, <2>2, <3>2
      <4> QED  BY <3>2, <4>1 DEF Summed
    <3> QED  BY <3>1, <3>2
  <2> HIDE DEF h
  <2> QED  BY <1>2, <2>4, <2>5 DEF SumsUpTo
<1> QED  BY <1>4, <1>5

\* The sum of naturals over a finite set is a natural.
LEMMA SumIsNatural ==
    ASSUME NEW S, IsFiniteSet(S), NEW f \in [S -> Nat]
    PROVE  SumFunctionOnSet(f, S) \in Nat
<1> DEFINE size == Cardinality(S)
<1> DEFINE iter == CHOOSE iter_ : iter_ = [s \in SUBSET S |->
             IF s = {} THEN 0 ELSE f[CHOOSE x \in s : TRUE] + iter_[s \ {CHOOSE x \in s : TRUE}]]
<1>1. SumFunctionOnSet(f, S) = iter[S]
  BY DEF SumFunctionOnSet, FoldFunctionOnSet, MapThenFoldSet
<1>2. size \in Nat /\ Small(S, size) = SUBSET S
  <2>1. \A s \in SUBSET S : Cardinality(s) <= size
    BY FS_Subset
  <2> QED  BY <2>1, FS_CardinalityType DEF Small
<1>3. PICK g \in [SUBSET S -> Nat] : \A s \in SUBSET S : g[s] = Summed(f, g, s)
  <2>1. SumsUpTo(S, f, size)
    BY <1>2, EverySizeIsSummed
  <2> HIDE DEF size
  <2> QED  BY <1>2, <2>1 DEF SumsUpTo
<1>4. g = [s \in SUBSET S |->
             IF s = {} THEN 0 ELSE f[CHOOSE x \in s : TRUE] + g[s \ {CHOOSE x \in s : TRUE}]]
  BY <1>3 DEF Summed, Chosen
<1>5. iter = [s \in SUBSET S |->
             IF s = {} THEN 0 ELSE f[CHOOSE x \in s : TRUE] + iter[s \ {CHOOSE x \in s : TRUE}]]
  BY <1>4
<1> HIDE DEF iter
<1>6. \A s \in SUBSET S : iter[s] = Summed(f, iter, s)
  BY <1>5 DEF Summed, Chosen
<1> DEFINE bad == {m \in Nat : \E s \in SUBSET S : Cardinality(s) = m /\ iter[s] \notin Nat}
<1>7. bad = {}
  <2> SUFFICES ASSUME bad # {} PROVE FALSE
    OBVIOUS
  <2>1. Min(bad) \in bad /\ \A x \in bad : Min(bad) <= x
    BY Smallest
  <2>2. PICK s \in SUBSET S : Cardinality(s) = Min(bad) /\ iter[s] \notin Nat
    BY <2>1
  <2>0. iter[s] = Summed(f, iter, s)
    BY <1>6
  <2>3. s # {}
    <3> SUFFICES ASSUME s = {} PROVE iter[s] = 0
      BY <2>2
    <3> QED  BY <2>0 DEF Summed
  <2>4. /\ Chosen(s) \in S /\ s \ {Chosen(s)} \in SUBSET S
        /\ Cardinality(s) \in Nat \ {0} /\ Cardinality(s \ {Chosen(s)}) = Cardinality(s) - 1
    BY <2>3, WithoutChosen
  <2>5. iter[s \ {Chosen(s)}] \in Nat
    BY <2>1, <2>2, <2>4
  <2>6. iter[s] = f[Chosen(s)] + iter[s \ {Chosen(s)}]
    BY <1>6, <2>3 DEF Summed
  <2> QED  BY <2>2, <2>4, <2>5, <2>6
<1>8. iter[S] \in Nat
  BY <1>2, <1>7
<1> QED  BY <1>1, <1>8

-----------------------------------------------------------------------------
(***************************************************************************)
(* The series.                                                             *)
(***************************************************************************)
Bar == [d : Nat, o : Nat, h : Nat, l : Nat, c : Nat, v : Nat]
Places == [entry : Int, since : Int, stop : Int]
Series == bars \in Seq(Bar) /\ Len(bars) > 0 /\ position \in Places

LEMMA StartsTyped == Init => Series
<1> SUFFICES ASSUME Init PROVE Series
  OBVIOUS
<1>1. PICK b \in Close :
        /\ bars = <<[d |-> Trades[1], o |-> b.o, h |-> b.h, l |-> b.l, c |-> b.c, v |-> b.v]>>
        /\ position = [entry |-> b.c, since |-> Trades[1], stop |-> b.l - StopBuffer]
  BY DEF Init
<1>2. Trades[1] \in Nat /\ b \in [o : Nat, h : Nat, l : Nat, c : Nat, v : Nat, nymo : Int \cup {Unknown}]
  <2>1. Len(Trades) \in Nat \ {0} /\ Trades \in [1 .. Len(Trades) -> Nat]
    BY TradingAssumption
  <2> QED  BY <2>1, TradingAssumption
<1>3. [d |-> Trades[1], o |-> b.o, h |-> b.h, l |-> b.l, c |-> b.c, v |-> b.v] \in Bar
  BY <1>2 DEF Bar
<1>4. b.l - StopBuffer \in Int
  BY <1>2, PositionAssumption
<1> QED  BY <1>1, <1>2, <1>3, <1>4 DEF Series, Places

\* What a session adds.
Added(b) == [d |-> Trades[Len(bars) + 1], o |-> b.o, h |-> b.h, l |-> b.l, c |-> b.c, v |-> b.v]

LEMMA SessionAppends ==
    ASSUME Series, NEW b \in Close, NEW condition, Session(b, condition)
    PROVE  /\ Added(b) \in Bar /\ bars' = Append(bars, Added(b)) /\ bars' \in Seq(Bar)
           /\ Len(bars) \in Nat \ {0} /\ Len(bars') = Len(bars) + 1
           /\ \A k \in 1 .. Len(bars) : bars'[k] = bars[k] /\ bars[k] \in Bar
           /\ Last(bars) \in Bar /\ Last(bars') = Added(b)
<1>1. bars \in Seq(Bar) /\ Len(bars) \in Nat \ {0}
  BY DEF Series
<1>2. Added(b) \in Bar
  <2>1. Len(bars) + 1 \in 1 .. Len(Trades) /\ Trades \in [1 .. Len(Trades) -> Nat]
    BY <1>1, TradingAssumption DEF Session
  <2>2. b \in [o : Nat, h : Nat, l : Nat, c : Nat, v : Nat, nymo : Int \cup {Unknown}]
    BY TradingAssumption
  <2> QED  BY <2>1, <2>2 DEF Added, Bar
<1>3. bars' = Append(bars, Added(b))
  BY DEF Session, Added
<1> HIDE DEF Added
<1>4. bars' \in Seq(Bar) /\ Len(bars') = Len(bars) + 1 /\ bars'[Len(bars) + 1] = Added(b)
  BY <1>1, <1>2, <1>3
<1>5. \A k \in 1 .. Len(bars) : bars'[k] = bars[k] /\ bars[k] \in Bar
  BY <1>1, <1>2, <1>3
<1>6. Last(bars) \in Bar /\ Last(bars') = Added(b)
  BY <1>1, <1>4, <1>5 DEF Last
<1> QED  BY <1>1, <1>2, <1>3, <1>4, <1>5, <1>6

-----------------------------------------------------------------------------
(***************************************************************************)
(* The stop.                                                               *)
(***************************************************************************)
\* What a report says of a stop: it is reached, or it stays or goes up.
LEMMA ReportsHonourTheStop ==
    ASSUME NEW p \in Places, NEW prior \in Bar, NEW day \in Bar, NEW condition, NEW earnings
    PROVE  LET r == Manage(p, prior, day, condition, earnings) IN
           /\ r.newStop \in Int
           /\ day.l <= p.stop => r.action = "EXIT"
           /\ r.newStop >= p.stop
           /\ r.action = "REVIEW" => r.newStop = p.stop
<1> DEFINE alerts == EarningsAlert(day.d, earnings)
<1> DEFINE t == Trail(p, prior, day, alerts)
<1>1. p.stop \in Int /\ prior.l - StopBuffer \in Int
  BY PositionAssumption DEF Places, Bar
<1>2. t.newStop \in Int /\ t.newStop >= p.stop /\ t.action \in {"UPDATE", "HOLD"}
  BY <1>1 DEF Trail, Report
<1> HIDE DEF t, alerts
<1>3. Manage(p, prior, day, condition, earnings) =
        IF day.o <= p.stop THEN Report("EXIT", p.stop, alerts \cup {"gapped"})
        ELSE IF day.l <= p.stop THEN Report("EXIT", p.stop, alerts)
        ELSE IF condition = "unfavorable" THEN Report("REVIEW", p.stop, alerts \cup {"review"})
        ELSE t
  BY DEF Manage, t, alerts
<1> QED  BY <1>1, <1>2, <1>3 DEF Report

LEMMA SessionIsTyped ==
    ASSUME Series, NEW b \in Close, NEW condition, Session(b, condition)
    PROVE  Series'
<1> DEFINE r == Manage(position, Last(bars), Added(b), condition, Earnings)
<1>1. r.newStop \in Int /\ Len(bars') > 0 /\ bars' \in Seq(Bar)
  BY SessionAppends, ReportsHonourTheStop DEF Series
<1>2. position' = IF position # Flat /\ r.action # "EXIT"
                  THEN [position EXCEPT !.stop = r.newStop] ELSE Flat
  BY DEF Session, Added
<1> HIDE DEF r
<1>3. position' \in Places
  BY <1>1, <1>2 DEF Series, Places, Flat
<1> QED  BY <1>1, <1>3 DEF Series

LEMMA StepIsTyped == Series /\ [Next]_tradingVars => Series'
<1> SUFFICES ASSUME Series, [Next]_tradingVars PROVE Series'
  OBVIOUS
<1>1. CASE Next
  BY <1>1, SessionIsTyped DEF Next
<1>2. CASE UNCHANGED tradingVars
  BY <1>2 DEF tradingVars, Series
<1> QED  BY <1>1, <1>2

LEMMA SeriesHolds == Spec => []Series
  BY StartsTyped, StepIsTyped, PTL DEF Spec

\* The stop of a position never goes down, the session that reaches it is the
\* last, and an unfavorable market leaves it where it is
\* (position_management.run).
THEOREM StopNeverRetreats == Spec => StopIsHonoured
<1> DEFINE Honoured == LET day == Last(bars') IN
          /\ day.l <= position.stop => position' = Flat
          /\ position' # Flat => position'.stop >= position.stop
          /\ report'.action = "REVIEW" => position' = position
<1>1. ASSUME Series, Next, position # Flat PROVE Honoured
  <2>1. PICK b \in Close, condition \in {"neutral", "unfavorable"} : Session(b, condition)
    BY <1>1 DEF Next
  <2> DEFINE r == Manage(position, Last(bars), Added(b), condition, Earnings)
  <2>2. /\ report' = r
        /\ position' = IF r.action # "EXIT" THEN [position EXCEPT !.stop = r.newStop] ELSE Flat
    BY <1>1, <2>1 DEF Session, Added
  <2>3. /\ r.newStop \in Int
        /\ Added(b).l <= position.stop => r.action = "EXIT"
        /\ r.newStop >= position.stop
        /\ r.action = "REVIEW" => r.newStop = position.stop
    BY <1>1, <2>1, SessionAppends, ReportsHonourTheStop DEF Series
  <2>4. Last(bars') = Added(b) /\ position \in Places
    BY <1>1, <2>1, SessionAppends DEF Series
  <2> HIDE DEF r
  <2>5. r.action = "REVIEW" => position' = position
    BY <2>2, <2>3, <2>4 DEF Places
  <2>6. position' # Flat => position'.stop = r.newStop
    BY <2>2, <2>4 DEF Places
  <2> QED  BY <2>2, <2>3, <2>4, <2>5, <2>6
<1>2. Series /\ [Next]_tradingVars => [position # Flat => Honoured]_tradingVars
  BY <1>1
<1> QED  BY <1>2, SeriesHolds, PTL DEF Spec, StopIsHonoured

-----------------------------------------------------------------------------
(***************************************************************************)
(* Frames.  The n-th bar of a frame is that of the n-th period with a row; *)
(* what is asked of it is its place in time, its open and its range.       *)
(***************************************************************************)
\* Ranks.  Each number up to the size of a finite set of naturals is the rank
\* of one element, and a larger element has a larger rank.
UpTo(S, p) == {q \in S : q <= p}

LEMMA RanksAscend ==
    ASSUME NEW S, S \subseteq Nat, IsFiniteSet(S), NEW a \in S, NEW b \in S
    PROVE  /\ Cardinality(UpTo(S, a)) \in 1 .. Cardinality(S)
           /\ a < b => Cardinality(UpTo(S, a)) < Cardinality(UpTo(S, b))
<1>0. a \in Nat /\ b \in Nat /\ Cardinality(S) \in Nat
  BY FS_CardinalityType
<1>1. \A x \in S : UpTo(S, x) \in SUBSET S /\ x \in UpTo(S, x)
  BY DEF UpTo
<1>2. \A x \in S : /\ IsFiniteSet(UpTo(S, x)) /\ Cardinality(UpTo(S, x)) \in Nat
                    /\ Cardinality(UpTo(S, x)) <= Cardinality(S)
                    /\ Cardinality(UpTo(S, x)) # 0
  <2> TAKE x \in S
  <2>1. IsFiniteSet(UpTo(S, x)) /\ Cardinality(UpTo(S, x)) <= Cardinality(S)
    BY <1>1, FS_Subset
  <2>2. Cardinality(UpTo(S, x)) \in Nat /\ (Cardinality(UpTo(S, x)) = 0 <=> UpTo(S, x) = {})
    BY <2>1, FS_CardinalityType, FS_EmptySet
  <2> QED  BY <1>1, <2>1, <2>2
<1>3. ASSUME a < b PROVE Cardinality(UpTo(S, a)) < Cardinality(UpTo(S, b))
  <2>1. UpTo(S, a) \in SUBSET UpTo(S, b)
    <3> SUFFICES ASSUME NEW q \in S, q <= a PROVE q <= b
      BY DEF UpTo
    <3>1. q \in Nat
      OBVIOUS
    <3> QED  BY <1>0, <1>3, <3>1
  <2>2. b \in UpTo(S, b) /\ b \notin UpTo(S, a)
    BY <1>0, <1>3 DEF UpTo
  <2>3. Cardinality(UpTo(S, a)) <= Cardinality(UpTo(S, b)) /\ Cardinality(UpTo(S, a)) # Cardinality(UpTo(S, b))
    BY <1>2, <2>1, <2>2, FS_Subset
  <2> QED  BY <1>2, <2>3
<1>4. Cardinality(UpTo(S, a)) \in 1 .. Cardinality(S)
  BY <1>0, <1>2
<1> QED  BY <1>3, <1>4

LEMMA RanksAreUnique ==
    ASSUME NEW S, S \subseteq Nat, IsFiniteSet(S), NEW a \in S, NEW b \in S,
           Cardinality(UpTo(S, a)) = Cardinality(UpTo(S, b))
    PROVE  a = b
<1>1. a \in Nat /\ b \in Nat
  OBVIOUS
<1>2. Cardinality(UpTo(S, a)) \in 1 .. Cardinality(S) /\ Cardinality(S) \in Nat
  BY RanksAscend, FS_CardinalityType
<1>3. Cardinality(UpTo(S, a)) \in Nat
  BY <1>2
<1>4. a < b => Cardinality(UpTo(S, a)) < Cardinality(UpTo(S, b))
  BY RanksAscend
<1>5. b < a => Cardinality(UpTo(S, b)) < Cardinality(UpTo(S, a))
  BY RanksAscend
<1> QED  BY <1>1, <1>3, <1>4, <1>5

LEMMA EveryRankIsTaken ==
    ASSUME NEW S, S \subseteq Nat, IsFiniteSet(S), NEW r \in 1 .. Cardinality(S)
    PROVE  \E p \in S : Cardinality(UpTo(S, p)) = r
<1> DEFINE n == Cardinality(S)
<1> DEFINE rank == [p \in S |-> Cardinality(UpTo(S, p))]
<1>1. n \in Nat
  BY FS_CardinalityType
<1>2. \A p \in S : Cardinality(UpTo(S, p)) \in 1 .. n
  BY RanksAscend
<1>3. rank \in [S -> 1 .. n]
  BY <1>2
<1>4. \A p, q \in S : rank[p] = rank[q] => p = q
  BY RanksAreUnique
<1>5. rank \in Injection(S, 1 .. n)
  BY <1>3, <1>4 DEF Injection, IsInjective
<1>6. IsFiniteSet(1 .. n) /\ Cardinality(1 .. n) = n
  <2> HIDE DEF n
  <2>1. Cardinality(1 .. n) = IF 1 > n THEN 0 ELSE n - 1 + 1
    BY <1>1, FS_Interval
  <2> QED  BY <1>1, <2>1, FS_Interval
<1>7. rank \in Surjection(S, 1 .. n)
  BY <1>5, <1>6, FS_Injection
<1> QED  BY <1>7 DEF Surjection
LEMMA NthOfPeriods ==
    ASSUME NEW S, S \subseteq Nat, IsFiniteSet(S), NEW n \in 1 .. Cardinality(S)
    PROVE  Nth(S, n) \in S /\ Cardinality(UpTo(S, Nth(S, n))) = n
<1>1. \E p \in S : Cardinality({q \in S : q <= p}) = n
  BY EveryRankIsTaken DEF UpTo
<1> QED  BY <1>1 DEF Nth, UpTo

LEMMA RankOfNth ==
    ASSUME NEW S, S \subseteq Nat, IsFiniteSet(S), NEW p \in S
    PROVE  Nth(S, Cardinality(UpTo(S, p))) = p
<1>1. Cardinality(UpTo(S, p)) \in 1 .. Cardinality(S)
  BY RanksAscend
<1> DEFINE q == Nth(S, Cardinality(UpTo(S, p)))
<1>2. q \in S /\ Cardinality(UpTo(S, q)) = Cardinality(UpTo(S, p))
  BY <1>1, NthOfPeriods
<1> HIDE DEF q
<1>3. q = p
  BY <1>2, RanksAreUnique
<1> QED  BY <1>3 DEF q

LEMMA NthAscends ==
    ASSUME NEW S, S \subseteq Nat, IsFiniteSet(S),
           NEW m \in 1 .. Cardinality(S), NEW n \in 1 .. Cardinality(S), m < n
    PROVE  Nth(S, m) < Nth(S, n)
<1> DEFINE a == Nth(S, m)
           b == Nth(S, n)
<1>1. a \in S /\ b \in S /\ Cardinality(UpTo(S, a)) = m /\ Cardinality(UpTo(S, b)) = n
  BY NthOfPeriods
<1> HIDE DEF a, b
<1>2. Cardinality(S) \in Nat /\ a \in Nat /\ b \in Nat
  BY <1>1, FS_CardinalityType
<1>3. b < a => Cardinality(UpTo(S, b)) < Cardinality(UpTo(S, a))
  BY <1>1, RanksAscend
<1>4. ~ (b < a) /\ a # b
  BY <1>1, <1>2, <1>3
<1>5. a < b
  BY <1>2, <1>4
<1> QED  BY <1>5 DEF a, b

\* The last period of a frame is the largest.
LEMMA LastOfPeriods ==
    ASSUME NEW S, S \subseteq Nat, IsFiniteSet(S), NEW m \in S, \A x \in S : x <= m
    PROVE  Nth(S, Cardinality(S)) = m
<1>1. UpTo(S, m) = S
  BY DEF UpTo
<1> QED  BY <1>1, RankOfNth

\* A frame: bars by ascending day.
Frame(s) ==
    /\ Len(s) \in Nat \ {0} /\ DOMAIN s = 1 .. Len(s)
    /\ \A k \in 1 .. Len(s) : s[k].d \in Nat
    /\ \A j, k \in 1 .. Len(s) : j < k => s[j].d < s[k].d

LEMMA PeriodOf ==
    ASSUME NEW w \in Nat \ {0}, NEW d \in Nat
    PROVE  /\ d \div w \in Nat /\ w * (d \div w) <= d /\ d < w * (d \div w) + w
           /\ \A e \in Nat : d <= e => d \div w <= e \div w
  OBVIOUS

LEMMA PeriodsOfFrame ==
    ASSUME NEW s, Frame(s), NEW w \in Nat \ {0}
    PROVE  /\ Periods(s, w) \subseteq Nat /\ IsFiniteSet(Periods(s, w))
           /\ Cardinality(Periods(s, w)) \in Nat \ {0}
           /\ Last(s) = s[Len(s)]
           /\ Last(s).d \div w \in Periods(s, w)
           /\ \A p \in Periods(s, w) : p <= Last(s).d \div w
<1> DEFINE f == [k \in 1 .. Len(s) |-> s[k].d \div w]
<1>1. Len(s) \in Nat \ {0} /\ DOMAIN s = 1 .. Len(s) /\ Last(s) = s[Len(s)]
  BY DEF Frame, Last
<1>2. \A k \in 1 .. Len(s) : s[k].d \div w \in Nat
  BY PeriodOf DEF Frame
<1>3. Periods(s, w) \subseteq Nat
  BY <1>1, <1>2 DEF Periods
<1>4. IsFiniteSet(Periods(s, w))
  <2>1. IsFiniteSet(1 .. Len(s))
    BY <1>1, FS_Interval
  <2>2. f \in Surjection(1 .. Len(s), Periods(s, w))
    BY <1>1 DEF Surjection, Periods
  <2> HIDE DEF f
  <2> QED  BY <2>1, <2>2, FS_Surjection
<1>5. Last(s).d \div w \in Periods(s, w)
  BY <1>1 DEF Periods
<1>6. Cardinality(Periods(s, w)) \in Nat \ {0}
  BY <1>4, <1>5, FS_CardinalityType, FS_EmptySet
<1>7. ASSUME NEW k \in 1 .. Len(s) PROVE s[k].d \div w <= s[Len(s)].d \div w
  <2>1. s[k].d \in Nat /\ s[Len(s)].d \in Nat /\ s[k].d <= s[Len(s)].d
    BY <1>1 DEF Frame
  <2> QED  BY <2>1, PeriodOf
<1>8. \A p \in Periods(s, w) : p <= Last(s).d \div w
  BY <1>1, <1>7 DEF Periods
<1> QED  BY <1>1, <1>3, <1>4, <1>5, <1>6, <1>8

\* What resampling makes of a frame.
LEMMA ResampleIs ==
    ASSUME NEW s, Frame(s), NEW w \in Nat \ {0}
    PROVE  LET f == Resample(s, w)
               P == Periods(s, w)
           IN  /\ Len(f) = Cardinality(P) /\ DOMAIN f = 1 .. Len(f)
               /\ Last(f) = f[Len(f)] /\ Nth(P, Len(f)) = Last(s).d \div w
               /\ \A n \in 1 .. Len(f) :
                     /\ Nth(P, n) \in P
                     /\ f[n] = Aggregate(s, RowsIn(s, w, Nth(P, n)), Nth(P, n) * w + w - 1)
<1> DEFINE P == Periods(s, w)
           N == Cardinality(P)
           Bars(n) == Aggregate(s, RowsIn(s, w, Nth(P, n)), Nth(P, n) * w + w - 1)
           f == Resample(s, w)
<1>1. /\ P \subseteq Nat /\ IsFiniteSet(P) /\ N \in Nat \ {0}
      /\ Last(s).d \div w \in P /\ \A p \in P : p <= Last(s).d \div w
  BY PeriodsOfFrame
<1>2. f = [n \in 1 .. N |-> Bars(n)]
  BY DEF Resample
<1>3. Nth(P, N) = Last(s).d \div w
  BY <1>1, LastOfPeriods
<1>4. \A n \in 1 .. N : Nth(P, n) \in P
  BY <1>1, NthOfPeriods
<1> HIDE DEF P, Bars, f
<1>5. f \in Seq({Bars(n) : n \in 1 .. N}) /\ Len(f) = N /\ DOMAIN f = 1 .. N
  <2> DEFINE All == {Bars(n) : n \in 1 .. N}
  <2> HIDE DEF N
  <2>1. f \in [1 .. N -> All]
    BY <1>2
  <2> HIDE DEF All
  <2>2. f \in Seq(All)
    BY <1>1, <2>1
  <2>3. DOMAIN f = 1 .. N /\ DOMAIN f = 1 .. Len(f) /\ Len(f) \in Nat
    BY <2>1, <2>2
  <2>4. f \in Seq(All) /\ Len(f) = N /\ DOMAIN f = 1 .. N
    BY <1>1, <2>2, <2>3
  <2> QED  BY <2>4 DEF All
<1>6. \A n \in 1 .. N : f[n] = Bars(n)
  BY <1>2
<1>7. Last(f) = f[Len(f)]
  BY DEF Last
<1>8. /\ Len(f) = N /\ DOMAIN f = 1 .. Len(f) /\ Last(f) = f[Len(f)] /\ Nth(P, Len(f)) = Last(s).d \div w
      /\ \A n \in 1 .. Len(f) : Nth(P, n) \in P /\ f[n] = Bars(n)
  <2> HIDE DEF N
  <2> QED  BY <1>3, <1>4, <1>5, <1>6, <1>7
<1> QED  BY <1>8 DEF P, Bars, f, N

\* The rows of a period of a frame.
LEMMA RowsOf ==
    ASSUME NEW s, Frame(s), NEW w \in Nat \ {0}, NEW p \in Periods(s, w)
    PROVE  /\ RowsIn(s, w, p) \subseteq 1 .. Len(s) /\ RowsIn(s, w, p) # {}
           /\ Min(RowsIn(s, w, p)) \in RowsIn(s, w, p)
           /\ \A k \in RowsIn(s, w, p) : Min(RowsIn(s, w, p)) <= k
<1>1. RowsIn(s, w, p) \subseteq 1 .. Len(s) /\ RowsIn(s, w, p) # {}
  BY DEF RowsIn, Periods, Frame
<1> QED  BY <1>1, Smallest

LEMMA ResampleIsFrame ==
    ASSUME NEW s, Frame(s), NEW w \in Nat \ {0}
    PROVE  Frame(Resample(s, w))
<1> DEFINE f == Resample(s, w)
           P == Periods(s, w)
<1>1. P \subseteq Nat /\ IsFiniteSet(P) /\ Cardinality(P) \in Nat \ {0}
  BY PeriodsOfFrame
<1>2. /\ Len(f) = Cardinality(P) /\ DOMAIN f = 1 .. Len(f)
      /\ \A n \in 1 .. Len(f) :
            Nth(P, n) \in P /\ f[n] = Aggregate(s, RowsIn(s, w, Nth(P, n)), Nth(P, n) * w + w - 1)
  BY ResampleIs
<1>3. \A n \in 1 .. Len(f) : Nth(P, n) \in Nat /\ f[n].d = Nth(P, n) * w + w - 1
  <2> TAKE n \in 1 .. Len(f)
  <2> DEFINE x == Nth(P, n)
             y == RowsIn(s, w, x)
  <2>1. x \in P /\ f[n] = Aggregate(s, y, x * w + w - 1)
    BY <1>2
  <2> HIDE DEF x, y, f
  <2>2. x \in Nat /\ f[n].d = x * w + w - 1
    BY <1>1, <2>1 DEF Aggregate
  <2> QED  BY <2>2 DEF x
<1>4. \A m, n \in 1 .. Len(f) : m < n => Nth(P, m) < Nth(P, n)
  BY <1>1, <1>2, NthAscends
<1> HIDE DEF f, P
<1>5. ASSUME NEW n \in 1 .. Len(f) PROVE f[n].d \in Nat
  <2> DEFINE p == Nth(P, n)
  <2>1. p \in Nat /\ f[n].d = p * w + w - 1
    BY <1>3
  <2> HIDE DEF p
  <2>2. p * w \in Nat
    BY <2>1
  <2> QED  BY <2>1, <2>2
<1>6. ASSUME NEW m \in 1 .. Len(f), NEW n \in 1 .. Len(f), m < n PROVE f[m].d < f[n].d
  <2> DEFINE p == Nth(P, m)
             q == Nth(P, n)
  <2>1. p \in Nat /\ q \in Nat /\ p < q
    BY <1>3, <1>4, <1>6
  <2>2. f[m].d = p * w + w - 1 /\ f[n].d = q * w + w - 1
    BY <1>3
  <2> HIDE DEF p, q
  <2>3. PICK e \in Nat : q = p + 1 + e
    BY <2>1
  <2>4. q * w = p * w + w + e * w /\ p * w \in Nat /\ e * w \in Nat
    BY <2>1, <2>3
  <2> QED  BY <2>2, <2>4
<1>7. Frame(f)
  BY <1>1, <1>2, <1>5, <1>6 DEF Frame
<1> QED  BY <1>7 DEF f

\* The bar under way: it opens with its period's first row.
FirstOf(s, w) == Min({k \in DOMAIN s : s[k].d \div w = Last(s).d \div w})

LEMMA LastBarOf ==
    ASSUME NEW s, Frame(s), NEW w \in Nat \ {0}
    PROVE  /\ Last(Resample(s, w)).o = s[FirstOf(s, w)].o
           /\ Last(Resample(s, w)).d = (Last(s).d \div w) * w + w - 1
<1> DEFINE f == Resample(s, w)
           p == Last(s).d \div w
<1>1. /\ Last(f) = f[Len(f)] /\ Nth(Periods(s, w), Len(f)) = p /\ Len(f) = Cardinality(Periods(s, w))
      /\ \A n \in 1 .. Len(f) : f[n] = Aggregate(s, RowsIn(s, w, Nth(Periods(s, w), n)), Nth(Periods(s, w), n) * w + w - 1)
  BY ResampleIs
<1>2. Len(f) \in 1 .. Len(f)
  BY <1>1, PeriodsOfFrame
<1>3. Last(f) = Aggregate(s, RowsIn(s, w, p), p * w + w - 1)
  BY <1>1, <1>2
<1>4. FirstOf(s, w) = Min(RowsIn(s, w, p))
  BY DEF FirstOf, RowsIn
<1> HIDE DEF f
<1>5. Last(f).o = s[FirstOf(s, w)].o /\ Last(f).d = p * w + w - 1
  BY <1>3, <1>4 DEF Aggregate
<1> QED  BY <1>5 DEF f

LEMMA FirstOfIs ==
    ASSUME NEW s, Frame(s), NEW w \in Nat \ {0}
    PROVE  /\ FirstOf(s, w) \in 1 .. Len(s)
           /\ s[FirstOf(s, w)].d \div w = Last(s).d \div w
           /\ \A k \in 1 .. Len(s) : s[k].d \div w = Last(s).d \div w => FirstOf(s, w) <= k
<1> DEFINE p == Last(s).d \div w
<1>1. p \in Periods(s, w)
  BY PeriodsOfFrame
<1>2. FirstOf(s, w) = Min(RowsIn(s, w, p))
  BY DEF FirstOf, RowsIn
<1>3. FirstOf(s, w) \in RowsIn(s, w, p) /\ \A k \in RowsIn(s, w, p) : FirstOf(s, w) <= k
  BY <1>1, <1>2, RowsOf
<1>4. DOMAIN s = 1 .. Len(s)
  BY DEF Frame
<1> QED  BY <1>3, <1>4 DEF RowsIn

\* A month lies in one period of months, so that its last day is in the period
\* that its rows are in.
LEMMA MonthLiesIn ==
    ASSUME NEW m \in Nat \ {0}, NEW w \in Nat \ {0}, w % m = 0, NEW d \in Nat
    PROVE  ((d \div m) * m + m - 1) \div w = d \div w
<1> DEFINE p == d \div m
           q == d \div w
           t == p * m + m - 1
           x == t \div w
<1>1. PICK a \in Nat \ {0} : w = a * m
  <2> DEFINE b == w \div m
  <2>1. b \in Nat /\ w = m * b + (w % m)
    OBVIOUS
  <2> HIDE DEF b
  <2>2. w = b * m /\ b # 0
    BY <2>1
  <2> QED  BY <2>1, <2>2
<1>2. p \in Nat /\ m * p <= d /\ d < m * p + m
  BY PeriodOf
<1>3. q \in Nat /\ w * q <= d /\ d < w * q + w
  BY PeriodOf
<1> HIDE DEF p, q
<1>4. t \in Nat /\ d <= t
  <2>1. p * m \in Nat /\ p * m = m * p
    BY <1>2
  <2> QED  BY <1>2, <2>1
<1>5. t < w * q + w
  <2> DEFINE z == a * q + a
  <2>1. z \in Nat /\ w * q + w = m * z
    BY <1>1, <1>3
  <2> HIDE DEF z
  <2>2. CASE z <= p
    <3>1. PICK e \in Nat : p = z + e
      BY <2>1, <2>2, <1>2
    <3>2. m * p = m * z + m * e /\ m * e \in Nat /\ m * z \in Nat
      BY <2>1, <3>1
    <3> QED  BY <1>2, <1>3, <2>1, <3>2
  <2>3. CASE z > p
    <3>1. PICK e \in Nat : z = p + 1 + e
      BY <2>1, <2>3, <1>2
    <3>2. m * z = p * m + m + m * e /\ m * e \in Nat /\ p * m \in Nat
      BY <1>2, <3>1
    <3> QED  BY <2>1, <3>2
  <2> QED  BY <1>2, <2>1, <2>2, <2>3
<1>6. x \in Nat /\ w * x <= t /\ t < w * x + w
  BY <1>4, PeriodOf
<1>7. w * q <= t
  <2>1. w * q \in Nat
    BY <1>3
  <2> QED  BY <1>3, <1>4, <2>1
<1> HIDE DEF t, x
<1>8. ASSUME x < q PROVE FALSE
  <2>1. PICK e \in Nat : q = x + 1 + e
    BY <1>3, <1>6, <1>8
  <2>2. w * q = w * x + w + w * e /\ w * e \in Nat /\ w * x \in Nat
    BY <1>6, <2>1
  <2> QED  BY <1>4, <1>6, <1>7, <2>2
<1>9. ASSUME q < x PROVE FALSE
  <2>1. PICK e \in Nat : x = q + 1 + e
    BY <1>3, <1>6, <1>9
  <2>2. w * x = w * q + w + w * e /\ w * e \in Nat /\ w * q \in Nat
    BY <1>3, <2>1
  <2> QED  BY <1>4, <1>5, <1>6, <2>2
<1>10. x = q
  BY <1>3, <1>6, <1>8, <1>9
<1> QED  BY <1>10 DEF x, t, p, q

\* Resampled in two steps, the bar under way still opens with the first row of
\* its period.
LEMMA TwoSteps ==
    ASSUME NEW s, Frame(s), NEW m \in Nat \ {0}, NEW w \in Nat \ {0}, w % m = 0
    PROVE  Last(Resample(Resample(s, m), w)).o = s[FirstOf(s, w)].o
<1> DEFINE f == Resample(s, m)
           P == Periods(s, m)
           q == Last(s).d \div w
           k == FirstOf(s, w)
           p == s[k].d \div m
           n == Cardinality(UpTo(P, p))
<1>1. Frame(f)
  BY ResampleIsFrame
<1>2. /\ P \subseteq Nat /\ IsFiniteSet(P) /\ Last(s) = s[Len(s)] /\ Last(s).d \in Nat
      /\ Len(f) = Cardinality(P)
      /\ \A i \in 1 .. Len(f) :
            Nth(P, i) \in P /\ f[i] = Aggregate(s, RowsIn(s, m, Nth(P, i)), Nth(P, i) * m + m - 1)
  <2>1. P \subseteq Nat /\ IsFiniteSet(P) /\ Last(s) = s[Len(s)]
    BY PeriodsOfFrame
  <2>2. Len(s) \in 1 .. Len(s) /\ s[Len(s)].d \in Nat
    BY DEF Frame
  <2>3. /\ Len(f) = Cardinality(P)
        /\ \A i \in 1 .. Len(f) :
              Nth(P, i) \in P /\ f[i] = Aggregate(s, RowsIn(s, m, Nth(P, i)), Nth(P, i) * m + m - 1)
    BY ResampleIs
  <2> HIDE DEF f, P
  <2> QED  BY <2>1, <2>2, <2>3
<1>3. /\ k \in 1 .. Len(s) /\ s[k].d \in Nat /\ s[k].d \div w = q
      /\ \A j \in 1 .. Len(s) : s[j].d \div w = q => k <= j
  BY FirstOfIs DEF Frame
<1>4. DOMAIN s = 1 .. Len(s) /\ \A i, j \in 1 .. Len(s) : i < j => s[i].d \in Nat /\ s[j].d \in Nat /\ s[i].d < s[j].d
  BY DEF Frame
<1>5. p \in P
  BY <1>3, <1>4 DEF Periods
<1>6. n \in 1 .. Len(f) /\ Nth(P, n) = p
  BY <1>2, <1>5, RanksAscend, RankOfNth
<1> HIDE DEF f, P, k
\* The label of a month tells its period.
<1>7. ASSUME NEW i \in 1 .. Len(f), NEW j \in 1 .. Len(s), s[j].d \div m = Nth(P, i)
      PROVE  f[i].d \div w = s[j].d \div w
  <2> DEFINE x == Nth(P, i)
             y == RowsIn(s, m, x)
  <2>1. f[i] = Aggregate(s, y, x * m + m - 1)
    BY <1>2
  <2> HIDE DEF y
  <2>2. f[i].d = x * m + m - 1
    BY <2>1 DEF Aggregate
  <2>3. s[j].d \in Nat
    BY DEF Frame
  <2>4. ((s[j].d \div m) * m + m - 1) \div w = s[j].d \div w
    BY <2>3, MonthLiesIn
  <2> QED  BY <1>7, <2>2, <2>4
<1>8. Last(f).d \div w = q
  <2>1. Len(f) \in 1 .. Len(f) /\ Last(f) = f[Len(f)] /\ Len(s) \in 1 .. Len(s)
    BY <1>1 DEF Frame, Last
  <2>2. Nth(P, Len(f)) = s[Len(s)].d \div m
    BY <1>2, ResampleIs DEF f, P
  <2> QED  BY <1>2, <1>7, <2>1, <2>2
<1>9. f[n].d \div w = q
  BY <1>3, <1>6, <1>7
<1>10. ASSUME NEW i \in 1 .. Len(f), f[i].d \div w = q PROVE n <= i
  <2>1. PICK j \in 1 .. Len(s) : s[j].d \div m = Nth(P, i)
    BY <1>2, <1>4 DEF P, Periods
  <2>2. s[j].d \div w = q
    BY <1>7, <1>10, <2>1
  <2>3. k <= j
    BY <1>3, <2>2
  <2>4. s[k].d \in Nat /\ s[j].d \in Nat /\ s[k].d <= s[j].d
    BY <1>3, <1>4, <2>3
  <2>5. p <= s[j].d \div m
    BY <2>4, PeriodOf
  <2>6. ASSUME i < n PROVE FALSE
    <3>1. Nth(P, i) < Nth(P, n)
      BY <1>2, <1>6, <2>6, NthAscends
    <3>2. Nth(P, i) \in Nat /\ Nth(P, n) \in Nat
      BY <1>2, <1>6
    <3> QED  BY <1>6, <2>1, <2>5, <3>1, <3>2
  <2> QED  BY <1>6, <2>6
<1>11. FirstOf(f, w) = n
  <2> HIDE DEF n, q
  <2>1. /\ FirstOf(f, w) \in 1 .. Len(f)
        /\ f[FirstOf(f, w)].d \div w = q
        /\ \A i \in 1 .. Len(f) : f[i].d \div w = q => FirstOf(f, w) <= i
    BY <1>1, <1>8, FirstOfIs
  <2>2. FirstOf(f, w) <= n /\ n <= FirstOf(f, w)
    BY <1>6, <1>9, <1>10, <2>1
  <2> QED  BY <1>6, <2>1, <2>2
<1>12. f[n].o = s[Min(RowsIn(s, m, p))].o
  <2> DEFINE y == RowsIn(s, m, p)
  <2>1. f[n] = Aggregate(s, y, p * m + m - 1)
    BY <1>2, <1>6
  <2> HIDE DEF y, n, p
  <2>2. f[n].o = s[Min(y)].o
    BY <2>1 DEF Aggregate
  <2> QED  BY <2>2 DEF y
<1>13. Min(RowsIn(s, m, p)) = k
  <2> DEFINE j == Min(RowsIn(s, m, p))
  <2>1. j \in RowsIn(s, m, p) /\ \A i \in RowsIn(s, m, p) : j <= i
    BY <1>5, RowsOf DEF P
  <2>2. k \in RowsIn(s, m, p)
    BY <1>3, <1>4 DEF RowsIn
  <2> HIDE DEF j
  <2>3. j \in 1 .. Len(s) /\ j <= k /\ s[j].d \div m = p
    BY <1>4, <2>1, <2>2 DEF RowsIn
  <2>4. s[j].d \in Nat
    BY <2>3 DEF Frame
  <2>5. s[j].d \div w = s[k].d \div w
    <3>1. ((s[k].d \div m) * m + m - 1) \div w = s[k].d \div w
      BY <1>3, MonthLiesIn
    <3>2. ((s[j].d \div m) * m + m - 1) \div w = s[j].d \div w
      BY <2>4, MonthLiesIn
    <3> QED  BY <2>3, <3>1, <3>2
  <2>6. k <= j
    BY <1>3, <2>3, <2>5
  <2>7. j = k
    BY <1>3, <2>3, <2>6
  <2> QED  BY <2>7 DEF j
<1>14. Last(Resample(f, w)).o = f[FirstOf(f, w)].o
  BY <1>1, LastBarOf
<1> HIDE DEF n, p
<1>15. Last(Resample(f, w)).o = s[k].o
  BY <1>11, <1>12, <1>13, <1>14
<1> QED  BY <1>15 DEF f, k

\* Cut to a span, a frame keeps its last bar.
LEMMA SliceKeepsTheLast ==
    ASSUME NEW s, Frame(s), NEW span \in Nat
    PROVE  Last(SlicePeriod(s, span)) = Last(s)
<1> DEFINE tail == {k \in DOMAIN s : s[k].d >= Last(s).d - span}
           All == {s[k] : k \in 1 .. Len(s)}
<1>1. Len(s) \in Nat \ {0} /\ DOMAIN s = 1 .. Len(s) /\ Last(s) = s[Len(s)] /\ Last(s).d \in Nat
  BY DEF Frame, Last
<1>2. Len(s) \in tail /\ tail \subseteq Nat
  BY <1>1
<1> HIDE DEF tail
<1>3. Min(tail) \in tail /\ Min(tail) <= Len(s)
  BY <1>2, Smallest
<1>4. Min(tail) \in 1 .. Len(s)
  BY <1>1, <1>3 DEF tail
<1> DEFINE from == Min(tail)
           t == SubSeq(s, from, Len(s))
<1>5. \A k \in from .. Len(s) : s[k] \in All
  BY <1>1, <1>4
<1>6. from \in 1 .. Len(s)
  BY <1>4
<1> HIDE DEF All, from
<1>7. t \in Seq(All) /\ Len(t) = Len(s) - from + 1 /\ t[Len(s) - from + 1] = s[Len(s)]
  BY <1>1, <1>5, <1>6
<1>8. Last(t) = Last(s)
  BY <1>1, <1>7 DEF Last
<1> QED  BY <1>8 DEF SlicePeriod, from, tail

-----------------------------------------------------------------------------
(***************************************************************************)
(* What advice rests on.                                                   *)
(***************************************************************************)
Dates == /\ Len(bars) <= Len(Trades)
         /\ \A k \in 1 .. Len(bars) : bars[k].d = Trades[k]
         /\ nymo \in Seq(Int \cup {Unknown}) /\ nymo # <<>>

LEMMA StartsDated == Init => Dates
<1> SUFFICES ASSUME Init PROVE Dates
  OBVIOUS
<1>1. PICK b \in Close :
        /\ bars = <<[d |-> Trades[1], o |-> b.o, h |-> b.h, l |-> b.l, c |-> b.c, v |-> b.v]>>
        /\ nymo = <<b.nymo>>
  BY DEF Init
<1>2. b.nymo \in Int \cup {Unknown}
  BY TradingAssumption
<1>3. Len(Trades) \in Nat \ {0}
  BY TradingAssumption
<1>4. Len(bars) = 1 /\ bars[1].d = Trades[1]
  BY <1>1
<1>5. nymo \in Seq(Int \cup {Unknown}) /\ nymo # <<>>
  BY <1>1, <1>2
<1> QED  BY <1>3, <1>4, <1>5 DEF Dates

LEMMA StepIsDated == Series /\ Dates /\ [Next]_tradingVars => Dates'
<1> SUFFICES ASSUME Series, Dates, [Next]_tradingVars PROVE Dates'
  OBVIOUS
<1>1. CASE Next
  <2>1. PICK b \in Close, condition \in {"neutral", "unfavorable"} : Session(b, condition)
    BY <1>1 DEF Next
  <2>2. /\ bars' = Append(bars, Added(b)) /\ Len(bars) \in Nat \ {0} /\ Len(bars') = Len(bars) + 1
        /\ \A k \in 1 .. Len(bars) : bars'[k] = bars[k] /\ bars[k] \in Bar
        /\ Last(bars') = Added(b) /\ Added(b) \in Bar
    BY <2>1, SessionAppends
  <2>3. Len(bars) < Len(Trades) /\ Len(Trades) \in Nat /\ nymo' = Append(nymo, b.nymo)
    BY <2>1, TradingAssumption DEF Session
  <2>4. b.nymo \in Int \cup {Unknown}
    BY TradingAssumption
  <2>5. nymo' \in Seq(Int \cup {Unknown}) /\ nymo' # <<>>
    BY <2>3, <2>4 DEF Dates
  <2>6. bars'[Len(bars) + 1].d = Trades[Len(bars) + 1]
    <3>1. bars'[Len(bars) + 1] = Added(b)
      BY <2>2 DEF Last
    <3> QED  BY <3>1 DEF Added
  <2>7. \A k \in 1 .. Len(bars') : bars'[k].d = Trades[k]
    <3> TAKE k \in 1 .. Len(bars')
    <3>1. k \in 1 .. Len(bars) \/ k = Len(bars) + 1
      BY <2>2
    <3> QED  BY <2>2, <2>6, <3>1 DEF Dates
  <2> QED  BY <2>2, <2>3, <2>5, <2>7 DEF Dates
<1>2. CASE UNCHANGED tradingVars
  BY <1>2 DEF tradingVars, Dates
<1> QED  BY <1>1, <1>2

LEMMA BarsAreAFrame ==
    ASSUME Series, Dates
    PROVE  Frame(bars)
<1>1. bars \in Seq(Bar) /\ Len(bars) \in Nat \ {0} /\ DOMAIN bars = 1 .. Len(bars)
  BY DEF Series
<1>2. \A k \in 1 .. Len(bars) : bars[k].d \in Nat
  <2> TAKE k \in 1 .. Len(bars)
  <2>1. bars[k] \in Bar
    BY <1>1
  <2> QED  BY <2>1 DEF Bar
<1>3. \A j, k \in 1 .. Len(bars) : j < k => bars[j].d < bars[k].d
  <2> TAKE j, k \in 1 .. Len(bars)
  <2>1. Trades \in Seq(Nat) /\ DOMAIN Trades = 1 .. Len(Trades) /\ Len(Trades) \in Nat
    BY TradingAssumption
  <2>2. j \in DOMAIN Trades /\ k \in DOMAIN Trades
    BY <1>1, <2>1 DEF Dates
  <2> QED  BY <2>2, TradingAssumption DEF Dates
<1> QED  BY <1>1, <1>2, <1>3 DEF Frame

Framed == Frame(bars)

LEMMA FramesHold == Spec => [](Series /\ Dates /\ Framed)
<1>1. Series /\ Dates => Framed
  BY BarsAreAFrame DEF Framed
<1> QED  BY <1>1, SeriesHolds, StartsDated, StepIsDated, PTL DEF Spec

\* The frames of the chart end in the bars whose opens are those of the periods.
LEMMA FramesOpen ==
    ASSUME NEW s, Frame(s)
    PROVE  LET h == PriceHistory(s) IN
           /\ Last(h.daily) = Last(s)
           /\ Last(h.weekly).o = s[FirstOf(s, Week)].o
           /\ Last(h.monthly).o = s[FirstOf(s, Month)].o
           /\ Last(h.quarterly).o = s[FirstOf(s, Quarter)].o
           /\ Last(h.yearly).o = s[FirstOf(s, Year)].o
<1>1. /\ Week \in Nat \ {0} /\ Month \in Nat \ {0} /\ Quarter \in Nat \ {0} /\ Year \in Nat \ {0}
      /\ Quarter % Month = 0 /\ Year % Month = 0
      /\ DailySpan \in Nat /\ WeeklySpan \in Nat /\ MonthlySpan \in Nat
  BY StratAssumption
<1> DEFINE weeks == Resample(s, Week)
           months == Resample(s, Month)
<1>2. Frame(weeks) /\ Frame(months)
  BY <1>1, ResampleIsFrame
<1>3. Last(weeks).o = s[FirstOf(s, Week)].o /\ Last(months).o = s[FirstOf(s, Month)].o
  BY <1>1, LastBarOf
<1>4. /\ Last(Resample(months, Quarter)).o = s[FirstOf(s, Quarter)].o
      /\ Last(Resample(months, Year)).o = s[FirstOf(s, Year)].o
  BY <1>1, TwoSteps
<1> HIDE DEF weeks, months
<1>5. /\ Last(SlicePeriod(s, DailySpan)) = Last(s)
      /\ Last(SlicePeriod(weeks, WeeklySpan)) = Last(weeks)
      /\ Last(SlicePeriod(months, MonthlySpan)) = Last(months)
  BY <1>1, <1>2, SliceKeepsTheLast
<1>6. PriceHistory(s) = [daily     |-> SlicePeriod(s, DailySpan),
                         weekly    |-> SlicePeriod(weeks, WeeklySpan),
                         monthly   |-> SlicePeriod(months, MonthlySpan),
                         quarterly |-> Resample(months, Quarter),
                         yearly    |-> Resample(months, Year)]
  BY DEF PriceHistory, weeks, months
<1> QED  BY <1>3, <1>4, <1>5, <1>6

\* What The Strat says of continuity is a comparison of the last sale with the
\* opens of the four frames.
LastOpens(h) == {Last(h.weekly).o, Last(h.monthly).o, Last(h.quarterly).o, Last(h.yearly).o}
Compares(status, sale, opens) ==
    /\ status = "full_bullish" => \A o \in opens : sale > o
    /\ status = "full_bearish" => \A o \in opens : ~ (sale > o)
    /\ status = "conflict" => (\E o \in opens : sale > o) /\ (\E o \in opens : ~ (sale > o))

LEMMA StatusCompares ==
    ASSUME NEW h
    PROVE  Compares(StratRun(h).status, Last(h.daily).c, LastOpens(h))
<1> DEFINE sale == Last(h.daily).c
           opens == LastOpens(h)
<1> DEFINE status == Tfc(Last(h.daily).c, {h[f] : f \in Frames})
           short == \E f \in DOMAIN h : Len(h[f]) < 2
           side == CASE status = "full_bullish" -> Long \cup Either
                     [] status = "full_bearish" -> Short \cup Either
                     [] OTHER                   -> Long \cup Short \cup Either
           sequence == [f \in DOMAIN h |->
                          LET seq == ClassifyBars(h[f])
                          IN  SubSeq(seq, IF Len(seq) > 5 THEN Len(seq) - 4 ELSE 1, Len(seq))]
           setups == {s \in Frames \X side : s[2] \in DetectPatterns(h[s[1]])}
           notable == DailyNotable(h.daily)
<1>1. StratRun(h) = IF short THEN [status |-> "insufficient"]
                    ELSE [status |-> status, sequence |-> sequence, setups |-> setups, notable |-> notable]
  BY DEF StratRun
<1> HIDE DEF side, sequence, setups, notable, short, status
<1>2. StratRun(h).status = IF short THEN "insufficient" ELSE status
  BY <1>1
<1> DEFINE colors == {IF sale > Last(f).o THEN "green" ELSE "red" : f \in {h[g] : g \in Frames}}
<1>3. status = IF colors = {"green"} THEN "full_bullish"
               ELSE IF colors = {"red"} THEN "full_bearish" ELSE "conflict"
  BY DEF status, Tfc
<1>4. /\ "green" \in colors <=> \E o \in opens : sale > o
      /\ "red" \in colors <=> \E o \in opens : ~ (sale > o)
      /\ colors \subseteq {"green", "red"}
  <2>1. \A c : c \in colors <=> \E o \in opens : c = IF sale > o THEN "green" ELSE "red"
    BY DEF Frames, LastOpens
  <2> HIDE DEF colors, opens
  <2> QED  BY <2>1
<1>5. opens # {}
  BY DEF LastOpens
<1> HIDE DEF colors, opens, sale
<1> DEFINE result == StratRun(h).status
           above == \E o \in opens : sale > o
           below == \E o \in opens : ~ (sale > o)
<1>6. result \in {"insufficient", status}
  BY <1>2
<1>7. above \/ below
  BY <1>5
<1>8. status = IF above /\ ~ below THEN "full_bullish" ELSE IF below /\ ~ above THEN "full_bearish" ELSE "conflict"
  <2>1. ("green" \in colors <=> above) /\ ("red" \in colors <=> below)
    BY <1>4
  <2>0. colors \subseteq {"green", "red"} /\ (above \/ below)
    BY <1>4, <1>7
  <2> HIDE DEF above, below, status
  <2>2. colors = {"green"} <=> above /\ ~ below
    <3>1. colors = {"green"} => "green" \in colors /\ "red" \notin colors
      OBVIOUS
    <3>2. "green" \in colors /\ "red" \notin colors => colors = {"green"}
      BY <2>0
    <3> QED  BY <2>1, <3>1, <3>2
  <2>3. colors = {"red"} <=> below /\ ~ above
    <3>1. colors = {"red"} => "red" \in colors /\ "green" \notin colors
      OBVIOUS
    <3>2. "red" \in colors /\ "green" \notin colors => colors = {"red"}
      BY <2>0
    <3> QED  BY <2>1, <3>1, <3>2
  <2> QED  BY <1>3, <2>2, <2>3
<1>9. /\ result = "full_bullish" => ~ below
      /\ result = "full_bearish" => ~ above
      /\ result = "conflict" => above /\ below
  <2> HIDE DEF above, below, result, status
  <2> QED  BY <1>6, <1>7, <1>8
<1> QED  BY <1>9 DEF Compares, sale, opens

\* Above +40 an add rests on a recovery, whatever the gap and the PEG.
LEMMA AddingHighNeedsARecovery ==
    ASSUME NEW readings, readings \in Seq(Int \cup {Unknown}), readings # <<>>,
           NEW gap, NEW peg,
           FlowRun(readings, <<>>, gap, peg).recommendation = "BUY_MORE", Last(readings) > 40
    PROVE  \E k \in DOMAIN readings : readings[k] # Unknown /\ readings[k] <= -60
<1> DEFINE now == Last(readings)
           d == Decide(now, readings, FALSE, gap)
           signal == ClassifyLevel(now)
           crossed == Len(HistoryValues(readings)) >= 2
                        /\ HistoryValues(readings)[Len(HistoryValues(readings)) - 1] > 0 /\ now < 0
           rest == IF signal = "overbought"
                   THEN IF gap.score >= 0 /\ gap.up /\ gap.exhaustion
                        THEN Verdict("START_SELLING", "high") ELSE Verdict("TRIM", "medium")
                   ELSE IF now > 40 THEN Verdict("AVOID_ADD", "medium")
                   ELSE IF crossed THEN Verdict("WATCH", "medium")
                   ELSE Verdict("HOLD", "low")
<1>1. FlowRun(readings, <<>>, gap, peg) = IF /\ peg >= 4 /\ now # Unknown /\ now < 40
                                             /\ d.recommendation = "HOLD"
                                          THEN Verdict("WATCH", "medium") ELSE d
  BY DEF FlowRun
<1>2. d = IF now = Unknown THEN Verdict("HOLD", "low")
          ELSE IF signal \in Extreme THEN Verdict("BUY_MORE", "high")
          ELSE IF signal = "oversold"
               THEN Verdict("BUY_MORE", IF ~gap.up /\ gap.score >= 3 THEN "high" ELSE "medium")
          ELSE IF Recovered(readings, now) THEN Verdict("BUY_MORE", "medium")
          ELSE rest
  BY DEF Decide
<1> HIDE DEF d, crossed
<1>3. d.recommendation = "BUY_MORE"
  BY <1>1 DEF Verdict
<1>4. now # Unknown
  BY <1>2, <1>3 DEF Verdict
<1>5. now \in Int /\ now > 40
  <2>1. now \in Int \cup {Unknown}
    BY DEF Last
  <2> QED  BY <1>4, <2>1
<1> HIDE DEF now
<1>6. signal \in {"bullish_momentum", "overbought"}
  <2>1. /\ ~ (now <= -100) /\ now \notin -99 .. -80 /\ now \notin -79 .. -60 /\ now \notin -59 .. -40
        /\ now \notin -39 .. -1 /\ now \notin 0 .. 20
        /\ now \in 21 .. 60 \/ now > 60
        /\ now \in 21 .. 60 => ~ (now > 60)
    BY <1>5
  <2>2. CASE now \in 21 .. 60
    <3>1. signal = "bullish_momentum"
      BY <1>4, <2>1, <2>2 DEF ClassifyLevel
    <3> QED  BY <3>1
  <2>3. CASE now > 60 /\ now \notin 21 .. 60
    <3>1. signal = "overbought"
      BY <1>4, <2>1, <2>3 DEF ClassifyLevel
    <3> QED  BY <3>1
  <2> QED  BY <2>1, <2>2, <2>3
<1>7. rest.recommendation # "BUY_MORE"
  BY <1>5 DEF Verdict
<1> HIDE DEF rest, signal
<1>8. Recovered(readings, now)
  BY <1>2, <1>3, <1>4, <1>6, <1>7 DEF Extreme
<1> QED  BY <1>8 DEF Recovered, ToSet

\* What is advised rests on the series: continuity read off frames resampled in
\* one step or two and cut to a span compares the last close with the opens of the
\* periods under way, and an add above +40 rests on a reading of -60 or below
\* (the_strat._tfc on price.get_price_history; market_flow.run).
THEOREM AdviceIsGrounded == Spec => []AdviceHasGrounds
<1>1. ASSUME Series, Dates, Framed PROVE AdviceHasGrounds
  <2> DEFINE sale == Last(bars).c
             opens == {Opening(width) : width \in {Week, Month, Quarter, Year}}
             h == PriceHistory(bars)
             lasts == LastOpens(h)
  <2>1. Frame(bars)
    BY <1>1 DEF Framed
  <2>2. Last(h.daily) = Last(bars) /\ opens = lasts
    <3>1. /\ Last(h.daily) = Last(bars)
          /\ Last(h.weekly).o = Opening(Week) /\ Last(h.monthly).o = Opening(Month)
          /\ Last(h.quarterly).o = Opening(Quarter) /\ Last(h.yearly).o = Opening(Year)
      BY <2>1, FramesOpen DEF Opening, FirstOf
    <3>2. opens = {Opening(Week), Opening(Month), Opening(Quarter), Opening(Year)}
      OBVIOUS
    <3> HIDE DEF h, opens
    <3> QED  BY <3>1, <3>2 DEF LastOpens
  <2>3. sale \in Nat /\ \A o \in opens : o \in Nat
    <3>1. bars \in Seq(Bar) /\ Len(bars) \in 1 .. Len(bars) /\ Last(bars) = bars[Len(bars)]
      BY <1>1 DEF Series, Last
    <3>2. \A w \in {Week, Month, Quarter, Year} : FirstOf(bars, w) \in 1 .. Len(bars)
      BY <2>1, FirstOfIs, StratAssumption
    <3>3. \A k \in 1 .. Len(bars) : bars[k].o \in Nat /\ bars[k].c \in Nat
      <4> TAKE k \in 1 .. Len(bars)
      <4>1. bars[k] \in Bar
        BY <3>1
      <4> QED  BY <4>1 DEF Bar
    <3>4. \A w \in {Week, Month, Quarter, Year} : Opening(w) \in Nat
      <4> TAKE w \in {Week, Month, Quarter, Year}
      <4>1. Opening(w) = bars[FirstOf(bars, w)].o
        BY DEF Opening, FirstOf
      <4> QED  BY <3>2, <3>3, <4>1
    <3> QED  BY <3>1, <3>3, <3>4
  <2>4. Compares(StratRun(h).status, sale, lasts)
    BY <2>2, StatusCompares
  <2>5. Setup = StratRun(h)
    BY DEF Setup, Chart
  <2>6. Flow.recommendation = "BUY_MORE" /\ Last(nymo) > 40 =>
           \E k \in DOMAIN nymo : nymo[k] # Unknown /\ nymo[k] <= -60
    BY <1>1, AddingHighNeedsARecovery DEF Flow, Dates
  <2> HIDE DEF h, lasts, sale, opens
  <2>7. /\ Setup.status = "full_bullish" => \A o \in opens : sale > o
        /\ Setup.status = "full_bearish" => \A o \in opens : sale <= o
        /\ Setup.status = "conflict" => (\E o \in opens : sale > o) /\ (\E o \in opens : sale <= o)
    BY <2>2, <2>3, <2>4, <2>5 DEF Compares
  <2> QED  BY <2>6, <2>7 DEF AdviceHasGrounds, sale, opens
<1> QED  BY <1>1, FramesHold, PTL

-----------------------------------------------------------------------------
(***************************************************************************)
(* The open bar.  A session that starts no period joins the last one: the  *)
(* bar before is what it was, and the last one reaches at least as far.    *)
(***************************************************************************)
Highs(s, rows) == {s[k].h : k \in rows}
Lows(s, rows) == {s[k].l : k \in rows}

LEMMA RangeOfRows ==
    ASSUME NEW s \in Seq(Bar), NEW rows, rows \subseteq 1 .. Len(s), rows # {}
    PROVE  /\ Highs(s, rows) \subseteq Nat /\ Lows(s, rows) \subseteq Nat
           /\ Max(Highs(s, rows)) \in Highs(s, rows) /\ \A x \in Highs(s, rows) : x <= Max(Highs(s, rows))
           /\ Min(Lows(s, rows)) \in Lows(s, rows) /\ \A x \in Lows(s, rows) : Min(Lows(s, rows)) <= x
<1>1. Len(s) \in Nat /\ \A k \in 1 .. Len(s) : s[k].h \in Nat /\ s[k].l \in Nat
  <2>1. Len(s) \in Nat /\ \A k \in 1 .. Len(s) : s[k] \in Bar
    OBVIOUS
  <2> QED  BY <2>1 DEF Bar
<1>2. Highs(s, rows) \subseteq Nat /\ Lows(s, rows) \subseteq Nat
  BY <1>1 DEF Highs, Lows
<1>3. Highs(s, rows) # {} /\ Lows(s, rows) # {}
  BY DEF Highs, Lows
<1> DEFINE f == [k \in 1 .. Len(s) |-> s[k].h]
<1>4. PICK b \in Nat : \A k \in 1 .. Len(s) : s[k].h <= b
  <2>1. \A k \in 1 .. Len(s) : f[k] = s[k].h /\ f[k] \in Nat
    BY <1>1
  <2> HIDE DEF f
  <2>2. \E b \in Nat : \A k \in 1 .. Len(s) : f[k] <= b
    BY <1>1, <2>1, Bounded
  <2> QED  BY <2>1, <2>2
<1>5. Highs(s, rows) \subseteq 0 .. b
  BY <1>1, <1>4 DEF Highs
<1>6. Max(Highs(s, rows)) \in Highs(s, rows) /\ \A x \in Highs(s, rows) : x <= Max(Highs(s, rows))
  BY <1>3, <1>5, Largest
<1>7. Min(Lows(s, rows)) \in Lows(s, rows) /\ \A x \in Lows(s, rows) : Min(Lows(s, rows)) <= x
  BY <1>2, <1>3, Smallest
<1> QED  BY <1>2, <1>6, <1>7

\* A series and the same with a row more in the last period.
LEMMA RowJoinsTheLastPeriod ==
    ASSUME NEW s \in Seq(Bar), NEW t \in Seq(Bar), Frame(s), Frame(t), Len(t) = Len(s) + 1,
           \A k \in 1 .. Len(s) : t[k] = s[k],
           NEW w \in Nat \ {0}, Cardinality(Periods(t, w)) = Cardinality(Periods(s, w))
    PROVE  LET last == Last(s).d \div w IN
           /\ Periods(t, w) = Periods(s, w) /\ Last(t).d \div w = last
           /\ \A x \in Periods(s, w) \ {last} : RowsIn(t, w, x) = RowsIn(s, w, x)
           /\ RowsIn(s, w, last) \subseteq RowsIn(t, w, last)
<1> DEFINE P == Periods(s, w)
           Q == Periods(t, w)
           new == t[Len(t)].d \div w
<1>1. /\ DOMAIN s = 1 .. Len(s) /\ DOMAIN t = 1 .. Len(t) /\ Len(s) \in Nat \ {0}
      /\ Last(s) = s[Len(s)] /\ Last(t) = t[Len(t)]
  BY DEF Frame, Last
<1>2. /\ P \subseteq Nat /\ IsFiniteSet(P) /\ Cardinality(P) \in Nat
      /\ Last(s).d \div w \in P /\ \A x \in P : x <= Last(s).d \div w
  BY PeriodsOfFrame
<1>3. Q = P \cup {new}
  <2>1. \A k \in 1 .. Len(t) : k = Len(t) \/ (k \in 1 .. Len(s) /\ t[k] = s[k])
    BY <1>1
  <2>2. Q \subseteq P \cup {new}
    BY <1>1, <2>1 DEF Periods
  <2>3. P \subseteq Q
    <3>1. \A k \in 1 .. Len(s) : k \in 1 .. Len(t) /\ t[k] = s[k]
      BY <1>1
    <3> QED  BY <1>1, <3>1 DEF Periods
  <2>4. new \in Q
    BY <1>1 DEF Periods
  <2> QED  BY <2>2, <2>3, <2>4
<1>4. new \in P /\ Q = P
  <2> HIDE DEF P, Q, new
  <2>1. Cardinality(Q) = IF new \in P THEN Cardinality(P) ELSE Cardinality(P) + 1
    BY <1>2, <1>3, FS_AddElement
  <2>2. Cardinality(Q) = Cardinality(P)
    BY DEF P, Q
  <2>3. new \in P
    BY <1>2, <2>1, <2>2
  <2> QED  BY <1>3, <2>3
<1>5. new = Last(s).d \div w
  <2>1. Last(s).d \in Nat /\ t[Len(t)].d \in Nat /\ Last(s).d <= t[Len(t)].d
    <3>1. Len(s) \in 1 .. Len(t) /\ Len(t) \in 1 .. Len(t) /\ Len(s) < Len(t) /\ t[Len(s)] = s[Len(s)]
      BY <1>1
    <3>2. t[Len(s)].d \in Nat /\ t[Len(t)].d \in Nat /\ t[Len(s)].d < t[Len(t)].d
      BY <3>1 DEF Frame
    <3> QED  BY <1>1, <3>1, <3>2
  <2>2. Last(s).d \div w <= new
    BY <2>1, PeriodOf
  <2> HIDE DEF new
  <2>3. new <= Last(s).d \div w /\ new \in Nat /\ Last(s).d \div w \in Nat
    BY <1>2, <1>4
  <2> QED  BY <2>2, <2>3
<1>6. ASSUME NEW x \in P, x # Last(s).d \div w PROVE RowsIn(t, w, x) = RowsIn(s, w, x)
  <2>1. \A k \in 1 .. Len(t) : k = Len(t) \/ (k \in 1 .. Len(s) /\ t[k] = s[k])
    BY <1>1
  <2>2. \A k \in 1 .. Len(s) : k \in 1 .. Len(t) /\ t[k] = s[k]
    BY <1>1
  <2>3. Len(t) \notin RowsIn(t, w, x)
    BY <1>5, <1>6 DEF RowsIn
  <2> QED  BY <1>1, <2>1, <2>2, <2>3 DEF RowsIn
<1>7. RowsIn(s, w, Last(s).d \div w) \subseteq RowsIn(t, w, Last(s).d \div w)
  <2>1. \A k \in 1 .. Len(s) : k \in 1 .. Len(t) /\ t[k] = s[k]
    BY <1>1
  <2> QED  BY <1>1, <2>1 DEF RowsIn
<1> QED  BY <1>1, <1>4, <1>5, <1>6, <1>7

\* What has become of the two newest bars of a frame.
LEMMA OpenBarReachesFurther ==
    ASSUME NEW s \in Seq(Bar), NEW t \in Seq(Bar), Frame(s), Frame(t), Len(t) = Len(s) + 1,
           \A k \in 1 .. Len(s) : t[k] = s[k],
           NEW w \in Nat \ {0}, NEW n, n = Len(Resample(s, w)), n = Len(Resample(t, w)), n >= 2
    PROVE  LET f == Resample(s, w)
               g == Resample(t, w)
           IN  /\ n \in Nat /\ {f[n].h, g[n].h, f[n].l, g[n].l, f[n - 1].h, f[n - 1].l} \subseteq Nat
               /\ g[n - 1].h = f[n - 1].h /\ g[n - 1].l = f[n - 1].l
               /\ g[n].h >= f[n].h /\ g[n].l <= f[n].l
<1> DEFINE f == Resample(s, w)
           g == Resample(t, w)
           P == Periods(s, w)
           last == Last(s).d \div w
           prior == Nth(P, n - 1)
<1>1. /\ P \subseteq Nat /\ IsFiniteSet(P) /\ n = Cardinality(P) /\ n \in Nat
      /\ Nth(P, n) = last /\ last \in P
      /\ \A i \in 1 .. n : f[i] = Aggregate(s, RowsIn(s, w, Nth(P, i)), Nth(P, i) * w + w - 1)
  <2>1. P \subseteq Nat /\ IsFiniteSet(P) /\ Cardinality(P) \in Nat /\ last \in P
    BY PeriodsOfFrame
  <2>2. /\ Len(f) = Cardinality(P) /\ Nth(P, Len(f)) = last
        /\ \A i \in 1 .. Len(f) : f[i] = Aggregate(s, RowsIn(s, w, Nth(P, i)), Nth(P, i) * w + w - 1)
    BY ResampleIs
  <2>3. Len(f) = n
    OBVIOUS
  <2> HIDE DEF f, P, last
  <2> QED  BY <2>1, <2>2, <2>3
<1>2. /\ n = Cardinality(Periods(t, w))
      /\ \A i \in 1 .. n : g[i] = Aggregate(t, RowsIn(t, w, Nth(Periods(t, w), i)), Nth(Periods(t, w), i) * w + w - 1)
  BY ResampleIs
<1>3. /\ Periods(t, w) = P /\ RowsIn(s, w, last) \subseteq RowsIn(t, w, last)
      /\ \A x \in P \ {last} : RowsIn(t, w, x) = RowsIn(s, w, x)
  <2>1. Cardinality(Periods(t, w)) = Cardinality(P)
    BY <1>1, <1>2
  <2> QED  BY <2>1, RowJoinsTheLastPeriod
<1>4. n \in 1 .. n /\ n - 1 \in 1 .. n /\ n - 1 < n
  BY <1>1
<1>5. prior \in P /\ prior # last
  <2>1. Nth(P, n - 1) < Nth(P, n) /\ Nth(P, n - 1) \in P
    BY <1>1, <1>4, NthAscends, NthOfPeriods
  <2>2. Nth(P, n - 1) \in Nat /\ Nth(P, n) \in Nat
    BY <1>1, <2>1
  <2> QED  BY <1>1, <2>1, <2>2
<1> DEFINE old == RowsIn(s, w, last)
           all == RowsIn(t, w, last)
           before == RowsIn(s, w, prior)
<1>6. /\ old \subseteq 1 .. Len(s) /\ old # {} /\ before \subseteq 1 .. Len(s) /\ before # {}
      /\ all \subseteq 1 .. Len(t) /\ all # {} /\ old \subseteq all /\ RowsIn(t, w, prior) = before
  <2>1. last \in Periods(t, w) /\ prior \in P /\ last \in P
    BY <1>1, <1>3, <1>5
  <2> HIDE DEF P, last, prior
  <2>2. RowsIn(s, w, last) \subseteq 1 .. Len(s) /\ RowsIn(s, w, last) # {}
    BY <2>1, RowsOf DEF P
  <2>3. RowsIn(s, w, prior) \subseteq 1 .. Len(s) /\ RowsIn(s, w, prior) # {}
    BY <2>1, RowsOf DEF P
  <2>4. RowsIn(t, w, last) \subseteq 1 .. Len(t) /\ RowsIn(t, w, last) # {}
    BY <2>1, RowsOf
  <2> QED  BY <1>3, <1>5, <2>2, <2>3, <2>4
<1>7. /\ f[n] = Aggregate(s, old, last * w + w - 1) /\ g[n] = Aggregate(t, all, last * w + w - 1)
      /\ f[n - 1] = Aggregate(s, before, prior * w + w - 1)
      /\ g[n - 1] = Aggregate(t, before, prior * w + w - 1)
  BY <1>1, <1>2, <1>3, <1>4, <1>6
<1> HIDE DEF f, g, last, prior, old, all, before
<1>8. /\ f[n].h = Max(Highs(s, old)) /\ f[n].l = Min(Lows(s, old))
      /\ g[n].h = Max(Highs(t, all)) /\ g[n].l = Min(Lows(t, all))
      /\ f[n - 1].h = Max(Highs(s, before)) /\ f[n - 1].l = Min(Lows(s, before))
      /\ g[n - 1].h = Max(Highs(t, before)) /\ g[n - 1].l = Min(Lows(t, before))
  BY <1>7 DEF Aggregate, Highs, Lows
<1>9. Highs(t, before) = Highs(s, before) /\ Lows(t, before) = Lows(s, before)
  BY <1>6 DEF Highs, Lows
<1>10. Highs(s, old) \subseteq Highs(t, all) /\ Lows(s, old) \subseteq Lows(t, all)
  <2>1. \A k \in old : k \in all /\ t[k] = s[k]
    BY <1>6
  <2> QED  BY <2>1 DEF Highs, Lows
<1>11. /\ f[n].h \in Nat /\ f[n].l \in Nat /\ f[n].h \in Highs(s, old) /\ f[n].l \in Lows(s, old)
       /\ f[n - 1].h \in Nat /\ f[n - 1].l \in Nat
  BY <1>6, <1>8, RangeOfRows
<1>12. /\ g[n].h \in Nat /\ g[n].l \in Nat
       /\ \A x \in Highs(t, all) : x <= g[n].h
       /\ \A x \in Lows(t, all) : g[n].l <= x
  BY <1>6, <1>8, RangeOfRows
<1>13. g[n].h >= f[n].h /\ g[n].l <= f[n].l
  BY <1>10, <1>11, <1>12
<1>14. g[n - 1].h = f[n - 1].h /\ g[n - 1].l = f[n - 1].l
  BY <1>8, <1>9
<1> QED  BY <1>1, <1>11, <1>12, <1>13, <1>14 DEF f, g

\* Classified again after every session, the bar of an open period goes from 1
\* to 2 and from 2 to 3, never back (the_strat.bar_type on price._resample).
THEOREM OpenBarWidens == Spec => OpenBarOnlyWidens
<1> DEFINE Widens == \A width \in {Week, Month, Quarter, Year} :
          \A f \in {Resample(bars, width)}, g \in {Resample(bars', width)} :
              Len(f) = Len(g) /\ Len(f) >= 2 =>
                  <<BarType(f, Len(f)), BarType(g, Len(g))>> \in Wider
<1>1. ASSUME Series, Framed, Framed', Next PROVE Widens
  <2>1. PICK b \in Close, condition \in {"neutral", "unfavorable"} : Session(b, condition)
    BY <1>1 DEF Next
  <2>2. /\ bars \in Seq(Bar) /\ bars' \in Seq(Bar) /\ Len(bars') = Len(bars) + 1
        /\ \A k \in 1 .. Len(bars) : bars'[k] = bars[k]
    BY <1>1, <2>1, SessionAppends DEF Series
  <2>3. Frame(bars) /\ Frame(bars')
    BY <1>1 DEF Framed
  <2> SUFFICES ASSUME NEW width \in {Week, Month, Quarter, Year},
                      Len(Resample(bars, width)) = Len(Resample(bars', width)),
                      Len(Resample(bars, width)) >= 2
               PROVE  <<BarType(Resample(bars, width), Len(Resample(bars, width))),
                        BarType(Resample(bars', width), Len(Resample(bars', width)))>> \in Wider
    OBVIOUS
  <2> DEFINE f == Resample(bars, width)
             g == Resample(bars', width)
             n == Len(f)
  <2>4. width \in Nat \ {0}
    BY StratAssumption
  <2>5. /\ n \in Nat /\ {f[n].h, g[n].h, f[n].l, g[n].l, f[n - 1].h, f[n - 1].l} \subseteq Nat
        /\ g[n - 1].h = f[n - 1].h /\ g[n - 1].l = f[n - 1].l
        /\ g[n].h >= f[n].h /\ g[n].l <= f[n].l
    BY <2>2, <2>3, <2>4, OpenBarReachesFurther
  <2>6. Len(g) = n
    OBVIOUS
  <2> HIDE DEF f, g, n
  <2>7. <<BarType(f, n), BarType(g, n)>> \in Wider
    <3>1. f[n].h > f[n - 1].h => g[n].h > g[n - 1].h
      BY <2>5
    <3>2. f[n].l < f[n - 1].l => g[n].l < g[n - 1].l
      BY <2>5
    <3> DEFINE up == f[n].h > f[n - 1].h
               down == f[n].l < f[n - 1].l
               up2 == g[n].h > g[n - 1].h
               down2 == g[n].l < g[n - 1].l
    <3>3. /\ BarType(f, n) = IF up /\ down THEN "3" ELSE IF up THEN "2U" ELSE IF down THEN "2D" ELSE "1"
          /\ BarType(g, n) = IF up2 /\ down2 THEN "3" ELSE IF up2 THEN "2U" ELSE IF down2 THEN "2D" ELSE "1"
      BY DEF BarType
    <3> HIDE DEF up, down, up2, down2
    <3>4. (up => up2) /\ (down => down2)
      BY <3>1, <3>2 DEF up, down, up2, down2
    <3> QED  BY <3>3, <3>4 DEF Wider
  <2> QED  BY <2>6, <2>7 DEF f, g, n
<1>2. Series /\ Framed /\ Framed' /\ [Next]_tradingVars => [Widens]_tradingVars
  BY <1>1
<1> QED  BY <1>2, FramesHold, PTL DEF Spec, OpenBarOnlyWidens

-----------------------------------------------------------------------------
(***************************************************************************)
(* The last year.  One session more, and the year is the same but for the  *)
(* sessions that leave it at one end and the one that enters at the other. *)
(***************************************************************************)
\* g is f without its first cut rows, and with one row more.
MovesOn(f, g, cut) ==
    /\ f \in Seq(Bar) /\ g \in Seq(Bar) /\ cut \in Nat
    /\ Len(f) \in Nat \ {0} /\ Len(g) \in Nat \ {0} /\ Len(g) + cut = Len(f) + 1
    /\ \A k \in 1 .. Len(g) - 1 : g[k] = f[k + cut]

From(s) == Min({k \in DOMAIN s : s[k].d >= Last(s).d - DailySpan})

LEMMA YearStarts ==
    ASSUME NEW s, Frame(s)
    PROVE  /\ From(s) \in 1 .. Len(s) /\ s[From(s)].d >= Last(s).d - DailySpan
           /\ \A k \in 1 .. Len(s) : s[k].d >= Last(s).d - DailySpan => From(s) <= k
<1> DEFINE tail == {k \in DOMAIN s : s[k].d >= Last(s).d - DailySpan}
<1>1. Len(s) \in Nat \ {0} /\ DOMAIN s = 1 .. Len(s) /\ Last(s) = s[Len(s)] /\ Last(s).d \in Nat
  BY DEF Frame, Last
<1>2. Len(s) \in tail /\ tail \subseteq Nat
  BY <1>1, StratAssumption
<1>3. From(s) = Min(tail)
  BY DEF From
<1> HIDE DEF tail
<1>4. Min(tail) \in tail /\ \A k \in tail : Min(tail) <= k
  BY <1>2, Smallest
<1> QED  BY <1>1, <1>3, <1>4 DEF tail

\* A stretch of a sequence, copied row by row.
LEMMA StretchIsRead ==
    ASSUME NEW f \in Seq(Bar), NEW g \in Seq(Bar), NEW cut \in Nat,
           NEW m \in Nat \ {0}, NEW j \in Nat, m <= j, j <= Len(g), j + cut <= Len(f),
           \A k \in m .. j : g[k] = f[k + cut]
    PROVE  /\ SubSeq(g, m, j) = SubSeq(f, m + cut, j + cut)
           /\ SubSeq(g, m, j) \in Seq(Bar) /\ Len(SubSeq(g, m, j)) = j - m + 1
           /\ \A k \in 1 .. j - m + 1 : SubSeq(g, m, j)[k] = g[m + k - 1]
<1> DEFINE w == SubSeq(g, m, j)
           v == SubSeq(f, m + cut, j + cut)
<1>1. /\ Len(g) \in Nat /\ Len(f) \in Nat
      /\ \A k \in m .. j : g[k] \in Bar
      /\ \A k \in m + cut .. j + cut : f[k] \in Bar
  OBVIOUS
<1>2. /\ w \in Seq(Bar) /\ Len(w) = j - m + 1
      /\ \A k \in 1 .. j - m + 1 : w[k] = g[m + k - 1]
  BY <1>1
<1>3. /\ v \in Seq(Bar) /\ Len(v) = j - m + 1
      /\ \A k \in 1 .. j - m + 1 : v[k] = f[m + cut + k - 1]
  BY <1>1
<1> HIDE DEF w, v
<1>4. \A k \in 1 .. j - m + 1 : w[k] = v[k]
  <2> TAKE k \in 1 .. j - m + 1
  <2>1. m + k - 1 \in m .. j /\ (m + k - 1) + cut = m + cut + k - 1
    OBVIOUS
  <2> QED  BY <1>2, <1>3, <2>1
<1>5. w = v
  <2>1. w = [k \in 1 .. j - m + 1 |-> w[k]] /\ v = [k \in 1 .. j - m + 1 |-> v[k]]
    BY <1>2, <1>3
  <2> QED  BY <1>4, <2>1
<1> QED  BY <1>2, <1>5 DEF w, v

\* The daily frame is the rows of the last year.
LEMMA DailyIs ==
    ASSUME NEW s \in Seq(Bar), Frame(s)
    PROVE  /\ Daily(s) \in Seq(Bar) /\ Len(Daily(s)) = Len(s) - From(s) + 1
           /\ \A k \in 1 .. Len(s) - From(s) + 1 : Daily(s)[k] = s[From(s) + k - 1]
<1>1. Len(s) \in Nat \ {0} /\ From(s) \in 1 .. Len(s)
  BY YearStarts DEF Frame
<1>2. Daily(s) = SubSeq(s, From(s), Len(s))
  BY DEF Daily, SlicePeriod, From
<1>3. From(s) \in Nat \ {0} /\ Len(s) \in Nat /\ From(s) <= Len(s) /\ Len(s) + 0 <= Len(s)
  BY <1>1
<1>4. \A k \in From(s) .. Len(s) : s[k] = s[k + 0]
  BY <1>3
<1> QED  BY <1>2, <1>3, <1>4, StretchIsRead

\* What is new enough for a later day is for an earlier one.
LEMMA StillInTheYear ==
    ASSUME NEW d \in Nat, NEW last \in Nat, NEW next \in Nat, NEW span \in Nat,
           last < next, d >= next - span
    PROVE  d >= last - span
OBVIOUS

\* A place of the later year as a place of the earlier one.
LEMMA PlaceInTheYear ==
    ASSUME NEW k \in Nat, NEW n \in Nat, NEW a \in Nat, NEW b \in Nat, NEW shift \in Nat,
           shift = b - a, k >= 1, k <= n + 1 - b, a >= 1
    PROVE  /\ a + (k + shift) - 1 = b + k - 1
           /\ k + shift \in 1 .. n - a + 1
<1>1. a + shift = b
  OBVIOUS
<1>2. k + shift >= 1
  OBVIOUS
<1>3. k + shift <= n - a + 1
  BY <1>1
<1> QED  BY <1>1, <1>2, <1>3

LEMMA YearMovesOn ==
    ASSUME NEW s \in Seq(Bar), NEW t \in Seq(Bar), Frame(s), Frame(t), Len(t) = Len(s) + 1,
           \A k \in 1 .. Len(s) : t[k] = s[k]
    PROVE  /\ From(t) - From(s) \in Nat
           /\ MovesOn(Daily(s), Daily(t), From(t) - From(s))
<1>1. /\ Len(s) \in Nat \ {0} /\ Len(t) \in Nat /\ From(s) \in 1 .. Len(s) /\ From(t) \in 1 .. Len(t)
      /\ Last(s) = s[Len(s)] /\ Last(t) = t[Len(t)]
      /\ \A k \in 1 .. Len(s) : s[k].d \in Nat
      /\ \A k \in 1 .. Len(t) : t[k].d \in Nat
  BY YearStarts DEF Frame, Last
<1>2. From(s) <= From(t)
  <2>1. CASE From(t) = Len(t)
    BY <1>1, <2>1
  <2>2. CASE From(t) \in 1 .. Len(s)
    <3>1. t[From(t)].d >= Last(t).d - DailySpan
      BY YearStarts
    <3>2. Len(s) \in 1 .. Len(t) /\ Len(t) \in 1 .. Len(t) /\ Len(s) < Len(t) /\ t[Len(s)] = s[Len(s)]
      BY <1>1
    <3>3. Last(s).d < Last(t).d /\ Last(s).d \in Nat /\ Last(t).d \in Nat
      <4>1. t[Len(s)].d < t[Len(t)].d
        BY <3>2 DEF Frame
      <4> QED  BY <1>1, <3>2, <4>1
    <3>4. s[From(t)].d = t[From(t)].d /\ s[From(t)].d \in Nat
      BY <1>1, <2>2
    <3>5. DailySpan \in Nat
      BY StratAssumption
    <3>6. s[From(t)].d >= Last(t).d - DailySpan
      BY <3>1, <3>4
    <3>7. s[From(t)].d >= Last(s).d - DailySpan
      BY <3>3, <3>4, <3>5, <3>6, StillInTheYear
    <3> QED  BY <2>2, <3>7, YearStarts
  <2>3. From(t) = Len(t) \/ From(t) \in 1 .. Len(s)
    BY <1>1
  <2> QED  BY <2>1, <2>2, <2>3
<1> DEFINE f == Daily(s)
           g == Daily(t)
           cut == From(t) - From(s)
<1>3. cut \in Nat
  BY <1>1, <1>2
<1>4. /\ f \in Seq(Bar) /\ Len(f) = Len(s) - From(s) + 1
      /\ \A k \in 1 .. Len(s) - From(s) + 1 : f[k] = s[From(s) + k - 1]
  BY DailyIs
<1>5. /\ g \in Seq(Bar) /\ Len(g) = Len(t) - From(t) + 1
      /\ \A k \in 1 .. Len(t) - From(t) + 1 : g[k] = t[From(t) + k - 1]
  BY DailyIs
<1> HIDE DEF f, g
<1>6. /\ Len(f) \in Nat \ {0} /\ Len(g) \in Nat \ {0} /\ Len(g) + cut = Len(f) + 1
  BY <1>1, <1>4, <1>5
<1>7. \A k \in 1 .. Len(g) - 1 : g[k] = f[k + cut]
  <2> TAKE k \in 1 .. Len(g) - 1
  <2>1. /\ k \in 1 .. Len(t) - From(t) + 1 /\ From(t) + k - 1 \in 1 .. Len(s)
        /\ k + cut \in 1 .. Len(s) - From(s) + 1 /\ From(s) + (k + cut) - 1 = From(t) + k - 1
    <3>1. /\ k \in Nat \ {0} /\ k <= Len(t) - From(t) /\ Len(t) = Len(s) + 1
          /\ From(s) \in Nat \ {0} /\ From(t) \in Nat \ {0} /\ Len(s) \in Nat
      BY <1>1, <1>5
    <3>2. k >= 1 /\ k <= Len(s) + 1 - From(t) /\ From(s) >= 1
      BY <3>1
    <3>3. cut = From(t) - From(s)
      OBVIOUS
    <3> HIDE DEF cut
    <3>4. /\ From(s) + (k + cut) - 1 = From(t) + k - 1
          /\ k + cut \in 1 .. Len(s) - From(s) + 1
      BY <1>3, <3>1, <3>2, <3>3, PlaceInTheYear
    <3>5. k \in 1 .. Len(t) - From(t) + 1 /\ From(t) + k - 1 \in 1 .. Len(s)
      BY <3>1
    <3> QED  BY <3>4, <3>5
  <2>2. g[k] = t[From(t) + k - 1]
    BY <1>5, <2>1
  <2>3. f[k + cut] = s[From(s) + (k + cut) - 1]
    BY <1>4, <2>1
  <2> QED  BY <2>1, <2>2, <2>3
<1>8. MovesOn(f, g, cut)
  BY <1>3, <1>4, <1>5, <1>6, <1>7 DEF MovesOn
<1> QED  BY <1>3, <1>8 DEF f, g

-----------------------------------------------------------------------------
(***************************************************************************)
(* The record of a gap.                                                    *)
(***************************************************************************)
LEMMA ReachCovers == Reach \in Nat /\ \A n \in {SmaWindow, VolumeWindow, PriorWindow} : n <= Reach
<1> DEFINE S == {SmaWindow, VolumeWindow, PriorWindow}
           top == SmaWindow + VolumeWindow + PriorWindow
<1>1. SmaWindow \in Nat /\ VolumeWindow \in Nat /\ PriorWindow \in Nat
  BY GapsAssumption
<1>2. top \in Nat /\ S \subseteq 0 .. top /\ S # {}
  BY <1>1
<1>3. Reach = Max(S)
  BY DEF Reach
<1> HIDE DEF S, top
<1>4. Max(S) \in S /\ \A n \in S : n <= Max(S)
  BY <1>2, Largest
<1> QED  BY <1>2, <1>3, <1>4 DEF S

\* The rows before a session are the same in both years, once there are as many
\* as are asked for.
LEMMA RecentIsRead ==
    ASSUME NEW f \in Seq(Bar), NEW g \in Seq(Bar), NEW cut \in Nat, NEW j \in Nat \ {0},
           j <= Len(g), j + cut <= Len(f), \A k \in 1 .. j : g[k] = f[k + cut],
           NEW n \in Nat \ {0}, cut = 0 \/ j >= n
    PROVE  Recent(g, j, n) = Recent(f, j + cut, n)
<1> DEFINE m == IF j > n THEN j - n + 1 ELSE 1
<1>1. m \in Nat \ {0} /\ m <= j
  OBVIOUS
<1>2. m + cut = IF j + cut > n THEN j + cut - n + 1 ELSE 1
  OBVIOUS
<1>3. Recent(g, j, n) = SubSeq(g, m, j) /\ Recent(f, j + cut, n) = SubSeq(f, m + cut, j + cut)
  BY <1>2 DEF Recent
<1> HIDE DEF m
<1>4. \A k \in m .. j : g[k] = f[k + cut]
  BY <1>1
<1>5. SubSeq(g, m, j) = SubSeq(f, m + cut, j + cut)
  BY <1>1, <1>4, StretchIsRead
<1> QED  BY <1>3, <1>5

\* Session i of f is session j of g, with the rows before it that its gap reads.
SameRows(f, i, g, j) ==
    \E cut \in Nat :
        /\ f \in Seq(Bar) /\ g \in Seq(Bar) /\ j \in Nat \ {0, 1} /\ i \in Nat /\ i = j + cut
        /\ j <= Len(g) /\ i <= Len(f) /\ \A k \in 1 .. j : g[k] = f[k + cut]
        /\ cut = 0 \/ j > Reach
SameGap(f, i, g, j) ==
    /\ IsGap(g, j) <=> IsGap(f, i)
    /\ (g[j].l > g[j - 1].h) <=> (f[i].l > f[i - 1].h)
    /\ \A up \in BOOLEAN : Level(g, j, up) = Level(f, i, up)
    /\ GapAt(g, j) = [GapAt(f, i) EXCEPT !.fill = GapAt(g, j).fill]

\* Both years agree on the gap of a session, but for its fill.
LEMMA GapIsRead ==
    ASSUME NEW f, NEW i, NEW g, NEW j, SameRows(f, i, g, j)
    PROVE  SameGap(f, i, g, j)
<1> PICK cut \in Nat :
        /\ f \in Seq(Bar) /\ g \in Seq(Bar) /\ j \in Nat \ {0, 1} /\ i \in Nat /\ i = j + cut
        /\ j <= Len(g) /\ i <= Len(f) /\ \A k \in 1 .. j : g[k] = f[k + cut]
        /\ cut = 0 \/ j > Reach
  BY DEF SameRows
<1>0. j \in 1 .. j /\ j - 1 \in 1 .. j /\ (j - 1) + cut = i - 1 /\ i \in Nat
  OBVIOUS
<1>1. g[j] = f[i] /\ g[j - 1] = f[i - 1]
  BY <1>0
<1>w. /\ Recent(g, j, SmaWindow) = Recent(f, i, SmaWindow)
      /\ Recent(g, j - 1, VolumeWindow) = Recent(f, i - 1, VolumeWindow)
      /\ Recent(g, j - 1, PriorWindow) = Recent(f, i - 1, PriorWindow)
  <2>1. /\ SmaWindow \in Nat \ {0} /\ VolumeWindow \in Nat \ {0} /\ PriorWindow \in Nat \ {0}
        /\ Reach \in Nat /\ SmaWindow <= Reach /\ VolumeWindow <= Reach /\ PriorWindow <= Reach
    BY GapsAssumption, ReachCovers
  <2>2. /\ cut = 0 \/ j >= SmaWindow
        /\ cut = 0 \/ j - 1 >= VolumeWindow
        /\ cut = 0 \/ j - 1 >= PriorWindow
    BY <2>1
  <2> DEFINE h == j - 1
  <2>3. /\ h \in Nat \ {0} /\ h <= Len(g) /\ h + cut <= Len(f)
        /\ \A k \in 1 .. h : g[k] = f[k + cut]
        /\ cut = 0 \/ h >= VolumeWindow
        /\ cut = 0 \/ h >= PriorWindow
    <3>1. h \in Nat \ {0} /\ h <= Len(g) /\ h + cut <= Len(f)
      OBVIOUS
    <3>2. \A k \in 1 .. h : g[k] = f[k + cut]
      OBVIOUS
    <3> QED  BY <2>2, <3>1, <3>2
  <2>7. h + cut = i - 1
    OBVIOUS
  <2>4. Recent(g, j, SmaWindow) = Recent(f, j + cut, SmaWindow)
    BY <2>1, <2>2, RecentIsRead
  <2> HIDE DEF h
  <2>5. Recent(g, h, VolumeWindow) = Recent(f, h + cut, VolumeWindow)
    BY <2>1, <2>3, RecentIsRead
  <2>6. Recent(g, h, PriorWindow) = Recent(f, h + cut, PriorWindow)
    BY <2>1, <2>3, RecentIsRead
  <2> QED  BY <2>4, <2>5, <2>6, <2>7 DEF h
<1>2. /\ IsGap(g, j) <=> IsGap(f, i)
      /\ (g[j].l > g[j - 1].h) <=> (f[i].l > f[i - 1].h)
  BY <1>1 DEF IsGap
<1>3. ASSUME NEW up
      PROVE  Level(g, j, up) = Level(f, i, up) /\ Jump(g, j, up) = Jump(f, i, up)
  BY <1>1 DEF Level, Jump
<1>4. ASSUME NEW up PROVE Size(g, j, up) = Size(f, i, up)
  BY <1>3 DEF Size
<1>5. ASSUME NEW up PROVE GapType(g, j, up) = GapType(f, i, up)
  <2> DEFINE kind(w, last, jump, level) ==
                LET range == Max({w[k].h : k \in DOMAIN w}) - Min({w[k].l : k \in DOMAIN w})
                    move == 100 * (last - w[1].c)
                IN  CASE Len(w) < PriorMin \/ 100 * jump < level -> "common"
                      [] \/ up /\ move > 15 * w[1].c
                         \/ ~up /\ move < -15 * w[1].c -> "exhaustion"
                      [] 100 * range < 5 * last -> "breakaway"
                      [] OTHER -> "runaway"
  <2>1. GapType(g, j, up) = kind(Recent(g, j - 1, PriorWindow), g[j - 1].c, Jump(g, j, up), Level(g, j, up))
    BY DEF GapType
  <2>2. GapType(f, i, up) = kind(Recent(f, i - 1, PriorWindow), f[i - 1].c, Jump(f, i, up), Level(f, i, up))
    BY DEF GapType
  <2> HIDE DEF kind
  <2> QED  BY <1>1, <1>w, <1>3, <2>1, <2>2
<1> DEFINE sma(r, x) == Mean(Closes(Recent(r, x, SmaWindow)), SmaMin)
           avg(r, x) == Mean(Volumes(Recent(r, x - 1, VolumeWindow)), VolumeMin)
<1>8. sma(g, j) = sma(f, i) /\ avg(g, j) = avg(f, i)
  BY <1>w
<1> DEFINE up(r, x) == r[x].l > r[x - 1].h
           size(r, x) == Size(r, x, up(r, x))
           pattern(r, x) == <<Candle(r[x - 1]), Candle(r[x])>>
           volume(r, x) == VolumeClass(r[x].v, avg(r, x))
           double(r, x) == DoubleVolume(r[x].v, avg(r, x))
           above(r, x) == sma(r, x).n # 0 /\ r[x].l * sma(r, x).n > sma(r, x).sum
           type(r, x) == GapType(r, x, up(r, x))
           strong(r, x) == r[x].h > r[x].l /\ 10 * (r[x].c - r[x].l) >= 9 * (r[x].h - r[x].l)
           fill(r, x) == DaysToFill(r, x, up(r, x))
           record(r, x) ==
             [d |-> r[x].d, up |-> up(r, x), size |-> size(r, x), pattern |-> pattern(r, x),
              volume |-> volume(r, x), double |-> double(r, x), above |-> above(r, x),
              type |-> type(r, x), strong |-> strong(r, x), fill |-> fill(r, x)]
<1>9. GapAt(g, j) = record(g, j) /\ GapAt(f, i) = record(f, i)
  BY DEF GapAt
<1> HIDE DEF sma, avg
<1>10. up(g, j) = up(f, i)
  BY <1>1
<1> HIDE DEF up
<1>11. /\ size(g, j) = size(f, i) /\ pattern(g, j) = pattern(f, i) /\ volume(g, j) = volume(f, i)
       /\ double(g, j) = double(f, i) /\ above(g, j) = above(f, i) /\ type(g, j) = type(f, i)
       /\ strong(g, j) = strong(f, i)
  <2>1. size(g, j) = size(f, i) /\ type(g, j) = type(f, i)
    BY <1>4, <1>5, <1>10
  <2>2. pattern(g, j) = pattern(f, i) /\ volume(g, j) = volume(f, i) /\ double(g, j) = double(f, i)
    BY <1>1, <1>8
  <2>3. above(g, j) = above(f, i) /\ strong(g, j) = strong(f, i)
    BY <1>1, <1>8
  <2> QED  BY <2>1, <2>2, <2>3
<1> HIDE DEF size, pattern, volume, double, above, type, strong, fill
<1>12. record(g, j) = [record(f, i) EXCEPT !.fill = record(g, j).fill]
  BY <1>1, <1>10, <1>11
<1> HIDE DEF record
<1>13. GapAt(g, j) = [GapAt(f, i) EXCEPT !.fill = GapAt(g, j).fill]
  BY <1>9, <1>12
<1>14. \A b \in BOOLEAN : Level(g, j, b) = Level(f, i, b)
  BY <1>3
<1> QED  BY <1>2, <1>13, <1>14 DEF SameGap

\* The session that enters fills an open gap, or leaves the fill as it was.
LEMMA FillIsFound ==
    ASSUME NEW f, NEW g, NEW cut, MovesOn(f, g, cut),
           NEW j \in 2 .. Len(g) - 1, NEW up \in BOOLEAN, Level(g, j, up) = Level(f, j + cut, up)
    PROVE  \/ DaysToFill(g, j, up) = DaysToFill(f, j + cut, up)
           \/ DaysToFill(f, j + cut, up) = 0 /\ DaysToFill(g, j, up) = Len(g) - j
<1> DEFINE i == j + cut
           hits(r, x) == {k \in x + 1 .. Len(r) :
                            IF up THEN r[k].l <= Level(r, x, up) ELSE r[k].h >= Level(r, x, up)}
           H == hits(f, i)
           G == hits(g, j)
<1>0. /\ Len(f) \in Nat /\ Len(g) \in Nat /\ cut \in Nat /\ j \in Nat /\ i \in Nat
      /\ Len(g) + cut = Len(f) + 1
      /\ \A k \in 1 .. Len(g) - 1 : g[k] = f[k + cut]
  BY DEF MovesOn
<1>1. /\ DaysToFill(f, i, up) = IF H = {} THEN 0 ELSE Min(H) - i
      /\ DaysToFill(g, j, up) = IF G = {} THEN 0 ELSE Min(G) - j
  BY DEF DaysToFill
<1>2. H \subseteq i + 1 .. Len(f) /\ G \subseteq j + 1 .. Len(g) /\ H \subseteq Nat /\ G \subseteq Nat
  BY <1>0
<1>3. ASSUME NEW k \in j + 1 .. Len(g) - 1 PROVE k \in G <=> k + cut \in H
  <2>1. k \in 1 .. Len(g) - 1 /\ k \in j + 1 .. Len(g) /\ k + cut \in i + 1 .. Len(f)
    BY <1>0
  <2>2. g[k] = f[k + cut]
    BY <1>0, <2>1
  <2>3. Level(g, j, up) = Level(f, i, up)
    OBVIOUS
  <2> HIDE DEF i
  <2> QED  BY <2>1, <2>2, <2>3
<1> HIDE DEF H, G, hits
<1>4. ASSUME NEW x \in H PROVE x - cut \in j + 1 .. Len(g) - 1 /\ x - cut \in G
  <2>1. x \in Nat /\ x - cut \in j + 1 .. Len(g) - 1 /\ (x - cut) + cut = x
    BY <1>0, <1>2
  <2> QED  BY <1>3, <2>1
<1>5. CASE H = {}
  <2>1. G \subseteq {Len(g)}
    <3> SUFFICES ASSUME NEW k \in G, k # Len(g) PROVE FALSE
      OBVIOUS
    <3>1. k \in j + 1 .. Len(g) - 1
      BY <1>0, <1>2
    <3> QED  BY <1>3, <1>5, <3>1
  <2>2. Min({Len(g)}) = Len(g)
    BY <1>0 DEF Min
  <2>3. G = {} \/ G = {Len(g)}
    BY <2>1
  <2> QED  BY <1>1, <1>5, <2>2, <2>3 DEF i
<1>6. CASE H # {}
  <2>1. Min(H) \in H /\ \A x \in H : Min(H) <= x
    BY <1>2, <1>6, Smallest
  <2>2. Min(H) - cut \in G
    BY <1>4, <2>1
  <2>3. Min(G) \in G /\ \A x \in G : Min(G) <= x
    BY <1>2, <2>2, Smallest
  <2>a. Min(H) \in i + 1 .. Len(f) /\ Min(G) \in j + 1 .. Len(g) /\ Min(G) <= Min(H) - cut
    BY <1>2, <2>1, <2>2, <2>3
  <2>4. Min(H) \in Nat /\ Min(G) \in Nat /\ Min(G) <= Min(H) - cut /\ Min(H) <= Len(f)
    BY <1>0, <2>a
  <2>5. Min(G) \in j + 1 .. Len(g) - 1
    BY <1>0, <1>2, <2>3, <2>4
  <2>6. Min(G) + cut \in H
    BY <1>3, <2>3, <2>5
  <2>7. Min(H) <= Min(G) + cut
    BY <2>1, <2>6
  <2>8. Min(H) - i = Min(G) - j
    BY <1>0, <2>4, <2>7 DEF i
  <2>9. G # {}
    BY <2>2
  <2> QED  BY <1>1, <1>6, <2>8, <2>9 DEF i
<1> QED  BY <1>5, <1>6

\* What both years record of a gap that is found in each.
LEMMA RecordIsKept ==
    ASSUME NEW f, NEW g, NEW cut, MovesOn(f, g, cut),
           NEW j \in 2 .. Len(g) - 1, cut = 0 \/ j > Reach, IsGap(f, j + cut)
    PROVE  /\ IsGap(g, j)
           /\ GapAt(g, j) = [GapAt(f, j + cut) EXCEPT !.fill = GapAt(g, j).fill]
           /\ \/ GapAt(g, j).fill = GapAt(f, j + cut).fill
              \/ GapAt(f, j + cut).fill = 0 /\ GapAt(g, j).fill = Len(g) - j
<1>1. /\ f \in Seq(Bar) /\ g \in Seq(Bar) /\ cut \in Nat /\ Len(f) \in Nat /\ Len(g) \in Nat
      /\ Len(g) + cut = Len(f) + 1
      /\ \A k \in 1 .. Len(g) - 1 : g[k] = f[k + cut]
  BY DEF MovesOn
<1> DEFINE i == j + cut
<1>2. j \in Nat \ {0, 1} /\ j <= Len(g) /\ i <= Len(f) /\ i \in Nat /\ i = j + cut
  BY <1>1
<1>3. \A k \in 1 .. j : g[k] = f[k + cut]
  BY <1>1
<1>0. (cut = 0 \/ j > Reach) /\ IsGap(f, i) /\ MovesOn(f, g, cut)
  OBVIOUS
<1> HIDE DEF i
<1>4. /\ IsGap(g, j) <=> IsGap(f, i)
      /\ (g[j].l > g[j - 1].h) <=> (f[i].l > f[i - 1].h)
      /\ \A up \in BOOLEAN : Level(g, j, up) = Level(f, i, up)
      /\ GapAt(g, j) = [GapAt(f, i) EXCEPT !.fill = GapAt(g, j).fill]
  <2>1. SameRows(f, i, g, j)
    BY <1>0, <1>1, <1>2, <1>3 DEF SameRows
  <2>2. SameGap(f, i, g, j)
    BY <2>1, GapIsRead
  <2> QED  BY <2>2 DEF SameGap
<1> DEFINE up == f[i].l > f[i - 1].h
<1>5. GapAt(f, i).fill = DaysToFill(f, i, up) /\ GapAt(g, j).fill = DaysToFill(g, j, up)
  BY <1>4 DEF GapAt
<1>6. up \in BOOLEAN
  OBVIOUS
<1> HIDE DEF up
<1>7. Level(g, j, up) = Level(f, i, up)
  BY <1>4, <1>6
<1>9. Level(g, j, up) = Level(f, j + cut, up)
  BY <1>2, <1>7
<1>8. \/ DaysToFill(g, j, up) = DaysToFill(f, i, up)
      \/ DaysToFill(f, i, up) = 0 /\ DaysToFill(g, j, up) = Len(g) - j
  BY <1>2, <1>6, <1>9, FillIsFound
<1> QED  BY <1>0, <1>2, <1>4, <1>5, <1>8

\* Days ascend, so a session of the new year that has the day of one of the year
\* before is that one, further back.
LEMMA SameDay ==
    ASSUME NEW s \in Seq(Bar), NEW t \in Seq(Bar), Frame(s), Frame(t), Len(t) = Len(s) + 1,
           \A k \in 1 .. Len(s) : t[k] = s[k],
           NEW i \in 1 .. Len(Daily(s)), NEW j \in 1 .. Len(Daily(t)), Daily(t)[j].d = Daily(s)[i].d
    PROVE  i = j + (From(t) - From(s)) /\ j <= Len(Daily(t)) - 1
<1>1. /\ Len(s) \in Nat \ {0} /\ From(s) \in 1 .. Len(s) /\ From(t) \in 1 .. Len(t)
      /\ Len(Daily(s)) = Len(s) - From(s) + 1 /\ Len(Daily(t)) = Len(t) - From(t) + 1
  BY YearStarts, DailyIs DEF Frame
<1>2. Daily(s)[i] = s[From(s) + i - 1] /\ Daily(t)[j] = t[From(t) + j - 1]
  BY <1>1, DailyIs
<1> DEFINE x == From(s) + i - 1
           y == From(t) + j - 1
<1>3. x \in 1 .. Len(s) /\ x \in 1 .. Len(t) /\ y \in 1 .. Len(t)
  BY <1>1
<1>4. t[x].d = t[y].d
  BY <1>2, <1>3
<1> HIDE DEF x, y
<1>5. x = y
  <2>1. t[x].d \in Nat /\ t[y].d \in Nat /\ (x < y => t[x].d < t[y].d) /\ (y < x => t[y].d < t[x].d)
    BY <1>3 DEF Frame
  <2>2. ~ (x < y) /\ ~ (y < x)
    BY <1>4, <2>1
  <2> QED  BY <1>3, <2>2
<1>6. /\ i \in Nat /\ j \in Nat /\ From(s) \in Nat /\ From(t) \in Nat /\ Len(s) \in Nat
      /\ From(s) + i - 1 = From(t) + j - 1 /\ From(s) + i - 1 <= Len(s) /\ Len(t) = Len(s) + 1
  BY <1>1, <1>3, <1>5 DEF x, y
<1>7. \A a, b, n \in Nat : a + i - 1 = b + j - 1 /\ a + i - 1 <= n => i = j + (b - a) /\ j <= n + 1 - b
  BY <1>6
<1>8. i = j + (From(t) - From(s)) /\ j <= Len(s) + 1 - From(t)
  BY <1>6, <1>7
<1>9. j <= Len(Daily(t)) - 1
  <2>1. Len(Daily(t)) - 1 = Len(s) + 1 - From(t)
    BY <1>1, <1>6
  <2> QED  BY <1>8, <2>1
<1> QED  BY <1>8, <1>9

\* A gap is recorded alike after every later session, but for its fill, and a
\* fill, once found, never moves, as long as its averages lie within the year
\* (gap_analysis.run, _fill_status on price._slice_period).
THEOREM GapsAreRecordedOnce == Spec => GapsKeepTheirRecord
<1> DEFINE Kept == \A f \in {Daily(bars)}, g \in {Daily(bars')} :
          \A i \in GapDays(f), j \in Scanned(g) :
              g[j].d = f[i].d /\ (j = i \/ j > Reach) =>
                  LET before == GapAt(f, i)
                      now == GapAt(g, j)
                  IN  /\ j \in GapDays(g)
                      /\ [before EXCEPT !.fill = now.fill] = now
                      /\ \/ now.fill = before.fill
                         \/ before.fill = 0 /\ now.fill = Len(g) - j
<1>1. ASSUME Series, Framed, Framed', Next PROVE Kept
  <2>1. PICK b \in Close, condition \in {"neutral", "unfavorable"} : Session(b, condition)
    BY <1>1 DEF Next
  <2>2. /\ bars \in Seq(Bar) /\ bars' \in Seq(Bar) /\ Len(bars') = Len(bars) + 1
        /\ \A k \in 1 .. Len(bars) : bars'[k] = bars[k]
    BY <1>1, <2>1, SessionAppends DEF Series
  <2>3. Frame(bars) /\ Frame(bars')
    BY <1>1 DEF Framed
  <2> DEFINE cut == From(bars') - From(bars)
  <2>4. cut \in Nat /\ MovesOn(Daily(bars), Daily(bars'), cut)
    BY <2>2, <2>3, YearMovesOn
  <2> SUFFICES ASSUME NEW f, NEW g, f = Daily(bars), g = Daily(bars'),
                      NEW i \in GapDays(f), NEW j \in Scanned(g),
                      g[j].d = f[i].d, j = i \/ j > Reach
               PROVE  LET before == GapAt(f, i)
                          now == GapAt(g, j)
                      IN  /\ j \in GapDays(g)
                          /\ [before EXCEPT !.fill = now.fill] = now
                          /\ \/ now.fill = before.fill
                             \/ before.fill = 0 /\ now.fill = Len(g) - j
    OBVIOUS
  <2>5. /\ f \in Seq(Bar) /\ g \in Seq(Bar) /\ Len(f) \in Nat /\ Len(g) \in Nat
        /\ Len(g) + cut = Len(f) + 1
        /\ \A k \in 1 .. Len(g) - 1 : g[k] = f[k + cut]
    BY <2>4 DEF MovesOn
  <2>6. i \in 2 .. Len(f) /\ IsGap(f, i)
    <3>1. i \in Scanned(f) /\ IsGap(f, i)
      BY DEF GapDays
    <3> QED  BY <2>5, <3>1, GapsAssumption DEF Scanned
  <2>7. j \in 2 .. Len(g)
    BY <2>5, GapsAssumption DEF Scanned
  <2>8. i = j + cut /\ j <= Len(g) - 1
    <3>1. i \in 1 .. Len(Daily(bars)) /\ j \in 1 .. Len(Daily(bars'))
      BY <2>5, <2>6, <2>7
    <3>2. Daily(bars')[j].d = Daily(bars)[i].d
      OBVIOUS
    <3>3. i = j + (From(bars') - From(bars)) /\ j <= Len(Daily(bars')) - 1
      BY <2>2, <2>3, <3>1, <3>2, SameDay
    <3> QED  BY <3>3
  <2> HIDE DEF cut
  <2>9. MovesOn(f, g, cut) /\ j \in 2 .. Len(g) - 1 /\ (cut = 0 \/ j > Reach) /\ IsGap(f, j + cut)
    BY <2>4, <2>5, <2>6, <2>7, <2>8
  <2>10. /\ IsGap(g, j)
         /\ GapAt(g, j) = [GapAt(f, j + cut) EXCEPT !.fill = GapAt(g, j).fill]
         /\ \/ GapAt(g, j).fill = GapAt(f, j + cut).fill
            \/ GapAt(f, j + cut).fill = 0 /\ GapAt(g, j).fill = Len(g) - j
    BY <2>9, RecordIsKept
  <2>11. j \in GapDays(g)
    BY <2>10 DEF GapDays
  <2> QED  BY <2>8, <2>10, <2>11
<1>2. Series /\ Framed /\ Framed' /\ [Next]_tradingVars => [Kept]_tradingVars
  BY <1>1
<1> QED  BY <1>2, FramesHold, PTL DEF Spec, GapsKeepTheirRecord

-----------------------------------------------------------------------------
(***************************************************************************)
(* The streak of accumulation.                                             *)
(***************************************************************************)
\* A ratio is of naturals.
LEMMA RatioIsOfNaturals ==
    ASSUME NEW w \in Seq(Bar)
    PROVE  UpDownRatio(w).n \in Nat /\ UpDownRatio(w).d \in Nat
<1> DEFINE ups == UpDays(w)
           downs == DownDays(w)
<1>1. IsFiniteSet(1 .. Len(w)) /\ DOMAIN w = 1 .. Len(w)
  BY FS_Interval
<1>2. ASSUME NEW is \in SUBSET (1 .. Len(w))
      PROVE  SumVolume(w, is) \in Nat /\ Cardinality(is) \in Nat
  <2>1. IsFiniteSet(is)
    BY <1>1, FS_Subset
  <2>2. [k \in is |-> w[k].v] \in [is -> Nat]
    <3> SUFFICES ASSUME NEW k \in is PROVE w[k].v \in Nat
      OBVIOUS
    <3>1. w[k] \in Bar
      BY <1>1
    <3> QED  BY <3>1 DEF Bar
  <2> QED  BY <2>1, <2>2, SumIsNatural, FS_CardinalityType DEF SumVolume
<1>3. ups \in SUBSET (1 .. Len(w)) /\ downs \in SUBSET (1 .. Len(w))
  BY <1>1 DEF UpDays, DownDays
<1>4. UpDownRatio(w) =
        IF ups = {} THEN [n |-> 0, d |-> 1]
        ELSE IF SumVolume(w, downs) = 0 THEN [n |-> 1, d |-> 0]
        ELSE [n |-> SumVolume(w, ups) * Cardinality(downs), d |-> SumVolume(w, downs) * Cardinality(ups)]
  BY DEF UpDownRatio
<1> HIDE DEF ups, downs
<1>5. /\ SumVolume(w, ups) * Cardinality(downs) \in Nat
      /\ SumVolume(w, downs) * Cardinality(ups) \in Nat
  BY <1>2, <1>3
<1> QED  BY <1>4, <1>5

\* A window ends alike in both years.
LEMMA WindowIsRead ==
    ASSUME NEW f, NEW g, NEW cut, MovesOn(f, g, cut),
           NEW e \in Nat, e >= Window, e <= Len(g) - 1
    PROVE  Asymmetric(g, e) <=> Asymmetric(f, e + cut)
<1>1. /\ f \in Seq(Bar) /\ g \in Seq(Bar) /\ cut \in Nat /\ Len(f) \in Nat /\ Len(g) \in Nat
      /\ Len(g) + cut = Len(f) + 1
      /\ \A k \in 1 .. Len(g) - 1 : g[k] = f[k + cut]
  BY DEF MovesOn
<1> DEFINE m == e - Window + 1
<1>2. m \in Nat \ {0} /\ m <= e /\ e <= Len(g) /\ e + cut <= Len(f) /\ m + cut = (e + cut) - Window + 1
  BY <1>1, AccumulationAssumption
<1>6. Tail20(g, e) = SubSeq(g, m, e) /\ Tail20(f, e + cut) = SubSeq(f, (e + cut) - Window + 1, e + cut)
  BY DEF Tail20
<1> HIDE DEF m
<1>3. Tail20(g, e) = SubSeq(g, m, e) /\ Tail20(f, e + cut) = SubSeq(f, m + cut, e + cut)
  BY <1>2, <1>6
<1>4. \A k \in m .. e : g[k] = f[k + cut]
  BY <1>1, <1>2
<1>5. SubSeq(g, m, e) = SubSeq(f, m + cut, e + cut)
  BY <1>1, <1>2, <1>4, StretchIsRead
<1> QED  BY <1>3, <1>5 DEF Asymmetric

\* What PatternDuration finds.
HeldFor(s, k) == \A e \in Len(s) - k + 1 .. Len(s) : Asymmetric(s, e)

LEMMA DurationIsLongest ==
    ASSUME NEW s \in Seq(Bar), Len(s) >= Window - 1
    PROVE  /\ PatternDuration(s) \in 0 .. Len(s) - Window + 1
           /\ HeldFor(s, PatternDuration(s))
           /\ \A k \in 0 .. Len(s) - Window + 1 : HeldFor(s, k) => k <= PatternDuration(s)
<1> DEFINE n == Len(s) - Window + 1
           lengths == {k \in 0 .. n : HeldFor(s, k)}
<1>1. n \in Nat /\ Len(s) \in Nat
  BY AccumulationAssumption
<1>2. HeldFor(s, 0)
  BY <1>1 DEF HeldFor
<1>3. PatternDuration(s) = Max(lengths)
  BY DEF PatternDuration, HeldFor
<1> HIDE DEF n
<1>4. lengths \subseteq 0 .. n /\ lengths # {}
  BY <1>1, <1>2
<1>5. Max(lengths) \in lengths /\ \A k \in lengths : k <= Max(lengths)
  BY <1>1, <1>4, Largest
<1> QED  BY <1>3, <1>5 DEF n

\* The streak of the year before the session, none when the year is too short.
Streak(s) == IF Len(s) < Window THEN 0 ELSE PatternDuration(s)

\* One more session ends the streak or makes it one longer, as far as there are
\* windows in the year.
LEMMA StreakByASession ==
    ASSUME NEW f, NEW g, NEW cut, MovesOn(f, g, cut), Len(g) >= Window
    PROVE  LET top == Len(g) - Window + 1
               longer == Streak(f) + 1
           IN  /\ PatternDuration(g) \in {0, IF longer <= top THEN longer ELSE top}
               /\ PatternDuration(g) = 0 => ~ Asymmetric(g, Len(g))
               /\ longer \in Nat /\ top \in Nat /\ PatternDuration(g) \in Nat
<1>0. /\ f \in Seq(Bar) /\ g \in Seq(Bar) /\ cut \in Nat /\ Len(f) \in Nat /\ Len(g) \in Nat
      /\ Len(g) + cut = Len(f) + 1 /\ Window \in Nat \ {0} /\ Len(f) >= Window - 1 /\ Len(g) >= Window - 1
  BY AccumulationAssumption DEF MovesOn
<1> DEFINE a == PatternDuration(f)
           b == PatternDuration(g)
           top == Len(g) - Window + 1
<1>1. /\ a \in 0 .. Len(f) - Window + 1 /\ HeldFor(f, a)
      /\ \A k \in 0 .. Len(f) - Window + 1 : HeldFor(f, k) => k <= a
  BY <1>0, DurationIsLongest
<1>2. /\ b \in 0 .. top /\ HeldFor(g, b)
      /\ \A k \in 0 .. top : HeldFor(g, k) => k <= b
  BY <1>0, DurationIsLongest
<1>s. Streak(f) = a
  BY <1>0, <1>1 DEF Streak
<1> HIDE DEF a, b
<1>4. ASSUME NEW k \in Nat, k + 1 <= top
      PROVE  HeldFor(g, k + 1) <=> HeldFor(f, k) /\ Asymmetric(g, Len(g))
  <2>1. ASSUME HeldFor(g, k + 1) PROVE HeldFor(f, k) /\ Asymmetric(g, Len(g))
    <3>1. Asymmetric(g, Len(g))
      <4>1. Len(g) \in Len(g) - (k + 1) + 1 .. Len(g)
        BY <1>0
      <4> QED  BY <2>1, <4>1 DEF HeldFor
    <3>2. ASSUME NEW e \in Len(f) - k + 1 .. Len(f) PROVE Asymmetric(f, e)
      <4> DEFINE x == e - cut
      <4>1. x \in Nat /\ x >= Window /\ x <= Len(g) - 1 /\ x + cut = e /\ x \in Len(g) - (k + 1) + 1 .. Len(g)
        BY <1>0, <1>4
      <4> HIDE DEF x
      <4>2. Asymmetric(g, x) <=> Asymmetric(f, x + cut)
        BY <4>1, WindowIsRead
      <4>3. Asymmetric(g, x)
        BY <2>1, <4>1 DEF HeldFor
      <4> QED  BY <4>1, <4>2, <4>3
    <3> QED  BY <3>1, <3>2 DEF HeldFor
  <2>2. ASSUME HeldFor(f, k), Asymmetric(g, Len(g)) PROVE HeldFor(g, k + 1)
    <3> SUFFICES ASSUME NEW e \in Len(g) - (k + 1) + 1 .. Len(g), e # Len(g) PROVE Asymmetric(g, e)
      BY <2>2 DEF HeldFor
    <3>1. e \in Nat /\ e >= Window /\ e <= Len(g) - 1 /\ e + cut \in Len(f) - k + 1 .. Len(f)
      BY <1>0, <1>4
    <3>2. Asymmetric(g, e) <=> Asymmetric(f, e + cut)
      BY <3>1, WindowIsRead
    <3>3. Asymmetric(f, e + cut)
      BY <2>2, <3>1 DEF HeldFor
    <3> QED  BY <3>2, <3>3
  <2> QED  BY <2>1, <2>2
<1> DEFINE next == IF a + 1 <= top THEN a + 1 ELSE top
<1>5. ASSUME Asymmetric(g, Len(g)) PROVE b = next /\ b # 0
  <2>1. next - 1 \in Nat /\ next - 1 <= a /\ next <= top /\ (next - 1) + 1 = next /\ a \in Nat /\ top \in Nat
    BY <1>0, <1>1
  <2>2. HeldFor(f, next - 1)
    <3>1. \A e \in Len(f) - (next - 1) + 1 .. Len(f) : e \in Len(f) - a + 1 .. Len(f)
      BY <1>0, <2>1
    <3> HIDE DEF next
    <3> QED  BY <1>1, <3>1 DEF HeldFor
  <2> HIDE DEF next
  <2>3. HeldFor(g, next)
    <3> DEFINE k == next - 1
    <3>1. k \in Nat /\ k + 1 <= top /\ HeldFor(f, k) /\ k + 1 = next
      BY <2>1, <2>2
    <3> HIDE DEF k
    <3>2. HeldFor(g, k + 1)
      BY <1>4, <1>5, <3>1
    <3> QED  BY <3>1, <3>2
  <2>4. next <= b
    <3>1. next \in 0 .. top
      BY <2>1
    <3> QED  BY <1>2, <2>3, <3>1
  <2>5. b - 1 \in Nat /\ b <= top /\ b \in Nat /\ next \in Nat /\ next >= 1
    BY <1>2, <2>1, <2>4
  <2>6. b - 1 <= a
    <3> DEFINE k == b - 1
    <3>1. k \in Nat /\ k + 1 <= top /\ k + 1 = b /\ k \in 0 .. Len(f) - Window + 1
      BY <1>0, <2>5
    <3> HIDE DEF k
    <3>2. HeldFor(f, k)
      BY <1>2, <1>4, <3>1
    <3>3. k <= a
      BY <1>1, <3>1, <3>2
    <3> QED  BY <3>3 DEF k
  <2>7. b <= next
    BY <2>1, <2>5, <2>6 DEF next
  <2> QED  BY <2>4, <2>5, <2>7
<1>6. ASSUME ~ Asymmetric(g, Len(g)) PROVE b = 0
  <2> SUFFICES ASSUME b # 0 PROVE FALSE
    OBVIOUS
  <2>1. Len(g) \in Len(g) - b + 1 .. Len(g)
    BY <1>0, <1>2
  <2> QED  BY <1>2, <1>6, <2>1 DEF HeldFor
<1>7. b \in {0, next} /\ (b = 0 => ~ Asymmetric(g, Len(g)))
  BY <1>5, <1>6
<1>8. a + 1 \in Nat /\ top \in Nat /\ b \in Nat
  BY <1>0, <1>1, <1>2
<1> QED  BY <1>7, <1>8, <1>s DEF b

\* Two of the five points are for a ratio that has a streak, one is for its age:
\* the third is a spike's or a PEG's.
LEMMA SignalNeedsAStreak ==
    ASSUME NEW s \in Seq(Bar), Len(s) >= Window, PatternDuration(s) \in Nat,
           PatternDuration(s) = 0 => ~ Asymmetric(s, Len(s)),
           NEW gapScore, AccumulationRun(s, gapScore).signal = "ACCUMULATION"
    PROVE  /\ PatternDuration(s) > 0
           /\ PatternDuration(s) >= Sustained \/ Spike(s) \/ gapScore >= 3
<1> DEFINE ratio == UpDownRatio(Tail20(s, Len(s)))
           Worth(cond) == IF cond THEN 1 ELSE 0
           score == Worth(MoreThan(ratio, 3, 2)) + Worth(MoreThan(ratio, 5, 2)) + Worth(Spike(s))
                    + Worth(PatternDuration(s) >= Sustained) + Worth(gapScore >= 3)
<1>1. ratio.n \in Nat /\ ratio.d \in Nat
  <2> DEFINE m == Len(s) - Window + 1
  <2>1. m \in Nat \ {0} /\ m <= Len(s) /\ Len(s) \in Nat /\ Len(s) + 0 <= Len(s)
    BY AccumulationAssumption
  <2>2. Tail20(s, Len(s)) = SubSeq(s, m, Len(s))
    BY DEF Tail20
  <2> HIDE DEF m
  <2>3. \A k \in m .. Len(s) : s[k] = s[k + 0]
    BY <2>1
  <2>4. SubSeq(s, m, Len(s)) \in Seq(Bar)
    BY <2>1, <2>3, StretchIsRead
  <2> QED  BY <2>2, <2>4, RatioIsOfNaturals
<1>2. Asymmetric(s, Len(s)) <=> AtLeast(ratio, 3, 2)
  BY DEF Asymmetric
<1> HIDE DEF ratio
<1>3. ~ AtLeast(ratio, 3, 2) => ~ MoreThan(ratio, 3, 2) /\ ~ MoreThan(ratio, 5, 2)
  BY <1>1 DEF AtLeast, MoreThan
<1>4. PatternDuration(s) = 0 => ~ (PatternDuration(s) >= Sustained)
  BY AccumulationAssumption
<1>5. PatternDuration(s) = 0 => score \in 0 .. 2
  BY <1>2, <1>3, <1>4
<1>6. PatternDuration(s) < Sustained /\ ~ Spike(s) /\ ~ (gapScore >= 3) => score \in 0 .. 2
  <2> SUFFICES ASSUME ~ (PatternDuration(s) >= Sustained), ~ Spike(s), ~ (gapScore >= 3) PROVE score \in 0 .. 2
    BY AccumulationAssumption
  <2> QED  OBVIOUS
<1> HIDE DEF score, Worth
<1>7. ~ (Len(s) < Window)
  BY AccumulationAssumption
<1>8. AccumulationRun(s, gapScore).signal =
        IF ~AtLeast(ratio, 7, 10) THEN "DISTRIBUTION_WARNING"
        ELSE IF score >= 3 THEN "ACCUMULATION"
        ELSE IF AtLeast(ratio, 3, 2) /\ PatternDuration(s) \in 1 .. Early - 1
             THEN "EARLY_ACCUMULATION" ELSE "NEUTRAL"
  BY <1>7 DEF AccumulationRun, ratio, score, Worth
<1>9. score >= 3
  BY <1>8
<1>10. ~ (score \in 0 .. 2)
  BY <1>9
<1>11. PatternDuration(s) # 0
  BY <1>5, <1>10
<1>12. ~ (PatternDuration(s) < Sustained /\ ~ Spike(s) /\ ~ (gapScore >= 3))
  BY <1>6, <1>10
<1> QED  BY <1>11, <1>12, AccumulationAssumption

\* What a year's streak makes of the one before.
Continues(f, score, g, newScore) ==
    LET before == AccumulationRun(f, score).duration
        now == AccumulationRun(g, newScore)
    IN  /\ now.duration \in {0, Min({before + 1, Len(g) - Window + 1})}
        /\ now.signal = "ACCUMULATION" =>
              /\ now.duration > 0
              /\ now.duration >= Sustained \/ Spike(g) \/ newScore >= 3

LEMMA StreakContinues ==
    ASSUME NEW f, NEW g, NEW cut, MovesOn(f, g, cut), NEW score, NEW newScore
    PROVE  Continues(f, score, g, newScore)
<1>0. f \in Seq(Bar) /\ g \in Seq(Bar) /\ Len(f) \in Nat /\ Len(g) \in Nat /\ Window \in Nat
  BY AccumulationAssumption DEF MovesOn
<1> DEFINE now == AccumulationRun(g, newScore)
<1>1. CASE Len(g) < Window
  <2>1. now.duration = 0 /\ now.signal = "NEUTRAL"
    BY <1>1 DEF AccumulationRun
  <2> QED  BY <2>1 DEF Continues
<1>2. CASE Len(g) >= Window
  <2> DEFINE top == Len(g) - Window + 1
             longer == Streak(f) + 1
             b == PatternDuration(g)
  <2>1. /\ b \in {0, IF longer <= top THEN longer ELSE top}
        /\ b = 0 => ~ Asymmetric(g, Len(g))
        /\ longer \in Nat /\ top \in Nat /\ b \in Nat
    BY <1>2, StreakByASession
  <2>2. now.duration = b
    BY <1>0, <1>2 DEF AccumulationRun
  <2>3. AccumulationRun(f, score).duration = Streak(f)
    BY <1>0 DEF AccumulationRun, Streak
  <2>4. now.signal = "ACCUMULATION" => b > 0 /\ (b >= Sustained \/ Spike(g) \/ newScore >= 3)
    BY <1>0, <1>2, <2>1, SignalNeedsAStreak
  <2> HIDE DEF now, top, longer, b
  <2>5. Min({longer, top}) = IF longer <= top THEN longer ELSE top
    <3>1. {longer, top} \subseteq Nat /\ {longer, top} # {}
      BY <2>1
    <3>2. Min({longer, top}) \in {longer, top} /\ \A x \in {longer, top} : Min({longer, top}) <= x
      BY <3>1, Smallest
    <3> QED  BY <2>1, <3>2
  <2>6. now.duration \in {0, Min({longer, top})}
    BY <2>1, <2>2, <2>5
  <2>7. now.signal = "ACCUMULATION" =>
           now.duration > 0 /\ (now.duration >= Sustained \/ Spike(g) \/ newScore >= 3)
    BY <2>2, <2>4
  <2> QED  BY <2>3, <2>6, <2>7 DEF Continues, now, top, longer
<1> QED  BY <1>0, <1>1, <1>2

\* Recomputed from the last year, the streak grows by the session, as far as the
\* year has windows for it, or ends with it; and ACCUMULATION is signalled neither
\* outside a streak nor, while that is young, without a spike or a PEG
\* (accumulation.run, _pattern_duration on price._slice_period).
THEOREM StreakIsContinuous == Spec => StreakGrowsOrEnds
<1> DEFINE Goes == \A f \in {Daily(bars)}, g \in {Daily(bars')} :
          LET before == AccumulationRun(f, PegScoreOf(f, nymo)).duration
              score == PegScoreOf(g, nymo')
              now == AccumulationRun(g, score)
          IN  /\ now.duration \in {0, Min({before + 1, Len(g) - Window + 1})}
              /\ now.signal = "ACCUMULATION" =>
                    /\ now.duration > 0
                    /\ now.duration >= Sustained \/ Spike(g) \/ score >= 3
<1>1. ASSUME Series, Framed, Framed', Next PROVE Goes
  <2>1. PICK b \in Close, condition \in {"neutral", "unfavorable"} : Session(b, condition)
    BY <1>1 DEF Next
  <2>2. /\ bars \in Seq(Bar) /\ bars' \in Seq(Bar) /\ Len(bars') = Len(bars) + 1
        /\ \A k \in 1 .. Len(bars) : bars'[k] = bars[k]
    BY <1>1, <2>1, SessionAppends DEF Series
  <2>3. Frame(bars) /\ Frame(bars')
    BY <1>1 DEF Framed
  <2>4. MovesOn(Daily(bars), Daily(bars'), From(bars') - From(bars))
    BY <2>2, <2>3, YearMovesOn
  <2>5. Continues(Daily(bars), PegScoreOf(Daily(bars), nymo), Daily(bars'), PegScoreOf(Daily(bars'), nymo'))
    BY <2>4, StreakContinues
  <2> QED  BY <2>5 DEF Continues
<1>2. Series /\ Framed /\ Framed' /\ [Next]_tradingVars => [Goes]_tradingVars
  BY <1>1
<1> QED  BY <1>2, FramesHold, PTL DEF Spec, StreakGrowsOrEnds
=============================================================================
