-------------------------------- MODULE Strat --------------------------------
(***************************************************************************)
(* The Strat (agent-runner/skills/the_strat.py) on the frames that         *)
(* tools/price.py resamples from the stored daily series.                  *)
(*                                                                         *)
(* A bar is [d, o, h, l, c, v]: day, open, high, low, close, volume; a     *)
(* frame is a sequence of bars by ascending day.  Prices are integers, so  *)
(* the code's ratios are compared by cross-multiplication.                 *)
(***************************************************************************)
EXTENDS Integers, Sequences, SequencesExt

CONSTANTS Week, Month, Quarter, Year,   \* days in a period of each frame
          DailySpan, WeeklySpan, MonthlySpan    \* 1y, 2y, 5y in days

ASSUME StratAssumption ==
    /\ {Week, Month, Quarter, Year} \subseteq Nat \ {0}
    /\ Quarter % Month = 0 /\ Year % Month = 0
    /\ {DailySpan, WeeklySpan, MonthlySpan} \subseteq Nat

-----------------------------------------------------------------------------
\* tools/price.py: the five frames of one stored series.

\* Mutant: the lowest price of a period is that of its last row.
AggregateLastLow(s, rows, d) ==
    [d |-> d, o |-> s[Min(rows)].o, h |-> Max({s[k].h : k \in rows}), l |-> s[Max(rows)].l,
     c |-> s[Max(rows)].c, v |-> SumFunctionOnSet([k \in rows |-> s[k].v], rows)]

\* first, max, min, last, sum of some rows of s; the label is a day.
Aggregate(s, rows, d) ==
    [d |-> d, o |-> s[Min(rows)].o,
     h |-> Max({s[k].h : k \in rows}), l |-> Min({s[k].l : k \in rows}),
     c |-> s[Max(rows)].c, v |-> SumFunctionOnSet([k \in rows |-> s[k].v], rows)]

\* One bar for every period that has a row, labelled by the period's last day.
Periods(s, width) == {s[k].d \div width : k \in DOMAIN s}
Nth(periods, n) == CHOOSE p \in periods : Cardinality({q \in periods : q <= p}) = n
RowsIn(s, width, p) == {k \in DOMAIN s : s[k].d \div width = p}
Resample(s, width) ==
    LET periods == Periods(s, width)
    IN  [n \in 1 .. Cardinality(periods) |->
            LET p == Nth(periods, n)
            IN  Aggregate(s, RowsIn(s, width, p), p * width + width - 1)]

\* The rows from the cutoff on, which in a series by ascending day are its tail.
SlicePeriod(s, span) ==
    SubSeq(s, Min({k \in DOMAIN s : s[k].d >= Last(s).d - span}), Len(s))

PriceHistory(s) ==
    LET monthly == Resample(s, Month) IN
    [daily     |-> SlicePeriod(s, DailySpan),
     weekly    |-> SlicePeriod(Resample(s, Week), WeeklySpan),
     monthly   |-> SlicePeriod(monthly, MonthlySpan),
     quarterly |-> Resample(monthly, Quarter),
     yearly    |-> Resample(monthly, Year)]

-----------------------------------------------------------------------------
\* skills/the_strat.py.

BarType(s, i) ==
    LET hh == s[i].h > s[i - 1].h
        ll == s[i].l < s[i - 1].l
    IN  IF hh /\ ll THEN "3" ELSE IF hh THEN "2U" ELSE IF ll THEN "2D" ELSE "1"

ClassifyBars(s) == [i \in 1 .. Len(s) - 1 |-> BarType(s, i + 1)]

\* _range_pos: where in its range the bar closed, as a percentage; no answer
\* for a bar without a range.
ClosesAbove(b, pct) == b.h > b.l /\ 100 * (b.c - b.l) >= pct * (b.h - b.l)
ClosesBelow(b, pct) == b.h > b.l /\ 100 * (b.c - b.l) <= pct * (b.h - b.l)

IsHammer(s, i) == BarType(s, i) = "2D" /\ ClosesAbove(s[i], 67)
IsShooter(s, i) == BarType(s, i) = "2U" /\ ClosesBelow(s[i], 33)
Color(b) == IF b.c > b.o THEN "green" ELSE "red"

Long == {"revstrat_2bar_bullish", "hammer", "revstrat_1bar_bullish",
         "212_reversal_bullish", "22_reversal_bullish", "kicking_bullish"}
Short == {"revstrat_2bar_bearish", "shooting_star", "revstrat_1bar_bearish",
          "212_reversal_bearish", "22_reversal_bearish", "kicking_bearish"}
Either == {"inside_bar_setup"}

\* The patterns at the latest bar: name and direction.  The trigger is the
\* bar's high for a long, its low for a short, its open for a kicking.
DetectPatterns(s) ==
    LET i == Len(s)
        b == s[i]
        t0 == BarType(s, i)
        t1 == BarType(s, i - 1)
        t2 == IF i >= 4 THEN BarType(s, i - 2) ELSE "none"
        Present(name) ==
            CASE name = "inside_bar_setup"      -> t0 = "1"
              [] name = "revstrat_2bar_bullish" -> IsHammer(s, i) /\ t1 = "1"
              [] name = "hammer"                -> IsHammer(s, i) /\ t1 # "1"
              [] name = "revstrat_2bar_bearish" -> IsShooter(s, i) /\ t1 = "1"
              [] name = "shooting_star"         -> IsShooter(s, i) /\ t1 # "1"
              [] name = "revstrat_1bar_bullish" -> t1 = "1" /\ t0 = "3" /\ ClosesAbove(b, 50)
              [] name = "revstrat_1bar_bearish" -> t1 = "1" /\ t0 = "3" /\ ~ClosesAbove(b, 50)
              [] name = "212_reversal_bullish"  -> <<t2, t1, t0>> = <<"2D", "1", "2U">>
              [] name = "212_reversal_bearish"  -> <<t2, t1, t0>> = <<"2U", "1", "2D">>
              [] name = "22_reversal_bullish"   -> <<t1, t0>> = <<"2D", "2U">>
              [] name = "22_reversal_bearish"   -> <<t1, t0>> = <<"2U", "2D">>
              [] name = "kicking_bullish"       -> Color(s[i - 1]) = "red" /\ b.o > s[i - 1].h
              [] name = "kicking_bearish"       -> Color(s[i - 1]) = "green" /\ b.o < s[i - 1].l
    IN  IF i < 3 THEN {} ELSE {name \in Long \cup Short \cup Either : Present(name)}

\* Mutant: a sale at the open counts as above it.
TfcAtLeast(lastSale, frames) ==
    LET colors == {IF lastSale >= Last(f).o THEN "green" ELSE "red" : f \in frames}
    IN  IF colors = {"green"} THEN "full_bullish"
        ELSE IF colors = {"red"} THEN "full_bearish" ELSE "conflict"

\* Time Frame Continuity: the last sale against the open of each open bar.
Tfc(lastSale, frames) ==
    LET colors == {IF lastSale > Last(f).o THEN "green" ELSE "red" : f \in frames}
    IN  IF colors = {"green"} THEN "full_bullish"
        ELSE IF colors = {"red"} THEN "full_bearish" ELSE "conflict"

\* The daily bar is named although it does not count for alignment.
DailyNotable(s) ==
    (DetectPatterns(s) \ Either)
        \cup IF BarType(s, Len(s)) = "3" THEN {"outside_bar"} ELSE {}

Frames == {"weekly", "monthly", "quarterly", "yearly"}

\* run: the status, and the setups it calls aligned with it.
StratRun(h) ==
    LET status == Tfc(Last(h.daily).c, {h[f] : f \in Frames})
        side == CASE status = "full_bullish" -> Long \cup Either
                  [] status = "full_bearish" -> Short \cup Either
                  [] OTHER                   -> Long \cup Short \cup Either
    IN  IF \E f \in DOMAIN h : Len(h[f]) < 2 THEN [status |-> "insufficient"]
        ELSE [status |-> status,
              sequence |-> [f \in DOMAIN h |->
                  LET seq == ClassifyBars(h[f])
                  IN  SubSeq(seq, IF Len(seq) > 5 THEN Len(seq) - 4 ELSE 1, Len(seq))],
              setups |-> {s \in Frames \X side : s[2] \in DetectPatterns(h[s[1]])},
              notable |-> DailyNotable(h.daily)]
=============================================================================
