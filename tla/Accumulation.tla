---------------------------- MODULE Accumulation -----------------------------
(***************************************************************************)
(* Accumulation volume (agent-runner/skills/accumulation.py) on a daily    *)
(* series.  A ratio is a pair [n, d]; the code's infinity has d = 0.       *)
(***************************************************************************)
EXTENDS Integers, Sequences, FiniteSetsExt, Functions

CONSTANTS Window,           \* WINDOW, sessions of the up/down ratio
          AdvWindow,        \* ADV_WINDOW
          Sustained, Early  \* SUSTAINED_DAYS, EARLY_DAYS

ASSUME AccumulationAssumption ==
    Window \in Nat \ {0} /\ AdvWindow \in Nat /\ Sustained \in Nat \ {0} /\ Early \in Nat

AtLeast(r, num, den) == r.n * den >= num * r.d
MoreThan(r, num, den) == r.n * den > num * r.d

SumVolume(s, is) == SumFunctionOnSet([k \in is |-> s[k].v], is)
UpDays(w) == {k \in DOMAIN w : w[k].c > w[k].o}
DownDays(w) == {k \in DOMAIN w : w[k].c < w[k].o}

\* The window that ends at session e.
Tail20(s, e) == SubSeq(s, e - Window + 1, e)

\* The ratio of the mean volumes in a window.
UpDownRatio(w) ==
    LET ups == UpDays(w)
        downs == DownDays(w)
    IN  IF ups = {} THEN [n |-> 0, d |-> 1]
        ELSE IF SumVolume(w, downs) = 0 THEN [n |-> 1, d |-> 0]
        ELSE [n |-> SumVolume(w, ups) * Cardinality(downs),
              d |-> SumVolume(w, downs) * Cardinality(ups)]

Asymmetric(s, e) == AtLeast(UpDownRatio(Tail20(s, e)), 3, 2)

\* Mutant: sessions of the streak are counted, not consecutive ones.
DurationOfAll(s) == Cardinality({e \in Window .. Len(s) : Asymmetric(s, e)})

\* Sessions, ending with the last, on each of which the ratio held at 1.5.
PatternDuration(s) ==
    Max({k \in 0 .. Len(s) - Window + 1 :
            \A e \in Len(s) - k + 1 .. Len(s) : Asymmetric(s, e)})

\* An up day on three times the average daily volume before it.
Spike(s) ==
    \E k \in Len(s) - Window + 1 .. Len(s) :
        LET before == (IF k > AdvWindow THEN k - AdvWindow ELSE 1) .. k - 1 IN
        /\ s[k].c > s[k].o
        /\ Cardinality(before) >= Window
        /\ s[k].v * Cardinality(before) > 3 * SumVolume(s, before)

\* run: gapScore is the PEG score, 0 when there is none.
AccumulationRun(s, gapScore) ==
    LET ratio == UpDownRatio(Tail20(s, Len(s)))
        duration == PatternDuration(s)
        Point(cond) == IF cond THEN 1 ELSE 0
        score == Point(MoreThan(ratio, 3, 2)) + Point(MoreThan(ratio, 5, 2)) + Point(Spike(s))
                 + Point(duration >= Sustained) + Point(gapScore >= 3)
    IN  IF Len(s) < Window THEN [score |-> 0, duration |-> 0, signal |-> "NEUTRAL"]
        ELSE [score |-> score, duration |-> duration,
              signal |-> IF ~AtLeast(ratio, 7, 10) THEN "DISTRIBUTION_WARNING"
                         ELSE IF score >= 3 THEN "ACCUMULATION"
                         ELSE IF AtLeast(ratio, 3, 2) /\ duration \in 1 .. Early - 1
                              THEN "EARLY_ACCUMULATION" ELSE "NEUTRAL"]
=============================================================================
