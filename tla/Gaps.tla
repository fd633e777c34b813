-------------------------------- MODULE Gaps ---------------------------------
(***************************************************************************)
(* Gap detection and classification (agent-runner/skills/gap_analysis.py)  *)
(* on a daily series: a sequence of bars [d, o, h, l, c, v].               *)
(***************************************************************************)
EXTENDS Integers, Sequences, FiniteSetsExt, Functions

CONSTANTS GapLookback,              \* GAP_LOOKBACK, sessions scanned
          SmaWindow, SmaMin,        \* the 30-session average, from 10 rows on
          VolumeWindow, VolumeMin,  \* VOLUME_AVG_WINDOW, from 5 rows on
          PriorWindow, PriorMin     \* the 20 sessions of context, at least 10

ASSUME GapsAssumption ==
    GapLookback \in Nat /\ {SmaWindow, VolumeWindow, PriorWindow} \subseteq Nat \ {0}

\* The n rows up to row i, or as many as there are.
Recent(s, i, n) == SubSeq(s, IF i > n THEN i - n + 1 ELSE 1, i)

\* A mean is kept as its sum and its count; none below the minimum of rows.
Mean(values, min) ==
    IF Len(values) < min THEN [sum |-> 0, n |-> 0]
    ELSE [sum |-> SumFunction(values), n |-> Len(values)]
Closes(w) == [k \in 1 .. Len(w) |-> w[k].c]
Volumes(w) == [k \in 1 .. Len(w) |-> w[k].v]

Candle(b) == IF b.c > b.o THEN "W" ELSE "B"

\* The volume over the average of the sessions before it.
VolumeClass(v, avg) ==
    CASE avg.n = 0 \/ avg.sum = 0            -> "unknown"
      [] v * avg.n > 2 * avg.sum             -> "extreme"
      [] 4 * v * avg.n > 5 * avg.sum         -> "high"
      [] 4 * v * avg.n >= 3 * avg.sum        -> "average"
      [] OTHER                               -> "low"

\* volume_ratio is rounded to hundredths before it is compared with two.
DoubleVolume(v, avg) ==
    avg.n # 0 /\ avg.sum # 0 /\ (200 * v * avg.n + avg.sum) \div (2 * avg.sum) >= 200

\* The level a gap left and how far it went; size_pct, rounded to hundredths.
Level(s, i, up) == IF up THEN s[i - 1].h ELSE s[i - 1].l
Jump(s, i, up) == IF up THEN s[i].l - s[i - 1].h ELSE s[i - 1].l - s[i].h
Size(s, i, up) ==
    (20000 * Jump(s, i, up) + Level(s, i, up)) \div (2 * Level(s, i, up))

GapType(s, i, up) ==
    LET prior == Recent(s, i - 1, PriorWindow)
        first == prior[1].c
        last == s[i - 1].c
        range == Max({prior[k].h : k \in DOMAIN prior}) - Min({prior[k].l : k \in DOMAIN prior})
        move == 100 * (last - first)
    IN  CASE Len(prior) < PriorMin \/ 100 * Jump(s, i, up) < Level(s, i, up) -> "common"
          [] (up /\ move > 15 * first) \/ (~up /\ move < -15 * first) -> "exhaustion"
          [] 100 * range < 5 * last -> "breakaway"
          [] OTHER -> "runaway"

\* Mutant: the last session that touches the level, not the first.
DaysToFillLast(s, i, up) ==
    LET hits == {k \in i + 1 .. Len(s) :
                    IF up THEN s[k].l <= Level(s, i, up) ELSE s[k].h >= Level(s, i, up)}
    IN  IF hits = {} THEN 0 ELSE Max(hits) - i

\* A gap up fills when a later low touches the high before it, and vice versa:
\* sessions until then, 0 while it is open.
DaysToFill(s, i, up) ==
    LET hits == {k \in i + 1 .. Len(s) :
                    IF up THEN s[k].l <= Level(s, i, up) ELSE s[k].h >= Level(s, i, up)}
    IN  IF hits = {} THEN 0 ELSE Min(hits) - i

Point(cond) == IF cond THEN 1 ELSE 0

ScoreGap(g) ==
    Point(g.size > 100) +
    IF g.up
    THEN Point(g.pattern = <<"W", "W">>) + Point(~g.above)
         + Point(g.volume \in {"high", "extreme"}) + Point(g.type = "exhaustion")
    ELSE Point(g.pattern[1] = "B") + Point(g.above) + Point(g.volume = "low")

Bias(g) ==
    CASE g.up /\ g.pattern = <<"B", "W">>  -> "LONG day 1"
      [] g.up /\ g.pattern # <<"B", "W">>  -> "SHORT days 1-10, LONG by day 30"
      [] ~g.up /\ g.pattern[1] = "B"       -> "LONG day 1"
      [] ~g.up /\ g.pattern = <<"W", "B">> -> "avoid long through day 30"
      [] ~g.up /\ g.pattern = <<"W", "W">> -> "LONG at day 3+"

IsGap(s, i) == s[i].l > s[i - 1].h \/ s[i].h < s[i - 1].l

\* What the scan records of the gap of session i.
GapAt(s, i) ==
    LET up == s[i].l > s[i - 1].h
        b == s[i]
        sma == Mean(Closes(Recent(s, i, SmaWindow)), SmaMin)
        avg == Mean(Volumes(Recent(s, i - 1, VolumeWindow)), VolumeMin)
    IN  [d |-> b.d, up |-> up, size |-> Size(s, i, up),
         pattern |-> <<Candle(s[i - 1]), Candle(b)>>,
         volume |-> VolumeClass(b.v, avg), double |-> DoubleVolume(b.v, avg),
         above |-> sma.n # 0 /\ b.l * sma.n > sma.sum,
         type |-> GapType(s, i, up),
         strong |-> b.h > b.l /\ 10 * (b.c - b.l) >= 9 * (b.h - b.l),
         fill |-> DaysToFill(s, i, up)]

Scanned(s) == (IF Len(s) > GapLookback + 1 THEN Len(s) - GapLookback + 1 ELSE 2) .. Len(s)
GapDays(s) == {i \in Scanned(s) : IsGap(s, i)}

\* Up, at an earnings date, closing strong on twice the volume.
QualifiesPeg(g, earnings) ==
    g.up /\ g.strong /\ g.double /\ \E e \in earnings : g.d - e \in -1 .. 1

\* The crew passes NYMO, which may have no reading, and neither short interest nor the sector's trend.
PegScore(g, nymo) ==
    2 * Point(g.strong) + Point(g.double) + Point(nymo \in Int /\ nymo < 40)

\* run, with the crew's arguments.  The latest gap that qualifies is the PEG.
GapRun(s, earnings, nymo) ==
    LET pegs == {i \in GapDays(s) : QualifiesPeg(GapAt(s, i), earnings)}
        score == IF pegs = {} THEN 0 ELSE PegScore(GapAt(s, Max(pegs)), nymo)
        latest == IF GapDays(s) = {} THEN 0 ELSE Max(GapDays(s))
    IN  [latest |-> latest, peg |-> IF pegs = {} THEN 0 ELSE Max(pegs),
         pegScore |-> score, r2g |-> pegs # {} /\ Max(pegs) = Len(s),
         signal |-> CASE latest = 0 -> "none"
                      [] latest # 0 /\ score >= 4 -> "peg"
                      [] latest # 0 /\ score < 4 /\ ScoreGap(GapAt(s, latest)) >= 3 ->
                            Bias(GapAt(s, latest))
                      [] OTHER -> "skip"]
=============================================================================
