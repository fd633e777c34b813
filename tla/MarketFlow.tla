----------------------------- MODULE MarketFlow ------------------------------
(***************************************************************************)
(* NYMO/NAMO timing (agent-runner/skills/market_flow.py).  A reading is an *)
(* integer, or Unknown; a history is a sequence of readings.               *)
(***************************************************************************)
EXTENDS Integers, Sequences, SequencesExt

CONSTANTS Unknown,              \* no reading
          DivergenceLookback    \* DIVERGENCE_LOOKBACK

ClassifyLevel(value) ==
    CASE value = Unknown -> "unknown"
      [] value # Unknown /\ value <= -100          -> "panic"
      [] value # Unknown /\ value \in -99 .. -80   -> "extreme_oversold"
      [] value # Unknown /\ value \in -79 .. -60   -> "oversold"
      [] value # Unknown /\ value \in -59 .. -40   -> "moderate_oversold"
      [] value # Unknown /\ value \in -39 .. -1    -> "mild_weakness"
      [] value # Unknown /\ value \in 0 .. 20      -> "neutral"
      [] value # Unknown /\ value \in 21 .. 60     -> "bullish_momentum"
      [] value # Unknown /\ value > 60             -> "overbought"

Extreme == {"extreme_oversold", "panic"}
Deep == Extreme \cup {"oversold"}

\* The first index of is at which f is least (Python's min with a key).
ArgMin(f, is) == CHOOSE i \in is : \A j \in is : f[i] < f[j] \/ (f[i] = f[j] /\ i <= j)

\* SPY retests its low while NYMO troughs at least 20 higher.
Divergence(nymoValues, spyCloses) ==
    LET Least(S) == CHOOSE x \in S : \A y \in S : x <= y
        n == Least({Len(nymoValues), Len(spyCloses), DivergenceLookback})
        nymo == SubSeq(nymoValues, Len(nymoValues) - n + 1, Len(nymoValues))
        spy == SubSeq(spyCloses, Len(spyCloses) - n + 1, Len(spyCloses))
        half == n \div 2
        i1 == ArgMin(nymo, 1 .. half)
        low1 == spy[ArgMin(spy, 1 .. half)]
        i2 == ArgMin(spy, i1 + 2 .. n)
        off == IF spy[i2] > low1 THEN spy[i2] - low1 ELSE low1 - spy[i2]
    IN  /\ n >= 8
        /\ nymo[i1] <= -50
        /\ 1000 * off <= 15 * low1
        /\ nymo[i2] >= nymo[i1] + 20

\* The history it reads keeps only the readings that have a value.
HistoryValues(readings) == SelectSeq(readings, LAMBDA v : v # Unknown)

Verdict(r, c) == [recommendation |-> r, conviction |-> c]

\* Was at -60 or below within the history, is back above -40.
Recovered(readings, current) ==
    (\E v \in ToSet(readings) : v # Unknown /\ v <= -60) /\ current > -40

\* The branches of run, in their order.  gap is the latest gap as [up, score,
\* exhaustion], or a record with score = -1 when there is none.
Decide(current, readings, diverges, gap) ==
    LET values == HistoryValues(readings)
        signal == ClassifyLevel(current)
        crossed == Len(values) >= 2 /\ values[Len(values) - 1] > 0 /\ current < 0
    IN  IF current = Unknown THEN Verdict("HOLD", "low")
        ELSE IF diverges
             THEN Verdict("BUY_MORE", IF signal \in Extreme THEN "max" ELSE "high")
        ELSE IF signal \in Extreme THEN Verdict("BUY_MORE", "high")
        ELSE IF signal = "oversold"
             THEN Verdict("BUY_MORE", IF ~gap.up /\ gap.score >= 3 THEN "high" ELSE "medium")
        ELSE IF Recovered(readings, current) THEN Verdict("BUY_MORE", "medium")
        ELSE IF signal = "overbought"
             THEN IF gap.score >= 0 /\ gap.up /\ gap.exhaustion
                  THEN Verdict("START_SELLING", "high") ELSE Verdict("TRIM", "medium")
        ELSE IF current > 40 THEN Verdict("AVOID_ADD", "medium")
        ELSE IF crossed THEN Verdict("WATCH", "medium")
        ELSE Verdict("HOLD", "low")

\* A high-priority PEG turns a HOLD into a WATCH while NYMO is below 40.
FlowRun(readings, spyCloses, gap, pegScore) ==
    LET current == IF readings = <<>> THEN Unknown ELSE Last(readings)
        diverges == spyCloses # <<>> /\ Divergence(HistoryValues(readings), spyCloses)
        verdict == Decide(current, readings, diverges, gap)
    IN  IF /\ pegScore >= 4 /\ current # Unknown /\ current < 40
           /\ verdict.recommendation = "HOLD"
        THEN Verdict("WATCH", "medium") ELSE verdict
=============================================================================
