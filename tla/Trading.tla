------------------------------- MODULE Trading -------------------------------
(***************************************************************************)
(* The deterministic skills on a series that grows by a session at a time: *)
(* what crew.Crew.run computes for a ticker after each close (The Strat,   *)
(* gaps, accumulation, market flow).  Daily skills get the last year of    *)
(* the series, so sessions leave their input at one end as they enter it   *)
(* at the other.  With it runs the trailing stop of a position held in the *)
(* ticker.  Nothing in the repository calls position_management.run or     *)
(* keeps its positions: that a report's stop is the next session's is what *)
(* its docstring asks of a caller.                                         *)
(***************************************************************************)
EXTENDS Strat, Gaps, Accumulation, MarketFlow, Position

CONSTANTS Close,        \* what a session can bring: [o, h, l, c, v, nymo]
          Trades,       \* the days that are sessions, ascending
          Earnings      \* days with an earnings report

ASSUME TradingAssumption ==
    /\ Close \subseteq [o : Nat, h : Nat, l : Nat, c : Nat, v : Nat, nymo : Int \cup {Unknown}]
    /\ \A b \in Close : b.l > 0 /\ b.l <= b.o /\ b.o <= b.h /\ b.l <= b.c /\ b.c <= b.h
    /\ Trades \in Seq(Nat) \ {<<>>}
    /\ \A i, j \in DOMAIN Trades : i < j => Trades[i] < Trades[j]

VARIABLES bars,         \* the stored daily series
          nymo,         \* the NYMO reading of each session
          position,     \* [entry, since, stop], or Flat once it is exited
          report        \* what the position's last report said

tradingVars == <<bars, nymo, position, report>>

Flat == [entry |-> 0, since |-> 0, stop |-> 0]
NoReport == Report("NONE", 0, {})

\* A ticker with its first session, bought at the close, stopped below its low.
Init ==
    \E b \in Close :
        /\ bars = <<[d |-> Trades[1], o |-> b.o, h |-> b.h, l |-> b.l, c |-> b.c, v |-> b.v]>>
        /\ nymo = <<b.nymo>>
        /\ position = [entry |-> b.c, since |-> Trades[1], stop |-> b.l - StopBuffer]
        /\ report = NoReport

\* A session closes and is analysed.
Session(b, condition) ==
    LET bar == [d |-> Trades[Len(bars) + 1], o |-> b.o, h |-> b.h, l |-> b.l, c |-> b.c, v |-> b.v]
        r == Manage(position, Last(bars), bar, condition, Earnings)
    IN  /\ Len(bars) < Len(Trades)
        /\ bars' = Append(bars, bar)
        /\ nymo' = Append(nymo, b.nymo)
        /\ report' = IF position = Flat THEN NoReport ELSE r
        /\ position' = IF position # Flat /\ r.action # "EXIT"
                       THEN [position EXCEPT !.stop = r.newStop] ELSE Flat

Next == \E b \in Close, condition \in {"neutral", "unfavorable"} : Session(b, condition)

Spec == Init /\ [][Next]_tradingVars

-----------------------------------------------------------------------------
\* What Crew.run makes of the series.  The daily frame is the last year of it.
Daily(s) == SlicePeriod(s, DailySpan)
Gap == GapRun(Daily(bars), Earnings, Last(nymo))
PegScoreOf(s, readings) == GapRun(s, Earnings, Last(readings)).pegScore
LatestGap ==
    IF Gap.latest = 0 THEN [up |-> FALSE, score |-> -1, exhaustion |-> FALSE]
    ELSE LET g == GapAt(Daily(bars), Gap.latest) IN
         [up |-> g.up, score |-> ScoreGap(g), exhaustion |-> g.type = "exhaustion"]
Flow == FlowRun(nymo, <<>>, LatestGap, Gap.pegScore)
Volume == AccumulationRun(Daily(bars), Gap.pegScore)
Chart == PriceHistory(bars)
Setup == StratRun(Chart)

-----------------------------------------------------------------------------
\* A period that is still open is classified again after every session: its
\* bar may go from 1 to 2 and from 2 to 3, never back, so a pattern that needs
\* an inside bar can go and a pattern that needs an outside bar stays
\* (the_strat.bar_type on price._resample).
Wider == {<<"1", "1">>, <<"1", "2U">>, <<"1", "2D">>, <<"1", "3">>, <<"2U", "2U">>,
          <<"2U", "3">>, <<"2D", "2D">>, <<"2D", "3">>, <<"3", "3">>}
OpenBarOnlyWidens ==
    [][\A width \in {Week, Month, Quarter, Year} :
          \A f \in {Resample(bars, width)}, g \in {Resample(bars', width)} :
              Len(f) = Len(g) /\ Len(f) >= 2 =>
                  <<BarType(f, Len(f)), BarType(g, Len(g))>> \in Wider]_tradingVars

\* What is advised rests on the series itself.  Continuity, which is read off bars
\* resampled in one step or in two and cut to a span, is the last close against
\* the first open of each period that is under way; and adding above +40 rests on
\* a reading of -60 or below, in whatever order the rules come (the_strat._tfc on
\* price.get_price_history; market_flow.run).
Opening(width) ==
    bars[Min({k \in DOMAIN bars : bars[k].d \div width = Last(bars).d \div width})].o
AdviceHasGrounds ==
    LET sale == Last(bars).c
        opens == {Opening(width) : width \in {Week, Month, Quarter, Year}}
    IN  /\ Setup.status = "full_bullish" => \A o \in opens : sale > o
        /\ Setup.status = "full_bearish" => \A o \in opens : sale <= o
        /\ Setup.status = "conflict" =>
              (\E o \in opens : sale > o) /\ (\E o \in opens : sale <= o)
        /\ Flow.recommendation = "BUY_MORE" /\ Last(nymo) > 40 =>
              \E k \in DOMAIN nymo : nymo[k] # Unknown /\ nymo[k] <= -60

\* A gap once recorded is recorded alike after every later session, although the
\* series it is found in has lost sessions since, but for its fill; and a fill,
\* once found, never moves.  Left out: a gap so near the start of the year that
\* its averages would reach before it (gap_analysis.run, _fill_status on
\* price._slice_period).
Reach == Max({SmaWindow, VolumeWindow, PriorWindow})
GapsKeepTheirRecord ==
    [][\A f \in {Daily(bars)}, g \in {Daily(bars')} :
          \A i \in GapDays(f), j \in Scanned(g) :
              g[j].d = f[i].d /\ (j = i \/ j > Reach) =>
                  LET before == GapAt(f, i)
                      now == GapAt(g, j)
                  IN  /\ j \in GapDays(g)
                      /\ [before EXCEPT !.fill = now.fill] = now
                      /\ \/ now.fill = before.fill
                         \/ before.fill = 0 /\ now.fill = Len(g) - j]_tradingVars

\* Over the life of a position its stop never goes down, the session that
\* reaches the stop in force is the last, and while the market is unfavorable
\* the stop stays where it is (position_management.run).
StopIsHonoured ==
    [][position # Flat =>
          LET day == Last(bars') IN
          /\ day.l <= position.stop => position' = Flat
          /\ position' # Flat => position'.stop >= position.stop
          /\ report'.action = "REVIEW" => position' = position]_tradingVars

\* The streak of accumulation is recomputed from the last year after every session,
\* and still only grows by that session, as far as the year has windows for it, or
\* ends with it.  ACCUMULATION is not signalled outside a streak, and while the
\* streak is not SUSTAINED_DAYS old only on a spike or a PEG (accumulation.run,
\* _pattern_duration on price._slice_period).
StreakGrowsOrEnds ==
    [][\A f \in {Daily(bars)}, g \in {Daily(bars')} :
          LET before == AccumulationRun(f, PegScoreOf(f, nymo)).duration
              score == PegScoreOf(g, nymo')
              now == AccumulationRun(g, score)
          IN  /\ now.duration \in {0, Min({before + 1, Len(g) - Window + 1})}
              /\ now.signal = "ACCUMULATION" =>
                    /\ now.duration > 0
                    /\ now.duration >= Sustained \/ Spike(g) \/ score >= 3]_tradingVars
=============================================================================
