----------------------------- MODULE PriceStore -----------------------------
(***************************************************************************)
(* The maintained daily series of one ticker: one price_history document   *)
(* that agent-runner/tools/price_store.py and its hand-kept copy           *)
(* backend/price_store.py read, extend and replace as a whole, and the     *)
(* provider that publishes and restates the bars.  Documents of different  *)
(* tickers never meet, so one is enough.                                   *)
(*                                                                         *)
(* get_series is find_one, a provider call, replace_one: three operations  *)
(* that any other caller's operations may fall between.                    *)
(***************************************************************************)
EXTENDS Integers, FiniteSets

CONSTANTS
    Puller,         \* threads that run a pull's price stage (crew._price_stage)
    Sweeper,        \* threads that run a breadth sweep or an earnings scan
    Chart,          \* backend threads that serve a chart (routers/price.py)
    MaxDay,         \* bound: the last day
    MaxRestated,    \* bound: how many times the whole history is restated
    MaxGap,         \* MAX_GAP_DAYS
    Overlap         \* OVERLAP_DAYS

ASSUME StoreAssumption ==
    /\ MaxDay \in Nat \ {0} /\ MaxRestated \in Nat
    /\ MaxGap \in Nat /\ Overlap \in Nat \ {0}

VARIABLES
    today,          \* date.today()
    published,      \* the provider's bars: "none", "partial" or "final", by day
    scale,          \* how often a split or dividend has restated the history
    doc,            \* the document of the ticker: its bars
    call            \* the get_series call of each thread

marketVars == <<today, published, scale>>
vars == <<today, published, scale, doc, call>>

Day == 1..MaxDay
Thread == Puller \cup Sweeper \cup Chart

NoBar == [form |-> "none", scale |-> 0]
Bar == {NoBar} \cup [form : {"partial", "final"}, scale : 0..MaxRestated]
Series == [Day -> Bar]
Empty == [d \in Day |-> NoBar]

\* What a full retrieval returns: every bar adjusted to the current scale.
Market == [d \in Day |->
              IF published[d] = "none" THEN NoBar
              ELSE [form |-> published[d], scale |-> scale]]

Held(bars) == {d \in Day : bars[d] # NoBar}
IsLast(d, bars) == d \in Held(bars) /\ \A e \in Held(bars) : e <= d

-----------------------------------------------------------------------------
\* The pure functions.

\* Mutant: what is held already is not overwritten.
merge_stored_wins(stored, fetched) ==
    [d \in Day |-> IF stored[d] # NoBar THEN stored[d] ELSE fetched[d]]

\* Keyed on date, the fetched bar wins.
merge_bars(stored, fetched) ==
    [d \in Day |-> IF fetched[d] # NoBar THEN fetched[d] ELSE stored[d]]

\* Mutant: only the days after the last one held are requested.
NoOverlap(d, bars) == \A e \in Held(bars) : e < d

\* A delta requests the days from last_date - OVERLAP_DAYS on, or everything
\* without a baseline or when the gap is too wide.
Requested(d, bars) ==
    \A last \in Day :
        IsLast(last, bars) => d >= last - Overlap \/ today - last > MaxGap

\* Mutant: an empty answer replaces the series.
MergedOutright(c) ==
    IF c.refresh = "full" THEN c.fetched ELSE merge_bars(c.stored, c.fetched)

\* The series that is written.  A full refresh keeps what is stored when the
\* answer is empty.
Merged(c) ==
    IF c.refresh = "full"
    THEN IF c.fetched # Empty THEN c.fetched ELSE c.stored
    ELSE merge_bars(c.stored, c.fetched)

-----------------------------------------------------------------------------
Idle == [pc |-> "idle"]
Busy == [pc : {"peek", "load", "fetch", "store"}, refresh : {"delta", "full"},
         stored : Series, fetched : Series]

TypeOK ==
    /\ today \in Day
    /\ published \in [Day -> {"none", "partial", "final"}]
    /\ scale \in 0..MaxRestated
    /\ doc \in [bars : Series]
    /\ call \in [Thread -> {Idle} \cup Busy]

Init ==
    /\ today = 1
    /\ published = [d \in Day |-> "none"]
    /\ scale = 0
    /\ doc = [bars |-> Empty]
    /\ call = [p \in Thread |-> Idle]

At(p, pc) == call[p].pc = pc

Begin(p, pc, refresh) ==
    call' = [call EXCEPT ![p] = [pc |-> pc, refresh |-> refresh, stored |-> Empty,
                                 fetched |-> Empty]]
Return(p) == call' = [call EXCEPT ![p] = Idle]

\* Crew._price_stage: one refresh per pull, in the mode of the job.
StartPull(p) ==
    /\ p \in Puller /\ call[p] = Idle
    /\ \E refresh \in {"delta", "full"} : Begin(p, "load", refresh)
    /\ UNCHANGED <<marketVars, doc>>

\* breadth._download_closes, breadth._download_spy, earnings_calendar.
StartSweep(p) ==
    /\ p \in Sweeper /\ call[p] = Idle
    /\ Begin(p, "load", "delta")
    /\ UNCHANGED <<marketVars, doc>>

\* get_price
StartChart(p) ==
    /\ p \in Chart /\ call[p] = Idle
    /\ Begin(p, "peek", "delta")
    /\ UNCHANGED <<marketVars, doc>>

\* get_price reads with refresh="none" first, and only an empty series makes
\* it call again with refresh="delta".
Peek(p) ==
    /\ At(p, "peek")
    /\ IF doc.bars = Empty
       THEN call' = [call EXCEPT ![p].pc = "load"]
       ELSE Return(p)
    /\ UNCHANGED <<marketVars, doc>>

\* find_one
Load(p) ==
    /\ At(p, "load")
    /\ call' = [call EXCEPT ![p].pc = "fetch", ![p].stored = doc.bars]
    /\ UNCHANGED <<marketVars, doc>>

\* The provider answers with the days requested, or (whatever it holds) with
\* nothing.
Fetch(p) ==
    /\ At(p, "fetch")
    /\ \E answer \in {Market, Empty} :
          call' = [call EXCEPT ![p].pc = "store",
                      ![p].fetched = [d \in Day |->
                          IF call[p].refresh = "full" \/ Requested(d, call[p].stored)
                          THEN answer[d] ELSE NoBar]]
    /\ UNCHANGED <<marketVars, doc>>

\* The budget is spent or the request fails: the stored series is served.
Degrade(p) ==
    /\ At(p, "fetch")
    /\ Return(p)
    /\ UNCHANGED <<marketVars, doc>>

\* replace_one of the whole document, built from what this call read.
Store(p) ==
    /\ At(p, "store")
    /\ doc' = [bars |-> Merged(call[p])]
    /\ Return(p)
    /\ UNCHANGED marketVars

\* The process of the thread dies; nothing has been written.
Die(p) ==
    /\ call[p] # Idle
    /\ Return(p)
    /\ UNCHANGED <<marketVars, doc>>

Refresh(p) ==
    \/ StartPull(p) \/ StartSweep(p) \/ StartChart(p)
    \/ Peek(p) \/ Load(p) \/ Fetch(p) \/ Degrade(p) \/ Store(p) \/ Die(p)

-----------------------------------------------------------------------------
\* The provider.  A day's bar appears during the day or, late, during the next
\* one; it moves until it is final, and after the next day only a restatement
\* of the whole history changes it.  A day may have no bar (no session).

Open ==
    /\ \E d \in Day \cap {today - 1, today} :
          /\ published[d] = "none"
          /\ published' = [published EXCEPT ![d] = "partial"]
    /\ UNCHANGED <<today, scale, doc, call>>

Close ==
    /\ \E d \in Day :
          /\ published[d] = "partial"
          /\ published' = [published EXCEPT ![d] = "final"]
    /\ UNCHANGED <<today, scale, doc, call>>

NextDay ==
    /\ today < MaxDay
    /\ \A d \in Day : d < today => published[d] # "partial"
    /\ today' = today + 1
    /\ UNCHANGED <<published, scale, doc, call>>

Restate ==
    /\ scale < MaxRestated
    /\ scale' = scale + 1
    /\ UNCHANGED <<today, published, doc, call>>

Next ==
    \/ \E p \in Thread : Refresh(p)
    \/ Open \/ Close \/ NextDay \/ Restate

Spec == Init /\ [][Next]_vars

-----------------------------------------------------------------------------
\* Safety, under every interleaving of the callers.

\* The stored series has no gap and no stale bar, except within Overlap of its
\* end: every earlier day is held if the provider has it, as a final bar.
\* Lost updates and dead callers can make it shorter, never wrong.
Settled(bars) ==
    \A d, last \in Day :
        IsLast(last, bars) /\ d < last - Overlap => bars[d].form = published[d]

StoredIsSettled == Settled(doc.bars)

\* Without a restatement since it was stored, what a delta writes is exactly
\* what a full retrieval at the same moment would have written (SC-005).
DeltaEqualsFull ==
    [][\A p \in Thread :
          /\ At(p, "fetch") /\ call'[p] # Idle /\ call'[p].fetched # Empty
          /\ \A d \in Held(call[p].stored) : call[p].stored[d].scale = scale
          => Merged(call'[p]) = Market]_vars

\* A refresh whose reading is still what is stored when it writes, in either
\* mode and answered with anything, loses no day that was stored (FR-030,
\* SC-013).  One whose reading is stale may.
NeverShrinks ==
    [][\A p \in Thread :
          At(p, "store") /\ call'[p] = Idle /\ call[p].stored = doc.bars =>
              Held(doc.bars) \subseteq Held(doc'.bars)]_vars

-----------------------------------------------------------------------------
\* What the documents say and the code does not keep.

\* A bar is never replaced by one of an older scale: what a full refresh has
\* corrected stays corrected (FR-025, FR-031).
NeverUndone ==
    [][\A d \in Held(doc.bars) :
          doc'.bars[d] # NoBar => doc'.bars[d].scale >= doc.bars[d].scale]_vars
=============================================================================
