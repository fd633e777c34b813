-------------------------- MODULE PriceStore_proofs --------------------------
(***************************************************************************)
(* Theorems about PriceStore, for any callers, days, restatements, widest  *)
(* gap and positive overlap.                                               *)
(*                                                                         *)
(* The invariant says of the document, of what each call read and of what  *)
(* each call would write that it is Sound: settled, and with no bar that   *)
(* the provider has not published.  It needs two facts about the provider: *)
(* no bar lies in the future, and only the last two days' bars still move. *)
(***************************************************************************)
EXTENDS PriceStore, TLAPS

MarketOK ==
    /\ \A d \in Day : d > today => published[d] = "none"
    /\ \A d \in Day : d < today - 1 => published[d] # "partial"

Sound(bars) ==
    /\ bars \in Series
    /\ Settled(bars)
    /\ \A d \in Held(bars) : published[d] # "none"

CallsSound ==
    \A p \in Thread : call[p] # Idle =>
        /\ Sound(call[p].stored)
        /\ Sound(Merged(call[p]))
        /\ call[p].pc # "store" => call[p].fetched = Empty

Inv == TypeOK /\ MarketOK /\ Sound(doc.bars) /\ CallsSound

-----------------------------------------------------------------------------
\* An idle thread has no call, a busy one has a record of Busy.
LEMMA IdleOrBusy ==
    ASSUME TypeOK, NEW p \in Thread
    PROVE  /\ call[p] = Idle \/ call[p] \in Busy
           /\ call[p] # Idle => call[p] \in Busy
           /\ \A pc \in {"peek", "load", "fetch", "store"} :
                 At(p, pc) => call[p] \in Busy
           /\ call[p] \in Busy => call[p].pc # "idle" /\ call[p] # Idle
  BY DEF TypeOK, Idle, Busy, At

\* Empty is a series; a merge and the written series are series.
LEMMA SeriesTypes ==
    /\ Empty \in Series
    /\ \A a, b \in Series : merge_bars(a, b) \in Series
    /\ \A c \in Busy : Merged(c) \in Series
  <1>1. NoBar \in Bar
    BY DEF Bar, NoBar
  <1>2. Empty \in Series
    BY <1>1 DEF Empty, Series
  <1>3. \A a, b \in Series : merge_bars(a, b) \in Series
    BY <1>1 DEF Series, merge_bars
  <1>4. \A c \in Busy : Merged(c) \in Series
    BY <1>2, <1>3 DEF Busy, Merged
  <1> QED BY <1>2, <1>3, <1>4

\* The empty series is sound whatever the provider has.
LEMMA EmptyIsSound == Sound(Empty)
  BY SeriesTypes DEF Sound, Settled, IsLast, Held, Empty

\* An answer with nothing in it changes nothing.
LEMMA MergeNothing ==
    ASSUME NEW c \in Busy, c.fetched = Empty
    PROVE  Merged(c) = c.stored
  <1>1. c.stored \in Series
    BY DEF Busy
  <1>2. merge_bars(c.stored, Empty) = c.stored
    BY <1>1 DEF merge_bars, Empty, Series
  <1> QED BY <1>2 DEF Merged

\* The provider's own series is a sound series.
LEMMA MarketIsSound ==
    ASSUME TypeOK
    PROVE  /\ Market \in Series
           /\ Sound(Market)
           /\ \A d \in Day : Market[d].form = published[d]
           /\ \A d \in Day : Market[d] = NoBar <=> published[d] = "none"
  <1>1. \A d \in Day : Market[d] \in Bar /\ Market[d].form = published[d]
                       /\ (Market[d] = NoBar <=> published[d] = "none")
    BY DEF TypeOK, Market, Bar, NoBar
  <1>2. Market \in Series
    BY <1>1 DEF Market, Series
  <1> QED BY <1>1, <1>2 DEF Sound, Settled, Held

\* A sound series stays sound whatever the provider does to recent bars.
LEMMA MarketMoves ==
    ASSUME TypeOK, MarketOK, NEW bars, Sound(bars), StoreAssumption,
           published' \in [Day -> {"none", "partial", "final"}],
           \A d \in Day : published[d] # "none" => published'[d] # "none",
           \A d \in Day : d < today - 1 => published'[d] = published[d]
    PROVE  Sound(bars)'
  <1>1. \A d \in Held(bars) : d \in Day /\ d <= today
    BY DEF Sound, MarketOK, TypeOK, Held, Day
  <1>2. ASSUME NEW d \in Day, NEW last \in Day, IsLast(last, bars), d < last - Overlap
        PROVE  bars[d].form = published'[d]
    <2>1. last \in Held(bars) /\ last <= today
      BY <1>1, <1>2 DEF IsLast
    <2>2. d < today - 1
      BY <1>2, <2>1 DEF StoreAssumption, Day, TypeOK
    <2>3. bars[d].form = published[d]
      BY <1>2 DEF Sound, Settled
    <2> QED BY <2>2, <2>3
  <1>3. Settled(bars)'
    BY <1>2 DEF Settled, IsLast, Held
  <1> QED BY <1>3 DEF Sound, Held

-----------------------------------------------------------------------------
\* What a call writes after the provider has answered is sound.
LEMMA AnswerIsSound ==
    ASSUME TypeOK, MarketOK, StoreAssumption,
           NEW c \in Busy, Sound(c.stored),
           NEW answer \in {Market, Empty},
           c.fetched = [d \in Day |->
               IF c.refresh = "full" \/ Requested(d, c.stored)
               THEN answer[d] ELSE NoBar]
    PROVE  Sound(Merged(c))
  <1>1. CASE c.fetched = Empty
    BY <1>1, MergeNothing
  <1>2. CASE c.fetched # Empty /\ c.refresh = "full"
    <2>1. answer \in [Day -> Bar]
      BY MarketIsSound, SeriesTypes DEF Series
    <2>2. c.fetched = answer
      BY <1>2, <2>1
    <2>3. c.fetched = Market
      BY <1>2, <2>2
    <2> QED BY <1>2, <2>3, MarketIsSound DEF Merged
  <1>3. CASE c.fetched # Empty /\ c.refresh # "full"
    <2> DEFINE m == merge_bars(c.stored, c.fetched)
    <2>1. Merged(c) = m
      BY <1>3 DEF Merged
    <2>2. answer = Market
      <3>1. CASE answer = Empty
        BY <3>1, <1>3 DEF Empty
      <3> QED BY <3>1
    <2>3. ASSUME NEW d \in Day
          PROVE  /\ Requested(d, c.stored) => m[d].form = published[d]
                 /\ m[d] # NoBar => published[d] # "none"
                 /\ ~Requested(d, c.stored) => m[d] = c.stored[d]
      <3>1. c.stored[d] # NoBar => published[d] # "none"
        BY DEF Sound, Held
      <3>2. c.fetched[d] = IF Requested(d, c.stored) THEN Market[d] ELSE NoBar
        BY <1>3, <2>2
      <3>3. m[d] = IF c.fetched[d] # NoBar THEN c.fetched[d] ELSE c.stored[d]
        BY DEF merge_bars
      <3>4. NoBar.form = "none"
        BY DEF NoBar
      <3> QED BY <3>1, <3>2, <3>3, <3>4, MarketIsSound
    <2>4. ASSUME NEW d \in Day, NEW last \in Day, IsLast(last, m), d < last - Overlap
          PROVE  m[d].form = published[d]
      <3>1. CASE Requested(d, c.stored)
        BY <2>3, <3>1
      <3>2. CASE ~Requested(d, c.stored)
        <4>1. PICK k \in Day : IsLast(k, c.stored) /\ ~(d >= k - Overlap)
          BY <3>2 DEF Requested
        <4>2. d < k - Overlap
          BY <4>1 DEF Day, StoreAssumption
        <4>3. c.stored[d].form = published[d]
          BY <4>1, <4>2 DEF Sound, Settled
        <4> QED BY <2>3, <3>2, <4>3
      <3> QED BY <3>1, <3>2
    <2>5. m \in Series
      BY SeriesTypes, <2>1
    <2> QED BY <2>1, <2>3, <2>4, <2>5 DEF Sound, Settled, Held
  <1> QED BY <1>1, <1>2, <1>3

-----------------------------------------------------------------------------
LEMMA InitTyped == StoreAssumption /\ Init => TypeOK
  <1> SUFFICES ASSUME StoreAssumption, Init PROVE TypeOK
    OBVIOUS
  <1>1. 1 \in Day /\ 0 \in 0..MaxRestated
    BY DEF StoreAssumption, Day
  <1> QED BY <1>1, SeriesTypes DEF Init, TypeOK

LEMMA InitInv == StoreAssumption /\ Init => Inv
  <1> SUFFICES ASSUME StoreAssumption, Init PROVE Inv
    OBVIOUS
  <1>1. TypeOK
    BY InitTyped
  <1>2. MarketOK
    BY DEF Init, MarketOK
  <1>3. Sound(doc.bars)
    BY EmptyIsSound DEF Init
  <1>4. CallsSound
    BY DEF Init, CallsSound
  <1> QED BY <1>1, <1>2, <1>3, <1>4 DEF Inv

\* A step of one thread is sound when it leaves the provider alone and what it
\* leaves in its own call and in the document is sound.
LEMMA ThreadStep ==
    ASSUME Inv, NEW p \in Thread, NEW c, NEW b,
           call' = [call EXCEPT ![p] = c], UNCHANGED marketVars,
           doc' = [bars |-> b],
           b \in Series, Sound(b),
           \/ c = Idle
           \/ /\ c \in Busy
              /\ Sound(c.stored)
              /\ Sound(Merged(c))
              /\ c.pc # "store" => c.fetched = Empty
    PROVE  Inv'
  <1>1. TypeOK'
    BY DEF Inv, TypeOK, marketVars
  <1>2. MarketOK'
    BY DEF Inv, MarketOK, marketVars
  <1>3. \A x : Sound(x) => Sound(x)'
    BY DEF Sound, Settled, marketVars, IsLast, Held
  <1>4. Sound(doc.bars)'
    <2>1. doc'.bars = b
      OBVIOUS
    <2> QED BY <1>3, <2>1 DEF Sound, Settled, IsLast, Held, marketVars
  <1>5. CallsSound'
    <2> SUFFICES ASSUME NEW q \in Thread, call'[q] # Idle
                 PROVE  /\ Sound(call[q].stored)'
                        /\ Sound(Merged(call[q]))'
                        /\ call'[q].pc # "store" => call'[q].fetched = Empty
      BY DEF CallsSound
    <2>1. call'[q] = IF q = p THEN c ELSE call[q]
      BY DEF Inv, TypeOK
    <2>2. /\ Sound(call'[q].stored)
          /\ Sound(Merged(call'[q]))
          /\ call'[q].pc # "store" => call'[q].fetched = Empty
      BY <2>1 DEF Inv, CallsSound
    <2>3. PICK x, y : x = call'[q].stored /\ y = Merged(call'[q])
      OBVIOUS
    <2>4. Sound(x)' /\ Sound(y)'
      BY <1>3, <2>2, <2>3
    <2>5. Merged(call[q])' = y
      BY <2>3 DEF Merged, merge_bars
    <2> QED BY <2>2, <2>3, <2>4, <2>5 DEF Sound, Settled, IsLast, Held
  <1> QED BY <1>1, <1>2, <1>4, <1>5 DEF Inv

\* A step of the provider is sound when only the last two days' bars move.
LEMMA ProviderStep ==
    ASSUME Inv, StoreAssumption, UNCHANGED <<doc, call>>,
           today' \in Day, scale' \in 0..MaxRestated, MarketOK',
           published' \in [Day -> {"none", "partial", "final"}],
           \A d \in Day : published[d] # "none" => published'[d] # "none",
           \A d \in Day : d < today - 1 => published'[d] = published[d]
    PROVE  Inv'
  <1>1. TypeOK'
    BY DEF Inv, TypeOK
  <1>2. ASSUME NEW x, Sound(x) PROVE Sound(x)'
    BY <1>2, MarketMoves DEF Inv
  <1>3. Sound(doc.bars)'
    <2>1. PICK x : x = doc.bars
      OBVIOUS
    <2>2. Sound(x)'
      BY <1>2, <2>1 DEF Inv
    <2> QED BY <2>1, <2>2 DEF Sound, Settled, IsLast, Held
  <1>4. CallsSound'
    <2> SUFFICES ASSUME NEW q \in Thread, call'[q] # Idle
                 PROVE  /\ Sound(call[q].stored)'
                        /\ Sound(Merged(call[q]))'
                        /\ call'[q].pc # "store" => call'[q].fetched = Empty
      BY DEF CallsSound
    <2>1. PICK x, y : x = call[q].stored /\ y = Merged(call[q])
      OBVIOUS
    <2>2. Sound(x)' /\ Sound(y)'
      BY <1>2, <2>1 DEF Inv, CallsSound
    <2>3. Merged(call[q])' = y
      BY <2>1 DEF Merged, merge_bars
    <2>4. call'[q].stored = x
      BY <2>1
    <2> QED BY <2>2, <2>3, <2>4 DEF Sound, Settled, IsLast, Held, Inv, CallsSound
  <1> QED BY <1>1, <1>3, <1>4 DEF Inv

-----------------------------------------------------------------------------
\* The invariant is preserved by every step of a thread ...
LEMMA RefreshInv ==
    ASSUME Inv, StoreAssumption, NEW p \in Thread, Refresh(p)
    PROVE  Inv'
  <1> DEFINE Fresh(pc, r) == [pc |-> pc, refresh |-> r, stored |-> Empty,
                              fetched |-> Empty]
  <1>d. /\ doc.bars \in Series /\ Sound(doc.bars)
        /\ doc = [bars |-> doc.bars]
    BY DEF Inv, TypeOK
  <1>b. \A pc \in {"peek", "load", "fetch", "store"} : At(p, pc) =>
            /\ call[p] \in Busy
            /\ Sound(call[p].stored)
            /\ Sound(Merged(call[p]))
            /\ pc # "store" => call[p].fetched = Empty
    BY IdleOrBusy DEF Inv, CallsSound, At
  <1>f. ASSUME NEW pc \in {"peek", "load"}, NEW r \in {"delta", "full"}
        PROVE  /\ Fresh(pc, r) \in Busy
               /\ Sound(Fresh(pc, r).stored) /\ Sound(Merged(Fresh(pc, r)))
               /\ Fresh(pc, r).fetched = Empty
    <2>1. Fresh(pc, r) \in Busy
      BY SeriesTypes DEF Busy
    <2>2. Merged(Fresh(pc, r)) = Empty
      BY <2>1, MergeNothing
    <2> QED BY <2>1, <2>2, EmptyIsSound
  <1>1. CASE StartPull(p)
    <2>1. PICK r \in {"delta", "full"} : Begin(p, "load", r)
      BY <1>1 DEF StartPull
    <2>2. call' = [call EXCEPT ![p] = Fresh("load", r)] /\ UNCHANGED <<marketVars, doc>>
      BY <1>1, <2>1 DEF StartPull, Begin
    <2> HIDE DEF Fresh
    <2> QED BY <1>d, <1>f, <2>2, ThreadStep
  <1>2. CASE StartSweep(p)
    <2>1. call' = [call EXCEPT ![p] = Fresh("load", "delta")] /\ UNCHANGED <<marketVars, doc>>
      BY <1>2 DEF StartSweep, Begin
    <2> HIDE DEF Fresh
    <2> QED BY <1>d, <1>f, <2>1, ThreadStep
  <1>3. CASE StartChart(p)
    <2>1. call' = [call EXCEPT ![p] = Fresh("peek", "delta")] /\ UNCHANGED <<marketVars, doc>>
      BY <1>3 DEF StartChart, Begin
    <2> HIDE DEF Fresh
    <2> QED BY <1>d, <1>f, <2>1, ThreadStep
  <1>4. ASSUME Return(p), UNCHANGED <<marketVars, doc>>
        PROVE  Inv'
    BY <1>d, <1>4, ThreadStep DEF Return
  <1>5. CASE Peek(p)
    <2>1. CASE doc.bars = Empty
      <3> DEFINE c == [call[p] EXCEPT !.pc = "load"]
      <3>1. call' = [call EXCEPT ![p] = c] /\ UNCHANGED <<marketVars, doc>>
        BY <1>5, <2>1 DEF Peek
      <3>2. At(p, "peek")
        BY <1>5 DEF Peek
      <3>3. c \in Busy /\ c.stored = call[p].stored /\ c.fetched = Empty
        BY <1>b, <3>2 DEF Busy
      <3>4. Merged(c) = c.stored
        BY <3>3, MergeNothing
      <3> HIDE DEF c
      <3> QED BY <1>b, <1>d, <3>1, <3>2, <3>3, <3>4, ThreadStep
    <2>2. CASE doc.bars # Empty
      BY <1>4, <1>5, <2>2 DEF Peek
    <2> QED BY <2>1, <2>2
  <1>6. CASE Load(p)
    <2> DEFINE c == [call[p] EXCEPT !.pc = "fetch", !.stored = doc.bars]
    <2>1. call' = [call EXCEPT ![p] = c] /\ UNCHANGED <<marketVars, doc>>
      BY <1>6 DEF Load
    <2>2. At(p, "load")
      BY <1>6 DEF Load
    <2>3. c \in Busy /\ c.stored = doc.bars /\ c.fetched = Empty
      BY <1>b, <1>d, <2>2 DEF Busy
    <2>4. Merged(c) = c.stored
      BY <2>3, MergeNothing
    <2> HIDE DEF c
    <2> QED BY <1>d, <2>1, <2>3, <2>4, ThreadStep
  <1>7. CASE Fetch(p)
    <2>1. PICK answer \in {Market, Empty} :
             call' = [call EXCEPT ![p].pc = "store",
                         ![p].fetched = [d \in Day |->
                             IF call[p].refresh = "full" \/ Requested(d, call[p].stored)
                             THEN answer[d] ELSE NoBar]]
      BY <1>7 DEF Fetch
    <2> DEFINE f == [d \in Day |->
                        IF call[p].refresh = "full" \/ Requested(d, call[p].stored)
                        THEN answer[d] ELSE NoBar]
               c == [call[p] EXCEPT !.pc = "store", !.fetched = f]
    <2>2. call' = [call EXCEPT ![p] = c] /\ UNCHANGED <<marketVars, doc>>
      BY <1>7, <2>1 DEF Fetch
    <2>3. At(p, "fetch")
      BY <1>7 DEF Fetch
    <2>4. f \in Series
      <3>1. answer \in [Day -> Bar]
        BY MarketIsSound, SeriesTypes DEF Series, Inv
      <3> QED BY <3>1 DEF Series, Bar
    <2>5. /\ c \in Busy /\ c.stored = call[p].stored /\ c.pc = "store"
          /\ c.refresh = call[p].refresh /\ c.fetched = f
      BY <1>b, <2>3, <2>4 DEF Busy
    <2>6. Sound(Merged(c))
      <3>1. c.fetched = [d \in Day |->
                            IF c.refresh = "full" \/ Requested(d, c.stored)
                            THEN answer[d] ELSE NoBar]
        BY <2>5
      <3>2. Sound(c.stored)
        BY <1>b, <2>3, <2>5
      <3> HIDE DEF c
      <3> QED BY <2>5, <3>1, <3>2, AnswerIsSound DEF Inv
    <2>7. Sound(c.stored)
      BY <1>b, <2>3, <2>5
    <2> HIDE DEF c, f
    <2> QED BY <1>d, <2>2, <2>5, <2>6, <2>7, ThreadStep
  <1>8. CASE Degrade(p)
    BY <1>4, <1>8 DEF Degrade
  <1>9. CASE Store(p)
    <2>1. At(p, "store")
      BY <1>9 DEF Store
    <2>2. Merged(call[p]) \in Series /\ Sound(Merged(call[p]))
      BY <1>b, <2>1, SeriesTypes
    <2>3. /\ call' = [call EXCEPT ![p] = Idle]
          /\ UNCHANGED marketVars
          /\ doc' = [bars |-> Merged(call[p])]
      BY <1>9 DEF Store, Return
    <2> QED BY <2>2, <2>3, ThreadStep
  <1>10. CASE Die(p)
    BY <1>4, <1>10 DEF Die
  <1> QED BY <1>1, <1>2, <1>3, <1>5, <1>6, <1>7, <1>8, <1>9, <1>10 DEF Refresh

\* ... and by every step of the provider.
LEMMA MarketInv ==
    ASSUME Inv, StoreAssumption, Open \/ Close \/ NextDay \/ Restate
    PROVE  Inv'
  <1>0. /\ today \in Day /\ scale \in 0..MaxRestated
        /\ published \in [Day -> {"none", "partial", "final"}]
        /\ Day \subseteq Int
    BY DEF Inv, TypeOK, Day
  <1>1. CASE Open
    BY <1>0, <1>1, ProviderStep DEF Open, Inv, MarketOK
  <1>2. CASE Close
    BY <1>0, <1>2, ProviderStep DEF Close, Inv, MarketOK
  <1>3. CASE NextDay
    <2>1. today' \in Day /\ today' = today + 1
      BY <1>0, <1>3 DEF NextDay, Day, StoreAssumption
    <2>2. MarketOK'
      BY <1>0, <1>3, <2>1 DEF NextDay, Inv, MarketOK
    <2> QED BY <1>0, <1>3, <2>1, <2>2, ProviderStep DEF NextDay
  <1>4. CASE Restate
    <2>1. scale' \in 0..MaxRestated
      BY <1>0, <1>4 DEF Restate, StoreAssumption
    <2>2. MarketOK'
      BY <1>4 DEF Restate, Inv, MarketOK
    <2> QED BY <1>0, <1>4, <2>1, <2>2, ProviderStep DEF Restate
  <1> QED BY <1>1, <1>2, <1>3, <1>4

LEMMA InvStep == StoreAssumption /\ Inv /\ [Next]_vars => Inv'
  <1> SUFFICES ASSUME StoreAssumption, Inv, [Next]_vars PROVE Inv'
    OBVIOUS
  <1>1. CASE Next
    BY <1>1, RefreshInv, MarketInv DEF Next
  <1>2. CASE UNCHANGED vars
    BY <1>2 DEF vars, Inv, TypeOK, MarketOK, Sound, Settled, IsLast, Held,
                CallsSound, Merged, merge_bars
  <1> QED BY <1>1, <1>2

\* Inv is an invariant of the store.
LEMMA InvHolds == Spec => []Inv
  <1>1. StoreAssumption
    BY StoreAssumption DEF StoreAssumption
  <1> QED BY <1>1, InitInv, InvStep, PTL DEF Spec

-----------------------------------------------------------------------------
\* Every document, call and provider state has its type.
THEOREM TypeCorrect == Spec => []TypeOK
  <1>1. Inv => TypeOK
    BY DEF Inv
  <1> QED BY <1>1, InvHolds, PTL

\* However pulls, sweeps, charts, failures, crashes and lost updates
\* interleave, the stored series has no gap and no unfinished bar further than
\* the overlap from its end.
THEOREM StoredSeriesIsSettled == Spec => []StoredIsSettled
  <1>1. Inv => StoredIsSettled
    BY DEF Inv, Sound, StoredIsSettled
  <1> QED BY <1>1, InvHolds, PTL

\* What a call would write after an answer of the provider is the provider's
\* whole series, when nothing was restated since the call's series was stored.
LEMMA AnswerCompletes ==
    ASSUME Inv, StoreAssumption, NEW p \in Thread, Fetch(p),
           call'[p].fetched # Empty,
           \A d \in Held(call[p].stored) : call[p].stored[d].scale = scale
    PROVE  Merged(call'[p]) = Market
  <1>1. PICK answer \in {Market, Empty} :
           call' = [call EXCEPT ![p].pc = "store",
                       ![p].fetched = [d \in Day |->
                           IF call[p].refresh = "full" \/ Requested(d, call[p].stored)
                           THEN answer[d] ELSE NoBar]]
    BY DEF Fetch
  <1> DEFINE c == call'[p]
  <1>2. call[p] \in Busy /\ Sound(call[p].stored)
    BY IdleOrBusy DEF Fetch, Inv, CallsSound
  <1>3. /\ c.stored = call[p].stored /\ c.refresh = call[p].refresh
        /\ c.fetched = [d \in Day |->
               IF c.refresh = "full" \/ Requested(d, c.stored)
               THEN answer[d] ELSE NoBar]
    BY <1>1, <1>2 DEF Busy, Inv, TypeOK
  <1>4. answer = Market
    <2>1. CASE answer = Empty
      BY <1>3, <2>1 DEF Empty
    <2> QED BY <2>1
  <1>5. Market = [d \in Day |-> Market[d]]
    BY DEF Market
  <1>6. CASE c.refresh = "full"
    <2>1. c.fetched = Market
      BY <1>3, <1>4, <1>5, <1>6
    <2> QED BY <1>6, <2>1 DEF Merged
  <1>7. CASE c.refresh # "full"
    <2>1. ASSUME NEW d \in Day
          PROVE  merge_bars(c.stored, c.fetched)[d] = Market[d]
      <3>1. c.stored[d] \in Bar /\ (c.stored[d] # NoBar => published[d] # "none")
        BY <1>2, <1>3 DEF Sound, Held, Series
      <3>2. c.fetched[d] = IF Requested(d, c.stored) THEN Market[d] ELSE NoBar
        BY <1>3, <1>4, <1>7
      <3>3. Market[d] = NoBar <=> published[d] = "none"
        BY MarketIsSound DEF Inv
      <3>4. CASE Requested(d, c.stored)
        BY <3>1, <3>2, <3>3, <3>4 DEF merge_bars
      <3>5. CASE ~Requested(d, c.stored)
        <4>1. PICK k \in Day : IsLast(k, c.stored) /\ ~(d >= k - Overlap)
          BY <3>5 DEF Requested
        <4>2. d < k - Overlap
          BY <4>1 DEF Day, StoreAssumption
        <4>3. c.stored[d].form = published[d]
          BY <1>2, <1>3, <4>1, <4>2 DEF Sound, Settled
        <4>4. c.stored[d] # NoBar => c.stored[d].scale = scale
          BY <1>3 DEF Held
        <4>5. c.stored[d] = Market[d]
          BY <3>1, <3>3, <4>3, <4>4 DEF Market, Bar, NoBar
        <4> QED BY <3>2, <3>5, <4>5 DEF merge_bars
      <3> QED BY <3>4, <3>5
    <2>2. Merged(c) = merge_bars(c.stored, c.fetched)
      BY <1>7 DEF Merged
    <2> QED BY <1>5, <2>1, <2>2 DEF merge_bars
  <1> QED BY <1>6, <1>7

\* A delta writes what a full retrieval at the same moment would have written,
\* under any interleaving, as long as nothing was restated in between.
THEOREM DeltaWritesFullSeries == Spec => DeltaEqualsFull
  <1>1. StoreAssumption
    BY StoreAssumption DEF StoreAssumption
  <1> DEFINE Complete ==
        \A p \in Thread :
            /\ At(p, "fetch") /\ call'[p] # Idle /\ call'[p].fetched # Empty
            /\ \A d \in Held(call[p].stored) : call[p].stored[d].scale = scale
            => Merged(call'[p]) = Market
  <1>2. ASSUME Inv, [Next]_vars PROVE Complete
    <2> SUFFICES ASSUME NEW p \in Thread, At(p, "fetch"), call'[p] # Idle,
                        call'[p].fetched # Empty,
                        \A d \in Held(call[p].stored) : call[p].stored[d].scale = scale
                 PROVE  Merged(call'[p]) = Market
      OBVIOUS
    <2>1. call[p].fetched = Empty
      BY <1>2, IdleOrBusy DEF Inv, CallsSound, At
    <2>2. call'[p] # call[p]
      BY <2>1
    <2>3. PICK q \in Thread : Refresh(q)
      BY <1>2, <2>2 DEF Next, Open, Close, NextDay, Restate, vars
    <2>4. \A r \in Thread : r # q => call'[r] = call[r]
      BY <1>2, <2>3 DEF Inv, TypeOK, Refresh, StartPull, StartSweep, StartChart, Peek,
                  Load, Fetch, Degrade, Store, Die, Begin, Return
    <2>5. q = p
      BY <2>2, <2>4
    <2>6. Return(p) => call'[p] = Idle
      BY <1>2 DEF Return, Inv, TypeOK
    <2>7. Fetch(p)
      BY <2>3, <2>5, <2>6 DEF Refresh, StartPull, StartSweep, StartChart, Peek,
                              Load, Degrade, Store, Die, At, Idle
    <2> QED BY <1>1, <1>2, <2>7, AnswerCompletes
  <1> QED BY <1>2, InvHolds, PTL DEF Spec, DeltaEqualsFull

-----------------------------------------------------------------------------
\* What a full retrieval brought has every day that was read before it.
FullCovers ==
    \A p \in Thread :
        At(p, "store") /\ call[p].refresh = "full" /\ call[p].fetched # Empty =>
            Held(call[p].stored) \subseteq Held(call[p].fetched)

LEMMA FullCoversStep == Inv /\ FullCovers /\ [Next]_vars => FullCovers'
  <1> SUFFICES ASSUME Inv, FullCovers, [Next]_vars, NEW p \in Thread,
                      At(p, "store")', call'[p].refresh = "full", call'[p].fetched # Empty
               PROVE  Held(call'[p].stored) \subseteq Held(call'[p].fetched)
    BY DEF FullCovers, Held
  <1>1. CASE call'[p] = call[p]
    BY <1>1 DEF FullCovers, At
  <1>2. CASE call'[p] # call[p]
    <2>1. PICK q \in Thread : Refresh(q)
      BY <1>2 DEF Next, Open, Close, NextDay, Restate, vars
    <2>2. \A r \in Thread : r # q => call'[r] = call[r]
      BY <2>1 DEF Inv, TypeOK, Refresh, StartPull, StartSweep, StartChart, Peek,
                  Load, Fetch, Degrade, Store, Die, Begin, Return
    <2>3. q = p
      BY <1>2, <2>2
    <2>4. \A c : call' = [call EXCEPT ![p] = c] => call'[p] = c
      BY DEF Inv, TypeOK
    <2>5. ~Return(p)
      BY <2>4 DEF Return, At, Idle
    <2>6. \A pc \in {"peek", "load"}, r \in {"delta", "full"} : ~Begin(p, pc, r)
      BY <2>4 DEF Begin, At
    <2>7. \A pc \in {"peek", "load", "fetch"} : At(p, pc) => call[p] \in Busy
      BY IdleOrBusy DEF Inv
    <2>8. ~Load(p) /\ ~Peek(p)
      BY <2>5, <2>7 DEF Load, Peek, At, Inv, TypeOK, Busy
    <2>9. Fetch(p)
      BY <2>1, <2>3, <2>5, <2>6, <2>8 DEF Refresh, StartPull, StartSweep, StartChart, Degrade, Store, Die
    <2>10. call[p] \in Busy /\ Sound(call[p].stored)
      BY <2>9, IdleOrBusy DEF Fetch, Inv, CallsSound
    <2>11. PICK answer \in {Market, Empty} :
              call' = [call EXCEPT ![p].pc = "store",
                         ![p].fetched = [d \in Day |->
                             IF call[p].refresh = "full" \/ Requested(d, call[p].stored)
                             THEN answer[d] ELSE NoBar]]
      BY <2>9 DEF Fetch
    <2>12. /\ call'[p].stored = call[p].stored /\ call'[p].refresh = call[p].refresh
           /\ call'[p].fetched = [d \in Day |->
                             IF call[p].refresh = "full" \/ Requested(d, call[p].stored)
                             THEN answer[d] ELSE NoBar]
      BY <2>10, <2>11 DEF Inv, TypeOK, Busy
    <2>13. \A d \in Day : call'[p].fetched[d] = answer[d]
      BY <2>12
    <2>14. answer = Market
      BY <2>12, <2>13 DEF Empty
    <2>15. \A d \in Held(call[p].stored) : d \in Day /\ Market[d] # NoBar
      BY <2>10 DEF Sound, Held, Market, NoBar
    <2> QED BY <2>12, <2>13, <2>14, <2>15 DEF Held
  <1> QED BY <1>1, <1>2

\* A refresh that writes over what it read loses no day of it, in either mode
\* and answered with anything.
THEOREM RefreshNeverShrinks == Spec => NeverShrinks
  <1>1. Init => FullCovers
    BY DEF Init, FullCovers, At, Idle
  <1> DEFINE Keeps ==
        \A p \in Thread :
          At(p, "store") /\ call'[p] = Idle /\ call[p].stored = doc.bars =>
              Held(doc.bars) \subseteq Held(doc'.bars)
  <1>2. ASSUME Inv, FullCovers, [Next]_vars PROVE Keeps
    <2> SUFFICES ASSUME NEW p \in Thread, At(p, "store"), call'[p] = Idle, call[p].stored = doc.bars
                 PROVE  Held(doc.bars) \subseteq Held(doc'.bars)
      OBVIOUS
    <2>1. CASE UNCHANGED doc
      BY <2>1
    <2>2. CASE ~UNCHANGED doc
      <3>1. PICK q \in Thread : Store(q)
        BY <1>2, <2>2 DEF Next, Refresh, StartPull, StartSweep, StartChart, Peek, Load, Fetch, Degrade, Die,
                         Open, Close, NextDay, Restate, vars
      <3>2. q = p
        <4>1. call[p] # Idle
          BY DEF At, Idle
        <4>2. q # p => call'[p] = call[p]
          BY <3>1 DEF Store, Return, Inv, TypeOK
        <4> QED BY <4>1, <4>2
      <3>3. doc'.bars = Merged(call[p]) /\ call[p] \in Busy
        <4>1. doc' = [bars |-> Merged(call[p])]
          BY <3>1, <3>2 DEF Store
        <4>2. call[p] \in Busy
          BY <1>2, IdleOrBusy DEF Inv
        <4> QED BY <4>1, <4>2
      <3>4. call[p].stored \in Series /\ call[p].fetched \in Series
        BY <3>3 DEF Busy
      <3>5. CASE call[p].refresh = "full"
        BY <1>2, <3>3, <3>5 DEF Merged, FullCovers
      <3>6. CASE call[p].refresh # "full"
        BY <3>3, <3>4, <3>6 DEF Merged, merge_bars, Held, Series
      <3> QED BY <3>5, <3>6
    <2> QED BY <2>1, <2>2
  <1> QED BY <1>1, <1>2, FullCoversStep, InvHolds, PTL DEF Spec, NeverShrinks
=============================================================================
