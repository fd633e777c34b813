------------------------- MODULE SharedBudget_proofs -------------------------
(***************************************************************************)
(* Theorems about the pulls and the pages over one budget, for any cap,    *)
(* articles, filings, statements, windows, threads and bounds.             *)
(***************************************************************************)
EXTENDS SharedBudget, Extrema

-----------------------------------------------------------------------------
(***************************************************************************)
(* The cap.  What is sent never passes what is counted, because a call is  *)
(* counted before it is compared; that is what makes the cap inductive.    *)
(***************************************************************************)
Counted ==
    /\ calls \in 0 .. Cap + 1 /\ sent \in Nat
    /\ Cap > 0 => sent <= calls /\ sent <= Cap

\* A batch of calls keeps the count, whoever makes it.
LEMMA SpendIsCounted ==
    ASSUME Counted, NEW n \in Nat, Spend(n)
    PROVE  Counted'
<1> DEFINE m == IF calls >= Cap THEN 0 ELSE IF n <= Cap - calls THEN n ELSE Cap - calls
<1> USE CapAssumption DEF Counted
<1>1. CASE Cap = 0
  BY <1>1 DEF Spend
<1>2. CASE Cap > 0
  <2>1. m \in Nat /\ m <= n
    OBVIOUS
  <2>2. {k \in 1 .. n : ~Refused(k)} = 1 .. m
    BY <1>2, <2>1 DEF Refused
  <2>3. Cardinality(1 .. m) = m
    BY <2>1, FS_Interval
  <2>4. sent' = sent + m
    <3>1. sent' = sent + Cardinality({k \in 1 .. n : ~Refused(k)})
      BY <1>2 DEF Spend
    <3> QED  BY <2>2, <2>3, <3>1
  <2>5. Min({calls + n, Cap + 1}) = IF calls + n <= Cap + 1 THEN calls + n ELSE Cap + 1
    BY DEF Min
  <2>6. calls' = IF calls + n <= Cap + 1 THEN calls + n ELSE Cap + 1
    BY <1>2, <2>5 DEF Spend
  <2> QED  BY <1>2, <2>1, <2>4, <2>6
<1> QED  BY <1>1, <1>2

\* The last page asked for is one of those there may be.
LEMMA StopPageIsAPage ==
    ASSUME NEW answer_, NEW start
    PROVE  StopPage(answer_, start) \in 1 .. MaxPages
<1> DEFINE pages == {MaxPages} \cup
        {k \in 1 .. MaxPages : \/ Cardinality(Page(answer_, k)) < PageSize
                               \/ \E a \in Page(answer_, k) : PublishedOn[a] <= start}
<1>1. pages \subseteq 1 .. MaxPages /\ pages # {}
  BY NewsAssumption
<1>2. pages \subseteq Nat
  BY <1>1
<1>3. Min(pages) \in pages
  BY <1>1, <1>2, Smallest
<1> QED  BY <1>1, <1>3 DEF StopPage

\* The statements asked for can be counted.
LEMMA RanksAreNaturals ==
    ASSUME NEW keys \in SUBSET Statement, NEW k
    PROVE  Cardinality(keys) \in Nat /\ Rank(keys, k) \in Nat
<1>1. IsFiniteSet(keys)
  BY StatementAssumption, FS_Subset
<1>2. IsFiniteSet({j \in keys : j <= k})
  BY <1>1, FS_Subset
<1> QED  BY <1>1, <1>2, FS_CardinalityType DEF Rank

LEMMA RetryKeysAreStatements == RetryKeys(fin, today) \subseteq Statement
  BY DEF RetryKeys

LEMMA FinancialsAreCounted ==
    ASSUME Counted, GetFinancials \/ FinancialsRaise
    PROVE  Counted'
<1>1. CASE GetFinancials
  BY <1>1, RetryKeysAreStatements, RanksAreNaturals, SpendIsCounted DEF GetFinancials
<1>2. CASE FinancialsRaise
  BY <1>2, RetryKeysAreStatements, RanksAreNaturals, SpendIsCounted DEF FinancialsRaise
<1> QED  BY <1>1, <1>2

\* One step per operation that counts; the others leave the counter alone.
LEMMA StepIsCounted ==
    ASSUME Counted, [NextBoth]_allVars
    PROVE  Counted'
<1>0. ASSUME UNCHANGED budgetVars PROVE Counted'
  BY <1>0 DEF Counted, budgetVars
<1>1. CASE Check
  BY <1>1, SpendIsCounted DEF Check
<1>2. CASE Verify \/ StatementStage
  BY <1>2, FinancialsAreCounted DEF Verify, StatementStage
<1>3. CASE NewsStage
  <2>1. PICK n \in 1 .. StopPage(NewsAnswer, NewsStart) :
            Spend(IF n < StopPage(NewsAnswer, NewsStart) THEN n + 1 ELSE n)
    BY <1>3 DEF NewsStage
  <2>2. StopPage(NewsAnswer, NewsStart) \in Nat
    BY StopPageIsAPage
  <2>3. (IF n < StopPage(NewsAnswer, NewsStart) THEN n + 1 ELSE n) \in Nat
    BY <2>2
  <2> QED  BY <2>1, <2>3, SpendIsCounted
<1>4. CASE NewsBlank \/ NewsDegraded
  BY <1>4, SpendIsCounted DEF NewsBlank, NewsDegraded
<1>5. CASE PagesStep
  <2>1. CASE \E r \in Thread : NewsAnswered(r) \/ NewsStale(r) \/ CalendarAnswered(r) \/ CalendarStale(r)
    BY <2>1, SpendIsCounted DEF NewsAnswered, NewsStale, CalendarAnswered, CalendarStale
  <2>2. CASE ScanFillsHistory(Now)
    BY <2>2, SpendIsCounted DEF ScanFillsHistory
  <2>3. CASE UNCHANGED budgetVars
    BY <2>3, <1>0
  <2> QED
    BY <1>5, <2>1, <2>2, <2>3 DEF PagesStep, PageStep, Begin, CalendarScreened,
       CalendarRaises, HistoryAnswered, ScanFillsUniverse, ProviderChanges
<1>6. CASE Midnight
  BY <1>6, CapAssumption DEF Midnight, NextDay, NewBudgetDay, Counted
<1>7. CASE UNCHANGED budgetVars
  BY <1>7, <1>0
<1> QED
  BY <1>1, <1>2, <1>3, <1>4, <1>5, <1>6, <1>7 DEF NextBoth, PullStep, CrewStep, StartPull,
     Close, InsiderStage, InsiderDegraded, Fetched, Scrape, ScrapeFails, WriteMeta, WriteMoves, Die,
     Publish, File, Post, NextHour, allVars, vars

LEMMA StartsCounted == InitBoth => Counted
  BY CapAssumption DEF InitBoth, Init, BudgetInit, Counted

\* The two services together never send more guarded requests in a day than the
\* cap, however their calls interleave and whatever fails
\* (fmp_client._check_daily_soft_cap, backend fmp.fmp_get).
THEOREM CapIsHeld == SpecBoth => []CapHolds
<1>1. Counted => CapHolds
  BY DEF Counted, CapHolds
<1> QED  BY <1>1, StartsCounted, StepIsCounted, PTL DEF SpecBoth

-----------------------------------------------------------------------------
(***************************************************************************)
(* Types of the pulls.  Each stage changes one store and the pull itself.  *)
(***************************************************************************)
MarketTypes ==
    /\ today \in 1 .. MaxDay /\ focus \in Focus
    /\ listed \subseteq Article /\ filed \subseteq Filings /\ posted \subseteq 1 .. MaxDay
Documents ==
    [at : 0 .. MaxDay, of : [Statement -> {"rows", "empty", "unavailable"}],
     on : [Statement -> 0 .. MaxDay]]
ListTypes == news \subseteq listed /\ cut \subseteq listed /\ insider \subseteq filed
MovesTypes ==
    /\ lastPull \in 0 .. MaxDay
    /\ moves \in [at : 0 .. MaxDay, list : SUBSET posted]
    /\ accounted \subseteq posted /\ missed \subseteq posted
Pulls ==
    [pc : {"idle", "check", "verify", "delisted", "fetch", "scrape", "meta", "cache"},
     mode : {"delta", "full"}, left : SUBSET focus, failed : BOOLEAN, found : SUBSET posted]

PullTypes == MarketTypes /\ fin \in Documents /\ ListTypes /\ MovesTypes /\ pull \in Pulls

LEMMA TypesInParts == Counted /\ PullTypes => TypeOK
  BY DEF Counted, PullTypes, MarketTypes, Documents, ListTypes, MovesTypes, Pulls, TypeOK,
     BudgetTypeOK

\* A document with answers to some statements in it is a document.
LEMMA RefetchedIsADocument ==
    ASSUME fin \in Documents, today \in 1 .. MaxDay, MaxDay \in Nat,
           NEW keys \in SUBSET Statement, NEW reply \in Answers(keys)
    PROVE  Refetched(fin, today, reply) \in Documents
<1>1. DOMAIN reply = keys /\ \A k \in keys : reply[k] \in {"rows", "empty", "unavailable"}
  BY DEF Answers
<1>2. [k \in Statement |-> IF k \in DOMAIN reply THEN reply[k] ELSE fin.of[k]]
          \in [Statement -> {"rows", "empty", "unavailable"}]
  BY <1>1 DEF Documents
<1>3. [k \in Statement |-> IF k \in DOMAIN reply THEN today ELSE fin.on[k]]
          \in [Statement -> 0 .. MaxDay]
  BY <1>1 DEF Documents
<1>4. (IF Warm(fin, today) THEN fin.at ELSE today) \in 0 .. MaxDay
  BY DEF Documents
<1> QED  BY <1>2, <1>3, <1>4 DEF Refetched, Documents

LEMMA GetFinancialsIsTyped ==
    ASSUME fin \in Documents, today \in 1 .. MaxDay, GetFinancials \/ FinancialsRaise
    PROVE  fin' \in Documents
<1>1. CASE FinancialsRaise
  BY <1>1 DEF FinancialsRaise
<1>2. CASE GetFinancials
  <2>1. CASE RetryKeys(fin, today) = {}
    BY <1>2, <2>1 DEF GetFinancials
  <2>2. CASE RetryKeys(fin, today) # {}
    <3>1. PICK reply \in Answers(RetryKeys(fin, today)) : fin' = Refetched(fin, today, reply)
      BY <1>2, <2>2 DEF GetFinancials
    <3> QED  BY <3>1, PullAssumption, RetryKeysAreStatements, RefetchedIsADocument
  <2> QED  BY <2>1, <2>2
<1> QED  BY <1>1, <1>2

LEMMA NewPullsArePulls ==
    ASSUME pull \in Pulls, focus \in Focus
    PROVE  /\ Idle \in Pulls /\ Prefetch \in Pulls
           /\ \A mode \in {"delta", "full"} : [Idle EXCEPT !.pc = "check", !.mode = mode] \in Pulls
           /\ \A pc \in {"idle", "check", "verify", "delisted", "fetch", "scrape", "meta", "cache"} :
                 [pull EXCEPT !.pc = pc] \in Pulls
           /\ \A name : [pull EXCEPT !.left = @ \ {name}] \in Pulls
           /\ \A name : [pull EXCEPT !.left = @ \ {name}, !.failed = TRUE] \in Pulls
           /\ \A rest \in SUBSET posted :
                 [pull EXCEPT !.pc = "meta", !.found = rest] \in Pulls
  BY DEF Pulls, Idle, Prefetch

\* What is fetched is what the provider lists.
LEMMA FetchedIsListed ==
    ASSUME NEW answer_, NEW start, NEW n
    PROVE  FetchWindow(answer_, start, n) \subseteq answer_
  BY DEF FetchWindow, Page

\* A step that changes nothing but the pull.
LEMMA OnlyThePull ==
    ASSUME PullTypes, UNCHANGED <<today, focus, marketVars, storeVars>>, pull' \in Pulls
    PROVE  PullTypes'
<1>1. UNCHANGED <<today, focus, listed, filed, posted, news, cut, insider, fin, lastPull, moves, accounted, missed>>
  BY DEF marketVars, storeVars
<1>2. MarketTypes' /\ ListTypes' /\ MovesTypes'
  BY <1>1 DEF PullTypes, MarketTypes, ListTypes, MovesTypes
<1>3. pull' \in Pulls'
  BY <1>1 DEF Pulls
<1>4. (fin \in Documents)'
  BY <1>1 DEF PullTypes, Documents
<1> QED  BY <1>2, <1>3, <1>4 DEF PullTypes

\* A step of one of the stages, which changes its store as well.
LEMMA OneStore ==
    ASSUME PullTypes, UNCHANGED <<today, focus, marketVars>>, pull' \in Pulls,
           fin' \in Documents, ListTypes', MovesTypes'
    PROVE  PullTypes'
<1>1. UNCHANGED <<today, focus, listed, filed, posted>>
  BY DEF marketVars
<1>2. MarketTypes' /\ pull' \in Pulls' /\ (fin \in Documents)'
  BY <1>1 DEF PullTypes, MarketTypes, Pulls, Documents
<1> QED  BY <1>2 DEF PullTypes

LEMMA NewsStageIsTyped ==
    ASSUME PullTypes, NewsStage \/ NewsBlank
    PROVE  PullTypes'
<1>1. UNCHANGED <<today, focus, marketVars, insider, fin, lastPull, moves, accounted, missed>> /\ Ran("news")
  BY DEF NewsStage, NewsBlank
<1>2. news' \subseteq listed /\ cut' \subseteq listed
  <2>0. NewsAnswer \subseteq listed /\ NewsBaseline \subseteq listed
    BY DEF NewsAnswer, NewsBaseline, PullTypes, ListTypes
  <2>1. \A got, day : got \subseteq listed => MergeArticles(NewsBaseline, got, day) \subseteq listed
    BY <2>0 DEF MergeArticles, Retained
  <2>2. CASE NewsStage
    <3>1. PICK n \in 1 .. StopPage(NewsAnswer, NewsStart) :
              LET short == n < StopPage(NewsAnswer, NewsStart) \/ n = MaxPages
                  got == FetchWindow(NewsAnswer, NewsStart, n)
                  left == IF short THEN NewsAnswer \cup news
                          ELSE {a \in NewsAnswer : PublishedOn[a] = NewsStart}
              IN  news' = MergeArticles(NewsBaseline, got, today) /\ cut' = (cut \cup left) \ news'
      BY <2>2 DEF NewsStage
    <3>2. FetchWindow(NewsAnswer, NewsStart, n) \subseteq listed
      BY <2>0, FetchedIsListed
    <3> QED  BY <3>1, <3>2, <2>0, <2>1 DEF PullTypes, ListTypes
  <2>3. CASE NewsBlank
    BY <2>1, <2>3 DEF NewsBlank, PullTypes, ListTypes
  <2> QED  BY <2>2, <2>3
<1>3. pull' \in Pulls
  BY <1>1, NewPullsArePulls DEF Ran, PullTypes, MarketTypes
<1>4. ListTypes' /\ MovesTypes' /\ fin' \in Documents
  BY <1>1, <1>2 DEF PullTypes, ListTypes, MovesTypes, marketVars
<1> QED  BY <1>1, <1>3, <1>4, OneStore

LEMMA InsiderStageIsTyped ==
    ASSUME PullTypes, InsiderStage
    PROVE  PullTypes'
<1>1. UNCHANGED <<today, focus, marketVars, news, cut, fin, lastPull, moves, accounted, missed>> /\ Ran("insider")
  BY DEF InsiderStage
<1>2. insider' \subseteq filed
  BY DEF InsiderStage, MergeTransactions, InLookback, PullTypes, ListTypes
<1>3. pull' \in Pulls
  BY <1>1, NewPullsArePulls DEF Ran, PullTypes, MarketTypes
<1>4. ListTypes' /\ MovesTypes' /\ fin' \in Documents
  BY <1>1, <1>2 DEF PullTypes, ListTypes, MovesTypes, marketVars
<1> QED  BY <1>1, <1>3, <1>4, OneStore

LEMMA FinancialsStepIsTyped ==
    ASSUME PullTypes, Verify \/ StatementStage
    PROVE  PullTypes'
<1>1. UNCHANGED <<today, focus, marketVars, news, cut, insider, lastPull, moves, accounted, missed>>
      /\ (GetFinancials \/ FinancialsRaise)
  BY DEF Verify, StatementStage
<1>2. pull \in Pulls /\ focus \in Focus
  BY DEF PullTypes, MarketTypes
<1>3. pull' \in Pulls
  <2>1. CASE Verify
    <3>1. \/ pull' \in {Prefetch, Idle}
          \/ pull' = [pull EXCEPT !.pc = "delisted"]
      BY <2>1 DEF Verify, Goto
    <3> QED  BY <1>2, <3>1, NewPullsArePulls
  <2>2. CASE StatementStage
    BY <1>2, <2>2, NewPullsArePulls DEF StatementStage, Ran
  <2> QED  BY <2>1, <2>2
<1>4. fin' \in Documents
  BY <1>1, GetFinancialsIsTyped DEF PullTypes, MarketTypes
<1>5. ListTypes' /\ MovesTypes'
  BY <1>1 DEF PullTypes, ListTypes, MovesTypes, marketVars
<1> QED  BY <1>1, <1>3, <1>4, <1>5, OneStore

LEMMA MovesStepIsTyped ==
    ASSUME PullTypes, WriteMeta \/ WriteMoves \/ Die
    PROVE  PullTypes'
<1>1. UNCHANGED <<today, focus, marketVars, news, cut, insider, fin>>
  BY DEF WriteMeta, WriteMoves, Die
<1>2. pull \in Pulls /\ focus \in Focus /\ pull.found \subseteq posted
  BY DEF PullTypes, MarketTypes, Pulls
<1>3. pull' = [pull EXCEPT !.pc = "cache"] \/ pull' = Idle
  BY DEF WriteMeta, WriteMoves, Die, Goto
<1>4. pull' \in Pulls
  BY <1>2, <1>3, NewPullsArePulls
<1>5. MovesTypes'
  <2>1. posted' = posted /\ today \in 0 .. MaxDay /\ MovesTypes
    BY <1>1, PullAssumption DEF PullTypes, MarketTypes, marketVars
  <2>2. CASE WriteMeta
    BY <2>1, <2>2 DEF WriteMeta, MovesTypes
  <2>3. CASE WriteMoves
    BY <1>2, <2>1, <2>3 DEF WriteMoves, MovesTypes
  <2>4. CASE Die
    BY <1>2, <2>1, <2>4 DEF Die, MovesTypes
  <2> QED  BY <2>2, <2>3, <2>4
<1>6. ListTypes' /\ fin' \in Documents
  BY <1>1 DEF PullTypes, ListTypes, marketVars
<1> QED  BY <1>1, <1>4, <1>5, <1>6, OneStore

\* A day passes, or a provider has more to show.
LEMMA MarketStepIsTyped ==
    ASSUME PullTypes, Publish \/ File \/ Post \/ NextDay
    PROVE  PullTypes'
<1>0. UNCHANGED <<focus, news, cut, insider, fin, lastPull, moves, pull>>
  BY DEF Publish, File, Post, NextDay, storeVars
<1>1. /\ listed \subseteq listed' /\ filed \subseteq filed' /\ posted \subseteq posted'
      /\ MarketTypes'
  <2>0. MarketTypes
    BY DEF PullTypes
  <2>1. CASE Publish
    BY <2>0, <2>1 DEF Publish, MarketTypes
  <2>2. CASE File
    BY <2>0, <2>2 DEF File, MarketTypes
  <2>3. CASE Post
    BY <2>0, <2>3 DEF Post, MarketTypes
  <2>4. CASE NextDay
    BY <2>0, <2>4, PullAssumption DEF NextDay, MarketTypes, marketVars
  <2> QED  BY <2>1, <2>2, <2>3, <2>4
<1>2. accounted' \subseteq posted' /\ missed' \subseteq posted'
  BY <1>1 DEF Publish, File, Post, NextDay, PullTypes, MovesTypes, storeVars, marketVars
<1>3. ListTypes' /\ (fin \in Documents)'
  BY <1>0, <1>1 DEF PullTypes, ListTypes, Documents
<1>4. MovesTypes'
  BY <1>0, <1>1, <1>2 DEF PullTypes, MovesTypes
<1>5. (pull \in Pulls)'
  BY <1>0, <1>1 DEF PullTypes, Pulls
<1> QED  BY <1>1, <1>3, <1>4, <1>5 DEF PullTypes

LEMMA StepIsTyped ==
    ASSUME PullTypes, [NextBoth]_allVars
    PROVE  PullTypes'
<1>0. pull \in Pulls /\ focus \in Focus
  BY DEF PullTypes, MarketTypes
<1>1. CASE StartPull \/ Close \/ Fetched
  <2>1. pull' \in Pulls
    BY <1>0, <1>1, NewPullsArePulls DEF StartPull, Close, Fetched
  <2> QED  BY <1>1, <2>1, OnlyThePull DEF StartPull, Close, Fetched
<1>2. CASE Check \/ ScrapeFails
  <2>1. pull' \in Pulls
    BY <1>0, <1>2, NewPullsArePulls DEF Check, Goto, ScrapeFails
  <2> QED  BY <1>2, <2>1, OnlyThePull DEF Check, ScrapeFails
<1>11. CASE Scrape
  <2>1. PICK found \in SUBSET MovesSince(posted, lastPull) :
            /\ pull' = [pull EXCEPT !.pc = "meta", !.found = found]
            /\ missed' = (missed \cup (MovesSince(posted, lastPull) \ accounted)) \ found
    BY <1>11 DEF Scrape
  <2>2. MovesSince(posted, lastPull) \subseteq posted
    BY DEF MovesSince
  <2>3. pull' \in Pulls
    BY <1>0, <2>1, <2>2, NewPullsArePulls
  <2>4. UNCHANGED <<today, focus, listed, filed, posted, news, cut, insider, fin, lastPull, moves, accounted>>
    BY <1>11 DEF Scrape, marketVars
  <2>5. MovesTypes'
    BY <2>1, <2>2, <2>4 DEF PullTypes, MovesTypes
  <2>6. fin' \in Documents /\ ListTypes'
    BY <2>4 DEF PullTypes, ListTypes
  <2> QED  BY <2>3, <2>4, <2>5, <2>6, OneStore DEF marketVars
<1>3. CASE NewsDegraded \/ InsiderDegraded
  <2>1. pull' \in Pulls
    BY <1>0, <1>3, NewPullsArePulls DEF NewsDegraded, InsiderDegraded, Ran
  <2> QED  BY <1>3, <2>1, OnlyThePull DEF NewsDegraded, InsiderDegraded
<1>4. CASE PagesStep \/ NextHour \/ UNCHANGED allVars
  <2>1. UNCHANGED pullVars
    BY <1>4 DEF PagesStep, NextHour, allVars, vars
  <2> QED  BY <1>0, <2>1, OnlyThePull DEF pullVars
<1> QED
  BY <1>1, <1>2, <1>3, <1>4, <1>11, NewsStageIsTyped, InsiderStageIsTyped, FinancialsStepIsTyped,
     MovesStepIsTyped, MarketStepIsTyped DEF NextBoth, PullStep, CrewStep, Midnight

-----------------------------------------------------------------------------
(***************************************************************************)
(* Types of the pages.  Every hour in a document is one the clock has      *)
(* shown, and the clock stays below the bound.                             *)
(***************************************************************************)
EndOfTime == (MaxDay + 1) * DayHours
Hours == 0 .. EndOfTime
PageDocs == [at : Hours, v : Hours, u : Hours]
Requests == [pc : {"idle", "screen"} \cup Doc, now : Hours, had : PageDocs, v : Hours]
Responses == [page : {"none"} \cup Doc, now : Hours, doc : PageDocs, stale : BOOLEAN]

ClockTypes == today \in 1 .. MaxDay /\ hour \in 0 .. DayHours - 1
CacheTypes == cache \in [Doc -> PageDocs] /\ changes \subseteq Hours /\ changes # {}
PageTypes ==
    /\ ClockTypes /\ CacheTypes
    /\ request \in [Thread -> Requests] /\ answer \in Responses

LEMMA ClockIsBounded ==
    ASSUME ClockTypes
    PROVE  Now \in Hours /\ EndOfTime \in Nat
<1> USE PullAssumption, HoursAssumption
<1>1. today \in Nat /\ hour \in Nat /\ DayHours \in Nat /\ MaxDay \in Nat /\ hour < DayHours
  BY DEF ClockTypes
<1>2. today * DayHours \in Nat /\ EndOfTime \in Nat
  BY <1>1 DEF EndOfTime
<1>3. PICK d \in Nat : MaxDay = today + d
  <2>1. MaxDay - today \in Nat
    BY <1>1 DEF ClockTypes
  <2> QED  BY <1>1, <2>1
<1>4. EndOfTime = today * DayHours + d * DayHours + DayHours /\ d * DayHours \in Nat
  BY <1>1, <1>3 DEF EndOfTime
<1> QED  BY <1>1, <1>2, <1>4 DEF Now, Hours

LEMMA CurrentIsAnHour == ASSUME CacheTypes, EndOfTime \in Nat PROVE Current \in Hours
  BY Largest DEF CacheTypes, Current, Hours

LEMMA NothingIsTyped ==
    ASSUME EndOfTime \in Nat
    PROVE  0 \in Hours /\ Nothing \in PageDocs /\ NoRequest \in Requests /\ NoAnswer \in Responses
  BY DEF Hours, Nothing, PageDocs, NoRequest, Requests, NoAnswer, Responses

\* The end of a request leaves everyone else's alone.
LEMMA RespondIsTyped ==
    ASSUME EndOfTime \in Nat, request \in [Thread -> Requests], NEW r \in Thread,
           NEW page \in Doc, NEW doc \in PageDocs, NEW stale \in BOOLEAN,
           Respond(r, page, doc, stale)
    PROVE  request' \in [Thread -> Requests] /\ answer' \in Responses
<1>1. request[r].now \in Hours
  BY DEF Requests
<1> QED  BY <1>1, NothingIsTyped DEF Respond, Responses

LEMMA RequestIsTyped ==
    ASSUME PageTypes, NEW r \in Thread,
           \/ \E page \in PageFocus : Begin(r, page, Now)
           \/ NewsAnswered(r) \/ NewsStale(r) \/ CalendarAnswered(r) \/ CalendarStale(r)
           \/ CalendarScreened(r, Now) \/ CalendarRaises(r, Now) \/ HistoryAnswered(r, Now)
    PROVE  CacheTypes' /\ request' \in [Thread -> Requests] /\ answer' \in Responses
<1>0. /\ Now \in Hours /\ EndOfTime \in Nat /\ Current \in Hours
      /\ 0 \in Hours /\ Nothing \in PageDocs /\ NoAnswer \in Responses
  BY ClockIsBounded, CurrentIsAnHour, NothingIsTyped DEF PageTypes
<1>1. request[r] \in Requests /\ cache \in [Doc -> PageDocs] /\ CacheTypes
      /\ request \in [Thread -> Requests]
  BY DEF PageTypes, CacheTypes
<1>2. {"headlines", "calendar", "history", "universe"} \subseteq Doc
  BY DEF Doc, PageName
<1>3. \A at, v, u \in Hours : [at |-> at, v |-> v, u |-> u] \in PageDocs
  BY DEF PageDocs
<1>4. ASSUME NEW page \in PageFocus, Begin(r, page, Now)
      PROVE  CacheTypes' /\ request' \in [Thread -> Requests] /\ answer' \in Responses
  <2>1. page \in Doc /\ cache[page] \in PageDocs
    BY <1>1 DEF PageFocus, Doc
  <2>2. CASE Fresh(page, Now)
    <3>1. answer' = [page |-> page, now |-> Now, doc |-> cache[page], stale |-> FALSE]
          /\ UNCHANGED <<request, cache, changes>>
      BY <1>4, <2>2 DEF Begin, Serve
    <3>2. answer' \in Responses
      BY <1>0, <2>1, <3>1 DEF Responses
    <3> QED  BY <1>1, <3>1, <3>2 DEF CacheTypes
  <2>3. CASE ~Fresh(page, Now)
    <3>1. [pc |-> page, now |-> Now, v |-> 0,
           had |-> IF page = "headlines" THEN cache[page] ELSE Nothing] \in Requests
      BY <1>0, <2>1 DEF Requests
    <3> QED  BY <1>0, <1>1, <1>4, <2>3, <3>1 DEF Begin, NoneGiven, CacheTypes
  <2> QED  BY <2>2, <2>3
<1>5. CASE NewsAnswered(r)
  <2>1. PICK v \in {Current, 0} :
            LET doc == [at |-> request[r].now, v |-> v, u |-> 0] IN
            cache' = [cache EXCEPT !["headlines"] = doc] /\ Respond(r, "headlines", doc, FALSE)
    BY <1>5 DEF NewsAnswered
  <2>2. [at |-> request[r].now, v |-> v, u |-> 0] \in PageDocs
    BY <1>0, <1>1, <1>3 DEF Requests
  <2>3. CacheTypes'
    BY <1>1, <1>5, <2>1, <2>2 DEF CacheTypes, NewsAnswered
  <2> QED  BY <1>0, <1>1, <1>2, <2>1, <2>2, <2>3, RespondIsTyped
<1>6. CASE NewsStale(r)
  <2>1. request[r].had \in PageDocs
    BY <1>1 DEF Requests
  <2>2. CacheTypes'
    BY <1>1, <1>6 DEF CacheTypes, NewsStale
  <2> QED  BY <1>0, <1>1, <1>2, <1>6, <2>1, <2>2, RespondIsTyped DEF NewsStale
<1>7. CASE CalendarAnswered(r)
  <2>1. PICK v \in {Current, 0} : request' = [request EXCEPT ![r].pc = "screen", ![r].v = v]
    BY <1>7 DEF CalendarAnswered
  <2>2. [request[r] EXCEPT !.pc = "screen", !.v = v] \in Requests
    BY <1>0, <1>1 DEF Requests
  <2>3. request' \in [Thread -> Requests]
    BY <1>1, <2>1, <2>2
  <2> QED  BY <1>0, <1>1, <1>7, <2>3 DEF CalendarAnswered, CacheTypes, NoneGiven
<1>8. CASE CalendarStale(r)
  <2>1. cache["calendar"] \in PageDocs
    BY <1>1, <1>2
  <2>2. CacheTypes'
    BY <1>1, <1>8 DEF CacheTypes, CalendarStale
  <2> QED  BY <1>0, <1>1, <1>2, <1>8, <2>1, <2>2, RespondIsTyped DEF CalendarStale
<1>9. CASE CalendarScreened(r, Now)
  <2> DEFINE universe == IF Fresh("universe", Now) THEN cache["universe"]
                         ELSE [at |-> Now, v |-> Current, u |-> 0]
             doc == [at |-> Now, v |-> request[r].v, u |-> universe.v]
  <2>1. universe \in PageDocs
    BY <1>0, <1>1, <1>2, <1>3
  <2>2. doc \in PageDocs
    BY <1>0, <1>1, <2>1 DEF Requests, PageDocs
  <2>3. /\ cache' = [cache EXCEPT !["universe"] = universe, !["calendar"] = doc]
        /\ Respond(r, "calendar", doc, FALSE) /\ changes' = changes
    BY <1>9 DEF CalendarScreened
  <2>4. CacheTypes'
    BY <1>1, <2>1, <2>2, <2>3 DEF CacheTypes
  <2> QED  BY <1>0, <1>1, <1>2, <2>2, <2>3, <2>4, RespondIsTyped
<1>10. CASE CalendarRaises(r, Now)
  <2>1. CacheTypes'
    BY <1>1, <1>10 DEF CacheTypes, CalendarRaises
  <2> QED  BY <1>0, <1>1, <1>2, <1>10, <2>1, RespondIsTyped DEF CalendarRaises
<1>11. CASE HistoryAnswered(r, Now)
  <2>1. PICK v \in {Current, 0} :
            LET doc == [at |-> Now, v |-> v, u |-> 0] IN
            cache' = [cache EXCEPT !["history"] = doc] /\ Respond(r, "history", doc, FALSE)
    BY <1>11 DEF HistoryAnswered
  <2>2. [at |-> Now, v |-> v, u |-> 0] \in PageDocs
    BY <1>0, <1>3
  <2>3. CacheTypes'
    BY <1>1, <1>11, <2>1, <2>2 DEF CacheTypes, HistoryAnswered
  <2> QED  BY <1>0, <1>1, <1>2, <2>1, <2>2, <2>3, RespondIsTyped
<1> QED  BY <1>4, <1>5, <1>6, <1>7, <1>8, <1>9, <1>10, <1>11

LEMMA ScanIsTyped ==
    ASSUME PageTypes, ScanFillsUniverse(Now) \/ ScanFillsHistory(Now) \/ ProviderChanges(Now)
    PROVE  CacheTypes' /\ request' \in [Thread -> Requests] /\ answer' \in Responses
<1>0. /\ Now \in Hours /\ Current \in Hours /\ 0 \in Hours /\ NoAnswer \in Responses
  BY ClockIsBounded, CurrentIsAnHour, NothingIsTyped DEF PageTypes
<1>1. \A v \in {0, Current} : [at |-> Now, v |-> v, u |-> 0] \in PageDocs
  BY <1>0 DEF PageDocs
<1>2. request' \in [Thread -> Requests] /\ answer' \in Responses
  BY <1>0 DEF PageTypes, ScanFillsUniverse, ScanFillsHistory, ProviderChanges, NoneGiven
<1>3. CacheTypes /\ cache \in [Doc -> PageDocs]
  BY DEF PageTypes, CacheTypes
<1>4. CacheTypes'
  <2>1. CASE ScanFillsUniverse(Now)
    <3>1. "universe" \in Doc /\ [at |-> Now, v |-> Current, u |-> 0] \in PageDocs
      BY <1>1 DEF Doc
    <3> QED  BY <1>3, <2>1, <3>1 DEF ScanFillsUniverse, CacheTypes
  <2>2. CASE ScanFillsHistory(Now)
    <3>1. PICK v \in {0, Current} :
              cache' = [cache EXCEPT !["history"] = [at |-> Now, v |-> v, u |-> 0]]
      BY <2>2 DEF ScanFillsHistory
    <3> QED  BY <1>1, <1>3, <2>2, <3>1 DEF ScanFillsHistory, CacheTypes
  <2>3. CASE ProviderChanges(Now)
    BY <1>0, <1>3, <2>3 DEF ProviderChanges, CacheTypes
  <2> QED  BY <2>1, <2>2, <2>3
<1> QED  BY <1>2, <1>4

LEMMA PagesStepIsTyped ==
    ASSUME PageTypes, PullTypes, [NextBoth]_allVars
    PROVE  PageTypes'
<1>0. NoAnswer \in Responses
  BY ClockIsBounded, NothingIsTyped DEF PageTypes
<1>1. CASE PagesStep
  <2>1. CacheTypes' /\ request' \in [Thread -> Requests] /\ answer' \in Responses
    BY <1>1, RequestIsTyped, ScanIsTyped DEF PagesStep, PageStep
  <2> QED  BY <1>1, <2>1 DEF PagesStep, PageTypes, ClockTypes, pullVars
<1>2. CASE PullStep
  <2>1. today' = today
    BY <1>2 DEF PullStep, CrewStep, StartPull, Check, Verify, Close, StatementStage, NewsStage,
       NewsBlank, NewsDegraded, InsiderStage, InsiderDegraded, Fetched, Scrape, ScrapeFails, WriteMeta,
       WriteMoves, Die, Publish, File, Post
  <2> QED  BY <1>0, <1>2, <2>1 DEF PullStep, NoneGiven, PageTypes, ClockTypes, CacheTypes
<1>3. CASE NextHour
  BY <1>0, <1>3, HoursAssumption DEF NextHour, vars, pullVars, NoneGiven, PageTypes, ClockTypes, CacheTypes
<1>4. CASE Midnight
  BY <1>0, <1>4, HoursAssumption, PullAssumption DEF Midnight, NextDay, NoneGiven, PageTypes, ClockTypes, CacheTypes
<1>5. CASE UNCHANGED allVars
  BY <1>5 DEF allVars, vars, pullVars, pageVars, PageTypes, ClockTypes, CacheTypes
<1> QED  BY <1>1, <1>2, <1>3, <1>4, <1>5 DEF NextBoth

LEMMA StartsTyped == InitBoth => PullTypes /\ PageTypes
<1> SUFFICES ASSUME InitBoth PROVE PullTypes /\ PageTypes
  OBVIOUS
<1>1. PullTypes
  BY PullAssumption DEF InitBoth, Init, PullTypes, MarketTypes, Documents, NoStatements, ListTypes,
     MovesTypes, Pulls, Idle
<1>2. ClockTypes
  BY PullAssumption, HoursAssumption DEF InitBoth, Init, ClockTypes
<1>3. DayHours - 1 \in Hours
  <2>1. EndOfTime = MaxDay * DayHours + DayHours /\ MaxDay * DayHours \in Nat
    BY PullAssumption, HoursAssumption DEF EndOfTime
  <2> QED  BY <2>1, HoursAssumption DEF Hours
<1>4. PageTypes
  BY <1>2, <1>3, ClockIsBounded, NothingIsTyped DEF InitBoth, PagesInit, PageTypes, CacheTypes
<1> QED  BY <1>1, <1>4

Types == Counted /\ PullTypes /\ PageTypes

LEMMA TypesHold == SpecBoth => []Types
<1>1. InitBoth => Types
  BY StartsCounted, StartsTyped DEF Types
<1>2. Types /\ [NextBoth]_allVars => Types'
  BY StepIsCounted, StepIsTyped, PagesStepIsTyped DEF Types
<1> QED  BY <1>1, <1>2, PTL DEF SpecBoth

\* Type correctness of the pulls and the pages, the clock's bound included.
THEOREM TypeCorrect == SpecBoth => []TypeOKBoth
<1>1. Types => TypeOKBoth
  <2> SUFFICES ASSUME Types PROVE TypeOKBoth
    OBVIOUS
  <2>1. TypeOK
    BY TypesInParts DEF Types
  <2>2. PagesTypeOK(EndOfTime) /\ hour \in 0 .. DayHours - 1
    BY DEF Types, PageTypes, CacheTypes, ClockTypes, PagesTypeOK, Hours, PageDocs, Requests, Responses
  <2> QED  BY <2>1, <2>2 DEF TypeOKBoth, EndOfTime
<1> QED  BY <1>1, TypesHold, PTL

-----------------------------------------------------------------------------
(***************************************************************************)
(* The statements.  A document's day is never later than the day on which  *)
(* anything in it was confirmed, because a partial retry leaves it alone.  *)
(***************************************************************************)
Dated ==
    /\ fin.at <= today
    /\ \A k \in Statement : fin.of[k] # "unavailable" => fin.on[k] >= fin.at

LEMMA GetFinancialsIsDated ==
    ASSUME PullTypes, Dated, GetFinancials \/ FinancialsRaise
    PROVE  fin'.at <= today
           /\ \A k \in Statement : fin'.of[k] # "unavailable" => fin'.on[k] >= fin'.at
<1>0. fin \in Documents /\ today \in Nat
  BY PullAssumption DEF PullTypes, MarketTypes
<1>1. CASE fin' = fin
  BY <1>1 DEF Dated
<1>2. CASE fin' # fin
  <2>1. PICK reply \in Answers(RetryKeys(fin, today)) : fin' = Refetched(fin, today, reply)
    BY <1>2 DEF GetFinancials, FinancialsRaise
  <2>2. DOMAIN reply = RetryKeys(fin, today)
    BY DEF Answers
  <2>3. CASE Warm(fin, today)
    <3>1. fin'.at = fin.at
      BY <2>1, <2>3 DEF Refetched
    <3>2. ASSUME NEW k \in Statement, fin'.of[k] # "unavailable" PROVE fin'.on[k] >= fin'.at
      <4>1. CASE k \in DOMAIN reply
        BY <1>0, <2>1, <3>1, <4>1 DEF Refetched, Dated, Documents
      <4>2. CASE k \notin DOMAIN reply
        BY <1>0, <2>1, <3>1, <3>2, <4>2 DEF Refetched, Dated
      <4> QED  BY <4>1, <4>2
    <3> QED  BY <3>1, <3>2 DEF Dated
  <2>4. CASE ~Warm(fin, today)
    <3>1. DOMAIN reply = Statement
      BY <2>2, <2>4 DEF RetryKeys
    <3> QED  BY <1>0, <2>1, <2>4, <3>1 DEF Refetched
  <2> QED  BY <2>3, <2>4
<1> QED  BY <1>1, <1>2

LEMMA StepIsDated ==
    ASSUME PullTypes, Dated, [NextBoth]_allVars
    PROVE  Dated'
<1>0. fin \in Documents /\ today \in Nat
  BY PullAssumption DEF PullTypes, MarketTypes
<1>1. CASE Verify \/ StatementStage
  BY <1>1, GetFinancialsIsDated DEF Verify, StatementStage, Dated
<1>2. CASE NextDay
  BY <1>0, <1>2 DEF NextDay, Dated, Documents
<1>3. CASE UNCHANGED <<today, fin>>
  BY <1>3 DEF Dated
<1> QED
  BY <1>1, <1>2, <1>3 DEF NextBoth, PullStep, CrewStep, PagesStep, NextHour, Midnight, StartPull, Check,
     Close, NewsStage, NewsBlank, NewsDegraded, InsiderStage, InsiderDegraded, Fetched, Scrape, ScrapeFails,
     WriteMeta, WriteMoves, Die, Publish, File, Post, allVars, vars, pullVars, storeVars

\* Nothing a stage serves was confirmed before the window, however often and on
\* whichever days a document was completed (financials.get_financials).
THEOREM StatementsStayFresh == SpecBoth => []StatementsAreFresh
<1>1. InitBoth => Dated
  BY DEF InitBoth, Init, Dated, NoStatements
<1>2. Types /\ Dated /\ [NextBoth]_allVars => Dated'
  BY StepIsDated DEF Types
<1>3. Types /\ Dated => StatementsAreFresh
  <2> SUFFICES ASSUME Types, Dated, NEW k \in Statement, Warm(fin, today), fin.of[k] # "unavailable"
               PROVE  today - fin.on[k] < CacheDays
    BY DEF StatementsAreFresh
  <2>1. fin.at \in Nat /\ fin.on[k] \in Nat /\ today \in Nat /\ CacheDays \in Nat
    BY PullAssumption, StatementAssumption DEF Types, PullTypes, MarketTypes, Documents
  <2>2. fin.on[k] >= fin.at /\ today - fin.at < CacheDays
    BY DEF Dated, Warm
  <2> QED  BY <2>1, <2>2
<1> QED  BY <1>1, <1>2, <1>3, TypesHold, PTL DEF SpecBoth

\* No failing quote and no spent budget closes a ticker as delisted while its
\* document holds a confirmed income statement: the retry only asks for what
\* is missing (crew.run step 0, financials.get_financials).
THEOREM ConfirmedIsKept == SpecBoth => ConfirmedIsNotDelisted
<1>1. ASSUME Types, Verify, pull'.pc = "delisted", Warm(fin, today), HasIncome(fin)
      PROVE  FALSE
  <2>1. pull # pull' /\ pull' # Idle
    BY <1>1 DEF Verify, At, Idle
  <2>2. GetFinancials /\ ~HasIncome(fin')
    <3>1. Prefetch.pc = "fetch"
      BY <1>1 DEF Prefetch, Types, PullTypes, Pulls
    <3> QED  BY <1>1, <2>1, <3>1 DEF Verify
  <2>3. PICK k \in Income : fin.of[k] = "rows"
    BY <1>1 DEF HasIncome
  <2>4. k \in Statement /\ k \notin RetryKeys(fin, today)
    BY <1>1, <2>3, StatementAssumption DEF RetryKeys
  <2>5. fin'.of[k] = "rows"
    <3>1. CASE fin' = fin
      BY <2>3, <3>1
    <3>2. CASE fin' # fin
      <4>1. PICK reply \in Answers(RetryKeys(fin, today)) : fin' = Refetched(fin, today, reply)
        BY <2>2, <3>2 DEF GetFinancials
      <4>2. DOMAIN reply = RetryKeys(fin, today)
        BY DEF Answers
      <4> QED  BY <2>3, <2>4, <4>1, <4>2 DEF Refetched
    <3> QED  BY <3>1, <3>2
  <2> QED  BY <2>2, <2>3, <2>5 DEF HasIncome
<1>2. Types /\ [NextBoth]_allVars => [Verify /\ pull'.pc = "delisted" => ~(Warm(fin, today) /\ HasIncome(fin))]_vars
  BY <1>1
<1> QED  BY <1>2, TypesHold, PTL DEF SpecBoth, ConfirmedIsNotDelisted

-----------------------------------------------------------------------------
(***************************************************************************)
(* The superinvestor list.  What makes the weeks meet is the list that a   *)
(* pull carries between its two writes.                                    *)
(***************************************************************************)
Carried ==
    /\ lastPull <= today
    /\ pull.pc \notin {"meta", "cache"} => pull.found = {}
    /\ At("meta") => {m \in posted : m < today} \subseteq accounted \cup missed \cup pull.found
    /\ MovesWindowsMeet

LEMMA StepCarries ==
    ASSUME PullTypes, Carried, [NextBoth]_allVars
    PROVE  Carried'
<1>0. /\ today \in Nat /\ lastPull \in Nat /\ posted \subseteq Nat
      /\ pull \in Pulls
  <2>1. pull \in Pulls /\ today \in 1 .. MaxDay /\ lastPull \in 0 .. MaxDay /\ posted \subseteq 1 .. MaxDay
    BY DEF PullTypes, MarketTypes, MovesTypes
  <2> QED  BY <2>1, PullAssumption
<1> USE DEF Carried, MovesWindowsMeet, At
<1>1. ASSUME UNCHANGED <<today, posted, lastPull, accounted, missed>>,
             pull.found = {}, pull'.found = {}, pull'.pc # "meta"
      PROVE  Carried'
  BY <1>1
<1>2. CASE StartPull \/ Check \/ Verify \/ Close \/ Fetched \/ ScrapeFails
  <2>1. UNCHANGED <<today, posted, lastPull, accounted, missed>> /\ pull.found = {}
    BY <1>2 DEF StartPull, Check, Verify, Close, Fetched, ScrapeFails, marketVars, storeVars
  <2>2. pull'.found = {} /\ pull'.pc # "meta"
    <3>1. \/ pull' = Idle \/ pull' = Prefetch
          \/ \E mode \in {"delta", "full"} : pull' = [Idle EXCEPT !.pc = "check", !.mode = mode]
          \/ \E pc \in {"verify", "delisted", "scrape"} : pull' = [pull EXCEPT !.pc = pc]
      BY <1>2 DEF StartPull, Check, Verify, Close, Fetched, ScrapeFails, Goto
    <3>2. Idle.found = {} /\ Idle.pc = "idle"
      BY DEF Idle
    <3>3. Prefetch.found = {} /\ Prefetch.pc = "fetch"
      BY <1>0, <2>1 DEF Prefetch, Pulls
    <3>4. \A mode : LET new == [Idle EXCEPT !.pc = "check", !.mode = mode] IN
                    new.found = {} /\ new.pc = "check"
      BY DEF Idle
    <3>5. \A pc : LET new == [pull EXCEPT !.pc = pc] IN new.found = {} /\ new.pc = pc
      BY <1>0, <2>1 DEF Pulls
    <3> QED  BY <3>1, <3>2, <3>3, <3>4, <3>5
  <2> QED  BY <1>1, <2>1, <2>2
<1>3. CASE StatementStage \/ NewsStage \/ NewsBlank \/ NewsDegraded \/ InsiderStage \/ InsiderDegraded
  <2>1. UNCHANGED <<today, posted, lastPull, accounted, missed>> /\ pull.found = {}
    BY <1>3 DEF StatementStage, NewsStage, NewsBlank, NewsDegraded, InsiderStage, InsiderDegraded,
       Stage, marketVars, storeVars
  <2>2. pull'.found = {} /\ pull'.pc # "meta"
    BY <1>0, <1>3, <2>1 DEF StatementStage, NewsStage, NewsBlank, NewsDegraded, InsiderStage,
       InsiderDegraded, Stage, Ran, Pulls
  <2> QED  BY <1>1, <2>1, <2>2
<1>4. CASE Scrape
  <2>1. UNCHANGED <<today, posted, lastPull, accounted>> /\ pull.found = {}
    BY <1>4 DEF Scrape, marketVars
  <2>2. PICK found \in SUBSET MovesSince(posted, lastPull) :
            /\ pull' = [pull EXCEPT !.pc = "meta", !.found = found]
            /\ missed' = (missed \cup (MovesSince(posted, lastPull) \ accounted)) \ found
    BY <1>4 DEF Scrape
  <2>3. pull'.pc = "meta" /\ pull'.found = found
    BY <1>0, <2>2 DEF Pulls
  <2>4. \A m \in posted : m \in accounted \cup missed' \cup found
    <3> SUFFICES ASSUME NEW m \in posted, m \notin found, m \notin accounted PROVE m \in missed'
      OBVIOUS
    <3>1. CASE m < lastPull
      BY <2>1, <2>2, <3>1
    <3>2. CASE m >= lastPull
      BY <2>2, <3>2 DEF MovesSince
    <3> QED  BY <1>0, <3>1, <3>2
  <2> QED  BY <2>1, <2>3, <2>4
<1>5. CASE WriteMeta
  <2>1. pull'.pc = "cache" /\ pull'.found = pull.found
    BY <1>0, <1>5 DEF WriteMeta, Goto, Pulls
  <2> QED  BY <1>0, <1>5, <2>1 DEF WriteMeta, marketVars
<1>6. CASE WriteMoves \/ Die
  <2>1. pull'.pc = "idle" /\ pull'.found = {}
    BY <1>6 DEF WriteMoves, Die, Idle
  <2> QED  BY <1>6, <2>1 DEF WriteMoves, Die, marketVars
<1>7. CASE Publish \/ File \/ Post
  <2>1. UNCHANGED <<today, lastPull, accounted, missed, pull>> /\ posted' \subseteq posted \cup {today}
    BY <1>7 DEF Publish, File, Post, storeVars
  <2>2. \A m \in posted' : m < today => m \in posted
    BY <1>0, <2>1
  <2>3. \A m \in posted' : m < lastPull => m \in posted
    BY <1>0, <2>1
  <2> QED  BY <2>1, <2>2, <2>3
<1>8. CASE NextDay
  <2>1. /\ today' = today + 1 /\ UNCHANGED <<lastPull, posted, missed, pull>>
        /\ accounted' = accounted \cup (IF At("meta") THEN posted \cap {today} ELSE {})
    BY <1>8 DEF NextDay, marketVars
  <2>2. At("meta") => {m \in posted : m < today + 1} \subseteq accounted' \cup missed \cup pull.found
    <3> SUFFICES ASSUME At("meta"), NEW m \in posted, m < today + 1
                 PROVE  m \in accounted' \cup missed \cup pull.found
      OBVIOUS
    <3>1. m < today \/ m = today
      BY <1>0
    <3> QED  BY <2>1, <3>1
  <2> QED  BY <1>0, <2>1, <2>2
<1>9. CASE UNCHANGED <<today, posted, lastPull, accounted, missed, pull>>
  BY <1>9
<1> QED
  BY <1>2, <1>3, <1>4, <1>5, <1>6, <1>7, <1>8, <1>9 DEF NextBoth, PullStep, CrewStep, PagesStep,
     NextHour, Midnight, allVars, vars, pullVars, marketVars, storeVars

\* No move posted before the last pull is left out of the shared list, but for one
\* that no scrape of its page has found, a death between the two writes and a
\* midnight before the first (superinvestor.get_superinvestor_activity).
THEOREM WeeksMeet == SpecBoth => []MovesWindowsMeet
<1>1. InitBoth => Carried
  BY DEF InitBoth, Init, Carried, MovesWindowsMeet, Idle, At
<1>2. Types /\ Carried /\ [NextBoth]_allVars => Carried'
  BY StepCarries DEF Types
<1>3. Carried => MovesWindowsMeet
  BY DEF Carried
<1> QED  BY <1>1, <1>2, <1>3, TypesHold, PTL DEF SpecBoth

-----------------------------------------------------------------------------
(***************************************************************************)
(* What a delta may lose, and the cluster.                                 *)
(***************************************************************************)
LEMMA NewsIsKept ==
    ASSUME pull.mode = "delta", NewsStage \/ NewsBlank
    PROVE  Retained(news, today) \subseteq news'
<1>1. NewsBaseline = news
  BY DEF NewsBaseline
<1>2. \A got : Retained(news, today) \subseteq MergeArticles(news, got, today)
  BY DEF MergeArticles, Retained
<1> QED  BY <1>1, <1>2 DEF NewsStage, NewsBlank

LEMMA InsiderIsKept ==
    ASSUME Types, pull.mode = "delta", InsiderStage
    PROVE  InLookback(insider, today) \subseteq insider'
<1>1. PICK reply \in {{t \in filed : t.day >= InsiderStart}, {}} :
          insider' = MergeTransactions(insider, reply, today)
  BY DEF InsiderStage
<1>2. insider \subseteq Filings /\ reply \subseteq Filings
  BY DEF Types, PullTypes, ListTypes, MarketTypes
<1>3. insider \subseteq reply \cup {t \in insider : TransactionKey(t) \notin {TransactionKey(s) : s \in reply}}
  BY <1>2, PullAssumption
<1> QED  BY <1>1, <1>3 DEF MergeTransactions, InLookback

\* No delta loses an article or a transaction that is still in the window,
\* whatever it is answered and wherever it fails (news.merge_articles,
\* insider.merge_transactions).
THEOREM DeltaLosesNothing == SpecBoth => DeltaKeepsTheWindow
<1>1. ASSUME Types, [NextBoth]_allVars, pull.mode = "delta"
      PROVE  Retained(news, today) \subseteq news' /\ InLookback(insider, today) \subseteq insider'
  <2>0. Retained(news, today) \subseteq news /\ InLookback(insider, today) \subseteq insider
    BY DEF Retained, InLookback
  <2>1. CASE NewsStage \/ NewsBlank
    BY <1>1, <2>0, <2>1, NewsIsKept DEF NewsStage, NewsBlank
  <2>2. CASE InsiderStage
    BY <1>1, <2>0, <2>2, InsiderIsKept DEF InsiderStage
  <2>3. CASE UNCHANGED <<news, insider>>
    BY <2>0, <2>3
  <2> QED
    BY <1>1, <2>1, <2>2, <2>3 DEF NextBoth, PullStep, CrewStep, PagesStep, NextHour, Midnight, NextDay,
       StartPull, Check, Verify, Close, StatementStage, NewsDegraded, InsiderDegraded, Fetched, Scrape, ScrapeFails,
       WriteMeta, WriteMoves, Die, Publish, File, Post, allVars, vars, pullVars, storeVars
<1>2. Types /\ [NextBoth]_allVars =>
        [pull.mode = "delta" => /\ Retained(news, today) \subseteq news'
                                /\ InLookback(insider, today) \subseteq insider']_vars
  BY <1>1
<1> QED  BY <1>2, TypesHold, PTL DEF SpecBoth, DeltaKeepsTheWindow

\* A window that shows enough insiders may be moved to begin at its first purchase.
LEMMA WindowsBeginWithAPurchase ==
    ASSUME insider \subseteq Filings
    PROVE  ClusterIsAnyWindow
<1> DEFINE Within(d) == {u \in Purchases(insider) : u.day - d \in 0 .. ClusterWindow}
           Who(d) == {t.who : t \in Within(d)}
<1>0. /\ \A t \in Purchases(insider) : t \in Filings /\ t.day \in 0 .. MaxDay
      /\ IsFiniteSet(Purchases(insider))
  <2>1. Purchases(insider) \subseteq Filings
    BY DEF Purchases
  <2> QED  BY <2>1, PullAssumption, FS_Subset
<1>1. \A d : IsFiniteSet(Who(d)) /\ Cardinality(Who(d)) \in Nat
  <2> TAKE d
  <2>1. IsFiniteSet(Within(d))
    BY <1>0, FS_Subset
  <2>2. IsFiniteSet(Who(d))
    <3>1. [t \in Within(d) |-> t.who] \in Surjection(Within(d), Who(d))
      BY DEF Surjection
    <3> QED  BY <2>1, <3>1, FS_Surjection
  <2> QED  BY <2>2, FS_CardinalityType
<1>2. ASSUME DetectCluster(insider)
      PROVE  \E d \in 0 .. MaxDay : Cardinality(Who(d)) >= ClusterInsiders
  <2>1. PICK t \in Purchases(insider) : Cardinality(Buyers(insider, t)) >= ClusterInsiders
    BY <1>2 DEF DetectCluster
  <2>2. Buyers(insider, t) = Who(t.day)
    BY DEF Buyers
  <2> QED  BY <1>0, <2>1, <2>2
<1>3. ASSUME NEW d \in 0 .. MaxDay, Cardinality(Who(d)) >= ClusterInsiders
      PROVE  DetectCluster(insider)
  <2>1. Within(d) # {}
    <3>1. SUFFICES ASSUME Within(d) = {} PROVE FALSE
      OBVIOUS
    <3>2. Who(d) = {}
      BY <3>1
    <3> QED  BY <1>3, <3>2, FS_EmptySet, InsiderAssumption
  <2>2. {t.day : t \in Within(d)} \subseteq Nat /\ {t.day : t \in Within(d)} # {}
    <3>1. \A t \in Within(d) : t.day \in Nat
      BY <1>0, PullAssumption
    <3> QED  BY <2>1, <3>1
  <2>3. PICK a \in Within(d) : \A t \in Within(d) : a.day <= t.day
    <3> DEFINE days == {t.day : t \in Within(d)}
    <3>1. PICK x \in days : \A y \in days : x <= y
      BY <2>2, Smallest
    <3>2. PICK a \in Within(d) : x = a.day
      BY <3>1
    <3>3. \A t \in Within(d) : a.day <= t.day
      BY <3>1, <3>2
    <3> QED  BY <3>3
  <2>4. a \in Purchases(insider)
    OBVIOUS
  <2>5. Who(d) \subseteq Buyers(insider, a)
    <3>1. \A t \in Within(d) : t \in Purchases(insider) /\ t.day - a.day \in 0 .. ClusterWindow
      BY <1>0, <2>3, InsiderAssumption, PullAssumption
    <3> QED  BY <3>1 DEF Buyers
  <2>6. Buyers(insider, a) = Who(a.day)
    BY DEF Buyers
  <2>7. Cardinality(Who(d)) <= Cardinality(Buyers(insider, a)) /\ Cardinality(Buyers(insider, a)) \in Nat
    BY <1>1, <2>5, <2>6, FS_Subset
  <2>8. Cardinality(Buyers(insider, a)) >= ClusterInsiders
    <3> HIDE DEF Who
    <3> QED  BY <1>1, <1>3, <2>7, InsiderAssumption
  <2> QED  BY <2>4, <2>8 DEF DetectCluster
<1>4. ClusterIsAnyWindow <=>
          (DetectCluster(insider) = (\E d \in 0 .. MaxDay : Cardinality(Who(d)) >= ClusterInsiders))
  BY Zenon DEF ClusterIsAnyWindow
<1>5. DetectCluster(insider) \in BOOLEAN
  BY DEF DetectCluster
<1> HIDE DEF Who
<1>6. DetectCluster(insider) <=> (\E d \in 0 .. MaxDay : Cardinality(Who(d)) >= ClusterInsiders)
  BY <1>2, <1>3
<1> QED  BY <1>4, <1>5, <1>6

\* Looking only at windows that a purchase opens misses no cluster
\* (insider.detect_cluster).
THEOREM ClusterIsFound == SpecBoth => []ClusterIsAnyWindow
<1>1. Types => ClusterIsAnyWindow
  BY WindowsBeginWithAPurchase DEF Types, PullTypes, ListTypes, MarketTypes
<1> QED  BY <1>1, TypesHold, PTL
-----------------------------------------------------------------------------
(***************************************************************************)
(* The pages over the documents they share with the agent runner's scan.   *)
(* A document has seen the changes before its hour, and so has an answer   *)
(* in a request's hands; the calendar is stored an hour after it was       *)
(* answered at most, because the clock turns once under a request.         *)
(***************************************************************************)
Seen(v, before) == \A e \in changes : e < before => v >= e

\* Nothing is from the future, and a request is not older than an hour.
NothingIsEarly ==
    /\ \A e \in changes : e <= Now
    /\ \A d \in Doc : cache[d].at <= Now
    /\ \A r \in Thread : request[r].pc # "idle" =>
          PageFocus # {} /\ request[r].now <= Now /\ Now <= request[r].now + 1

PlainDocsAreCurrent ==
    /\ \A d \in {"headlines", "history"} : cache[d].v > 0 => Seen(cache[d].v, cache[d].at)
    /\ Seen(cache["universe"].v, cache["universe"].at)
CalendarIsCurrent ==
    /\ cache["calendar"].v > 0 => Seen(cache["calendar"].v, cache["calendar"].at - 1)
    /\ Seen(cache["calendar"].u, cache["calendar"].at - MaxAge["universe"])
RequestsAreCurrent ==
    \A r \in Thread : request[r].pc = "screen" /\ request[r].v > 0 => Seen(request[r].v, request[r].now)

Upkept == NothingIsEarly /\ PlainDocsAreCurrent /\ CalendarIsCurrent /\ RequestsAreCurrent

\* What the inductive step needs of the types.
LEMMA HoursAreNaturals ==
    ASSUME PageTypes
    PROVE  /\ Now \in Nat /\ changes \subseteq Nat /\ Current \in Nat
           /\ \A e \in changes : e <= Current
           /\ \A d \in Doc : cache[d].at \in Nat /\ cache[d].v \in Nat /\ cache[d].u \in Nat
           /\ \A r \in Thread : request[r].now \in Nat /\ request[r].v \in Nat
           /\ \A d \in Doc : MaxAge[d] \in Nat \ {0}
           /\ {"headlines", "calendar", "history", "universe"} \subseteq Doc
<1>1. Now \in Hours /\ EndOfTime \in Nat /\ Hours \subseteq Nat
  BY ClockIsBounded DEF PageTypes, Hours
<1>2. Current \in Hours /\ \A e \in changes : e <= Current
  BY <1>1, Largest DEF PageTypes, CacheTypes, Current, Hours
<1>3. \A d \in Doc : cache[d] \in PageDocs
  BY DEF PageTypes, CacheTypes
<1>4. \A r \in Thread : request[r] \in Requests
  BY DEF PageTypes
<1> QED
  BY <1>1, <1>2, <1>3, <1>4, PageAssumption DEF PageTypes, CacheTypes, PageDocs, Requests, Doc, PageName

\* An hour passes under each request once at most.
LEMMA TimePasses ==
    ASSUME PageTypes, Upkept, NextHour \/ Midnight
    PROVE  Upkept'
<1>0. PageTypes /\ UNCHANGED <<cache, changes, request, focus>>
  BY DEF NextHour, Midnight, NextDay, vars, pullVars
<1>1. Now' >= Now /\ Now' \in Nat /\ (PageFocus # {} => Now' = Now + 1 /\ OneTurn(Now))
  <2>1. today \in Nat /\ hour \in 0 .. DayHours - 1 /\ DayHours \in Nat
    BY PullAssumption, HoursAssumption DEF PageTypes, ClockTypes
  <2>2. CASE NextHour
    BY <2>1, <2>2 DEF NextHour, PagesAllowTime, vars, pullVars, Now
  <2>3. CASE Midnight
    <3>1. today' = today + 1 /\ hour' = 0 /\ (PageFocus # {} => hour = DayHours - 1 /\ OneTurn(Now))
      BY <2>3 DEF Midnight, NextDay, PagesAllowTime
    <3>2. (today + 1) * DayHours = today * DayHours + DayHours
      BY <2>1
    <3> QED  BY <2>1, <3>1, <3>2 DEF Now
  <2> QED  BY <2>2, <2>3
<1>2. NothingIsEarly'
  <2>1. (\A e \in changes : e <= Now') /\ \A d \in Doc : cache[d].at <= Now'
    BY <1>1, HoursAreNaturals DEF Upkept, NothingIsEarly
  <2>2. ASSUME NEW r \in Thread, request[r].pc # "idle"
        PROVE  PageFocus # {} /\ request[r].now <= Now' /\ Now' <= request[r].now + 1
    BY <1>1, <2>2, HoursAreNaturals DEF Upkept, NothingIsEarly, OneTurn
  <2> QED  BY <1>0, <2>1, <2>2 DEF NothingIsEarly, PageFocus
<1> QED
  BY <1>0, <1>2 DEF Upkept, PlainDocsAreCurrent, CalendarIsCurrent, RequestsAreCurrent, Seen

LEMMA ChangesAreLate ==
    ASSUME PageTypes, Upkept, ProviderChanges(Now), UNCHANGED pullVars, UNCHANGED hour
    PROVE  Upkept'
<1>0. changes' = changes \cup {Now} /\ UNCHANGED <<cache, request, today, hour, focus>>
  BY DEF ProviderChanges, pullVars
<1>1. Now' = Now /\ PageFocus' = PageFocus
  BY <1>0 DEF Now, PageFocus
<1>2. NothingIsEarly'
  BY <1>0, <1>1, HoursAreNaturals DEF Upkept, NothingIsEarly
<1>3. \A v, before \in Int : before <= Now /\ Seen(v, before) => Seen(v, before)'
  BY <1>0, HoursAreNaturals DEF Seen
<1>4. PlainDocsAreCurrent'
  BY <1>0, <1>3, HoursAreNaturals DEF Upkept, NothingIsEarly, PlainDocsAreCurrent
<1>5. CalendarIsCurrent'
  <2>1. cache["calendar"].at - 1 <= Now /\ cache["calendar"].at - MaxAge["universe"] <= Now
    BY HoursAreNaturals DEF Upkept, NothingIsEarly
  <2> QED  BY <1>0, <1>3, <2>1, HoursAreNaturals DEF Upkept, CalendarIsCurrent
<1>6. RequestsAreCurrent'
  BY <1>0, <1>3, HoursAreNaturals DEF Upkept, NothingIsEarly, RequestsAreCurrent
<1> QED  BY <1>2, <1>4, <1>5, <1>6 DEF Upkept
\* A document that is stored now, with what the provider has or had.
LEMMA NewDocuments ==
    ASSUME PageTypes, Upkept
    PROVE  /\ Seen(Current, Now)
           /\ \A h \in Nat : Seen(Current, h)
  BY HoursAreNaturals DEF Seen

\* The state of the cache matters only where it changed, and the requests that
\* go on are those that were there.
LEMMA OneDocument ==
    ASSUME PageTypes, Upkept, UNCHANGED <<today, focus, hour, changes>>,
           NEW d \in Doc, NEW doc \in PageDocs, cache' = [cache EXCEPT ![d] = doc], doc.at <= Now,
           d = "headlines" \/ d = "history" => (doc.v > 0 => Seen(doc.v, doc.at)),
           d = "universe" => Seen(doc.v, doc.at),
           d # "calendar",
           \A r \in Thread : request'[r].pc = "idle" \/ request'[r] = request[r]
    PROVE  Upkept'
<1>0. cache \in [Doc -> PageDocs] /\ Now' = Now /\ PageFocus' = PageFocus
  BY DEF PageTypes, CacheTypes, Now, PageFocus
<1>1. cache'[d] = doc /\ \A c \in Doc : c # d => cache'[c] = cache[c]
  BY <1>0
<1>2. NothingIsEarly'
  BY <1>0, <1>1 DEF Upkept, NothingIsEarly
<1>3. \A v, h : Seen(v, h)' <=> Seen(v, h)
  BY DEF Seen
<1>4. PlainDocsAreCurrent'
  BY <1>0, <1>1, <1>3, HoursAreNaturals DEF Upkept, PlainDocsAreCurrent
<1>5. CalendarIsCurrent'
  BY <1>0, <1>1, <1>3, HoursAreNaturals DEF Upkept, CalendarIsCurrent
<1>6. RequestsAreCurrent'
  BY <1>3 DEF Upkept, RequestsAreCurrent
<1> QED  BY <1>2, <1>4, <1>5, <1>6 DEF Upkept

\* The cache is as it was.
LEMMA NoDocument ==
    ASSUME PageTypes, Upkept, UNCHANGED <<today, focus, hour, changes, cache>>,
           \A r \in Thread : \/ request'[r].pc = "idle"
                             \/ request'[r] = request[r]
                             \/ /\ PageFocus # {} /\ request'[r].now <= Now /\ Now <= request'[r].now + 1
                                /\ request'[r].pc = "screen" /\ request'[r].v > 0
                                      => Seen(request'[r].v, request'[r].now)
    PROVE  Upkept'
<1>0. Now' = Now /\ PageFocus' = PageFocus
  BY DEF Now, PageFocus
<1>1. NothingIsEarly'
  BY <1>0 DEF Upkept, NothingIsEarly
<1>2. \A v, h : Seen(v, h)' <=> Seen(v, h)
  BY DEF Seen
<1>3. RequestsAreCurrent'
  BY <1>2 DEF Upkept, RequestsAreCurrent
<1> QED  BY <1>1, <1>2, <1>3 DEF Upkept, PlainDocsAreCurrent, CalendarIsCurrent

\* The end of a request ends it, and leaves the others.
LEMMA RespondEnds ==
    ASSUME PageTypes, NEW r \in Thread, NEW page, NEW doc, NEW stale, Respond(r, page, doc, stale)
    PROVE  /\ \A q \in Thread : request'[q].pc = "idle" \/ request'[q] = request[q]
           /\ answer' = [page |-> page, now |-> request[r].now, doc |-> doc, stale |-> stale]
  BY DEF Respond, NoRequest, PageTypes

LEMMA RequestUpkeeps ==
    ASSUME PageTypes, Upkept, UnmarkedIsFresh, UNCHANGED <<pullVars, hour>>, NEW r \in Thread,
           \/ \E page \in PageFocus : Begin(r, page, Now)
           \/ NewsAnswered(r) \/ NewsStale(r) \/ CalendarAnswered(r) \/ CalendarStale(r)
           \/ CalendarScreened(r, Now) \/ CalendarRaises(r, Now) \/ HistoryAnswered(r, Now)
    PROVE  Upkept' /\ UnmarkedIsFresh'
<1>0. UNCHANGED <<today, focus, hour, changes>>
  BY DEF pullVars, Begin, NewsAnswered, NewsStale, CalendarAnswered, CalendarStale, CalendarScreened,
     CalendarRaises, HistoryAnswered
<1>1. request \in [Thread -> Requests] /\ cache \in [Doc -> PageDocs]
  BY DEF PageTypes, CacheTypes
<1>2. Now \in Hours /\ Current \in Hours /\ 0 \in Hours /\ request[r].now \in Hours
  BY ClockIsBounded, CurrentIsAnHour, NothingIsTyped DEF PageTypes, Requests
<1>a. ASSUME NEW doc, NEW page, Respond(r, page, doc, TRUE) PROVE UnmarkedIsFresh'
  <2>1. answer'.stale = TRUE
    BY <1>a DEF Respond
  <2> QED  BY <2>1 DEF UnmarkedIsFresh
<1>b. ASSUME NoneGiven PROVE UnmarkedIsFresh'
  BY <1>b DEF NoneGiven, NoAnswer, UnmarkedIsFresh
<1>3. ASSUME NEW page \in PageFocus, Begin(r, page, Now) PROVE Upkept' /\ UnmarkedIsFresh'
  <2>0. page \in {"headlines", "calendar", "history"} /\ page \in Doc /\ cache' = cache
    BY <1>3 DEF PageFocus, PageName, Doc, Begin
  <2>1. CASE Fresh(page, Now)
    <3>1. /\ answer' = [page |-> page, now |-> Now, doc |-> cache[page], stale |-> FALSE]
          /\ UNCHANGED request
      BY <1>3, <2>1 DEF Begin, Serve
    <3>2. Upkept'
      BY <1>0, <2>0, <3>1, NoDocument
    <3>3. Now - cache[page].at < MaxAge[page]
      BY <2>1 DEF Fresh
    <3>4. ASSUME cache[page].v > 0, NEW e \in changes, e < Now - MaxAge[page]
          PROVE  cache[page].v >= e
      BY <2>0, <3>3, <3>4, HoursAreNaturals DEF Upkept, PlainDocsAreCurrent, CalendarIsCurrent, Seen
    <3>5. ASSUME page = "calendar", NEW e \in changes, e < Now - (MaxAge["calendar"] + MaxAge["universe"])
          PROVE  cache[page].u >= e
      BY <3>3, <3>5, HoursAreNaturals DEF Upkept, CalendarIsCurrent, Seen
    <3> QED  BY <1>0, <3>1, <3>2, <3>3, <3>4, <3>5 DEF UnmarkedIsFresh
  <2>2. CASE ~Fresh(page, Now)
    <3>1. /\ request' = [request EXCEPT ![r] =
                            [pc |-> page, now |-> Now, v |-> 0,
                             had |-> IF page = "headlines" THEN cache[page] ELSE Nothing]]
          /\ NoneGiven
      BY <1>3, <2>2 DEF Begin
    <3>2. request'[r].pc = page /\ request'[r].now = Now /\ \A q \in Thread : q # r => request'[q] = request[q]
      BY <1>1, <3>1
    <3>3. page # "screen"
      BY <2>0
    <3>4. Upkept'
      BY <1>0, <2>0, <3>2, <3>3, HoursAreNaturals, NoDocument
    <3> QED  BY <1>b, <3>1, <3>4
  <2> QED  BY <2>1, <2>2
<1>4. CASE NewsAnswered(r)
  <2>1. PICK v \in {Current, 0} :
            LET doc == [at |-> request[r].now, v |-> v, u |-> 0] IN
            cache' = [cache EXCEPT !["headlines"] = doc] /\ Respond(r, "headlines", doc, FALSE)
    BY <1>4 DEF NewsAnswered
  <2> DEFINE doc == [at |-> request[r].now, v |-> v, u |-> 0]
  <2>2. doc \in PageDocs /\ doc.at = request[r].now /\ doc.v = v
    BY <1>2 DEF PageDocs
  <2>3. request[r].now <= Now /\ Now <= request[r].now + 1
    BY <1>4 DEF NewsAnswered, Upkept, NothingIsEarly
  <2>4. v > 0 => \A e \in changes : v >= e
    BY HoursAreNaturals
  <2>5. \A q \in Thread : request'[q].pc = "idle" \/ request'[q] = request[q]
    BY <2>1, RespondEnds
  <2>6. Upkept'
    BY <1>0, <2>1, <2>2, <2>3, <2>4, <2>5, HoursAreNaturals, OneDocument DEF Seen
  <2>7. answer' = [page |-> "headlines", now |-> request[r].now, doc |-> doc, stale |-> FALSE]
    BY <2>1, RespondEnds
  <2>8. UnmarkedIsFresh'
    BY <1>0, <2>2, <2>4, <2>7, HoursAreNaturals DEF UnmarkedIsFresh
  <2> QED  BY <2>6, <2>8
<1>5. CASE NewsStale(r)
  <2>1. Respond(r, "headlines", request[r].had, TRUE) /\ cache' = cache
    BY <1>5 DEF NewsStale
  <2>2. Upkept'
    BY <1>0, <2>1, RespondEnds, NoDocument
  <2> QED  BY <1>a, <2>1, <2>2
<1>6. CASE CalendarAnswered(r)
  <2>1. PICK v \in {Current, 0} : request' = [request EXCEPT ![r].pc = "screen", ![r].v = v]
    BY <1>6 DEF CalendarAnswered
  <2>2. request'[r].pc = "screen" /\ request'[r].v = v /\ request'[r].now = request[r].now
    BY <1>1, <2>1 DEF Requests
  <2>3. \A q \in Thread : q # r => request'[q] = request[q]
    BY <1>1, <2>1
  <2>4. PageFocus # {} /\ request[r].now <= Now /\ Now <= request[r].now + 1
    BY <1>6 DEF CalendarAnswered, Upkept, NothingIsEarly
  <2>5. v > 0 => Seen(v, request[r].now)
    BY HoursAreNaturals DEF Seen
  <2>6. Upkept'
    BY <1>0, <1>6, <2>2, <2>3, <2>4, <2>5, NoDocument DEF CalendarAnswered
  <2> QED  BY <1>6, <1>b, <2>6 DEF CalendarAnswered
<1>7. CASE CalendarStale(r)
  <2>1. Respond(r, "calendar", cache["calendar"], TRUE) /\ cache' = cache
    BY <1>7 DEF CalendarStale
  <2>2. Upkept'
    BY <1>0, <2>1, RespondEnds, NoDocument
  <2> QED  BY <1>a, <2>1, <2>2
<1>8. CASE CalendarScreened(r, Now)
  <2> DEFINE universe == IF Fresh("universe", Now) THEN cache["universe"]
                         ELSE [at |-> Now, v |-> Current, u |-> 0]
             doc == [at |-> Now, v |-> request[r].v, u |-> universe.v]
  <2>1. /\ cache' = [cache EXCEPT !["universe"] = universe, !["calendar"] = doc]
        /\ Respond(r, "calendar", doc, FALSE) /\ changes' = changes
        /\ request[r].pc = "screen"
    BY <1>8 DEF CalendarScreened
  <2>2. /\ \A q \in Thread : request'[q].pc = "idle" \/ request'[q] = request[q]
        /\ answer' = [page |-> "calendar", now |-> request[r].now, doc |-> doc, stale |-> FALSE]
    BY <2>1, RespondEnds
  <2>3. request[r].now <= Now /\ Now <= request[r].now + 1
    BY <2>1 DEF Upkept, NothingIsEarly
  <2>4. request[r].v > 0 => Seen(request[r].v, request[r].now)
    BY <2>1 DEF Upkept, RequestsAreCurrent
  <2>5. /\ universe.at \in Nat /\ universe.v \in Nat /\ universe.at <= Now
        /\ Now - universe.at < MaxAge["universe"]
        /\ Seen(universe.v, universe.at)
    <3>1. CASE Fresh("universe", Now)
      <4>1. universe = cache["universe"]
        BY <3>1
      <4> HIDE DEF universe
      <4> QED  BY <3>1, <4>1, HoursAreNaturals DEF Fresh, Upkept, PlainDocsAreCurrent, NothingIsEarly
    <3>2. CASE ~Fresh("universe", Now)
      <4>1. universe.at = Now /\ universe.v = Current
        BY <3>2
      <4> HIDE DEF universe
      <4> QED  BY <4>1, HoursAreNaturals, NewDocuments
    <3> QED  BY <3>1, <3>2
  <2> HIDE DEF universe
  <2>6. /\ cache'["universe"] = universe /\ cache'["calendar"] = doc
        /\ cache'["headlines"] = cache["headlines"] /\ cache'["history"] = cache["history"]
    BY <1>1, <2>1, HoursAreNaturals
  <2>7. Now' = Now /\ PageFocus' = PageFocus /\ \A v, h : Seen(v, h)' <=> Seen(v, h)
    BY <1>0 DEF Now, PageFocus, Seen
  <2>8. doc.at = Now /\ doc.v = request[r].v /\ doc.u = universe.v
    OBVIOUS
  <2> HIDE DEF doc
  <2>9. NothingIsEarly'
    <3>1. \A d \in Doc : cache'[d].at <= Now
      BY <2>5, <2>6, <2>8, HoursAreNaturals DEF Upkept, NothingIsEarly, Doc, PageName
    <3> QED  BY <1>0, <2>2, <2>7, <3>1 DEF Upkept, NothingIsEarly
  <2>10. PlainDocsAreCurrent'
    BY <2>5, <2>6, <2>7 DEF Upkept, PlainDocsAreCurrent
  <2>11. CalendarIsCurrent'
    <3>1. request[r].v > 0 => Seen(request[r].v, Now - 1)
      BY <2>3, <2>4, HoursAreNaturals DEF Seen
    <3>2. Seen(universe.v, Now - MaxAge["universe"])
      BY <2>5, HoursAreNaturals DEF Seen
    <3> QED  BY <2>6, <2>7, <2>8, <3>1, <3>2 DEF CalendarIsCurrent
  <2>12. RequestsAreCurrent'
    BY <2>2, <2>7 DEF Upkept, RequestsAreCurrent
  <2>13. UnmarkedIsFresh'
    <3>1. request[r].now - Now < MaxAge["calendar"]
      BY <2>3, HoursAreNaturals
    <3>2. ASSUME request[r].v > 0, NEW e \in changes, e < request[r].now - MaxAge["calendar"]
          PROVE  request[r].v >= e
      BY <2>4, <3>2, HoursAreNaturals DEF Seen
    <3>3. ASSUME NEW e \in changes, e < request[r].now - (MaxAge["calendar"] + MaxAge["universe"])
          PROVE  universe.v >= e
      BY <2>3, <2>5, <3>3, HoursAreNaturals DEF Seen
    <3> QED  BY <1>0, <2>2, <2>8, <3>1, <3>2, <3>3 DEF UnmarkedIsFresh
  <2> QED  BY <2>9, <2>10, <2>11, <2>12, <2>13 DEF Upkept
<1>9. CASE CalendarRaises(r, Now)
  <2>1. Respond(r, "calendar", Nothing, TRUE) /\ cache' = cache
    BY <1>9 DEF CalendarRaises
  <2>2. Upkept'
    BY <1>0, <2>1, RespondEnds, NoDocument
  <2> QED  BY <1>a, <2>1, <2>2
<1>10. CASE HistoryAnswered(r, Now)
  <2>1. PICK v \in {Current, 0} :
            LET doc == [at |-> Now, v |-> v, u |-> 0] IN
            cache' = [cache EXCEPT !["history"] = doc] /\ Respond(r, "history", doc, FALSE)
    BY <1>10 DEF HistoryAnswered
  <2> DEFINE doc == [at |-> Now, v |-> v, u |-> 0]
  <2>2. doc \in PageDocs /\ doc.at = Now /\ doc.v = v
    BY <1>2 DEF PageDocs
  <2>3. request[r].now <= Now
    BY <1>10 DEF HistoryAnswered, Upkept, NothingIsEarly
  <2>4. v > 0 => \A e \in changes : v >= e
    BY HoursAreNaturals
  <2>5. \A q \in Thread : request'[q].pc = "idle" \/ request'[q] = request[q]
    BY <2>1, RespondEnds
  <2>6. Upkept'
    <3>1. cache' = [cache EXCEPT !["history"] = doc] /\ "history" \in Doc /\ doc.at <= Now
      BY <2>1, <2>2, HoursAreNaturals
    <3>2. doc.v > 0 => Seen(doc.v, doc.at)
      BY <2>2, <2>4 DEF Seen
    <3> HIDE DEF doc
    <3> QED  BY <1>0, <2>2, <2>5, <3>1, <3>2, OneDocument
  <2>7. answer' = [page |-> "history", now |-> request[r].now, doc |-> doc, stale |-> FALSE]
    BY <2>1, RespondEnds
  <2>8. UnmarkedIsFresh'
    BY <1>0, <2>2, <2>3, <2>4, <2>7, HoursAreNaturals DEF UnmarkedIsFresh
  <2> QED  BY <2>6, <2>8
<1> QED  BY <1>3, <1>4, <1>5, <1>6, <1>7, <1>8, <1>9, <1>10

\* The agent runner's scan fills a document and answers nobody.
LEMMA ScanUpkeeps ==
    ASSUME PageTypes, Upkept, UNCHANGED <<pullVars, hour>>, ScanFillsUniverse(Now) \/ ScanFillsHistory(Now)
    PROVE  Upkept'
<1>1. PICK d \in {"universe", "history"}, v \in {0, Current} :
          /\ cache' = [cache EXCEPT ![d] = [at |-> Now, v |-> v, u |-> 0]]
          /\ UNCHANGED <<changes, request>> /\ (d = "universe" => v = Current)
  BY DEF ScanFillsUniverse, ScanFillsHistory
<1> DEFINE doc == [at |-> Now, v |-> v, u |-> 0]
<1>2. doc \in PageDocs /\ doc.at = Now /\ doc.v = v
  BY ClockIsBounded, CurrentIsAnHour, NothingIsTyped DEF PageTypes, PageDocs
<1>3. v > 0 \/ v = Current => Seen(v, Now)
  BY HoursAreNaturals DEF Seen
<1>4. d \in Doc /\ UNCHANGED <<today, focus, hour>>
  BY HoursAreNaturals DEF pullVars
<1>5. cache' = [cache EXCEPT ![d] = doc] /\ d # "calendar" /\ doc.at <= Now
  BY <1>1, <1>2, HoursAreNaturals
<1>6. (doc.v > 0 => Seen(doc.v, doc.at)) /\ (d = "universe" => Seen(doc.v, doc.at))
  BY <1>1, <1>2, <1>3
<1> HIDE DEF doc
<1> QED  BY <1>1, <1>2, <1>4, <1>5, <1>6, OneDocument

LEMMA StepUpkeeps ==
    ASSUME PageTypes, PullTypes, Upkept, UnmarkedIsFresh, [NextBoth]_allVars
    PROVE  Upkept' /\ UnmarkedIsFresh'
<1>b. ASSUME NoneGiven PROVE UnmarkedIsFresh'
  BY <1>b DEF NoneGiven, NoAnswer, UnmarkedIsFresh
<1>1. CASE PagesStep
  <2>1. CASE ProviderChanges(Now)
    BY <1>1, <1>b, <2>1, ChangesAreLate DEF PagesStep, ProviderChanges
  <2>2. CASE ScanFillsUniverse(Now) \/ ScanFillsHistory(Now)
    BY <1>1, <1>b, <2>2, ScanUpkeeps DEF PagesStep, ScanFillsUniverse, ScanFillsHistory
  <2> QED  BY <1>1, <2>1, <2>2, RequestUpkeeps DEF PagesStep, PageStep
<1>2. CASE NextHour \/ Midnight
  BY <1>2, <1>b, TimePasses DEF NextHour, Midnight
<1>3. CASE PullStep
  <2>1. UNCHANGED <<today, focus, hour, changes, cache, request>>
    BY <1>3 DEF PullStep, CrewStep, StartPull, Check, Verify, Close, StatementStage, NewsStage,
       NewsBlank, NewsDegraded, InsiderStage, InsiderDegraded, Fetched, Scrape, ScrapeFails, WriteMeta,
       WriteMoves, Die, Publish, File, Post
  <2>2. Upkept'
    BY <2>1, NoDocument
  <2> QED  BY <1>3, <1>b, <2>2 DEF PullStep
<1>4. CASE UNCHANGED allVars
  <2>1. UNCHANGED <<today, focus, hour, changes, cache, request, answer>>
    BY <1>4 DEF allVars, vars, pullVars, pageVars
  <2> QED  BY <2>1, NoDocument DEF UnmarkedIsFresh
<1> QED  BY <1>1, <1>2, <1>3, <1>4 DEF NextBoth

\* No page shows unmarked what the provider changed longer ago than the page's
\* age allows, however requests overlap, the scan fills the same documents and
\* the hour turns under them (routers/market.get_market_news, earnings_data).
THEOREM PagesStayFresh == SpecBoth => []UnmarkedIsFresh
<1>1. InitBoth => Upkept /\ UnmarkedIsFresh
  <2> SUFFICES ASSUME InitBoth PROVE Upkept /\ UnmarkedIsFresh
    OBVIOUS
  <2>1. /\ changes = {DayHours - 1} /\ cache = [d \in Doc |-> Nothing] /\ answer = NoAnswer
        /\ request = [r \in Thread |-> NoRequest] /\ today = 1 /\ hour = 0
    BY DEF InitBoth, Init, PagesInit
  <2>2. PageTypes
    BY StartsTyped
  <2>3. NothingIsEarly
    BY <2>1, HoursAssumption DEF NothingIsEarly, Now, Nothing, NoRequest
  <2>4. \A d \in Doc : cache[d].v = 0 /\ cache[d].u = 0 /\ cache[d].at = 0
    BY <2>1 DEF Nothing
  <2>5. \A v, h \in Int : h <= 0 => Seen(v, h)
    BY <2>2, HoursAreNaturals DEF Seen
  <2>6. 0 - MaxAge["universe"] \in Int /\ 0 - MaxAge["universe"] <= 0
    BY <2>2, HoursAreNaturals
  <2>7. PlainDocsAreCurrent /\ CalendarIsCurrent
    BY <2>2, <2>4, <2>5, <2>6, HoursAreNaturals DEF PlainDocsAreCurrent, CalendarIsCurrent
  <2>8. RequestsAreCurrent /\ UnmarkedIsFresh
    BY <2>1 DEF RequestsAreCurrent, NoRequest, UnmarkedIsFresh, NoAnswer
  <2> QED  BY <2>3, <2>7, <2>8 DEF Upkept
<1>2. Types /\ Upkept /\ UnmarkedIsFresh /\ [NextBoth]_allVars => Upkept' /\ UnmarkedIsFresh'
  BY StepUpkeeps DEF Types
<1> QED  BY <1>1, <1>2, TypesHold, PTL DEF SpecBoth

-----------------------------------------------------------------------------
(***************************************************************************)
(* What a delta still asks for.  A window whose last page is short, or     *)
(* reaches the first day asked for, has been read down to that day: the    *)
(* ranks of the articles are all the numbers below their count, so a page  *)
(* with something behind it is full.                                       *)
(***************************************************************************)
Behind(reply, a) == Cardinality({b \in reply : b > a})

LEMMA ArticlesAreNumbers ==
    ASSUME NEW reply \in SUBSET Article
    PROVE  /\ reply \subseteq Nat /\ IsFiniteSet(reply)
           /\ \A a \in reply : PublishedOn[a] \in Nat
           /\ \A a \in reply : IsFiniteSet({b \in reply : b > a}) /\ Behind(reply, a) \in Nat
<1>1. Article = 1 .. Len(PublishedOn) /\ Len(PublishedOn) \in Nat
  BY NewsAssumption DEF Article
<1>2. reply \subseteq Nat /\ \A a \in reply : PublishedOn[a] \in Nat
  BY <1>1, NewsAssumption
<1>3. IsFiniteSet(reply)
  <2>1. IsFiniteSet(Article)
    BY <1>1, FS_Interval
  <2> QED  BY <2>1, FS_Subset
<1>4. ASSUME NEW a \in reply PROVE IsFiniteSet({b \in reply : b > a}) /\ Behind(reply, a) \in Nat
  <2>1. IsFiniteSet({b \in reply : b > a})
    BY <1>3, FS_Subset
  <2> QED  BY <2>1, FS_CardinalityType DEF Behind
<1> QED  BY <1>2, <1>3, <1>4

\* The order of the answer is the order of the numbers.
LEMMA RanksDescend ==
    ASSUME NEW reply \in SUBSET Article, NEW a \in reply, NEW b \in reply, a > b
    PROVE  Behind(reply, a) < Behind(reply, b)
<1> DEFINE over(x) == {y \in reply : y > x}
<1>0. a \in Nat /\ b \in Nat /\ IsFiniteSet(over(b)) /\ Behind(reply, a) \in Nat /\ Behind(reply, b) \in Nat
  BY ArticlesAreNumbers
<1>1. over(a) \subseteq over(b)
  <2>1. reply \subseteq Nat
    BY ArticlesAreNumbers
  <2> SUFFICES ASSUME NEW y \in reply, y > a PROVE y > b
    OBVIOUS
  <2> QED  BY <1>0, <2>1
<1>2. a \in over(b) /\ a \notin over(a)
  BY <1>0
<1>3. Cardinality(over(a)) <= Cardinality(over(b)) /\ Cardinality(over(a)) # Cardinality(over(b))
  BY <1>0, <1>1, <1>2, FS_Subset
<1> QED  BY <1>0, <1>3 DEF Behind

\* Every number below the count is the rank of an article.
LEMMA EveryRankIsTaken ==
    ASSUME NEW reply \in SUBSET Article, NEW a \in reply, NEW r \in 0 .. Behind(reply, a)
    PROVE  \E b \in reply : Behind(reply, b) = r
<1> DEFINE n == Cardinality(reply)
<1> DEFINE rank == [b \in reply |-> Behind(reply, b)]
<1>1. IsFiniteSet(reply) /\ n \in Nat
  BY ArticlesAreNumbers, FS_CardinalityType
<1>2. ASSUME NEW b \in reply PROVE Behind(reply, b) \in 0 .. n - 1
  <2> DEFINE over == {y \in reply : y > b}
  <2>1. b \notin over /\ over \subseteq reply /\ Behind(reply, b) = Cardinality(over) /\ Behind(reply, b) \in Nat
    BY ArticlesAreNumbers DEF Behind
  <2>2. Cardinality(over) <= n /\ Cardinality(over) # n
    BY <1>1, <2>1, FS_Subset
  <2> QED  BY <1>1, <2>1, <2>2
<1>3. rank \in [reply -> 0 .. n - 1]
  BY <1>2
<1>4. ASSUME NEW b \in reply, NEW c \in reply, Behind(reply, b) = Behind(reply, c) PROVE b = c
  <2>1. b \in Nat /\ c \in Nat /\ Behind(reply, b) \in Nat
    BY ArticlesAreNumbers
  <2>2. ~ (b > c) /\ ~ (c > b)
    BY <2>1, <1>4, RanksDescend
  <2> QED  BY <2>1, <2>2
<1>5. rank \in Injection(reply, 0 .. n - 1)
  BY <1>3, <1>4 DEF Injection, IsInjective
<1>6. IsFiniteSet(0 .. n - 1) /\ Cardinality(0 .. n - 1) = n
  <2> HIDE DEF n
  <2>1. Cardinality(0 .. n - 1) = IF 0 > n - 1 THEN 0 ELSE n - 1 - 0 + 1
    BY <1>1, FS_Interval
  <2> QED  BY <1>1, <2>1, FS_Interval
<1>7. rank \in Surjection(reply, 0 .. n - 1)
  BY <1>5, <1>6, FS_Injection
<1>8. r \in 0 .. n - 1
  BY <1>1, <1>2, ArticlesAreNumbers
<1> QED  BY <1>7, <1>8 DEF Surjection

\* A page is a stretch of ranks.
LEMMA PageRanks ==
    ASSUME NEW reply \in SUBSET Article, NEW k \in Nat \ {0}, NEW a \in reply
    PROVE  a \in Page(reply, k) <=>
               (k - 1) * PageSize <= Behind(reply, a) /\ Behind(reply, a) < (k - 1) * PageSize + PageSize
<1> DEFINE r == Behind(reply, a)
<1> DEFINE q == r \div PageSize
<1>1. r \in Nat /\ PageSize \in Nat \ {0}
  BY ArticlesAreNumbers, NewsAssumption
<1>2. a \in Page(reply, k) <=> q = k - 1
  BY DEF Page, Behind
<1>3. q \in Nat /\ PageSize * q <= r /\ r < PageSize * q + PageSize
  BY <1>1
<1> HIDE DEF q, r
<1>4. q = k - 1 => (k - 1) * PageSize <= r /\ r < (k - 1) * PageSize + PageSize
  BY <1>1, <1>3
<1>5. ASSUME (k - 1) * PageSize <= r, r < (k - 1) * PageSize + PageSize PROVE q = k - 1
  <2> DEFINE p == k - 1
  <2>0. p \in Nat /\ p * PageSize <= r /\ r < p * PageSize + PageSize
    BY <1>5
  <2> HIDE DEF p
  <2>1. CASE q < p
    <3>1. PICK d \in Nat : p = q + 1 + d
      BY <2>0, <2>1, <1>3
    <3>2. p * PageSize = PageSize * q + PageSize + d * PageSize
      BY <3>1, <1>1, <1>3
    <3>3. d * PageSize \in Nat /\ PageSize * q \in Nat
      BY <3>1, <1>1, <1>3
    <3> QED  BY <3>2, <3>3, <2>0, <1>1, <1>3
  <2>2. CASE q > p
    <3>1. PICK d \in Nat : q = p + 1 + d
      BY <2>0, <2>2, <1>3
    <3>2. PageSize * q = p * PageSize + PageSize + d * PageSize
      BY <3>1, <1>1, <2>0
    <3>3. d * PageSize \in Nat /\ p * PageSize \in Nat
      BY <3>1, <1>1, <2>0
    <3> QED  BY <3>2, <3>3, <2>0, <1>1, <1>3
  <2>3. CASE q = p
    BY <2>3 DEF p
  <2> QED  BY <2>0, <2>1, <2>2, <2>3, <1>3
<1> QED  BY <1>2, <1>4, <1>5 DEF r

\* A page with an article behind it is full.
LEMMA PagesBeforeAreFull ==
    ASSUME NEW reply \in SUBSET Article, NEW k \in Nat \ {0}, NEW a \in reply,
           Behind(reply, a) >= (k - 1) * PageSize + PageSize
    PROVE  Cardinality(Page(reply, k)) >= PageSize
<1> DEFINE low == (k - 1) * PageSize
<1> DEFINE high == low + PageSize - 1
<1> DEFINE rank == [b \in Page(reply, k) |-> Behind(reply, b)]
<1>0. PageSize \in Nat \ {0} /\ low \in Nat /\ high \in Nat /\ Behind(reply, a) \in Nat
  <2>1. PageSize \in Nat \ {0} /\ k - 1 \in Nat
    BY NewsAssumption
  <2>2. low \in Nat
    BY <2>1
  <2>3. high \in Nat
    BY <2>1, <2>2
  <2> QED  BY <2>1, <2>2, <2>3, ArticlesAreNumbers
<1>1. Page(reply, k) \subseteq reply /\ IsFiniteSet(Page(reply, k))
  <2>1. Page(reply, k) \subseteq reply
    BY DEF Page
  <2> QED  BY <2>1, ArticlesAreNumbers, FS_Subset
<1>2. rank \in [Page(reply, k) -> low .. high]
  <2> SUFFICES ASSUME NEW b \in Page(reply, k) PROVE Behind(reply, b) \in low .. high
    OBVIOUS
  <2>1. b \in reply /\ Behind(reply, b) \in Nat
    BY <1>1, ArticlesAreNumbers
  <2>2. low <= Behind(reply, b) /\ Behind(reply, b) < low + PageSize
    BY <2>1, PageRanks
  <2> QED  BY <1>0, <2>1, <2>2
<1>3. ASSUME NEW r \in low .. high PROVE \E b \in Page(reply, k) : rank[b] = r
  <2>1. r \in 0 .. Behind(reply, a)
    BY <1>0, <1>3
  <2>2. PICK b \in reply : Behind(reply, b) = r
    BY <2>1, EveryRankIsTaken
  <2>3. low <= r /\ r < low + PageSize
    BY <1>0, <1>3
  <2>4. b \in Page(reply, k)
    BY <2>2, <2>3, PageRanks
  <2> QED  BY <2>2, <2>4
<1>4. rank \in Surjection(Page(reply, k), low .. high)
  BY <1>2, <1>3 DEF Surjection
<1>5. Cardinality(low .. high) = PageSize
  BY <1>0, FS_Interval
<1> QED  BY <1>1, <1>4, <1>5, FS_Surjection

\* Unless the most pages ended it, a window that is covered has been read down
\* to the first day asked for.
LEMMA CoveredWindowIsRead ==
    ASSUME NEW reply \in SUBSET Article, NEW start,
           start \in Int, StopPage(reply, start) # MaxPages,
           NEW a \in reply, a \notin FetchWindow(reply, start, StopPage(reply, start))
    PROVE  PublishedOn[a] <= start
<1> DEFINE n == StopPage(reply, start)
<1>1. n \in 1 .. MaxPages /\ MaxPages \in Nat
  BY StopPageIsAPage, NewsAssumption
<1>2. \/ Cardinality(Page(reply, n)) < PageSize
      \/ \E b \in Page(reply, n) : PublishedOn[b] <= start
  <2> DEFINE pages == {MaxPages} \cup
        {k \in 1 .. MaxPages : \/ Cardinality(Page(reply, k)) < PageSize
                               \/ \E b \in Page(reply, k) : PublishedOn[b] <= start}
  <2>1. pages \subseteq Nat /\ pages # {}
    BY NewsAssumption
  <2>2. n \in pages
    BY <2>1, Smallest DEF StopPage
  <2> QED  BY <2>2
<1>3. Min({n, n}) = n
  BY <1>1 DEF Min
<1>4. ASSUME NEW k \in 1 .. n PROVE a \notin Page(reply, k)
  BY <1>3, <1>4 DEF FetchWindow
<1> DEFINE r == Behind(reply, a)
<1> HIDE DEF n
<1>0. r \in Nat /\ PageSize \in Nat \ {0} /\ n \in Nat \ {0}
  <2>1. r \in Nat
    BY ArticlesAreNumbers
  <2> QED  BY <1>1, <2>1, NewsAssumption
<1>5. r >= n * PageSize
  <2>0. n * PageSize \in Nat
    BY <1>0
  <2> SUFFICES ASSUME r < n * PageSize PROVE FALSE
    BY <1>0, <2>0
  <2> DEFINE q == r \div PageSize
  <2>1. r \in Nat /\ PageSize \in Nat \ {0} /\ n \in Nat
    BY <1>0
  <2>2. q \in Nat /\ PageSize * q <= r
    BY <2>1
  <2>3. a \in Page(reply, q + 1)
    BY <2>2 DEF Page, Behind
  <2> HIDE DEF q, r
  <2>4. q < n
    <3> SUFFICES ASSUME q >= n PROVE FALSE
      BY <2>1, <2>2
    <3>1. PICK d \in Nat : q = n + d
      BY <2>1, <2>2
    <3>2. PageSize * q = n * PageSize + d * PageSize /\ d * PageSize \in Nat /\ n * PageSize \in Nat
      BY <3>1, <2>1
    <3> QED  BY <3>2, <2>1, <2>2
  <2> QED  BY <1>1, <1>4, <2>2, <2>3, <2>4
<1>6. n * PageSize = (n - 1) * PageSize + PageSize /\ (n - 1) * PageSize \in Nat
  <2> HIDE DEF r
  <2>1. PICK m \in Nat : n = m + 1
    BY <1>0
  <2>2. n - 1 = m /\ (m + 1) * PageSize = m * PageSize + PageSize /\ m * PageSize \in Nat
    BY <1>0, <2>1
  <2> QED  BY <2>1, <2>2
<1>7. Cardinality(Page(reply, n)) >= PageSize
  BY <1>0, <1>5, <1>6, PagesBeforeAreFull
<1>8. Cardinality(Page(reply, n)) \in Nat
  <2>1. Page(reply, n) \subseteq reply
    BY DEF Page
  <2> QED  BY <2>1, ArticlesAreNumbers, FS_Subset, FS_CardinalityType
<1>9. PICK b \in Page(reply, n) : PublishedOn[b] <= start
  BY <1>2, <1>7, <1>8, NewsAssumption
<1>10. b \in reply /\ Behind(reply, b) < r
  <2>1. b \in reply
    BY DEF Page
  <2>2. Behind(reply, b) < (n - 1) * PageSize + PageSize /\ Behind(reply, b) \in Nat
    BY <1>0, <2>1, PageRanks, ArticlesAreNumbers
  <2> DEFINE top == n * PageSize
  <2>3. top \in Nat /\ Behind(reply, b) < top /\ r >= top
    BY <1>0, <1>5, <1>6, <2>2
  <2> HIDE DEF top, r
  <2> QED  BY <1>0, <2>1, <2>2, <2>3
<1>11. ~ (a > b)
  <2>1. ~ (r < Behind(reply, b))
    <3>1. Behind(reply, b) \in Nat
      BY <1>10, ArticlesAreNumbers
    <3> HIDE DEF r
    <3> QED  BY <1>0, <1>10, <3>1
  <2> QED  BY <1>10, <2>1, RanksDescend
<1>12. a <= b /\ a \in Article /\ b \in Article
  BY <1>10, <1>11, ArticlesAreNumbers
<1>13. PublishedOn[a] <= PublishedOn[b]
  BY <1>12, NewsAssumption DEF Article
<1>14. PublishedOn[a] \in Nat /\ PublishedOn[b] \in Nat
  BY <1>10, ArticlesAreNumbers
<1> QED  BY <1>9, <1>13, <1>14

\* What the two deltas ask for, as bounds on a day.
LEMMA NewsFromIs ==
    ASSUME NEW stored \in SUBSET Article, NEW day \in Nat, NEW x \in Int
    PROVE  x >= NewsFrom(stored, day) <=>
               x >= NewsCutoff(day) /\ \A b \in stored : PublishedOn[b] <= x + 1
<1>0. NewsCutoff(day) \in Int
  BY NewsAssumption DEF NewsCutoff
<1>1. CASE stored = {}
  BY <1>1 DEF NewsFrom
<1>2. CASE stored # {}
  <2> DEFINE days == {PublishedOn[b] : b \in stored}
  <2>1. days \subseteq Nat /\ days # {}
    BY <1>2, ArticlesAreNumbers
  <2>2. IsFiniteSet(stored)
    BY ArticlesAreNumbers
  <2>3. PICK m \in stored : \A b \in stored : b <= m
    <3>1. stored \subseteq 0 .. Len(PublishedOn) /\ Len(PublishedOn) \in Nat
      BY NewsAssumption DEF Article
    <3> QED  BY <1>2, <3>1, Largest
  <2>4. \A b \in stored : PublishedOn[b] <= PublishedOn[m]
    BY <2>3, NewsAssumption DEF Article
  <2>5. PublishedOn[m] \in days /\ \A d \in days : d <= PublishedOn[m]
    BY <2>4
  <2>6. Max(days) = PublishedOn[m] /\ PublishedOn[m] \in Nat
    BY <2>1, <2>5, LargestIs
  <2>7. Max({NewsCutoff(day), PublishedOn[m] - 1}) =
            IF NewsCutoff(day) >= PublishedOn[m] - 1 THEN NewsCutoff(day) ELSE PublishedOn[m] - 1
    BY <1>0, <2>6 DEF Max
  <2>8. NewsFrom(stored, day) = Max({NewsCutoff(day), PublishedOn[m] - 1})
    BY <1>2, <2>6 DEF NewsFrom
  <2>9. x >= NewsFrom(stored, day) <=> x >= NewsCutoff(day) /\ PublishedOn[m] <= x + 1
    BY <1>0, <2>6, <2>7, <2>8
  <2>10. PublishedOn[m] <= x + 1 <=> \A b \in stored : PublishedOn[b] <= x + 1
    BY <2>4, <2>6, ArticlesAreNumbers
  <2> QED  BY <2>9, <2>10
<1> QED  BY <1>1, <1>2

LEMMA NewsFromIsADay ==
    ASSUME NEW stored \in SUBSET Article, NEW day \in Nat
    PROVE  NewsFrom(stored, day) \in Int
<1>0. NewsCutoff(day) \in Int
  BY NewsAssumption DEF NewsCutoff
<1>1. CASE stored = {}
  BY <1>0, <1>1 DEF NewsFrom
<1>2. CASE stored # {}
  <2> DEFINE days == {PublishedOn[b] : b \in stored}
  <2>1. Len(PublishedOn) \in Nat /\ stored \subseteq 0 .. Len(PublishedOn)
    BY NewsAssumption DEF Article
  <2>2. PICK m \in stored : \A b \in stored : b <= m
    BY <1>2, <2>1, Largest
  <2>3. \A b \in stored : PublishedOn[b] <= PublishedOn[m]
    BY <2>2, NewsAssumption DEF Article
  <2>4. days \subseteq Nat /\ PublishedOn[m] \in days /\ \A d \in days : d <= PublishedOn[m]
    BY <2>3, ArticlesAreNumbers
  <2>5. Max(days) = PublishedOn[m] /\ PublishedOn[m] \in Nat
    BY <2>4, LargestIs
  <2>6. NewsFrom(stored, day) = Max({NewsCutoff(day), PublishedOn[m] - 1})
    BY <1>2, <2>5 DEF NewsFrom
  <2> QED  BY <1>0, <2>5, <2>6 DEF Max
<1> QED  BY <1>1, <1>2

LEMMA InsiderFromIs ==
    ASSUME NEW stored \in SUBSET Filings, NEW day \in Nat, NEW x \in Nat
    PROVE  x >= InsiderFrom(stored, day) <=>
               x >= day - LookbackDays /\ \A u \in stored : u.day <= x + 1
<1> DEFINE dated == {t.day : t \in stored} \ {0}
<1>0. \A u \in stored : u.day \in 0 .. MaxDay
  BY PullAssumption
<1>1. day - LookbackDays \in Int /\ MaxDay \in Nat
  BY InsiderAssumption, PullAssumption
<1>2. CASE dated = {}
  <2>1. \A u \in stored : u.day = 0
    BY <1>2
  <2> QED  BY <1>2, <2>1 DEF InsiderFrom
<1>3. CASE dated # {}
  <2> DEFINE m == Max(dated)
  <2>1. dated \subseteq 0 .. MaxDay
    BY <1>0
  <2>2. m \in dated /\ \A d \in dated : d <= m
    BY <1>1, <1>3, <2>1, Largest
  <2>3. InsiderFrom(stored, day) = Max({day - LookbackDays, m - 1})
    BY <1>3 DEF InsiderFrom
  <2>4. m \in Nat /\ (\E u \in stored : u.day = m) /\ \A u \in stored : u.day <= m
    <3>0. m \in Nat
      BY <1>1, <2>1, <2>2
    <3>1. m \in Nat /\ \E u \in stored : u.day = m
      <4>1. \A d \in dated : \E u \in stored : u.day = d
        OBVIOUS
      <4> QED  BY <2>2, <3>0, <4>1
    <3>2. ASSUME NEW u \in stored PROVE u.day <= m
      <4>1. u.day \in Nat /\ (u.day = 0 \/ u.day \in dated)
        BY <1>0
      <4> QED  BY <2>2, <3>1, <4>1
    <3> QED  BY <3>1, <3>2
  <2> HIDE DEF m
  <2>5. Max({day - LookbackDays, m - 1}) =
            IF day - LookbackDays >= m - 1 THEN day - LookbackDays ELSE m - 1
    BY <1>1, <2>4 DEF Max
  <2>6. x >= InsiderFrom(stored, day) <=> x >= day - LookbackDays /\ m <= x + 1
    BY <1>1, <2>3, <2>4, <2>5
  <2>7. m <= x + 1 <=> \A u \in stored : u.day <= x + 1
    BY <1>0, <2>4
  <2> QED  BY <2>6, <2>7
<1> QED  BY <1>2, <1>3

\* The inductive invariant: the providers list nothing ahead of its day, and
\* whatever is missing is no more than a day older than anything stored.
Missing == listed \ (news \cup cut)
NewsAsked ==
    \A a \in Missing : PublishedOn[a] >= NewsCutoff(today) =>
        \A b \in news : PublishedOn[b] <= PublishedOn[a] + 1
Prompt(t) == t.day > 0 /\ t.day >= today - LookbackDays /\ t.filed <= t.day + 1
InsiderAsked ==
    \A t \in filed \ insider : Prompt(t) => \A u \in insider : u.day <= t.day + 1
Asked ==
    /\ \A a \in listed : PublishedOn[a] <= today
    /\ \A t \in filed : t.filed <= today
    /\ NewsAsked /\ InsiderAsked

LEMMA AskedIsEnough ==
    ASSUME Types, Asked
    PROVE  DeltaAsksForTheMissing
<1>0. today \in Nat /\ news \subseteq Article /\ listed \subseteq Article /\ insider \subseteq Filings
      /\ filed \subseteq Filings
  BY PullAssumption DEF Types, PullTypes, MarketTypes, ListTypes
<1>1. SlipsOnlyWhenCut
  <2> SUFFICES ASSUME NEW a \in listed, a \notin news, a \notin cut, PublishedOn[a] >= NewsCutoff(today)
               PROVE  PublishedOn[a] >= NewsFrom(news, today)
    BY DEF SlipsOnlyWhenCut, Retained
  <2>1. PublishedOn[a] \in Nat
    BY <1>0, ArticlesAreNumbers
  <2>2. \A b \in news : PublishedOn[b] <= PublishedOn[a] + 1
    BY DEF Asked, NewsAsked, Missing
  <2> QED  BY <1>0, <2>1, <2>2, NewsFromIs
<1>2. PromptFilingIsAsked
  <2> SUFFICES ASSUME NEW t \in filed, t \notin insider, t.day = 0 \/ t.day >= today - LookbackDays,
                      t.day > 0, t.filed - t.day <= 1
               PROVE  t.day >= InsiderFrom(insider, today)
    BY DEF PromptFilingIsAsked, InLookback
  <2>1. t.day \in Nat /\ t.filed \in Nat
    BY <1>0, PullAssumption
  <2>2. Prompt(t)
    BY <2>1 DEF Prompt
  <2>3. \A u \in insider : u.day <= t.day + 1
    BY <2>2 DEF Asked, InsiderAsked
  <2> QED  BY <1>0, <2>1, <2>2, <2>3, InsiderFromIs DEF Prompt
<1> QED  BY <1>1, <1>2 DEF DeltaAsksForTheMissing

\* A fetch of the news, whatever comes of it, leaves nothing missing but what
\* was asked for before.
LEMMA NewsStageAsks ==
    ASSUME Types, Asked, NewsStage \/ NewsBlank
    PROVE  NewsAsked'
<1>0. today \in Nat /\ news \subseteq listed /\ listed \subseteq Article
      /\ UNCHANGED <<today, listed>>
  BY PullAssumption DEF Types, PullTypes, MarketTypes, ListTypes, NewsStage, NewsBlank, marketVars
<1>1. CASE pull.mode = "full" /\ NewsBlank
  <2>1. NewsBaseline = {}
    BY <1>1 DEF NewsBaseline
  <2>2. news' = {}
    BY <1>1, <2>1 DEF NewsBlank, MergeArticles, Retained
  <2> QED  BY <2>2 DEF NewsAsked
<1>2. CASE pull.mode # "full" /\ NewsBlank
  <2>1. NewsBaseline = news /\ UNCHANGED cut
    BY <1>2 DEF NewsBaseline, NewsBlank
  <2>2. news' = Retained(news, today)
    BY <1>2, <2>1 DEF NewsBlank, MergeArticles
  <2> SUFFICES ASSUME NEW a \in listed, a \notin news', a \notin cut, PublishedOn[a] >= NewsCutoff(today),
                      NEW b \in news'
               PROVE  PublishedOn[b] <= PublishedOn[a] + 1
    BY <1>0, <2>1 DEF NewsAsked, Missing, NewsCutoff
  <2>3. a \notin news /\ b \in news
    BY <2>2 DEF Retained
  <2> QED  BY <2>3 DEF Asked, NewsAsked, Missing
<1>3. CASE NewsStage
  <2> DEFINE start == NewsStart
             reply == NewsAnswer
             last == StopPage(reply, start)
  <2>1. PICK n \in 1 .. last :
            LET short == n < last \/ n = MaxPages
                got == FetchWindow(reply, start, n)
                left == IF short THEN reply \cup news
                        ELSE {a \in reply : PublishedOn[a] = start}
            IN  news' = MergeArticles(NewsBaseline, got, today) /\ cut' = (cut \cup left) \ news'
    BY <1>3 DEF NewsStage
  <2>2. SUFFICES ASSUME NEW a \in listed, a \notin news', a \notin cut', PublishedOn[a] >= NewsCutoff(today)
                 PROVE  FALSE
    BY <1>0 DEF NewsAsked, Missing, NewsCutoff
  <2>3. a \in Article /\ PublishedOn[a] \in Nat /\ NewsCutoff(today) \in Int /\ reply \in SUBSET Article
    <3>1. reply \in SUBSET listed
      BY DEF NewsAnswer
    <3>2. NewsCutoff(today) \in Int
      BY <1>0, NewsAssumption DEF NewsCutoff
    <3>3. PublishedOn[a] \in Nat
      BY <1>0, <2>2, ArticlesAreNumbers
    <3> QED  BY <1>0, <2>2, <3>1, <3>2, <3>3
  <2>4. start \in Int
    <3>1. CASE pull.mode = "full"
      BY <2>3, <3>1 DEF NewsStart
    <3>2. CASE pull.mode # "full"
      BY <1>0, <3>2, NewsFromIsADay DEF NewsStart
    <3> QED  BY <3>1, <3>2
  <2>5. a \notin cut
    BY <2>1, <2>2
  <2>6. a \in reply
    <3>1. CASE pull.mode = "full"
      BY <2>2, <3>1 DEF NewsAnswer, NewsStart
    <3>2. CASE pull.mode # "full"
      <4>1. NewsBaseline = news
        BY <3>2 DEF NewsBaseline
      <4>2. a \notin news
        BY <2>1, <2>2, <4>1 DEF MergeArticles, Retained
      <4>3. \A b \in news : PublishedOn[b] <= PublishedOn[a] + 1
        BY <2>2, <2>5, <4>2 DEF Asked, NewsAsked, Missing
      <4>4. PublishedOn[a] >= NewsFrom(news, today)
        BY <1>0, <2>2, <2>3, <4>3, NewsFromIs
      <4> QED  BY <3>2, <4>4 DEF NewsAnswer, NewsStart
    <3> QED  BY <3>1, <3>2
  <2>7. ~ (n < last \/ n = MaxPages) /\ PublishedOn[a] # start
    BY <2>1, <2>2, <2>6
  <2>8. n = last /\ last # MaxPages
    BY <2>7, StopPageIsAPage, NewsAssumption
  <2>9. a \notin FetchWindow(reply, start, n)
    BY <2>1, <2>2 DEF MergeArticles, Retained
  <2>10. PublishedOn[a] <= start
    BY <2>3, <2>4, <2>6, <2>8, <2>9, CoveredWindowIsRead
  <2>11. PublishedOn[a] >= start
    BY <2>6 DEF NewsAnswer
  <2> QED  BY <2>3, <2>4, <2>7, <2>10, <2>11
<1> QED  BY <1>1, <1>2, <1>3

\* A fetch of the transactions likewise; those it leaves out were asked for.
LEMMA InsiderStageAsks ==
    ASSUME Types, Asked, InsiderStage
    PROVE  InsiderAsked'
<1>0. today \in Nat /\ insider \subseteq filed /\ filed \subseteq Filings /\ UNCHANGED <<today, filed>>
  BY PullAssumption DEF Types, PullTypes, MarketTypes, ListTypes, InsiderStage, marketVars
<1>1. PICK reply \in {{t \in filed : t.day >= InsiderStart}, {}} :
          insider' = MergeTransactions(IF pull.mode = "full" THEN {} ELSE insider, reply, today)
  BY DEF InsiderStage
<1> DEFINE base == IF pull.mode = "full" THEN {} ELSE insider
<1>2. base \cup reply \subseteq Filings
  BY <1>0, <1>1
<1>3. reply \cup {t \in base : TransactionKey(t) \notin {TransactionKey(s) : s \in reply}} = base \cup reply
  BY <1>2, PullAssumption
<1>4. insider' = InLookback(base \cup reply, today)
  BY <1>1, <1>3 DEF MergeTransactions
<1> SUFFICES ASSUME NEW t \in filed, t \notin insider', Prompt(t), NEW u \in insider'
             PROVE  u.day <= t.day + 1
  BY <1>0 DEF InsiderAsked, Prompt
<1>5. t \notin base /\ t \notin reply /\ u \in base \cup reply
  BY <1>4 DEF InLookback, Prompt
<1>6. t.day \in Nat /\ t.filed \in Nat
  BY <1>0, PullAssumption
<1>7. CASE pull.mode = "full"
  <2>1. t.day >= InsiderStart
    BY <1>7 DEF InsiderStart, Prompt
  <2> QED  BY <1>1, <1>5, <1>7, <2>1
<1>8. CASE pull.mode # "full"
  <2>1. \A v \in insider : v.day <= t.day + 1
    BY <1>5, <1>8 DEF Asked, InsiderAsked
  <2>2. t.day >= InsiderFrom(insider, today)
    BY <1>0, <1>6, <2>1, InsiderFromIs DEF Prompt
  <2>3. reply = {}
    BY <1>1, <1>5, <1>8, <2>2 DEF InsiderStart
  <2> QED  BY <1>5, <1>8, <2>1, <2>3
<1> QED  BY <1>7, <1>8

LEMMA StepAsks ==
    ASSUME Types, Asked, [NextBoth]_allVars
    PROVE  Asked'
<1>0. /\ today \in Nat /\ news \subseteq listed /\ listed \subseteq Article /\ insider \subseteq filed
      /\ filed \subseteq Filings
      /\ \A a \in listed : PublishedOn[a] \in Nat
      /\ \A t \in filed : t.filed \in Nat /\ t.day \in 0 .. t.filed
  <2>1. /\ today \in Nat /\ news \subseteq listed /\ listed \subseteq Article /\ insider \subseteq filed
        /\ filed \subseteq Filings
    BY PullAssumption DEF Types, PullTypes, MarketTypes, ListTypes
  <2>2. \A a \in listed : PublishedOn[a] \in Nat
    BY <2>1, ArticlesAreNumbers
  <2>3. \A t \in filed : t.filed \in Nat /\ t.day \in 0 .. t.filed
    BY <2>1, PullAssumption
  <2> QED  BY <2>1, <2>2, <2>3
<1>1. CASE NewsStage \/ NewsBlank
  <2>1. UNCHANGED <<today, listed, filed, insider>>
    BY <1>1 DEF NewsStage, NewsBlank, marketVars
  <2> QED  BY <1>1, <2>1, NewsStageAsks DEF Asked, InsiderAsked, Prompt
<1>2. CASE InsiderStage
  <2>1. UNCHANGED <<today, listed, filed, news, cut>>
    BY <1>2 DEF InsiderStage, marketVars
  <2> QED  BY <1>2, <2>1, InsiderStageAsks DEF Asked, NewsAsked, Missing, NewsCutoff
<1>3. CASE Publish
  <2>1. UNCHANGED <<today, filed, insider, news, cut>>
    BY <1>3 DEF Publish, storeVars
  <2>2. PICK c \in Article \ listed : today - PublishedOn[c] \in 0 .. 1 /\ listed' = listed \cup {c}
    BY <1>3 DEF Publish
  <2>3. PublishedOn[c] \in Nat
    BY ArticlesAreNumbers
  <2>4. \A a \in listed' : PublishedOn[a] <= today
    BY <1>0, <2>2, <2>3 DEF Asked
  <2>5. ASSUME NEW a \in Missing', PublishedOn[a] >= NewsCutoff(today), NEW b \in news
        PROVE  PublishedOn[b] <= PublishedOn[a] + 1
    <3>1. PublishedOn[b] \in Nat /\ PublishedOn[b] <= today
      BY <1>0 DEF Asked
    <3>2. CASE a = c
      BY <1>0, <2>2, <2>3, <3>1, <3>2
    <3>3. CASE a # c
      <4>1. a \in Missing
        BY <2>1, <2>2, <3>3 DEF Missing
      <4> QED  BY <2>5, <4>1 DEF Asked, NewsAsked
    <3> QED  BY <3>2, <3>3
  <2>6. NewsAsked'
    BY <2>1, <2>5 DEF NewsAsked, NewsCutoff
  <2> QED  BY <2>1, <2>4, <2>6 DEF Asked, InsiderAsked, Prompt
<1>4. CASE File
  <2>1. UNCHANGED <<today, listed, insider, news, cut>>
    BY <1>4 DEF File, storeVars
  <2>2. PICK c \in Filings \ filed : c.filed = today /\ filed' = filed \cup {c}
    BY <1>4 DEF File
  <2>3. \A t \in filed' : t.filed <= today
    BY <1>0, <2>2 DEF Asked
  <2>4. ASSUME NEW t \in filed', t \notin insider, Prompt(t), NEW u \in insider
        PROVE  u.day <= t.day + 1
    <3>1. u.day \in Nat /\ u.day <= today
      BY <1>0 DEF Asked
    <3>2. CASE t = c
      <4>1. t.day \in Nat /\ today <= t.day + 1
        BY <1>0, <2>2, <2>4, <3>2, PullAssumption DEF Prompt
      <4> QED  BY <1>0, <3>1, <4>1
    <3>3. CASE t # c
      BY <2>2, <2>4, <3>3 DEF Asked, InsiderAsked
    <3> QED  BY <3>2, <3>3
  <2>5. InsiderAsked'
    BY <2>1, <2>4 DEF InsiderAsked, Prompt
  <2> QED  BY <2>1, <2>3, <2>5 DEF Asked, NewsAsked, Missing, NewsCutoff
<1>5. CASE NextDay
  <2>1. UNCHANGED <<listed, filed, insider, news, cut>> /\ today' = today + 1
    BY <1>5 DEF NextDay, marketVars
  <2>2. (\A a \in listed : PublishedOn[a] <= today + 1) /\ (\A t \in filed : t.filed <= today + 1)
    BY <1>0 DEF Asked
  <2>3. NewsAsked'
    <3> SUFFICES ASSUME NEW a \in Missing, PublishedOn[a] >= today + 1 - (NewsDays - 1), NEW b \in news
                 PROVE  PublishedOn[b] <= PublishedOn[a] + 1
      <4>1. Missing' = Missing /\ news' = news /\ NewsCutoff(today)' = today + 1 - (NewsDays - 1)
        BY <1>0, <2>1, NewsAssumption DEF Missing, NewsCutoff
      <4> QED  BY <4>1 DEF NewsAsked
    <3>1. PublishedOn[a] >= NewsCutoff(today)
      BY <1>0, NewsAssumption DEF NewsCutoff, Missing
    <3> QED  BY <3>1 DEF Asked, NewsAsked
  <2>4. InsiderAsked'
    <3> SUFFICES ASSUME NEW t \in filed \ insider, t.day > 0, t.day >= today + 1 - LookbackDays,
                        t.filed <= t.day + 1, NEW u \in insider
                 PROVE  u.day <= t.day + 1
      <4>1. filed' = filed /\ insider' = insider
        BY <2>1
      <4>2. ASSUME NEW t \in filed, Prompt(t)'
            PROVE  t.day > 0 /\ t.day >= today + 1 - LookbackDays /\ t.filed <= t.day + 1
        BY <1>0, <2>1, <4>2, InsiderAssumption DEF Prompt
      <4> QED  BY <4>1, <4>2 DEF InsiderAsked
    <3>1. Prompt(t)
      BY <1>0, InsiderAssumption DEF Prompt
    <3> QED  BY <3>1 DEF Asked, InsiderAsked
  <2> QED  BY <2>1, <2>2, <2>3, <2>4 DEF Asked
<1>6. CASE UNCHANGED <<today, listed, filed, insider, news, cut>>
  BY <1>6 DEF Asked, NewsAsked, InsiderAsked, Missing, NewsCutoff, Prompt
<1> QED
  BY <1>1, <1>2, <1>3, <1>4, <1>5, <1>6 DEF NextBoth, PullStep, CrewStep, PagesStep, NextHour, Midnight,
     StartPull, Check, Verify, Close, StatementStage, NewsDegraded, InsiderDegraded, Fetched, Scrape, ScrapeFails,
     WriteMeta, WriteMoves, Die, Post, allVars, vars, pullVars, storeVars, marketVars

\* Whatever a store lacks of its window is still asked for by the next delta,
\* however pulls failed, but for what a fetch cut short left out and what was
\* filed late (news.delta_from, _fetch_window, insider.delta_from).
THEOREM MissingIsAskedFor == SpecBoth => []DeltaAsksForTheMissing
<1>1. InitBoth => Asked
  BY DEF InitBoth, Init, Asked, NewsAsked, InsiderAsked, Missing
<1>2. Types /\ Asked /\ [NextBoth]_allVars => Asked'
  BY StepAsks
<1>3. Types /\ Asked => DeltaAsksForTheMissing
  BY AskedIsEnough
<1> QED  BY <1>1, <1>2, <1>3, TypesHold, PTL DEF SpecBoth
=============================================================================
