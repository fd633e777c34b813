------------------------------ MODULE CrewPull -------------------------------
(***************************************************************************)
(* One pull of a ticker after another (agent-runner/crew.py Crew.run): the *)
(* existence check, the prefetch stages, the superinvestor list; over the  *)
(* stores the stages maintain and the budget they share.  Price and        *)
(* breadth have modules of their own.  A stage writes its store in one     *)
(* operation from what it read, and one process pulls a ticker, so a stage *)
(* is a step; the superinvestor list is written in two operations.         *)
(***************************************************************************)
EXTENDS Budget, NewsStore, InsiderStore, Statements

Stages == {"news", "insider", "statements"}

CONSTANTS MaxDay,       \* bound: the last day
          Filings,      \* the transactions that will be filed, as InsiderStore
                        \* records; filed is the day they appear, not before
                        \* the day of the transaction
          Focus         \* bound: the sets of stages that behaviours look at;
                        \* the others are served what they hold

ASSUME PullAssumption ==
    /\ MaxDay \in Nat \ {0}
    /\ IsFiniteSet(Filings)
    /\ \A t \in Filings : t.filed \in 1 .. MaxDay /\ t.day \in 0 .. t.filed
    /\ \A s, t \in Filings : TransactionKey(s) = TransactionKey(t) => s = t
    /\ Focus \subseteq SUBSET (Stages \cup {"moves", "headlines", "calendar", "history"})

VARIABLES today,        \* date.today()
          focus,        \* the stages of this behaviour
          listed,       \* the articles the provider has
          news, cut,    \* the stored articles; those a fetch cut short left out
          filed,        \* the transactions the provider has
          insider,      \* the stored transactions
          fin,          \* the financials document
          posted,       \* moves on the superinvestor page, by day and number
          lastPull,     \* DATAROMA_META: the day of the last pull
          moves,        \* the shared cache: day and list
          accounted,    \* moves a cache has held, and those that a death or a
                        \* midnight between scrape and writes has lost
          missed,       \* moves that no scrape of their page has found
          pull          \* the pull that runs: [pc, mode, left, failed, found]

marketVars == <<listed, filed, posted>>
storeVars == <<news, cut, insider, fin, lastPull, moves, accounted, missed>>
pullVars == <<today, focus, marketVars, storeVars, pull>>
vars == <<budgetVars, pullVars>>

Idle == [pc |-> "idle", mode |-> "delta", left |-> {}, failed |-> FALSE, found |-> {}]
At(pc) == pull.pc = pc
Goto(pc) == pull' = [pull EXCEPT !.pc = pc]

Init ==
    /\ BudgetInit
    /\ today = 1 /\ focus \in Focus
    /\ listed = {} /\ filed = {} /\ posted = {}
    /\ news = {} /\ cut = {} /\ insider = {} /\ fin = NoStatements
    /\ lastPull = 0 /\ moves = [at |-> 0, list |-> {}] /\ accounted = {} /\ missed = {}
    /\ pull = Idle

-----------------------------------------------------------------------------
StartPull ==
    /\ At("idle")
    /\ \E mode \in {"delta", "full"} : pull' = [Idle EXCEPT !.pc = "check", !.mode = mode]
    /\ UNCHANGED <<budgetVars, today, focus, marketVars, storeVars>>

Prefetch == [pull EXCEPT !.pc = "fetch", !.left = focus \cap Stages]

\* is_ticker_valid: a budget that is spent leaves the ticker alone; any other
\* failure, or a quote without a price, does not.
Check ==
    /\ At("check")
    /\ Spend(1)
    /\ \/ pull' = Prefetch
       \/ /\ "statements" \in focus /\ ~Refused(1)
          /\ Goto("verify")
    /\ UNCHANGED <<today, focus, marketVars, storeVars>>

\* get_financials.  A statement the plan does not cover, or the budget refuses,
\* is unavailable; any other failure raises with nothing stored.
Rank(keys, k) == Cardinality({j \in keys : j <= k})
Answers(keys) ==
    {answer \in [keys -> {"rows", "empty", "unavailable"}] :
        \A k \in keys : Refused(Rank(keys, k)) => answer[k] = "unavailable"}
GetFinancials ==
    LET keys == RetryKeys(fin, today) IN
    /\ Spend(Cardinality(keys))
    /\ fin' \in IF keys = {} THEN {fin}
                ELSE {Refetched(fin, today, answer) : answer \in Answers(keys)}
FinancialsRaise ==
    \E k \in RetryKeys(fin, today) :
        /\ ~Refused(Rank(RetryKeys(fin, today), k))
        /\ Spend(Rank(RetryKeys(fin, today), k))
        /\ UNCHANGED fin

\* The check failed; the statements get one chance to disagree.
Verify ==
    /\ At("verify")
    /\ \/ /\ GetFinancials
          /\ IF HasIncome(fin') THEN pull' = Prefetch ELSE Goto("delisted")
       \/ FinancialsRaise /\ pull' = Idle
    /\ UNCHANGED <<today, focus, marketVars, news, cut, insider, lastPull, moves, accounted, missed>>

\* The worker flags the ticker and closes the job; the next pull starts anew.
Close == At("delisted") /\ pull' = Idle
         /\ UNCHANGED <<budgetVars, today, focus, marketVars, storeVars>>

-----------------------------------------------------------------------------
Stage(name) == At("fetch") /\ name \in pull.left
Ran(name) == pull' = [pull EXCEPT !.left = @ \ {name}]

StatementStage ==
    /\ Stage("statements")
    /\ \/ GetFinancials /\ Ran("statements")
       \/ FinancialsRaise /\ pull' = [pull EXCEPT !.left = @ \ {"statements"}, !.failed = TRUE]
    /\ UNCHANGED <<today, focus, marketVars, news, cut, insider, lastPull, moves, accounted, missed>>

\* What get_stock_news asks for, and what it merges the answer with.
NewsStart == IF pull.mode = "full" THEN NewsCutoff(today) ELSE NewsFrom(news, today)
NewsAnswer == {a \in listed : PublishedOn[a] >= NewsStart}

\* Mutant: the answer takes the place of what is stored.
NewsBaselineNone == {}
NewsBaseline == IF pull.mode = "full" THEN {} ELSE news

\* n pages are answered; then the window is covered, or a later page fails and
\* the pages in hand are kept.  What that, the most pages there may be, or a full
\* page on the first day asked for leave out is noted in cut.
NewsStage ==
    /\ Stage("news")
    /\ \E n \in 1 .. StopPage(NewsAnswer, NewsStart) :
          LET short == n < StopPage(NewsAnswer, NewsStart) \/ n = MaxPages
              got == FetchWindow(NewsAnswer, NewsStart, n)
              left == IF short THEN NewsAnswer \cup news
                      ELSE {a \in NewsAnswer : PublishedOn[a] = NewsStart}
          IN  /\ ~Refused(n)
              /\ Spend(IF n < StopPage(NewsAnswer, NewsStart) THEN n + 1 ELSE n)
              /\ news' = MergeArticles(NewsBaseline, got, today)
              /\ cut' = (cut \cup left) \ news'
    /\ Ran("news")
    /\ UNCHANGED <<today, focus, marketVars, insider, fin, lastPull, moves, accounted, missed>>

\* The first page is answered, with nothing.
NewsBlank ==
    /\ Stage("news")
    /\ ~Refused(1) /\ Spend(1)
    /\ news' = MergeArticles(NewsBaseline, {}, today)
    /\ Ran("news")
    /\ UNCHANGED <<today, focus, marketVars, cut, insider, fin, lastPull, moves, accounted, missed>>

\* The first page fails, or the budget is spent: the stored articles are served.
NewsDegraded ==
    /\ Stage("news")
    /\ Spend(1)
    /\ Ran("news")
    /\ UNCHANGED <<today, focus, marketVars, storeVars>>

\* get_insider_activity, on a provider outside the budget.
InsiderStart ==
    IF pull.mode = "full" THEN today - LookbackDays ELSE InsiderFrom(insider, today)
InsiderStage ==
    /\ Stage("insider")
    /\ \E answer \in {{t \in filed : t.day >= InsiderStart}, {}} :
          insider' = MergeTransactions(IF pull.mode = "full" THEN {} ELSE insider, answer, today)
    /\ Ran("insider")
    /\ UNCHANGED <<budgetVars, today, focus, marketVars, news, cut, fin, lastPull, moves, accounted, missed>>

InsiderDegraded ==
    /\ Stage("insider")
    /\ Ran("insider")
    /\ UNCHANGED <<budgetVars, today, focus, marketVars, storeVars>>

\* The prefetch is over: a stage that raised fails the run.
Fetched ==
    /\ At("fetch") /\ pull.left = {}
    /\ pull' = IF pull.failed \/ "moves" \notin focus \/ MovesFresh(moves, today) THEN Idle
               ELSE [pull EXCEPT !.pc = "scrape"]
    /\ UNCHANGED <<budgetVars, today, focus, marketVars, storeVars>>

\* get_superinvestor_activity: of the page since the last pull, what the model
\* makes of its first 8000 characters (_extract_moves).
Scrape ==
    /\ At("scrape")
    /\ \E found \in SUBSET MovesSince(posted, lastPull) :
          /\ pull' = [pull EXCEPT !.pc = "meta", !.found = found]
          /\ missed' = (missed \cup (MovesSince(posted, lastPull) \ accounted)) \ found
    /\ UNCHANGED <<budgetVars, today, focus, marketVars, news, cut, insider, fin, lastPull, moves,
                   accounted>>

\* The page or the model fails: nothing is written.
ScrapeFails ==
    /\ At("scrape")
    /\ pull' = Idle
    /\ UNCHANGED <<budgetVars, today, focus, marketVars, storeVars>>

WriteMeta ==
    /\ At("meta")
    /\ lastPull' = today
    /\ Goto("cache")
    /\ UNCHANGED <<budgetVars, today, focus, marketVars, news, cut, insider, fin, moves, accounted, missed>>

WriteMoves ==
    /\ At("cache")
    /\ moves' = [at |-> today, list |-> pull.found]
    /\ accounted' = accounted \cup pull.found
    /\ pull' = Idle
    /\ UNCHANGED <<budgetVars, today, focus, marketVars, news, cut, insider, fin, lastPull, missed>>

\* The process dies.
Die ==
    /\ ~At("idle")
    /\ pull' = Idle
    /\ accounted' = accounted \cup pull.found
    /\ UNCHANGED <<budgetVars, today, focus, marketVars, news, cut, insider, fin, lastPull, moves,
                   missed>>

-----------------------------------------------------------------------------
\* The providers.  An article is listed on its day or the next one; a
\* transaction on the day of its filing.

Publish ==
    /\ "news" \in focus
    /\ \E a \in Article \ listed :
          today - PublishedOn[a] \in 0 .. 1 /\ listed' = listed \cup {a}
    /\ UNCHANGED <<budgetVars, today, focus, filed, posted, storeVars, pull>>

File ==
    /\ "insider" \in focus
    /\ \E t \in Filings \ filed : t.filed = today /\ filed' = filed \cup {t}
    /\ UNCHANGED <<budgetVars, today, focus, listed, posted, storeVars, pull>>

Post ==
    /\ "moves" \in focus
    /\ posted' = posted \cup {today}
    /\ UNCHANGED <<budgetVars, today, focus, listed, filed, storeVars, pull>>

NextDay ==
    /\ today < MaxDay
    /\ today' = today + 1
    /\ NewBudgetDay
    /\ accounted' = accounted \cup (IF At("meta") THEN posted \cap {today} ELSE {})
    /\ UNCHANGED <<focus, marketVars, news, cut, insider, fin, lastPull, moves, missed, pull>>

CrewStep ==
    \/ StartPull \/ Check \/ Verify \/ Close
    \/ StatementStage \/ NewsStage \/ NewsBlank \/ NewsDegraded
    \/ InsiderStage \/ InsiderDegraded
    \/ Fetched \/ Scrape \/ ScrapeFails \/ WriteMeta \/ WriteMoves \/ Die
    \/ Publish \/ File \/ Post

Next == CrewStep \/ NextDay

Spec == Init /\ [][Next]_vars

-----------------------------------------------------------------------------
TypeOK ==
    /\ BudgetTypeOK
    /\ today \in 1 .. MaxDay /\ focus \in Focus
    /\ listed \subseteq Article /\ filed \subseteq Filings /\ posted \subseteq 1 .. MaxDay
    /\ news \subseteq listed /\ cut \subseteq listed /\ insider \subseteq filed
    /\ fin \in [at : 0 .. MaxDay, of : [Statement -> {"rows", "empty", "unavailable"}],
                on : [Statement -> 0 .. MaxDay]]
    /\ lastPull \in 0 .. MaxDay
    /\ moves \in [at : 0 .. MaxDay, list : SUBSET posted]
    /\ accounted \subseteq posted /\ missed \subseteq posted
    /\ pull \in [pc : {"idle", "check", "verify", "delisted", "fetch", "scrape", "meta", "cache"},
                 mode : {"delta", "full"}, left : SUBSET focus, failed : BOOLEAN,
                 found : SUBSET posted]

\* The two services and every stage together send no more guarded requests in
\* a day than the cap (fmp_client._check_daily_soft_cap, backend fmp.fmp_get).
CapHolds == Cap > 0 => sent <= Cap

\* The next delta still asks for every article of the month that the store
\* lacks, however pulls failed before, unless a fetch cut short left it out: a
\* failure after some pages, the most pages, or a full page on the first day
\* asked for (news.delta_from, _fetch_window, merge_articles).
SlipsOnlyWhenCut ==
    \A a \in Retained(listed, today) \ (news \cup cut) : PublishedOn[a] >= NewsFrom(news, today)

\* The next delta still asks for every dated transaction of the quarter that
\* the store lacks, if it was filed within a day (insider.delta_from).
PromptFilingIsAsked ==
    \A t \in InLookback(filed, today) \ insider :
        t.day > 0 /\ t.filed - t.day <= 1 => t.day >= InsiderFrom(insider, today)

\* What the stores lack is still asked for.
DeltaAsksForTheMissing == SlipsOnlyWhenCut /\ PromptFilingIsAsked

\* No delta, whatever it is answered and wherever it fails, loses an article or
\* a transaction that is still in the window (FR-008, FR-013).
DeltaKeepsTheWindow ==
    [][pull.mode = "delta" =>
          /\ Retained(news, today) \subseteq news'
          /\ InLookback(insider, today) \subseteq insider']_vars

\* The cluster that is detected is the one any window of that length shows,
\* although the code looks only at windows that a purchase opens.
ClusterIsAnyWindow ==
    DetectCluster(insider) =
        (\E d \in 0 .. MaxDay :
            Cardinality({t.who : t \in {u \in Purchases(insider) : u.day - d \in 0 .. ClusterWindow}})
                >= ClusterInsiders)

\* A ticker is not closed as delisted while its document holds an income
\* statement the provider confirmed within the window: no failing quote and no
\* spent budget gets past it (crew.run step 0, get_financials).
ConfirmedIsNotDelisted ==
    [][Verify /\ pull'.pc = "delisted" =>
          ~(Warm(fin, today) /\ HasIncome(fin))]_vars

\* What a stage serves was confirmed within the window, although a document is
\* completed piece by piece on different days (get_financials, "so the window
\* doesn't slide").
StatementsAreFresh ==
    \A k \in Statement :
        Warm(fin, today) /\ fin.of[k] # "unavailable" => today - fin.on[k] < CacheDays

\* Weeks meet: the last pull's day does not pass a move that is on the page.  A move
\* posted before it is or has been in the shared list, or is about to be, but for one
\* that no scrape of its page has found, a death between the two writes and a
\* midnight before the first (get_superinvestor_activity).
MovesWindowsMeet == {m \in posted : m < lastPull} \subseteq accounted \cup missed \cup pull.found

-----------------------------------------------------------------------------
\* What the documents say and the code does not keep.

\* "Replacing a dataset must never be able to destroy the existing copy and
\* leave nothing in its place" (FR-030).
RebuildDestroysNothing ==
    [][/\ Retained(news, today) # {} => news' # {}
       /\ InLookback(insider, today) # {} => insider' # {}]_vars
=============================================================================
