------------------------------ MODULE NewsStore ------------------------------
(***************************************************************************)
(* The stored month of a ticker's news (agent-runner/tools/news.py).  An   *)
(* article is a number, its URL; articles are numbered by the time of      *)
(* publication, so the provider's newest-first order is descending.  The   *)
(* text, its tone counts and articles without a URL are left out.          *)
(***************************************************************************)
EXTENDS Integers, Sequences, FiniteSetsExt

CONSTANTS PublishedOn,          \* the day of every article, ascending
          NewsDays,             \* NEWS_DAYS
          PageSize, MaxPages    \* PAGE_SIZE, MAX_PAGES

ASSUME NewsAssumption ==
    /\ PublishedOn \in Seq(Nat)
    /\ NewsDays \in Nat \ {0} /\ PageSize \in Nat \ {0} /\ MaxPages \in Nat \ {0}
    /\ \A a, b \in DOMAIN PublishedOn : a <= b => PublishedOn[a] <= PublishedOn[b]

Article == DOMAIN PublishedOn

\* Inclusive on both ends: exactly NewsDays dates.
NewsCutoff(day) == day - (NewsDays - 1)
Retained(articles, day) == {a \in articles : PublishedOn[a] >= NewsCutoff(day)}

\* Mutant: the request starts at the newest article that is stored.
NewsFromNewest(stored, day) ==
    IF stored = {} THEN NewsCutoff(day)
    ELSE Max({NewsCutoff(day), Max({PublishedOn[a] : a \in stored})})

\* delta_from: a day back from the newest article that is stored.
NewsFrom(stored, day) ==
    IF stored = {} THEN NewsCutoff(day)
    ELSE Max({NewsCutoff(day), Max({PublishedOn[a] : a \in stored}) - 1})

\* The k-th page of the provider's answer, newest first.
Page(answer, k) ==
    {a \in answer : Cardinality({b \in answer : b > a}) \div PageSize = k - 1}

\* The page after which _fetch_window stops asking: one that is short, or that
\* reaches the first day asked for.
StopPage(answer, start) ==
    Min({MaxPages} \cup
        {k \in 1 .. MaxPages : \/ Cardinality(Page(answer, k)) < PageSize
                               \/ \E a \in Page(answer, k) : PublishedOn[a] <= start})

\* What is collected when the first n pages are answered and the next is not.
FetchWindow(answer, start, n) ==
    UNION {Page(answer, k) : k \in 1 .. Min({n, StopPage(answer, start)})}

\* merge_articles: by URL, what has aged out is dropped.
MergeArticles(stored, fetched, day) == Retained(stored \cup fetched, day)
=============================================================================
