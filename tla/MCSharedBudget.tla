---------------------------- MODULE MCSharedBudget ----------------------------
(***************************************************************************)
(* SharedBudget on small instances: a window of three days for the month   *)
(* of news and for the quarter of transactions, pages of two articles;     *)
(* three insiders, one of whom files late and one of whom amends.          *)
(***************************************************************************)
EXTENDS SharedBudget, TLC

Days == <<1, 1, 1, 2, 3>>
Trade(who, type, day, filedOn) ==
    [filed |-> filedOn, who |-> who, type |-> type, day |-> day, shares |-> 1]
SomeFilings ==
    {Trade("a", "purchase", 1, 1), Trade("b", "purchase", 2, 2), Trade("c", "purchase", 1, 2),
     Trade("b", "purchase", 3, 3), Trade("a", "purchase", 1, 4), Trade("b", "sale", 0, 2)}
OneAtATime == {{"news"}, {"insider"}, {"statements"}, {"moves"}, {"headlines"}, {"calendar"}, {"history"}}
Ages == [d \in Doc |-> IF d \in {"headlines", "calendar"} THEN 1 ELSE 2]
AnyThread == Permutations(Thread)
=============================================================================
