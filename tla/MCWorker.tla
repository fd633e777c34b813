------------------------------- MODULE MCWorker -------------------------------
(***************************************************************************)
(* Worker on small instances: days of two hours; Treasury sessions with a  *)
(* day off; what enriching a company finds at its least and at its most.   *)
(***************************************************************************)
EXTENDS Worker

Hours == [w \in Daily |-> 1]
Least == [move |-> 0, beat |-> 0, ups |-> 0, downs |-> 1, cluster |-> FALSE, buys |-> 0,
          accumulation |-> 0]
Middle == [move |-> 8, beat |-> 50, ups |-> 1, downs |-> 1, cluster |-> FALSE, buys |-> 2,
           accumulation |-> 3]
Most == [move |-> 40, beat |-> 100, ups |-> 2, downs |-> 0, cluster |-> TRUE, buys |-> 3,
         accumulation |-> 5]
OneFind == {Middle}
SomeFinds == {Least, Middle, Most}
OneAtATime == {{"flow", "breadth", "job"}, {"macro", "job"}, {"scan"},
               {"economics", "treasury"}, {"economics", "calendar"}, {"economics", "indicators"}}

\* What is asked of the loop involves several of its workers.
Together == {{"flow", "breadth"}, {"macro", "economics"}, {"macro", "job"}, {"scan"}}
=============================================================================
