------------------------------ MODULE MCTrading ------------------------------
(***************************************************************************)
(* Trading on small instances: windows of two sessions stand for ten to    *)
(* sixty, and a year of five days for the one the daily frame is cut to.   *)
(* The sessions are quiet, up on volume, gapping up on volume, down, an    *)
(* outside day, gapping down; on the quiet day NYMO has no reading.        *)
(***************************************************************************)
EXTENDS Trading

Day(o, h, l, c, v, n) == [o |-> o, h |-> h, l |-> l, c |-> c, v |-> v, nymo |-> n]
Quiet == Day(100, 102, 98, 101, 10, Unknown)
Rally == Day(101, 106, 101, 106, 40, 70)
GapUp == Day(108, 112, 107, 112, 40, 45)
Slide == Day(105, 105, 99, 100, 10, -5)
Outside == Day(100, 113, 97, 98, 20, -50)
GapDown == Day(94, 96, 90, 95, 30, -70)
Sessions == {Quiet, Rally, GapUp, Slide, Outside, GapDown}
TradeDays == <<3, 4, 5, 6, 8, 9>>
=============================================================================
