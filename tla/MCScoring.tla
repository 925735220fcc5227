----------------------------- MODULE MCScoring -----------------------------
(***************************************************************************)
(* Scoring on four cities and five tracks, two of them parallel, with a      *)
(* cycle and a tail, and four players, alone or in pairs: 1 and 2 claim,     *)
(* and 3 builds up to three stations.                                       *)
(***************************************************************************)
EXTENDS Scoring

\*      1 --- 2 --- 4
\*             \   //
\*              \ //
\*               3
MCEnds == <<<<1, 2>>, <<2, 3>>, <<2, 4>>, <<3, 4>>, <<3, 4>>>>
MCLength == <<2, 1, 3, 2, 2>>
MCGroup == <<1, 2, 3, 4, 4>>
MCGoal == <<[a |-> 1, b |-> 4, value |-> 4], [a |-> 1, b |-> 3, value |-> 3],
            [a |-> 3, b |-> 4, value |-> 3], [a |-> 2, b |-> 4, value |-> 2]>>
MCTickets == <<{1}, {2}, {3}, {}>>

Free == [p \in 1 .. 4 |-> {p}]
Pairs == [p \in 1 .. 4 |-> IF p % 2 = 1 THEN {1, 3} ELSE {2, 4}]
MCRules == {[side |-> Free, unlimited |-> FALSE, lenient |-> FALSE],
            [side |-> Pairs, unlimited |-> FALSE, lenient |-> TRUE],
            [side |-> Pairs, unlimited |-> TRUE, lenient |-> FALSE]}
=============================================================================
