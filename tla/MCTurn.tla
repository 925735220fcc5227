------------------------------- MODULE MCTurn -------------------------------
(* Small tables for TLC.  Cards of one colour are interchangeable. *)
EXTENDS Turn, TLC

CONSTANTS p1, p2, p3, p4, Red, Blue, Gold, twinA, twinB, bore,
          long1, long2, long3, long4, k1, k2, k3, k4

Cards == Red \cup Blue \cup Gold
Hues == [c \in Cards |-> IF c \in Red THEN "red" ELSE IF c \in Blue THEN "blue" ELSE Loco]
Alike == Permutations(Red) \cup Permutations(Blue) \cup Permutations(Gold)

(* A duel: a parallel pair, one of the two a ferry, and a broken tunnel. *)
Duel == <<p1, p2>>
Alone == [p \in Player |-> p]
DuelLength == [r \in Route |-> IF r = twinA THEN 2 ELSE 1]
DuelPaint == [r \in Route |-> IF r = bore THEN "red" ELSE "gray"]
DuelFerry == [r \in Route |-> IF r = twinB THEN 1 ELSE 0]
DuelBroken == [r \in Route |-> IF r = bore THEN 1 ELSE 0]
Pair == [r \in Route |-> CASE r = twinA -> {twinB} [] r = twinB -> {twinA} [] OTHER -> {}]
Shuffled == <<k1, k2, k3, k4>>
DuelWays == [t \in Ticket |-> CASE t \in {k1, k3} -> {{twinA}, {twinB}}
                                 [] t = k2 -> {{bore}}
                                 [] OTHER -> {{twinA, bore}, {twinB, bore}}]
ThreeLong == <<long1, long2, long3>>

(* Two pairs of partners. *)
Square == <<p1, p2, p3, p4>>
Partners == [p \in Player |-> IF p \in {p1, p3} THEN "north" ELSE "south"]
Longs == <<long1, long2, long3, long4>>
Ones == [r \in Route |-> 1]
Plain == [r \in Route |-> "gray"]
None0 == [r \in Route |-> 0]
TeamWays == [t \in Ticket |-> {{twinA}, {twinB}}]
=============================================================================
