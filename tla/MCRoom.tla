------------------------------- MODULE MCRoom -------------------------------
(***************************************************************************)
(* Room on a table of two or three: three accounts and one bot, a team mode *)
(* that raises the cap from two to three, and two games.                    *)
(***************************************************************************)
EXTENDS Room
CONSTANTS h, u, v, b

MCLayouts == {[teams |-> t, players |-> t] : t \in {2, 3}}
Alone == [teams |-> 0, self |-> FALSE, watch |-> TRUE]
Teams(n) == [teams |-> n, self |-> TRUE, watch |-> TRUE]
MCSettings == [c \in Classes |->
  CASE c = "seats" -> {Teams(2)}
    [] c = "watch" -> {Alone, [Alone EXCEPT !.watch = FALSE]}
    [] c \in {"settings", "start"} -> {Alone, Teams(3)}
    [] OTHER -> {}]
MCGames == [c \in Classes |-> IF c \in {"over", "vote"} THEN 2 ELSE 1]
\* A closed room is final and no property speaks of it: behaviours end there.
RoomIsOpen == room.status # "CLOSED"
Swap == Permutations({u, v})
=============================================================================
