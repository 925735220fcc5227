------------------------------ MODULE MCEvents ------------------------------
(* A small board for TLC: a line of three cities with a parallel pair. *)
EXTENDS Events

CONSTANTS a, b, c, ab, bc, twin

Line == [r \in Route |-> IF r = ab THEN {a, b} ELSE {b, c}]
Pairs == [r \in Route |-> CASE r = bc -> {twin} [] r = twin -> {bc} [] OTHER -> {}]
Ones == [r \in Route |-> 1]
Lengths == [r \in Route |-> IF r = ab THEN 1 ELSE 2]
Windows ==
  [k \in Kinds |-> CASE k \in {"CHARTER_SPECIAL",
                               "GODDESS_PROCESSION", "STATION_FRONT_NIGHT_MARKET"} -> 2
                     [] k \in OneShot \cup {"LUCKY_TICKET_STUB"} -> 0
                     [] OTHER -> 1]
Places ==
  [k \in Kinds |-> CASE k = "TYPHOON_LANDFALL" -> {{bc, twin}}
                     [] k = "SLOPE_REPAIR_ORDER" -> {{ab}, {bc, twin}}
                     [] k = "CHARTER_SPECIAL" -> {{a, b}}
                     [] k = "LUCKY_TICKET_STUB" -> {{a, c}}
                     [] k \in {"LANTERN_HOST_CITY", "STATION_FRONT_NIGHT_MARKET"} -> {{b}, {c}}
                     [] OTHER -> {{}}]
Procession == <<a, b, c>>
TwoRounds == [k \in Kinds |-> 2]
=============================================================================
