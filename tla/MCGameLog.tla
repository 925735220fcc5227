----------------------------- MODULE MCGameLog -----------------------------
(* Small instances of GameLog for TLC: the store steps that may fail. *)
EXTENDS GameLog

EveryStep == Steps
EveryWrite == Writes
NoStep == {}

(* A store that fails, and only before the event row is durable. *)
BeforeTheRow == {"gate", "event"}
OnlyTheRow == {"event"}
=============================================================================
