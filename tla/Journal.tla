------------------------------ MODULE Journal ------------------------------
(***************************************************************************)
(* What a match promises to the people who play it, with no server, no     *)
(* queue and no crash in sight: one journal of accepted actions that only  *)
(* grows, a position up to which the players have been shown it that never *)
(* moves back, and a life cycle in which a game is archived only after its *)
(* journal has reached the end of the game.                                *)
(***************************************************************************)
EXTENDS Naturals, Sequences

CONSTANT Player

VARIABLES
  journal,   \* the accepted actions, oldest first
  shown,     \* how much of the journal the players were last shown
  status,    \* life cycle of the game
  archived   \* the final result is in the players' history

jvars == <<journal, shown, status, archived>>

(* An accepted action: who did it, and whom it leaves on the move. *)
Row == [by : Player, next : SUBSET Player]

(* Nobody is left on the move: the phase is GAME_OVER. *)
Over(s) == s # <<>> /\ s[Len(s)].next = {}

Init ==
  /\ journal = <<>>
  /\ shown = 0
  /\ status = "NONE"
  /\ archived = FALSE

Create ==
  /\ status = "NONE"
  /\ status' = "LIVE"
  /\ UNCHANGED <<journal, shown, archived>>

Accept ==
  /\ ~Over(journal)
  /\ \E r \in Row : journal' = Append(journal, r)
  /\ UNCHANGED <<shown, status, archived>>

Show ==
  /\ shown' \in shown .. Len(journal)
  /\ UNCHANGED <<journal, status, archived>>

Complete ==
  /\ status = "LIVE"
  /\ Over(journal)
  /\ status' = "COMPLETED"
  /\ UNCHANGED <<journal, shown, archived>>

Terminate ==
  /\ status = "LIVE"
  /\ status' = "TERMINATED"
  /\ UNCHANGED <<journal, shown, archived>>

Archive ==
  /\ status = "COMPLETED"
  /\ archived' = TRUE
  /\ UNCHANGED <<journal, shown, status>>

Next == Create \/ Accept \/ Show \/ Complete \/ Terminate \/ Archive

JournalSpec == Init /\ [][Next]_jvars
=============================================================================
