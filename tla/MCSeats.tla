------------------------------ MODULE MCSeats ------------------------------
(* Small instances of Seats for TLC: connections are interchangeable, and so
   are the people of a match. *)
EXTENDS Seats, TLC

Interchangeable == Permutations(Human) \cup Permutations(Conn)

(* bound: a behaviour has a crash or a refused call of the store, not both. *)
OneAccident == crashes + faults <= 1
=============================================================================
