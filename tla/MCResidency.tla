---------------------------- MODULE MCResidency ----------------------------
(* Residency with one crash or one rejected access, and two match objects.    *)
EXTENDS Residency
=============================================================================
