-------------------------- MODULE MCBookingContract --------------------------
(* Small instances of BookingContract for TLC.  The accounts are            *)
(* interchangeable, and so are the tokens; no checked property with a       *)
(* symmetry set is a liveness property.                                     *)
EXTENDS BookingContract, TLC

Symmetry == Permutations(Accounts) \cup Permutations(Tokens)
=============================================================================
