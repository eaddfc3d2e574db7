------------------------------ MODULE MCGuests ------------------------------
(* Model checking Guests: two requests, which are interchangeable.         *)
EXTENDS Guests, TLC

Symmetry == Permutations(Session)
=============================================================================
