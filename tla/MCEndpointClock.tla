--------------------------- MODULE MCEndpointClock ---------------------------
(***************************************************************************)
(* The symmetry for TLC: the threads that ask for timestamps are alike.    *)
(***************************************************************************)
EXTENDS EndpointClock, TLC

Symmetry == Permutations(Asker)

=============================================================================
