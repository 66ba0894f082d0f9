-------------------------- MODULE MCEndpointRuntime --------------------------
(***************************************************************************)
(* EndpointRuntime for model checking.  Clients and IO threads are         *)
(* interchangeable, and every property of the runs is a safety property.   *)
(***************************************************************************)
EXTENDS EndpointRuntime, TLC

Symmetry == Permutations(Client) \cup Permutations(IOThread)

=============================================================================
