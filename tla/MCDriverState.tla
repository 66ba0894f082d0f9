---------------------------- MODULE MCDriverState ----------------------------
(***************************************************************************)
(* The endpoint lists and the symmetry for TLC.                            *)
(***************************************************************************)
EXTENDS DriverState, TLC

CONSTANTS e1, e2, n1, n2

Named(identifier, name) ==
  [identifier |-> identifier, name |-> name, direction |-> "input"]

\* One endpoint, and the same renamed and listed after another: the slots of
\* the two depend on which list came first.
OfferedLists ==
  {<<Named(e1, n1)>>,
   <<Named(e2, n1), Named(e1, n2)>>}

Symmetry == Permutations(Updater) \cup Permutations(Client)

=============================================================================
