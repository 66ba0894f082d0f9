-------------------------- MODULE MCPropertySurface --------------------------
(***************************************************************************)
(* The endpoint lists for TLC: identities that stay, move in the list,     *)
(* change their name or direction, or give their slot to another; and two  *)
(* lists that are refused.                                                 *)
(***************************************************************************)
EXTENDS PropertySurface

CONSTANTS e1, e2, e3, n1, n2, n3

In(identifier, name) ==
  [identifier |-> identifier, name |-> name, direction |-> "input"]

Out(identifier, name) ==
  [identifier |-> identifier, name |-> name, direction |-> "output"]

OfferedLists ==
  {<< >>,
   <<In(e1, n1)>>,
   <<In(e3, n3), Out(e2, n1)>>,
   <<Out(e2, n2), In(e3, n1), Out(e1, n3)>>,
   <<Out(e3, n2)>>,
   <<In(e1, n1), Out(e2, n1)>>,
   <<In(e1, n1), Out(e2, n2), In(e3, n3), In(e1, n2)>>}

=============================================================================
