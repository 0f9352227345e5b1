------------------------------- MODULE MCDual -------------------------------
(* Instances of Dual for TLC: two or three neighbors, links of different cost. *)
EXTENDS Dual, TLC
CONSTANTS n1, n2, n3

TwoNbrs == {n1, n2}
ThreeNbrs == {n1, n2, n3}
LinkCost == (n1 :> 6) @@ (n2 :> 12) @@ (Self :> 6)
LinkCost3 == (n1 :> 6) @@ (n2 :> 12) @@ (n3 :> 2) @@ (Self :> 6)
OwnIfs == (n1 :> 1) @@ (n2 :> 2) @@ (Self :> 0)
OwnIfs3 == (n1 :> 1) @@ (n2 :> 2) @@ (n3 :> 3) @@ (Self :> 0)
SharedIf == (n1 :> 1) @@ (n2 :> 1) @@ (Self :> 0)
=============================================================================
