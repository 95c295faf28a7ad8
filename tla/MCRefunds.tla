----------------------------- MODULE MCRefunds -----------------------------
(***************************************************************************)
(* Refunds of a payment of two units.                                      *)
(***************************************************************************)
EXTENDS Refunds, TLC

CONSTANTS r1, r2, d1, f1, f2, q1, i1, i2

NoDisputes == [d \in {} |-> 1]
OneDispute == (d1 :> 2)
Symmetry == Permutations({r1, r2}) \cup Permutations({f1, f2}) \cup Permutations({i1, i2})
=============================================================================
