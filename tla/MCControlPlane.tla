--------------------------- MODULE MCControlPlane ---------------------------
(* The instance of ControlPlane that TLC checks; requests are alike. *)
EXTENDS ControlPlane, TLC

Symmetry == Permutations(Calls)
=============================================================================
