----------------------------- MODULE MCTManager -----------------------------
(***************************************************************************)
(* Model-checking instances of TManagerSpec.  Ports are interchangeable:   *)
(* no definition orders them, so permuting them is a symmetry of the       *)
(* specification and of its invariants.                                    *)
(***************************************************************************)
EXTENDS TManagerInv, TLC

PortSymmetry == Permutations(Port)
=============================================================================
