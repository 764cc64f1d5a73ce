----------------------------- MODULE MCTxSystem -----------------------------
(***************************************************************************)
(* Model-checking instances of TxSystem.  Neither workers nor ports are    *)
(* ordered by any definition, so both may be permuted (in the runs without *)
(* a liveness property).                                                   *)
(***************************************************************************)
EXTENDS TxSystemInv, TLC

Interchangeable == Permutations(Port) \cup Permutations(Worker)
=============================================================================
