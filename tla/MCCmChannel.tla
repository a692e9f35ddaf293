----------------------------- MODULE MCCmChannel -----------------------------
(* Model checking of CmChannel.                                            *)
EXTENDS CmChannel, TLC

(* All threads work on the same open file.                                 *)
MCFileOf(t) == "f1"

Symmetry == Permutations(Chan) \cup Permutations(Id) \cup Permutations(Thread)
=============================================================================
