---------------------------- MODULE MCTsi721Dma ----------------------------
(* Model checking of Tsi721Dma.                                            *)
EXTENDS Tsi721Dma, TLC

(* The descriptors of a channel are interchangeable.                       *)
Symmetry == Permutations(Desc)
=============================================================================
