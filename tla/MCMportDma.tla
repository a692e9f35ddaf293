----------------------------- MODULE MCMportDma -----------------------------
(* Windows for checking MportDma: a window and a part of it, both of which *)
(* the hardware can be set to.                                             *)
EXTENDS MportDma, TLC
MCWin == {<<0, 8>>, <<4, 4>>}
MCHwWin == MCWin
Symmetric == Permutations(File) \cup Permutations(Map) \cup Permutations(Area)
               \cup Permutations(Req) \cup Permutations(Chan)
=============================================================================
