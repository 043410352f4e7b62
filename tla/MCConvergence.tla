--------------------------- MODULE MCConvergence ----------------------------
(* Sizes in units of 512 KiB: 2 is convergedBytes, 4 the live budget, 8    *)
(* plateauBytes.                                                           *)
EXTENDS Convergence, TLC

CyclerSymmetry == Permutations(Cyclers)
=============================================================================
