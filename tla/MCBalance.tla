----------------------------- MODULE MCBalance -----------------------------
(* Ready-queue moves on two CPUs, with an affinity mask that also names a CPU *)
(* that was never brought up.                                                 *)
EXTENDS Balance, TLC

CONSTANTS a, b, c

MCMasks == {{2}, {1, 2}}
Symmetry == Permutations(Thread \ Tuned)
=============================================================================
