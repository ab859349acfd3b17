------------------------------ MODULE MCXpuMem ------------------------------
(***************************************************************************)
(* A power domain with a handful of pages.                                 *)
(***************************************************************************)
EXTENDS XpuMem, TLC

MCPageCount == [r \in Regions |-> IF r = "HBM_LO" THEN 3 ELSE 1]
MCPageSize  == [r \in Regions |-> IF Kind(r) = "L3" \/ r = "CODE" THEN 1 ELSE 2]

Symmetry == Permutations(Sess) \cup Permutations(Ctxs) \cup Permutations(Procs)
=============================================================================
