------------------------------- MODULE MCKlMm -------------------------------
(***************************************************************************)
(* Three adjoining MAIN memories, the last two of a single page, so that a *)
(* grant can span three and cover the one in the middle whole.             *)
(***************************************************************************)
EXTENDS KlMm, TLC

MCKindOf    == <<"MAIN", "MAIN", "MAIN">>
MCPageCount == <<2, 1, 1>>
MCPageSize  == <<2, 2, 2>>
MCBase      == <<0, 2, 3>>

Symmetry == Permutations(Sess) \cup Permutations(Threads)
=============================================================================
