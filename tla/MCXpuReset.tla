------------------------------ MODULE MCXpuReset ------------------------------
(***************************************************************************)
(* A small instance of the reset.                                          *)
(***************************************************************************)
EXTENDS XpuReset

OneLaunch == [s \in Sess |-> 1]

=============================================================================
