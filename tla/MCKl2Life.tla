------------------------------ MODULE MCKl2Life ------------------------------
(***************************************************************************)
(* Two processes of one container.                                         *)
(***************************************************************************)
EXTENDS Kl2Life

CONSTANT box

MCGroupOf == [p \in Procs |-> box]

=============================================================================
