------------------------------- MODULE MCXpuTq -------------------------------
(***************************************************************************)
(* Small instances of the launch path.                                     *)
(***************************************************************************)
EXTENDS XpuTq

OneLaunch  == [s \in Sess |-> 1]
FirstTwice == [s \in Sess |-> IF s = 0 THEN 2 ELSE 1]

=============================================================================
