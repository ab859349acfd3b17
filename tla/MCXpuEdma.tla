------------------------------ MODULE MCXpuEdma ------------------------------
(***************************************************************************)
(* Copies on a power domain with two or three channels per direction.      *)
(***************************************************************************)
EXTENDS XpuEdma, TLC

CONSTANTS t1, t2

D2H(path, n) == [dir |-> "d2h", path |-> path, n |-> n]
H2D(path, n) == [dir |-> "h2d", path |-> path, n |-> n]
P2P(path, n) == [dir |-> "p2p", path |-> path, n |-> n]

(* Copies that compete for the write channels, for the read channels, or   *)
(* for both with a peer to peer copy.                                      *)
TwoCopies ==
  {t1 :> {D2H("single", 3), D2H("conc", 3), D2H("pin", 2)} @@
     t2 :> {D2H("single", 2), D2H("direct", 1)},
   t1 :> {H2D("overlap", 3), H2D("pin", 2), H2D("pin", 1)} @@ t2 :> {H2D("overlap", 2), H2D("direct", 1)},
   t1 :> {P2P("srcfirst", 3), P2P("dstfirst", 3)} @@ t2 :> {D2H("conc", 2)},
   t1 :> {P2P("srcfirst", 2), P2P("dstfirst", 2)} @@ t2 :> {H2D("overlap", 2)}}

(* One copy at a time, on every path. *)
OneCopy ==
  {t1 :> {D2H("single", 4), D2H("pin", 2), D2H("direct", 2), D2H("serial", 2)},
   t1 :> {D2H("conc", 4)},
   t1 :> {H2D("overlap", 4), H2D("pin", 2), H2D("direct", 2), H2D("serial", 2)},
   t1 :> {P2P("srcfirst", 4), P2P("dstfirst", 4)}}

OneRead == {<<"rd", 3>>}
=============================================================================
