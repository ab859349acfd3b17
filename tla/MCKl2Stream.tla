----------------------------- MODULE MCKl2Stream -----------------------------
(***************************************************************************)
(* Two sessions of one process and one of another on two queues.           *)
(***************************************************************************)
EXTENDS Kl2Stream, TLC

CONSTANTS a1, a2, b1, P, Q, e1, e2

MCUproc == a1 :> P @@ a2 :> P @@ b1 :> Q

K    == <<"kernel", e1>>
R(e) == <<"rec", e>>
W(e) == <<"wait", e>>
H    == <<"hostwait", e1>>

Calls(f) == [s \in Sessions |-> IF s \in DOMAIN f THEN f[s] ELSE {}]
Mix(n, f, faulty, closing) ==
  [tasks |-> n, calls |-> Calls(f), faulty |-> faulty, closing |-> closing]

(* A session faults, hangs or is closed with a record behind its kernel    *)
(* that another one waits for; next to two that record, on one queue; or   *)
(* with a stranger on the same queue.                                      *)
Trouble ==
  {Mix(3, a1 :> {K, R(e1)} @@ a2 :> {W(e1)}, {a1}, {a1}),
   Mix(3, a1 :> {R(e1)} @@ b1 :> {K} @@ a2 :> {R(e1)}, {b1}, {}),
   Mix(3, a1 :> {K} @@ b1 :> {K}, {a1}, {b1})}

(* Sessions wait for one another, in both directions; one of them          *)
(* fails; a session that records nothing is closed while its kernel hangs. *)
Waiting ==
  {Mix(4, a1 :> {R(e1), W(e2)} @@ a2 :> {R(e2), W(e1)}, {}, {}),
   Mix(3, a1 :> {K, R(e1)} @@ a2 :> {W(e1), H}, {a1}, {}),
   Mix(2, a1 :> {K} @@ b1 :> {K}, {b1}, {b1})}

=============================================================================
