----------------------------- MODULE DeviceMemory -----------------------------
(***************************************************************************)
(* What the device memory of a power domain promises its sessions: grants  *)
(* of consecutive pages that never overlap, given back whole, and none     *)
(* outlives its owner.                                                     *)
(***************************************************************************)
EXTENDS Integers

CONSTANTS
  Owners,     \* the sessions
  Regions,    \* the memory regions
  PageCount   \* the pages of each region

VARIABLES
  grants,  \* the grants in force
  present  \* the sessions that exist

Grant == [region : Regions, first : Nat, len : Nat \ {0}, owner : Owners]

(* The pages of a grant. *)
PagesOf(g) == g.first .. (g.first + g.len - 1)

Apart(g, h) == g.region = h.region => PagesOf(g) \cap PagesOf(h) = {}

Init == grants = {} /\ present = {}

Arrive(o) ==
  /\ o \notin present
  /\ present' = present \cup {o}
  /\ UNCHANGED grants

(* A grant that fits its region and overlaps no other may be made to a     *)
(* session that exists.                                                    *)
Allocate ==
  /\ UNCHANGED present
  /\ \E g \in grants' \ grants :
       /\ g \in Grant
       /\ g.owner \in present
       /\ g.first + g.len <= PageCount[g.region]
       /\ \A h \in grants : Apart(g, h)
       /\ grants' = grants \cup {g}

GiveBack ==
  /\ UNCHANGED present
  /\ \E g \in grants \ grants' : grants' = grants \ {g}

(* A session is gone only when it holds nothing. *)
Depart(o) ==
  /\ o \in present
  /\ \A g \in grants : g.owner # o
  /\ present' = present \ {o}
  /\ UNCHANGED grants

Next == (\E o \in Owners : Arrive(o) \/ Depart(o)) \/ Allocate \/ GiveBack

Spec == Init /\ [][Next]_<<grants, present>>
=============================================================================
