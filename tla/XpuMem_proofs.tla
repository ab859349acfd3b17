---------------------------- MODULE XpuMem_proofs ----------------------------
(***************************************************************************)
(* The page allocator for any regions, page counts, sessions and sizes:    *)
(* its tables tile the bitmap, it implements DeviceMemory, the timer's     *)
(* scan always advances, contexts outlive their sessions and the charges   *)
(* are exact.                                                              *)
(*                                                                         *)
(* That a freed session holds nothing needs an invariant of the scan: it   *)
(* has no grant of the session behind it, and it never stops inside a      *)
(* grant (ScanBehind).  Nobody adds one behind it, since a session whose   *)
(* thread is in a call is open, and the scanned one is detached.           *)
(***************************************************************************)
EXTENDS XpuMem, SequenceTheorems, FiniteSetTheorems, TLAPS

EndOf(r, p) == p + freeTable[r][p]

(* The grants of a region tile its bitmap. *)
Tiled(r) ==
  /\ \A p \in Heads(r) : EndOf(r, p) <= PageCount[r]
  /\ \A p, q \in Heads(r) : p < q => EndOf(r, p) <= q
  /\ \A x \in Pages(r) : x \in bitmap[r] <=> \E p \in Heads(r) : p <= x /\ x < EndOf(r, p)

Tiling == \A r \in Regions : Tiled(r)

(* Every grant belongs to a session that exists. *)
Owned ==
  \A r \in Regions : \A p \in Heads(r) :
    ownerTable[r][p] \in Sess /\ sState[ownerTable[r][p]] # "NONE"

(* A session whose thread is in a call is open. *)
BusyIsOpen == \A s \in Sess : pc[s] # "idle" => sState[s] = "OPEN"

NoneIn(r, s) == \A p \in Heads(r) : ownerTable[r][p] # s

(* What the timer has scanned holds nothing of its session. *)
ScanBehind ==
  /\ reapPc \in {"scan", "free"} => reapSess \in Sess /\ sState[reapSess] = "DETACHED"
  /\ reapPc = "scan" =>
       /\ \A k \in 1 .. Len(RegionOrder) : k < reapIdx => NoneIn(RegionOrder[k], reapSess)
       /\ \A p \in Heads(ReapRegion) : p < reapOffset =>
            ownerTable[ReapRegion][p] # reapSess /\ EndOf(ReapRegion, p) <= reapOffset
  /\ reapPc = "free" => \A r \in Regions : NoneIn(r, reapSess)

(* The inductive invariant. *)
MemInv == MemTypeOK /\ Tiling /\ Owned /\ BusyIsOpen /\ ScanBehind

-----------------------------------------------------------------------------
(* The order of release names every region. *)
LEMMA OrderOfRegions ==
  /\ Len(RegionOrder) = 4
  /\ \A k \in 1 .. 4 : RegionOrder[k] \in Regions
  /\ \A r \in Regions : \E k \in 1 .. 4 : RegionOrder[k] = r
<1> DEFINE o == RegionOrder
<1>1. Len(o) = 4 /\ o[1] = "HBM_LO" /\ o[2] = "HBM_HI" /\ o[3] = "L3" /\ o[4] = "CODE"
  BY DEF RegionOrder
<1> HIDE DEF o
<1>2. \A k \in 1 .. 4 : k = 1 \/ k = 2 \/ k = 3 \/ k = 4
  OBVIOUS
<1>3. 1 \in 1 .. 4 /\ 2 \in 1 .. 4 /\ 3 \in 1 .. 4 /\ 4 \in 1 .. 4
  OBVIOUS
<1>4. /\ \A k \in 1 .. 4 : o[k] \in Regions
      /\ \A r \in Regions : \E k \in 1 .. 4 : o[k] = r
  BY <1>1, <1>2, <1>3 DEF Regions
<1> QED
  BY <1>1, <1>4 DEF o

(* A rounded size is a number of pages. *)
LEMMA PagesNeeded ==
  ASSUME NEW r \in Regions, NEW size \in Sizes
  PROVE  PageNeeded(r, size) \in Nat
<1>1. size \in Nat /\ U64 \in Nat \ {0} /\ PageSize[r] \in Nat \ {0}
  BY MemAssumption
<1>2. size + PageSize[r] - 1 \in Nat
  BY <1>1
<1>3. (size + PageSize[r] - 1) % U64 \in Nat
  BY <1>1, <1>2
<1> QED
  BY <1>1, <1>3 DEF PageNeeded

(* A grant of free pages keeps the tables typed and the bitmap tiled.      *)
LEMMA TakeKeepsTiling ==
  ASSUME TablesTyped, Tiling,
         NEW s \in Sess, NEW r \in Regions, NEW n \in Nat,
         NEW p \in ZeroAreas(r, n), Take(s, r, p, n)
  PROVE  /\ TablesTyped' /\ Tiling'
         /\ p \in Pages(r) /\ p \notin Heads(r)
         /\ p + n <= PageCount[r]
         /\ \A q \in Heads(r) : EndOf(r, q) <= p \/ p + n <= q
         /\ \A t \in Regions : Heads(t)' = IF t = r /\ n # 0 THEN Heads(t) \cup {p} ELSE Heads(t)
         /\ \A t \in Regions : \A q \in Pages(t) :
              t # r \/ q # p => /\ freeTable'[t][q] = freeTable[t][q]
                                /\ ownerTable'[t][q] = ownerTable[t][q]
         /\ freeTable'[r][p] = n /\ ownerTable'[r][p] = s
<1> USE MemAssumption
<1>1. /\ p \in Pages(r) /\ p \notin bitmap[r] /\ p + n <= PageCount[r]
      /\ \A x \in p .. (p + n - 1) : x \notin bitmap[r]
  BY DEF ZeroAreas, Fits
<1>2. /\ p \in Nat /\ PageCount[r] \in Nat
      /\ \A t \in Regions : \A q \in Pages(t) : q \in Nat /\ freeTable[t][q] \in Nat
  BY <1>1 DEF Pages, TablesTyped
<1>3. p \notin Heads(r)
  <2>1. ASSUME p \in Heads(r) PROVE FALSE
    <3>1. p < EndOf(r, p)
      BY <2>1, <1>2 DEF Heads, EndOf
    <3> QED
      BY <2>1, <3>1, <1>1, <1>2 DEF Tiling, Tiled
  <2> QED
    BY <2>1
<1>4. \A q \in Heads(r) : EndOf(r, q) <= p \/ p + n <= q
  <2> SUFFICES ASSUME NEW q \in Heads(r), p < EndOf(r, q), q < p + n
               PROVE  FALSE
    BY <1>2 DEF Heads, EndOf
  <2>1. q \in Nat /\ q \in Pages(r) /\ freeTable[r][q] \in Nat /\ q < EndOf(r, q)
    BY <1>2 DEF Heads, EndOf
  <2>2. CASE q <= p
    BY <2>1, <2>2, <1>1 DEF Tiling, Tiled
  <2>3. CASE p < q
    <3>1. q \in bitmap[r]
      BY <2>1 DEF Tiling, Tiled
    <3>2. q \in p .. (p + n - 1)
      BY <2>1, <2>3, <1>2
    <3> QED
      BY <3>1, <3>2, <1>1
  <2> QED
    BY <2>1, <2>2, <2>3, <1>2
<1>5. /\ DOMAIN freeTable' = Regions /\ DOMAIN ownerTable' = Regions
      /\ \A t \in Regions : t # r => freeTable'[t] = freeTable[t] /\ ownerTable'[t] = ownerTable[t]
      /\ freeTable'[r] = [freeTable[r] EXCEPT ![p] = n]
      /\ ownerTable'[r] = [ownerTable[r] EXCEPT ![p] = s]
      /\ bitmap' = [bitmap EXCEPT ![r] = @ \cup (p .. (p + n - 1))]
  BY DEF Take, TablesTyped
<1>6. /\ freeTable'[r][p] = n /\ ownerTable'[r][p] = s
      /\ \A q \in Pages(r) : q # p => /\ freeTable'[r][q] = freeTable[r][q]
                                      /\ ownerTable'[r][q] = ownerTable[r][q]
  BY <1>1, <1>5 DEF TablesTyped
<1>7. p .. (p + n - 1) \subseteq Pages(r)
  BY <1>1, <1>2 DEF Pages
<1>8. TablesTyped'
  <2>1. bitmap' \in [Regions -> SUBSET Nat] /\ \A t \in Regions : bitmap'[t] \subseteq Pages(t)
    <3>1. p .. (p + n - 1) \subseteq Nat
      BY <1>2
    <3> QED
      BY <3>1, <1>5, <1>7 DEF TablesTyped
  <2>2. freeTable'[r] \in [Pages(r) -> 0 .. PageCount[r]]
    <3>1. n \in 0 .. PageCount[r]
      BY <1>1, <1>2
    <3> QED
      BY <3>1, <1>1, <1>5 DEF TablesTyped
  <2>3. ownerTable'[r] \in [Pages(r) -> Sess \cup {Nothing}]
    BY <1>1, <1>5 DEF TablesTyped
  <2>4. \A t \in Regions : Pages(t)' = Pages(t)
    BY DEF Pages
  <2> QED
    BY <2>1, <2>2, <2>3, <2>4, <1>5 DEF TablesTyped, Pages
<1>9. \A t \in Regions : Heads(t)' = IF t = r /\ n # 0 THEN Heads(t) \cup {p} ELSE Heads(t)
  <2>1. \A t \in Regions : t # r => Heads(t)' = Heads(t)
    BY <1>5 DEF Heads, Pages
  <2>2. \A q \in Pages(r) : q \in Heads(r)' <=> q \in Heads(r) \/ (q = p /\ n # 0)
    BY <1>3, <1>6 DEF Heads, Pages
  <2>3. Heads(r)' \subseteq Pages(r) /\ Heads(r) \subseteq Pages(r)
    BY DEF Heads, Pages
  <2> QED
    BY <1>1, <2>1, <2>2, <2>3
<1>10. Tiling'
  <2> SUFFICES ASSUME NEW t \in Regions PROVE Tiled(t)'
    BY DEF Tiling
  <2>1. CASE t # r
    <3>1. bitmap'[t] = bitmap[t] /\ Heads(t)' = Heads(t) /\ freeTable'[t] = freeTable[t]
      BY <2>1, <1>5, <1>9 DEF TablesTyped
    <3> QED
      BY <3>1 DEF Tiling, Tiled, EndOf, Pages
  <2>2. CASE t = r
    <3>1. bitmap'[r] = bitmap[r] \cup (p .. (p + n - 1))
      BY <1>5 DEF TablesTyped
    <3>2. \A q \in Heads(r) : q \in Pages(r) /\ q # p /\ EndOf(r, q)' = EndOf(r, q)
      BY <1>3, <1>6 DEF Heads, EndOf
    <3>3. EndOf(r, p)' = p + n
      BY <1>6 DEF EndOf
    <3>4. \A q \in Heads(r)' : EndOf(r, q)' <= PageCount[r]
      BY <1>1, <1>9, <3>2, <3>3 DEF Tiling, Tiled
    <3>5. \A x, q \in Heads(r)' : x < q => EndOf(r, x)' <= q
      <4> SUFFICES ASSUME NEW x \in Heads(r)', NEW q \in Heads(r)', x < q
                   PROVE  EndOf(r, x)' <= q
        OBVIOUS
      <4>1. CASE x \in Heads(r) /\ q \in Heads(r)
        BY <4>1, <3>2 DEF Tiling, Tiled
      <4>2. CASE x \in Heads(r) /\ q = p
        <5>1. x \in Nat /\ freeTable[r][x] \in Nat /\ freeTable'[r][x] = freeTable[r][x]
          BY <4>2, <1>2, <1>6, <1>3 DEF Heads
        <5>2. x + freeTable[r][x] <= p \/ p + n <= x
          BY <4>2, <1>4 DEF EndOf
        <5>3. x + freeTable'[r][x] <= q
          BY <4>2, <5>1, <5>2, <1>2
        <5> QED
          BY <5>3 DEF EndOf
      <4>3. CASE x = p /\ q \in Heads(r)
        <5>1. q \in Nat /\ freeTable[r][q] \in Nat
          BY <4>3, <1>2 DEF Heads
        <5>2. q + freeTable[r][q] <= p \/ p + n <= q
          BY <4>3, <1>4 DEF EndOf
        <5>3. x + freeTable'[r][x] <= q
          BY <4>3, <5>1, <5>2, <1>2, <1>6
        <5> QED
          BY <5>3 DEF EndOf
      <4> QED
        BY <4>1, <4>2, <4>3, <1>2, <1>9
    <3>6. \A x \in Pages(r) :
            x \in bitmap'[r] <=> \E q \in Heads(r)' : q <= x /\ x < EndOf(r, q)'
      <4> SUFFICES ASSUME NEW x \in Pages(r)
                   PROVE  x \in bitmap'[r] <=> \E q \in Heads(r)' : q <= x /\ x < EndOf(r, q)'
        OBVIOUS
      <4>1. x \in Nat
        BY <1>2
      <4>2. x \in bitmap'[r] <=> x \in bitmap[r] \/ (p <= x /\ x < p + n)
        BY <3>1, <4>1, <1>2
      <4>3. x \in bitmap[r] <=> \E q \in Heads(r) : q <= x /\ x < EndOf(r, q)'
        BY <3>2 DEF Tiling, Tiled
      <4>4. CASE n = 0
        BY <4>1, <4>2, <4>3, <4>4, <1>2, <1>9
      <4>5. CASE n # 0
        BY <4>2, <4>3, <4>5, <3>3, <1>9
      <4> QED
        BY <4>4, <4>5
    <3> QED
      BY <2>2, <3>4, <3>5, <3>6 DEF Tiled, Pages
  <2> QED
    BY <2>1, <2>2
<1>11. \A t \in Regions : \A q \in Pages(t) :
         t # r \/ q # p => freeTable'[t][q] = freeTable[t][q] /\ ownerTable'[t][q] = ownerTable[t][q]
  BY <1>5, <1>6
<1> QED
  BY <1>1, <1>3, <1>4, <1>6, <1>8, <1>9, <1>10, <1>11

(* Freeing a grant does so, too, and takes nothing else away.              *)
LEMMA FreeKeepsTiling ==
  ASSUME TablesTyped, Tiling,
         NEW s \in Sess, NEW r \in Regions, NEW p \in Pages(r), FreeLocked(s, r, p)
  PROVE  /\ TablesTyped' /\ Tiling'
         /\ Freeable(s, r, p) => p \in Heads(r)
         /\ \A t \in Regions :
              Heads(t)' = IF t = r /\ Freeable(s, r, p) THEN Heads(t) \ {p} ELSE Heads(t)
         /\ \A t \in Regions : \A q \in Heads(t)' : /\ freeTable'[t][q] = freeTable[t][q]
                                                    /\ ownerTable'[t][q] = ownerTable[t][q]
<1> USE MemAssumption
<1>1. CASE ~Freeable(s, r, p)
  <2>1. UNCHANGED memVars
    BY <1>1 DEF FreeLocked
  <2>2. \A t \in Regions : Heads(t)' = Heads(t) /\ Pages(t)' = Pages(t)
    BY <2>1 DEF Heads, Pages, memVars
  <2> QED
    BY <1>1, <2>1, <2>2 DEF TablesTyped, Tiling, Tiled, Heads, Pages, EndOf, memVars
<1>2. CASE Freeable(s, r, p)
  <2>1. /\ \A t \in Regions : \A q \in Pages(t) : q \in Nat /\ freeTable[t][q] \in Nat
        /\ p \in Heads(r) /\ p \in Nat /\ freeTable[r][p] \in Nat
        /\ \A t \in Regions : Heads(t) \subseteq Pages(t)
    BY <1>2 DEF Pages, TablesTyped, Freeable, Heads
  <2>2. /\ DOMAIN freeTable' = Regions /\ DOMAIN ownerTable' = Regions
        /\ \A t \in Regions : t # r => freeTable'[t] = freeTable[t] /\ ownerTable'[t] = ownerTable[t]
        /\ freeTable'[r] = [freeTable[r] EXCEPT ![p] = 0]
        /\ ownerTable'[r] = [ownerTable[r] EXCEPT ![p] = Nothing]
        /\ bitmap' = [bitmap EXCEPT ![r] = @ \ (p .. (p + freeTable[r][p] - 1))]
    BY <1>2 DEF FreeLocked, TablesTyped, Extent
  <2>3. /\ freeTable'[r][p] = 0
        /\ \A q \in Pages(r) : q # p => /\ freeTable'[r][q] = freeTable[r][q]
                                        /\ ownerTable'[r][q] = ownerTable[r][q]
    BY <2>2 DEF TablesTyped
  <2>4. TablesTyped'
    <3>1. bitmap' \in [Regions -> SUBSET Nat] /\ \A t \in Regions : bitmap'[t] \subseteq Pages(t)
      BY <2>2 DEF TablesTyped
    <3>2. freeTable'[r] \in [Pages(r) -> 0 .. PageCount[r]]
      <4>1. 0 \in 0 .. PageCount[r]
        OBVIOUS
      <4> QED
        BY <4>1, <2>2 DEF TablesTyped
    <3>3. ownerTable'[r] \in [Pages(r) -> Sess \cup {Nothing}]
      BY <2>2 DEF TablesTyped
    <3> QED
      BY <3>1, <3>2, <3>3, <2>2 DEF TablesTyped, Pages
  <2>5. \A t \in Regions : Heads(t)' = IF t = r THEN Heads(t) \ {p} ELSE Heads(t)
    <3>1. \A t \in Regions : t # r => Heads(t)' = Heads(t)
      BY <2>2 DEF Heads, Pages
    <3>2. \A q \in Pages(r) : q \in Heads(r)' <=> q \in Heads(r) /\ q # p
      BY <2>3 DEF Heads, Pages
    <3>3. Heads(r)' \subseteq Pages(r) /\ Heads(r) \subseteq Pages(r)
      BY DEF Heads, Pages
    <3> QED
      BY <3>1, <3>2, <3>3
  <2>6. \A t \in Regions : \A q \in Heads(t)' : /\ freeTable'[t][q] = freeTable[t][q]
                                                /\ ownerTable'[t][q] = ownerTable[t][q]
    <3>1. \A t \in Regions : t # r => \A q \in Heads(t)' : /\ freeTable'[t][q] = freeTable[t][q]
                                                           /\ ownerTable'[t][q] = ownerTable[t][q]
      BY <2>2
    <3>2. \A q \in Heads(r)' : q \in Pages(r) /\ q # p
      BY <2>1, <2>5
    <3>3. \A q \in Heads(r)' : /\ freeTable'[r][q] = freeTable[r][q]
                               /\ ownerTable'[r][q] = ownerTable[r][q]
      BY <2>3, <3>2
    <3> QED
      BY <3>1, <3>3
  <2>7. ASSUME NEW t \in Regions PROVE Tiled(t)'
    <3>1. CASE t # r
      <4>1. bitmap'[t] = bitmap[t] /\ Heads(t)' = Heads(t) /\ freeTable'[t] = freeTable[t]
        BY <3>1, <2>2, <2>5 DEF TablesTyped
      <4> QED
        BY <4>1 DEF Tiling, Tiled, EndOf, Pages
    <3>2. CASE t = r
      <4>1. bitmap'[r] = bitmap[r] \ (p .. (p + freeTable[r][p] - 1))
        BY <2>2 DEF TablesTyped
      <4>2. \A q \in Heads(r)' : q \in Heads(r) /\ q # p /\ freeTable'[r][q] = freeTable[r][q]
        BY <2>5, <2>6
      <4>3. \A q \in Heads(r)' : EndOf(r, q)' <= PageCount[r]
        BY <4>2 DEF Tiling, Tiled, EndOf
      <4>4. \A x, q \in Heads(r)' : x < q => EndOf(r, x)' <= q
        BY <4>2 DEF Tiling, Tiled, EndOf
      <4>5. ASSUME NEW x \in Pages(r)
            PROVE  x \in bitmap'[r] <=> \E q \in Heads(r)' : q <= x /\ x < EndOf(r, q)'
        <5>1. x \in Nat
          BY <2>1
        <5>2. x \in bitmap'[r] <=> x \in bitmap[r] /\ ~(p <= x /\ x < p + freeTable[r][p])
          BY <4>1, <5>1, <2>1
        <5>3. x \in bitmap[r] <=> \E q \in Heads(r) : q <= x /\ x < q + freeTable[r][q]
          BY DEF Tiling, Tiled, EndOf
        <5>4. ASSUME NEW q \in Heads(r), q # p, q <= x, x < q + freeTable[r][q]
              PROVE  ~(p <= x /\ x < p + freeTable[r][p])
          <6>1. q \in Nat /\ freeTable[r][q] \in Nat
            BY <2>1
          <6>2. /\ q < p => q + freeTable[r][q] <= p
                /\ p < q => p + freeTable[r][p] <= q
            BY <2>1 DEF Tiling, Tiled, EndOf
          <6> QED
            BY <6>1, <6>2, <5>4, <5>1, <2>1
        <5>5. \A q \in Heads(r) : q \in Heads(r)' <=> q # p
          BY <2>5
        <5>6. x \in bitmap'[r] <=> \E q \in Heads(r)' : q <= x /\ x < q + freeTable'[r][q]
          BY <5>2, <5>3, <5>4, <5>5, <4>2
        <5> QED
          BY <5>6 DEF EndOf
      <4> QED
        BY <3>2, <4>3, <4>4, <4>5 DEF Tiled, Pages
    <3> QED
      BY <3>1, <3>2
  <2> QED
    BY <1>2, <2>1, <2>4, <2>5, <2>6, <2>7 DEF Tiling
<1> QED
  BY <1>1, <1>2

(* The counts stay integers. *)
LEMMA ChargeTyped ==
  ASSUME CountsTyped, NEW s \in Sess, NEW r \in Regions, NEW n \in Int, Charge(s, r, n)
  PROVE  mainUsed' \in [Ctxs -> Int] /\ cacheUsed' \in [Ctxs -> Int]
BY DEF CountsTyped, Charge

LEMMA FreeTyped ==
  ASSUME CountsTyped, TablesTyped,
         NEW s \in Sess, NEW r \in Regions, NEW p \in Pages(r), FreeLocked(s, r, p)
  PROVE  /\ pageUsed' \in [Regions -> Int]
         /\ mainUsed' \in [Ctxs -> Int] /\ cacheUsed' \in [Ctxs -> Int]
<1>1. CASE Freeable(s, r, p)
  <2>1. freeTable[r][p] \in Int /\ -freeTable[r][p] \in Int
    BY MemAssumption DEF TablesTyped
  <2>2. mainUsed' \in [Ctxs -> Int] /\ cacheUsed' \in [Ctxs -> Int]
    BY <1>1, <2>1, ChargeTyped DEF FreeLocked
  <2>3. pageUsed' \in [Regions -> Int]
    BY <1>1, <2>1 DEF FreeLocked, CountsTyped
  <2> QED
    BY <2>2, <2>3
<1>2. CASE ~Freeable(s, r, p)
  BY <1>2 DEF FreeLocked, CountsTyped, memVars, useVars
<1> QED
  BY <1>1, <1>2

(* Fewer grants, with the same owners, keep what is known of owners and of *)
(* the scan.                                                               *)
LEMMA FewerGrants ==
  ASSUME Owned, ScanBehind, ReaperTyped, UNCHANGED reapVars, SessionsTyped, SessionsTyped',
         \A x \in Sess : /\ sState[x] # "NONE" => sState'[x] # "NONE"
                         /\ sState[x] = "DETACHED" => sState'[x] = "DETACHED",
         \A t \in Regions : \A q \in Heads(t)' : /\ q \in Heads(t)
                                                 /\ freeTable'[t][q] = freeTable[t][q]
                                                 /\ ownerTable'[t][q] = ownerTable[t][q]
  PROVE  Owned' /\ ScanBehind'
<1> USE DEF reapVars
<1>1. Owned'
  <2> SUFFICES ASSUME NEW r \in Regions, NEW p \in Heads(r)'
               PROVE  ownerTable'[r][p] \in Sess /\ sState'[ownerTable'[r][p]] # "NONE"
    BY DEF Owned
  <2>1. ownerTable'[r][p] = ownerTable[r][p] /\ ownerTable[r][p] \in Sess
    BY DEF Owned
  <2>2. sState[ownerTable[r][p]] # "NONE"
    BY DEF Owned
  <2> QED
    BY <2>1, <2>2 DEF SessionsTyped
<1>2. /\ Len(RegionOrder) = 4 /\ ReapRegion \in Regions /\ ReapRegion' = ReapRegion
      /\ \A k \in 1 .. Len(RegionOrder) : RegionOrder[k] \in Regions
  BY OrderOfRegions DEF ReapRegion, ReaperTyped
<1>3. \A r \in Regions : NoneIn(r, reapSess) => NoneIn(r, reapSess)'
  BY DEF NoneIn
<1>4. ScanBehind'
  <2>1. reapPc' \in {"scan", "free"} => reapSess' \in Sess /\ sState'[reapSess'] = "DETACHED"
    <3>1. reapPc' = reapPc /\ reapSess' = reapSess
      OBVIOUS
    <3>2. reapPc \in {"scan", "free"} => reapSess \in Sess /\ sState[reapSess] = "DETACHED"
      BY DEF ScanBehind
    <3> QED
      BY <3>1, <3>2 DEF SessionsTyped
  <2>2. reapPc' = "scan" =>
          \A k \in 1 .. Len(RegionOrder) : k < reapIdx' => NoneIn(RegionOrder[k], reapSess)'
    BY <1>2, <1>3 DEF ScanBehind
  <2>3. reapPc' = "scan" =>
          \A p \in Heads(ReapRegion)' : p < reapOffset =>
             ownerTable'[ReapRegion][p] # reapSess /\ p + freeTable'[ReapRegion][p] <= reapOffset
    BY <1>2 DEF ScanBehind, EndOf
  <2>4. reapPc' = "free" => \A r \in Regions : NoneIn(r, reapSess)'
    BY <1>3 DEF ScanBehind
  <2> QED
    BY <2>1, <2>2, <2>3, <2>4, <1>2 DEF ScanBehind, EndOf, ReapRegion
<1> QED
  BY <1>1, <1>4

-----------------------------------------------------------------------------
(* The steps keep the invariant. *)

LEMMA InitInv == Init => MemInv
<1> SUFFICES ASSUME Init PROVE MemInv
  OBVIOUS
<1>1. \A r \in Regions : Heads(r) = {}
  BY DEF Init, Heads
<1>2. \A r \in Regions : PageCount[r] \in Nat \ {0} /\ 0 \in 0 .. PageCount[r]
  BY MemAssumption
<1>3. TablesTyped
  BY <1>2 DEF Init, TablesTyped
<1>4. SessionsTyped /\ CountsTyped /\ CallsTyped
  BY DEF Init, SessionsTyped, CountsTyped, CallsTyped
<1>5. ReaperTyped
  BY <1>2, OrderOfRegions DEF Init, ReaperTyped, ReapRegion
<1>6. Tiling
  BY <1>1 DEF Tiling, Tiled, Init
<1>7. Owned /\ BusyIsOpen /\ ScanBehind
  BY <1>1 DEF Init, Owned, BusyIsOpen, ScanBehind
<1> QED
  BY <1>3, <1>4, <1>5, <1>6, <1>7 DEF MemInv, MemTypeOK

(* What depends on the tables only through the grants survives a step that *)
(* leaves them and the timer alone.                                        *)
LEMMA TablesAlone ==
  ASSUME UNCHANGED memVars
  PROVE  /\ TablesTyped => TablesTyped'
         /\ Tiling => Tiling'
         /\ \A r \in Regions : Heads(r)' = Heads(r)
BY DEF memVars, TablesTyped, Tiling, Tiled, Heads, EndOf, Pages

LEMMA TryKeepsInv ==
  ASSUME MemInv, NEW s \in Sess, sState[s] = "OPEN",
         NEW size \in Sizes, NEW rest \in Seq(Regions) \ {<<>>},
         TryRegion(s, size, rest)
  PROVE  MemInv'
<1> DEFINE r == Head(rest)
           n == PageNeeded(r, size)
<1>1. /\ r \in Regions /\ n \in Nat
      /\ Len(rest) > 1 => Tail(rest) \in Seq(Regions) \ {<<>>}
  <2>1. r \in Regions
    BY HeadTailProperties
  <2>2. Len(rest) > 1 => Tail(rest) \in Seq(Regions) \ {<<>>}
    <3>1. Len(rest) \in Nat /\ Tail(rest) \in Seq(Regions) /\ Len(Tail(rest)) = Len(rest) - 1
      BY HeadTailProperties, EmptySeq
    <3>2. ASSUME NEW q \in Seq(Regions), Len(q) = Len(rest) - 1, Len(rest) > 1
          PROVE  q \in Seq(Regions) \ {<<>>}
      BY <3>1, <3>2, EmptySeq
    <3> QED
      BY <3>1, <3>2, Zenon
  <2> QED
    BY <2>1, <2>2, PagesNeeded
<1>2. UNCHANGED <<ctxVars, sessVars, reapVars>> /\ LockFree(r)
  BY DEF TryRegion
<1>3. SessionsTyped' /\ ReaperTyped' /\ sessCnt' \in [Ctxs -> Int]
  BY <1>2 DEF MemInv, MemTypeOK, SessionsTyped, CountsTyped, ReaperTyped, ReapRegion,
              ctxVars, sessVars, reapVars
<1>4. ASSUME NEW p \in ZeroAreas(r, n), Take(s, r, p, n),
             at' = [at EXCEPT ![s] = <<r, p>>], req' = [req EXCEPT ![s] = Nothing],
             pc' = [pc EXCEPT ![s] = "copy"]
      PROVE  MemInv'
  <2>1. /\ TablesTyped' /\ Tiling' /\ p \in Pages(r)
        /\ \A t \in Regions : Heads(t)' = IF t = r /\ n # 0 THEN Heads(t) \cup {p} ELSE Heads(t)
        /\ p \notin Heads(r)
        /\ \A t \in Regions : \A q \in Pages(t) :
              t # r \/ q # p => /\ freeTable'[t][q] = freeTable[t][q]
                                /\ ownerTable'[t][q] = ownerTable[t][q]
        /\ ownerTable'[r][p] = s
    BY <1>1, <1>4, TakeKeepsTiling DEF MemInv, MemTypeOK
  <2>2. \A t \in Regions : \A q \in Heads(t) : /\ freeTable'[t][q] = freeTable[t][q]
                                               /\ ownerTable'[t][q] = ownerTable[t][q]
    BY <2>1 DEF Heads
  <2>3. CountsTyped'
    <3>1. mainUsed' \in [Ctxs -> Int] /\ cacheUsed' \in [Ctxs -> Int]
      BY <1>1, <1>4, ChargeTyped DEF Take, MemInv, MemTypeOK
    <3>2. pageUsed' \in [Regions -> Int]
      BY <1>1, <1>4 DEF Take, MemInv, MemTypeOK, CountsTyped
    <3> QED
      BY <3>1, <3>2, <1>3 DEF CountsTyped
  <2>4. CallsTyped'
    <3>1. \A x \in Sess : x # s => req'[x] = req[x] /\ pc'[x] = pc[x] /\ at'[x] = at[x]
      BY <1>4 DEF MemInv, MemTypeOK, CallsTyped
    <3>2. pc'[s] = "copy" /\ at'[s] = <<r, p>> /\ at'[s][1] = r /\ at'[s][2] = p
      BY <1>4 DEF MemInv, MemTypeOK, CallsTyped
    <3>3. /\ pc' \in [Sess -> {"idle", "alloc", "copy"}]
          /\ DOMAIN req' = Sess /\ DOMAIN at' = Sess
      BY <1>4 DEF MemInv, MemTypeOK, CallsTyped
    <3> QED
      BY <3>1, <3>2, <3>3, <1>1, <2>1 DEF MemInv, MemTypeOK, CallsTyped, Pages
  <2>5. BusyIsOpen'
    BY <1>2, <1>4 DEF MemInv, BusyIsOpen, sessVars, MemTypeOK, CallsTyped
  <2>6. Owned'
    BY <1>2, <2>1, <2>2 DEF MemInv, Owned, sessVars
  <2>7. reapPc \in {"scan", "free"} => reapSess # s
    BY DEF MemInv, ScanBehind
  <2>8. /\ ReapRegion \in Regions /\ ReapRegion' = ReapRegion /\ Len(RegionOrder) = 4
        /\ \A k \in 1 .. Len(RegionOrder) : RegionOrder[k] \in Regions
    BY <1>2, OrderOfRegions DEF MemInv, MemTypeOK, ReaperTyped, ReapRegion, reapVars
  <2>9. reapPc \in {"scan", "free"} =>
          \A t \in Regions : NoneIn(t, reapSess) => NoneIn(t, reapSess)'
    BY <1>2, <2>1, <2>2, <2>7 DEF NoneIn, reapVars
  <2>10. reapPc = "scan" => ReapRegion # r
    BY <1>2 DEF LockFree
  <2>11. reapPc = "scan" =>
          \A q \in Heads(ReapRegion)' : q < reapOffset =>
             ownerTable'[ReapRegion][q] # reapSess /\ q + freeTable'[ReapRegion][q] <= reapOffset
    BY <2>1, <2>2, <2>8, <2>10 DEF MemInv, ScanBehind, EndOf
  <2>12. ScanBehind'
    <3>1. UNCHANGED <<reapPc, reapSess, reapIdx, reapOffset, sState>>
      BY <1>2 DEF reapVars, sessVars
    <3>2. reapPc = "scan" =>
            \A k \in 1 .. Len(RegionOrder) : k < reapIdx => NoneIn(RegionOrder[k], reapSess)'
      BY <2>8, <2>9 DEF MemInv, ScanBehind
    <3>3. reapPc = "free" => \A t \in Regions : NoneIn(t, reapSess)'
      BY <2>9 DEF MemInv, ScanBehind
    <3>4. reapPc \in {"scan", "free"} => reapSess \in Sess /\ sState[reapSess] = "DETACHED"
      BY DEF MemInv, ScanBehind
    <3> QED
      BY <3>1, <3>2, <3>3, <3>4, <2>8, <2>11 DEF ScanBehind, EndOf, ReapRegion
  <2> QED
    BY <1>3, <2>1, <2>3, <2>4, <2>5, <2>6, <2>12 DEF MemInv, MemTypeOK
<1>5. ASSUME UNCHANGED <<memVars, useVars, at>>,
             IF Len(rest) > 1
             THEN /\ req' = [req EXCEPT ![s] = [size |-> size, rest |-> Tail(rest)]]
                  /\ pc' = [pc EXCEPT ![s] = "alloc"]
             ELSE /\ req' = [req EXCEPT ![s] = Nothing]
                  /\ pc' = [pc EXCEPT ![s] = "idle"]
      PROVE  MemInv'
  <2>1. TablesTyped' /\ Tiling' /\ \A t \in Regions : Heads(t)' = Heads(t)
    BY <1>5, TablesAlone DEF MemInv, MemTypeOK
  <2>2. CallsTyped' /\ BusyIsOpen'
    <3>1. ASSUME NEW x \in Sess, x # s
          PROVE  req'[x] = req[x] /\ pc'[x] = pc[x] /\ at'[x] = at[x]
      BY <1>5, <3>1 DEF MemInv, MemTypeOK, CallsTyped
    <3>2. /\ pc' \in [Sess -> {"idle", "alloc", "copy"}]
          /\ DOMAIN req' = Sess /\ DOMAIN at' = Sess
      BY <1>5 DEF MemInv, MemTypeOK, CallsTyped
    <3>3. /\ pc'[s] = "alloc" => /\ Len(rest) > 1
                                 /\ req'[s].size = size /\ req'[s].rest = Tail(rest)
          /\ pc'[s] # "copy"
      BY <1>5 DEF MemInv, MemTypeOK, CallsTyped
    <3> QED
      BY <1>1, <1>2, <3>1, <3>2, <3>3 DEF MemInv, MemTypeOK, CallsTyped, BusyIsOpen, sessVars, Pages
  <2>3. CountsTyped'
    BY <1>3, <1>5 DEF MemInv, MemTypeOK, CountsTyped, memVars, useVars
  <2>4. Owned' /\ ScanBehind'
    BY <1>2, <1>3, <1>5, <2>1, FewerGrants DEF MemInv, MemTypeOK, memVars, sessVars
  <2> QED
    BY <1>3, <2>1, <2>2, <2>3, <2>4 DEF MemInv, MemTypeOK
<1> QED
  BY <1>4, <1>5 DEF TryRegion, IsLeast

LEMMA OpenKeepsInv ==
  ASSUME MemInv, NEW s \in Sess, NEW p \in Procs, NEW c \in Ctxs, Open(s, p, c)
  PROVE  MemInv'
<1> USE DEF MemInv, MemTypeOK
<1>1. TablesTyped' /\ Tiling' /\ \A t \in Regions : Heads(t)' = Heads(t)
  BY TablesAlone DEF Open
<1>2. SessionsTyped'
  BY DEF Open, SessionsTyped, ctxVars
<1>3. CountsTyped'
  BY DEF Open, CountsTyped, memVars, useVars
<1>4. CallsTyped' /\ BusyIsOpen'
  BY DEF Open, CallsTyped, BusyIsOpen, ioVars, SessionsTyped, Pages
<1>5. ReaperTyped'
  BY DEF Open, ReaperTyped, reapVars, ReapRegion
<1>6. \A x \in Sess : sState[x] # "NONE" => sState'[x] = sState[x]
  BY DEF Open, SessionsTyped
<1>7. Owned' /\ ScanBehind'
  BY <1>1, <1>2, <1>6, FewerGrants DEF Open, memVars
<1> QED
  BY <1>1, <1>2, <1>3, <1>4, <1>5, <1>7

LEMMA CloseKeepsInv ==
  ASSUME MemInv, NEW s \in Sess, Close(s)
  PROVE  MemInv'
<1> USE DEF MemInv, MemTypeOK
<1>1. TablesTyped' /\ Tiling' /\ \A t \in Regions : Heads(t)' = Heads(t)
  BY TablesAlone DEF Close
<1>2. SessionsTyped' /\ CountsTyped'
  BY DEF Close, SessionsTyped, CountsTyped, memVars, useVars, ctxVars
<1>3. CallsTyped' /\ BusyIsOpen'
  BY DEF Close, CallsTyped, BusyIsOpen, ioVars, SessionsTyped, Pages
<1>4. ReaperTyped'
  BY DEF Close, ReaperTyped, reapVars, ReapRegion
<1>5. \A x \in Sess : /\ sState[x] # "OPEN" => sState'[x] = sState[x]
                      /\ sState[x] # "NONE" => sState'[x] # "NONE"
  BY DEF Close, SessionsTyped
<1>6. Owned' /\ ScanBehind'
  BY <1>1, <1>2, <1>5, FewerGrants DEF Close, memVars
<1> QED
  BY <1>1, <1>2, <1>3, <1>4, <1>6

LEMMA ReturnKeepsInv ==
  ASSUME MemInv, NEW s \in Sess, AllocReturn(s)
  PROVE  MemInv'
<1> USE DEF MemInv, MemTypeOK
<1>1. TablesTyped' /\ Tiling'
      /\ \A t \in Regions : \A q \in Heads(t)' : /\ q \in Heads(t)
                                                 /\ freeTable'[t][q] = freeTable[t][q]
                                                 /\ ownerTable'[t][q] = ownerTable[t][q]
  BY TablesAlone DEF AllocReturn, memVars
<1>2. SessionsTyped' /\ CountsTyped'
  BY DEF AllocReturn, SessionsTyped, CountsTyped, memVars, useVars, ctxVars, sessVars
<1>3. CallsTyped' /\ BusyIsOpen'
  <2>1. \A x \in Sess : x # s => pc'[x] = pc[x] /\ at'[x] = at[x]
    BY DEF AllocReturn, CallsTyped
  <2>2. pc'[s] = "idle" /\ pc' \in [Sess -> {"idle", "alloc", "copy"}] /\ DOMAIN at' = Sess
    BY DEF AllocReturn, CallsTyped
  <2> QED
    BY <2>1, <2>2 DEF AllocReturn, CallsTyped, BusyIsOpen, sessVars, Pages
<1>4. ReaperTyped'
  BY DEF AllocReturn, ReaperTyped, reapVars, ReapRegion
<1>5. Owned' /\ ScanBehind'
  BY <1>1, <1>2, FewerGrants DEF AllocReturn, sessVars
<1> QED
  BY <1>1, <1>2, <1>3, <1>4, <1>5

(* Freeing, by a call or because the address got lost. *)
LEMMA FreeingKeepsInv ==
  ASSUME MemInv, NEW s \in Sess, NEW r \in Regions, NEW p \in Pages(r), FreeLocked(s, r, p),
         UNCHANGED <<ctxVars, sessVars, reapVars>>, CallsTyped', BusyIsOpen'
  PROVE  MemInv'
<1> USE DEF MemInv, MemTypeOK
<1>1. /\ TablesTyped' /\ Tiling'
      /\ \A t \in Regions : \A q \in Heads(t)' : /\ q \in Heads(t)
                                                 /\ freeTable'[t][q] = freeTable[t][q]
                                                 /\ ownerTable'[t][q] = ownerTable[t][q]
  BY FreeKeepsTiling
<1>2. SessionsTyped'
  BY DEF SessionsTyped, ctxVars, sessVars
<1>3. CountsTyped'
  BY FreeTyped DEF CountsTyped, ctxVars
<1>4. ReaperTyped'
  BY DEF ReaperTyped, reapVars, ReapRegion
<1>5. Owned' /\ ScanBehind'
  BY <1>1, <1>2, FewerGrants DEF sessVars
<1> QED
  BY <1>1, <1>2, <1>3, <1>4, <1>5

LEMMA CopyFailsKeepsInv ==
  ASSUME MemInv, NEW s \in Sess, AllocCopyFails(s)
  PROVE  MemInv'
<1>1. at[s][1] \in Regions /\ at[s][2] \in Pages(at[s][1])
  BY DEF AllocCopyFails, MemInv, MemTypeOK, CallsTyped
<1>2. CallsTyped' /\ BusyIsOpen'
  <2>1. \A x \in Sess : x # s => pc'[x] = pc[x] /\ at'[x] = at[x]
    BY DEF AllocCopyFails, MemInv, MemTypeOK, CallsTyped
  <2>2. pc'[s] = "idle" /\ pc' \in [Sess -> {"idle", "alloc", "copy"}] /\ DOMAIN at' = Sess
    BY DEF AllocCopyFails, MemInv, MemTypeOK, CallsTyped
  <2> QED
    BY <2>1, <2>2 DEF AllocCopyFails, MemInv, MemTypeOK, CallsTyped, BusyIsOpen, sessVars, Pages
<1> QED
  BY <1>1, <1>2, FreeingKeepsInv DEF AllocCopyFails

LEMMA FreeKeepsInv ==
  ASSUME MemInv, NEW s \in Sess, NEW r \in Regions, NEW p \in Pages(r), Free(s, r, p)
  PROVE  MemInv'
<1>1. CallsTyped' /\ BusyIsOpen'
  BY DEF Free, MemInv, MemTypeOK, CallsTyped, BusyIsOpen, ioVars, sessVars, Pages
<1> QED
  BY <1>1, FreeingKeepsInv DEF Free

(* The next marked page the timer meets starts a grant, nothing of its     *)
(* session is between it and the place where the scan goes on, and the     *)
(* grant is taken back if it is the session's.                             *)
LEMMA ScanTurn ==
  ASSUME MemInv, NEW p \in BitsFrom(ReapRegion, reapOffset),
         IsLeast(p, BitsFrom(ReapRegion, reapOffset)), reapPc = "scan"
  PROVE  /\ ReapRegion \in Regions /\ reapSess \in Sess
         /\ p \in Heads(ReapRegion) /\ p \in Pages(ReapRegion)
         /\ ScanAfter(ReapRegion, p) \in 0 .. PageCount[ReapRegion]
         /\ ScanAfter(ReapRegion, p) > reapOffset
         /\ ownerTable[ReapRegion][p] = reapSess => Freeable(reapSess, ReapRegion, p)
         /\ \A q \in Heads(ReapRegion) : q < ScanAfter(ReapRegion, p) =>
              /\ EndOf(ReapRegion, q) <= ScanAfter(ReapRegion, p)
              /\ q # p => ownerTable[ReapRegion][q] # reapSess
<1> DEFINE r == ReapRegion
<1>1. r \in Regions /\ reapSess \in Sess
  BY OrderOfRegions DEF ReapRegion, MemInv, MemTypeOK, ReaperTyped, ScanBehind
<1>2. /\ \A q \in Pages(r) : q \in Nat /\ freeTable[r][q] \in Nat
      /\ PageCount[r] \in Nat /\ reapOffset \in Nat
      /\ \A q \in Heads(r) : q \in Pages(r) /\ freeTable[r][q] # 0
  BY <1>1, MemAssumption DEF MemInv, MemTypeOK, TablesTyped, ReaperTyped, Pages, Heads
<1>3. p \in Pages(r) /\ p \in bitmap[r] /\ p >= reapOffset
  BY <1>1 DEF BitsFrom, MemInv, MemTypeOK, TablesTyped
<1>4. \A q \in Heads(r) : q < reapOffset => /\ ownerTable[r][q] # reapSess
                                            /\ q + freeTable[r][q] <= reapOffset
  BY DEF MemInv, ScanBehind, EndOf
<1>5. /\ \A q \in Heads(r) : q + freeTable[r][q] <= PageCount[r]
      /\ \A x, q \in Heads(r) : x < q => x + freeTable[r][x] <= q
      /\ \A x \in Pages(r) : x \in bitmap[r] <=>
           \E q \in Heads(r) : q <= x /\ x < q + freeTable[r][q]
  BY <1>1 DEF MemInv, Tiling, Tiled, EndOf
<1> HIDE DEF r
<1>6. \A q \in Heads(r) : q >= reapOffset => q >= p
  <2> SUFFICES ASSUME NEW q \in Heads(r), q >= reapOffset PROVE q >= p
    OBVIOUS
  <2>1. q \in bitmap[r]
    BY <1>2, <1>5
  <2>2. q \in BitsFrom(ReapRegion, reapOffset)
    BY <2>1 DEF BitsFrom, r
  <2> QED
    BY <2>2, <1>2, <1>3 DEF IsLeast
<1>7. p \in Heads(r)
  <2>1. PICK q \in Heads(r) : q <= p /\ p < q + freeTable[r][q]
    BY <1>3, <1>5
  <2>2. q >= reapOffset
    BY <2>1, <1>2, <1>3, <1>4
  <2> QED
    BY <2>1, <2>2, <1>2, <1>3, <1>6
<1>8. /\ p + freeTable[r][p] \in 0 .. PageCount[r]
      /\ p + freeTable[r][p] > reapOffset
  BY <1>2, <1>3, <1>5, <1>7
<1>9. ASSUME NEW q \in Heads(r), q < p + freeTable[r][p]
      PROVE  /\ q + freeTable[r][q] <= p + freeTable[r][p]
             /\ q # p => ownerTable[r][q] # reapSess
  <2>1. CASE q < reapOffset
    BY <2>1, <1>2, <1>3, <1>4, <1>7, <1>8
  <2>2. CASE q >= reapOffset
    BY <2>2, <1>2, <1>3, <1>5, <1>6, <1>7, <1>9
  <2> QED
    BY <2>1, <2>2, <1>2
<1>10. ownerTable[r][p] = reapSess => Freeable(reapSess, r, p)
  BY <1>2, <1>5, <1>7 DEF Freeable
<1> QED
  BY <1>1, <1>3, <1>7, <1>8, <1>9, <1>10 DEF ScanAfter, EndOf, r

LEMMA ScanKeepsInv ==
  ASSUME MemInv, ReapScan
  PROVE  /\ MemInv'
         /\ reapOffset' > reapOffset
         /\ \A p \in Heads(ReapRegion)' : p < reapOffset' =>
              ownerTable'[ReapRegion][p] # reapSess
<1>0. PICK r \in Regions : r = ReapRegion /\ r = ReapRegion'
  BY OrderOfRegions DEF ReapScan, ReapRegion, MemInv, MemTypeOK, ReaperTyped
<1>1. PICK p \in BitsFrom(r, reapOffset) :
        /\ IsLeast(p, BitsFrom(r, reapOffset))
        /\ reapOffset' = ScanAfter(r, p)
        /\ IF ownerTable[r][p] = reapSess
           THEN FreeLocked(reapSess, r, p)
           ELSE UNCHANGED <<memVars, useVars>>
  BY <1>0 DEF ReapScan
<1>2. /\ UNCHANGED <<ctxVars, sessVars, ioVars, reapPc, reapSess, reapIdx>>
      /\ reapPc = "scan" 
  BY DEF ReapScan
<1>3. /\ r \in Regions /\ reapSess \in Sess
      /\ p \in Heads(r) /\ p \in Pages(r)
      /\ reapOffset' \in 0 .. PageCount[r] /\ reapOffset' > reapOffset
      /\ ownerTable[r][p] = reapSess => Freeable(reapSess, r, p)
      /\ \A q \in Heads(r) : q < reapOffset' =>
           /\ EndOf(r, q) <= reapOffset'
           /\ q # p => ownerTable[r][q] # reapSess
  BY <1>0, <1>1, <1>2, ScanTurn
<1>4. /\ TablesTyped' /\ Tiling'
      /\ \A t \in Regions : \A q \in Heads(t)' :
           /\ q \in Heads(t)
           /\ freeTable'[t][q] = freeTable[t][q]
           /\ ownerTable'[t][q] = ownerTable[t][q]
      /\ ownerTable[r][p] = reapSess => p \notin Heads(r)'
      /\ CountsTyped'
  <2>1. CASE ownerTable[r][p] = reapSess
    <3>1. FreeLocked(reapSess, r, p)
      BY <2>1, <1>1
    <3>2. CountsTyped'
      BY <3>1, <1>2, <1>3, FreeTyped DEF MemInv, MemTypeOK, CountsTyped, ctxVars
    <3>3. /\ TablesTyped' /\ Tiling'
          /\ \A t \in Regions :
               Heads(t)' = IF t = r /\ Freeable(reapSess, r, p) THEN Heads(t) \ {p} ELSE Heads(t)
          /\ \A t \in Regions : \A q \in Heads(t)' :
               /\ freeTable'[t][q] = freeTable[t][q]
               /\ ownerTable'[t][q] = ownerTable[t][q]
      BY <3>1, <1>3, FreeKeepsTiling DEF MemInv, MemTypeOK
    <3>4. \A t \in Regions : \A q \in Heads(t)' : q \in Heads(t)
      BY <3>3
    <3>5. p \notin Heads(r)'
      BY <3>3, <2>1, <1>3
    <3> QED
      BY <3>2, <3>3, <3>4, <3>5
  <2>2. CASE ownerTable[r][p] # reapSess
    <3>1. UNCHANGED <<memVars, useVars>>
      BY <2>2, <1>1
    <3>2. CountsTyped'
      BY <3>1, <1>2 DEF MemInv, MemTypeOK, CountsTyped, ctxVars, memVars, useVars
    <3> QED
      BY <2>2, <3>1, <3>2, TablesAlone DEF MemInv, MemTypeOK, memVars
  <2> QED
    BY <2>1, <2>2
<1>5. \A q \in Heads(r)' : q < reapOffset' =>
        /\ q + freeTable'[r][q] <= reapOffset'
        /\ ownerTable'[r][q] # reapSess
  <2> SUFFICES ASSUME NEW q \in Heads(r)', q < reapOffset'
               PROVE  /\ q + freeTable'[r][q] <= reapOffset'
                      /\ ownerTable'[r][q] # reapSess
    OBVIOUS
  <2>1. /\ q \in Heads(r)
        /\ freeTable'[r][q] = freeTable[r][q]
        /\ ownerTable'[r][q] = ownerTable[r][q]
    BY <1>3, <1>4
  <2>2. q + freeTable[r][q] <= reapOffset'
    BY <2>1, <1>3 DEF EndOf
  <2>3. CASE q = p
    BY <2>1, <2>2, <2>3, <1>4
  <2>4. CASE q # p
    BY <2>1, <2>2, <2>4, <1>3
  <2> QED
    BY <2>3, <2>4
<1>6. SessionsTyped' /\ CallsTyped' /\ BusyIsOpen'
  BY <1>2 DEF MemInv, MemTypeOK, SessionsTyped, CallsTyped, BusyIsOpen,
              ctxVars, sessVars, ioVars, Pages
<1>7. ReaperTyped'
  BY <1>0, <1>2, <1>3 DEF MemInv, MemTypeOK, ReaperTyped
<1>8. Owned'
  BY <1>2, <1>4 DEF MemInv, Owned, sessVars
<1>9. ScanBehind'
  <2>1. \A k \in 1 .. Len(RegionOrder) : k < reapIdx => NoneIn(RegionOrder[k], reapSess)'
    <3>1. /\ \A k \in 1 .. Len(RegionOrder) : RegionOrder[k] \in Regions
          /\ \A k \in 1 .. Len(RegionOrder) : k < reapIdx => NoneIn(RegionOrder[k], reapSess)
      BY <1>2, OrderOfRegions DEF MemInv, ScanBehind
    <3> QED
      BY <3>1, <1>2, <1>4 DEF NoneIn
  <2>2. reapSess \in Sess /\ sState[reapSess] = "DETACHED"
    BY <1>2 DEF MemInv, ScanBehind
  <2> QED
    BY <2>1, <2>2, <1>0, <1>2, <1>5 DEF ScanBehind, EndOf, sessVars, Heads
<1> QED
  BY <1>0, <1>2, <1>3, <1>4, <1>5, <1>6, <1>7, <1>8, <1>9 DEF MemInv, MemTypeOK, Heads

LEMMA NextRegionKeepsInv ==
  ASSUME MemInv, ReapNextRegion
  PROVE  MemInv'
<1> USE DEF MemInv, MemTypeOK
<1>1. /\ TablesTyped' /\ Tiling' /\ SessionsTyped' /\ CountsTyped' /\ CallsTyped'
      /\ \A t \in Regions : Heads(t)' = Heads(t)
  BY TablesAlone DEF ReapNextRegion, SessionsTyped, CountsTyped, CallsTyped, Pages,
                     memVars, ctxVars, useVars, sessVars, ioVars
<1>2. Owned' /\ BusyIsOpen'
  BY <1>1 DEF ReapNextRegion, Owned, BusyIsOpen, memVars, sessVars, ioVars
<1>3. NoneIn(ReapRegion, reapSess)
  <2> SUFFICES ASSUME NEW q \in Heads(ReapRegion)
               PROVE  ownerTable[ReapRegion][q] # reapSess
    BY DEF NoneIn
  <2>1. ReapRegion \in Regions
    BY OrderOfRegions DEF ReaperTyped, ReapRegion
  <2>2. /\ q \in Pages(ReapRegion) /\ q \in Nat /\ reapOffset \in Nat
        /\ freeTable[ReapRegion][q] \in Nat \ {0}
    <3>1. PageCount[ReapRegion] \in Nat /\ q \in Pages(ReapRegion) /\ freeTable[ReapRegion][q] # 0
      BY <2>1, MemAssumption DEF Heads
    <3>2. freeTable[ReapRegion][q] \in 0 .. PageCount[ReapRegion]
      BY <2>1, <3>1 DEF TablesTyped
    <3> QED
      BY <3>1, <3>2 DEF Pages, ReaperTyped
  <2>3. q \in bitmap[ReapRegion]
    <3>1. q <= q /\ q < EndOf(ReapRegion, q)
      BY <2>2 DEF EndOf
    <3> QED
      BY <2>1, <2>2, <3>1 DEF Tiling, Tiled
  <2>4. q < reapOffset
    BY <2>2, <2>3 DEF ReapNextRegion, BitsFrom
  <2> QED
    BY <2>4 DEF ReapNextRegion, ScanBehind
<1>4. /\ Len(RegionOrder) = 4 /\ reapIdx \in 1 .. 4
      /\ \A k \in 1 .. Len(RegionOrder) : k <= reapIdx => NoneIn(RegionOrder[k], reapSess)
  BY <1>3, OrderOfRegions DEF ReapNextRegion, ScanBehind, ReaperTyped, ReapRegion
<1>5. \A t \in Regions : NoneIn(t, reapSess) => NoneIn(t, reapSess)'
  BY <1>1 DEF ReapNextRegion, NoneIn, memVars
<1>6. ReaperTyped' /\ \A k \in 1 .. 4 : PageCount[RegionOrder[k]] \in Nat
  BY <1>4, OrderOfRegions, MemAssumption DEF ReapNextRegion, ReaperTyped, ReapRegion
<1>7. reapSess' = reapSess /\ sState' = sState /\ reapSess \in Sess /\ sState[reapSess] = "DETACHED"
  BY DEF ReapNextRegion, ScanBehind, sessVars
<1>8. CASE reapIdx < Len(RegionOrder)
  <2>1. reapPc' = "scan" /\ reapIdx' = reapIdx + 1 /\ reapOffset' = 0
    BY <1>8 DEF ReapNextRegion
  <2>2. \A k \in 1 .. Len(RegionOrder) : k < reapIdx' => NoneIn(RegionOrder[k], reapSess)'
    BY <2>1, <1>4, <1>5, OrderOfRegions
  <2>3. \A q \in Heads(ReapRegion)' : ~(q < 0)
    BY <1>6, OrderOfRegions DEF Heads, Pages
  <2> QED
    BY <2>1, <2>2, <2>3, <1>1, <1>2, <1>6, <1>7 DEF ScanBehind
<1>9. CASE ~(reapIdx < Len(RegionOrder))
  <2>1. reapPc' = "free" /\ reapIdx = 4
    BY <1>4, <1>9 DEF ReapNextRegion
  <2>2. \A t \in Regions : NoneIn(t, reapSess)'
    <3> SUFFICES ASSUME NEW t \in Regions PROVE NoneIn(t, reapSess)'
      OBVIOUS
    <3>1. PICK k \in 1 .. 4 : RegionOrder[k] = t
      BY OrderOfRegions
    <3>2. NoneIn(t, reapSess)
      BY <2>1, <3>1, <1>4
    <3> QED
      BY <3>2, <1>5
  <2> QED
    BY <2>1, <2>2, <1>1, <1>2, <1>6, <1>7 DEF ScanBehind
<1> QED
  BY <1>8, <1>9

LEMMA DetachKeepsInv ==
  ASSUME MemInv, NEW D \in SUBSET Sess, ReapDetach(D)
  PROVE  MemInv'
<1> USE DEF MemInv, MemTypeOK
<1>1. TablesTyped' /\ Tiling' /\ \A t \in Regions : Heads(t)' = Heads(t)
  BY TablesAlone DEF ReapDetach
<1>2. SessionsTyped' /\ CallsTyped' /\ ReaperTyped'
  BY DEF ReapDetach, SessionsTyped, CallsTyped, ReaperTyped, ReapRegion, ioVars, Pages
<1>3. CountsTyped'
  <2>1. \A c \in Ctxs : Leaving(D, c) \in Nat
    <3> SUFFICES ASSUME NEW c \in Ctxs PROVE Leaving(D, c) \in Nat
      OBVIOUS
    <3>1. IsFiniteSet({s \in D : sCtx[s] = c})
      BY MemAssumption, FS_Subset
    <3> QED
      BY <3>1, FS_CardinalityType DEF Leaving
  <2> QED
    BY <2>1 DEF ReapDetach, CountsTyped, memVars, useVars
<1>4. Owned' /\ BusyIsOpen' /\ ScanBehind'
  BY <1>1 DEF ReapDetach, Owned, BusyIsOpen, ScanBehind, memVars, ioVars
<1> QED
  BY <1>1, <1>2, <1>3, <1>4

LEMMA TakeUpKeepsInv ==
  ASSUME MemInv, NEW s \in Sess, ReapTake(s)
  PROVE  MemInv'
<1> USE DEF MemInv, MemTypeOK
<1>1. /\ TablesTyped' /\ Tiling' /\ SessionsTyped' /\ CountsTyped' /\ CallsTyped'
      /\ \A t \in Regions : Heads(t)' = Heads(t)
  BY TablesAlone DEF ReapTake, SessionsTyped, CountsTyped, CallsTyped, Pages,
                     memVars, ctxVars, useVars, sessVars, ioVars
<1>2. Owned' /\ BusyIsOpen'
  BY <1>1 DEF ReapTake, Owned, BusyIsOpen, memVars, sessVars, ioVars
<1>3. ReaperTyped' /\ \A k \in 1 .. 4 : PageCount[RegionOrder[k]] \in Nat
  BY OrderOfRegions, MemAssumption DEF ReapTake, ReaperTyped, ReapRegion
<1>4. \A q \in Heads(ReapRegion)' : ~(q < 0)
  BY <1>3, OrderOfRegions DEF Heads, Pages
<1>5. ScanBehind'
  BY <1>4, OrderOfRegions DEF ReapTake, ScanBehind, Detached, sessVars
<1> QED
  BY <1>1, <1>2, <1>3, <1>5

LEMMA FreeSessionKeepsInv ==
  ASSUME MemInv, ReapFree
  PROVE  MemInv'
<1> USE DEF MemInv, MemTypeOK
<1>1. TablesTyped' /\ Tiling' /\ \A t \in Regions : Heads(t)' = Heads(t)
  BY TablesAlone DEF ReapFree
<1>2. SessionsTyped' /\ CountsTyped' /\ CallsTyped'
  BY DEF ReapFree, SessionsTyped, CountsTyped, CallsTyped, Pages, memVars, ctxVars, useVars, ioVars
<1>3. ReaperTyped'
  BY DEF ReapFree, ReaperTyped, ReapRegion
<1>4. reapSess \in Sess /\ sState[reapSess] = "DETACHED" /\ \A t \in Regions : NoneIn(t, reapSess)
  BY DEF ReapFree, ScanBehind
<1>5. \A x \in Sess : x # reapSess => sState'[x] = sState[x]
  BY DEF ReapFree, SessionsTyped
<1>6. Owned' /\ BusyIsOpen'
  BY <1>1, <1>4, <1>5 DEF ReapFree, Owned, NoneIn, BusyIsOpen, memVars, ioVars
<1>7. ScanBehind'
  BY DEF ReapFree, ScanBehind
<1> QED
  BY <1>1, <1>2, <1>3, <1>6, <1>7

LEMMA FreeContextKeepsInv ==
  ASSUME MemInv, ReapCtx
  PROVE  MemInv'
<1> USE DEF MemInv, MemTypeOK
<1>1. TablesTyped' /\ Tiling' /\ \A t \in Regions : Heads(t)' = Heads(t)
  BY TablesAlone DEF ReapCtx
<1>2. SessionsTyped' /\ CountsTyped' /\ CallsTyped' /\ ReaperTyped'
  BY DEF ReapCtx, SessionsTyped, CountsTyped, CallsTyped, ReaperTyped, ReapRegion, Pages,
         memVars, useVars, sessVars, ioVars
<1>3. Owned' /\ BusyIsOpen' /\ ScanBehind'
  BY <1>1 DEF ReapCtx, Owned, BusyIsOpen, ScanBehind, memVars, sessVars, ioVars
<1> QED
  BY <1>1, <1>2, <1>3

(* What a call asks for. *)
LEMMA Candidates ==
  \A kind \in Kinds : CandidateRegions(kind) \in Seq(Regions) \ {<<>>}
BY DEF Kinds, CandidateRegions, Regions

LEMMA AllocKeepsInv ==
  ASSUME MemInv, NEW s \in Sess,
         \/ \E size \in Sizes, kind \in Kinds : Alloc(s, size, kind)
         \/ AllocNext(s)
  PROVE  /\ sState[s] = "OPEN"
         /\ \E size \in Sizes, rest \in Seq(Regions) \ {<<>>} : TryRegion(s, size, rest)
         /\ MemInv'
<1>1. CASE \E size \in Sizes, kind \in Kinds : Alloc(s, size, kind)
  <2>1. PICK size \in Sizes, kind \in Kinds : Alloc(s, size, kind)
    BY <1>1
  <2>2. sState[s] = "OPEN" /\ TryRegion(s, size, CandidateRegions(kind))
    BY <2>1 DEF Alloc
  <2>3. CandidateRegions(kind) \in Seq(Regions) \ {<<>>}
    BY Candidates
  <2>4. MemInv'
    BY <2>2, <2>3, TryKeepsInv
  <2> QED
    BY <2>2, <2>3, <2>4
<1>2. CASE AllocNext(s)
  <2>1. /\ sState[s] = "OPEN" /\ TryRegion(s, req[s].size, req[s].rest)
        /\ req[s].size \in Sizes /\ req[s].rest \in Seq(Regions) \ {<<>>}
    BY <1>2 DEF AllocNext, MemInv, MemTypeOK, CallsTyped, BusyIsOpen
  <2>2. MemInv'
    BY <2>1, TryKeepsInv
  <2> QED
    BY <2>1, <2>2
<1> QED
  BY <1>1, <1>2

LEMMA NextInv == MemInv /\ [Next]_memAllVars => MemInv'
<1> SUFFICES ASSUME MemInv, [Next]_memAllVars PROVE MemInv'
  OBVIOUS
<1>1. CASE UNCHANGED memAllVars
  <2>1. TablesTyped' /\ Tiling' /\ \A t \in Regions : Heads(t)' = Heads(t)
    BY <1>1, TablesAlone DEF MemInv, MemTypeOK, memAllVars
  <2> USE <1>1, <2>1 DEF memAllVars, memVars, ctxVars, useVars, sessVars, ioVars, reapVars
  <2>2. SessionsTyped' /\ CountsTyped' /\ CallsTyped' /\ ReaperTyped'
    BY DEF MemInv, MemTypeOK, SessionsTyped, CountsTyped, CallsTyped, ReaperTyped,
           ReapRegion, Pages
  <2>3. Owned' /\ BusyIsOpen'
    BY DEF MemInv, Owned, BusyIsOpen
  <2>4. ScanBehind'
    BY DEF MemInv, ScanBehind, NoneIn, ReapRegion, EndOf, Heads, Pages
  <2> QED
    BY <2>2, <2>3, <2>4 DEF MemInv, MemTypeOK
<1>2. ASSUME NEW s \in Sess, UserCall(s) \/ AllocStep(s)
      PROVE  MemInv'
  <2>1. ASSUME NEW p \in Procs, NEW c \in Ctxs, Open(s, p, c) PROVE MemInv'
    BY <2>1, OpenKeepsInv
  <2>2. CASE Close(s)
    BY <2>2, CloseKeepsInv
  <2>3. CASE (\E size \in Sizes, kind \in Kinds : Alloc(s, size, kind)) \/ AllocNext(s)
    BY <2>3, AllocKeepsInv
  <2>4. ASSUME NEW r \in Regions, NEW p \in Pages(r), Free(s, r, p) PROVE MemInv'
    BY <2>4, FreeKeepsInv
  <2>5. CASE AllocReturn(s)
    BY <2>5, ReturnKeepsInv
  <2>6. CASE AllocCopyFails(s)
    BY <2>6, CopyFailsKeepsInv
  <2> QED
    BY <1>2, <2>1, <2>2, <2>3, <2>4, <2>5, <2>6 DEF UserCall, AllocStep
<1>3. ASSUME NEW D \in SUBSET Sess, ReapDetach(D) PROVE MemInv'
  BY <1>3, DetachKeepsInv
<1>4. CASE ReapStep
  BY <1>4, TakeUpKeepsInv, ScanKeepsInv, NextRegionKeepsInv, FreeSessionKeepsInv,
     FreeContextKeepsInv DEF ReapStep
<1> QED
  BY <1>1, <1>2, <1>3, <1>4 DEF Next

LEMMA Inductive == Spec => []MemInv
BY InitInv, NextInv, PTL DEF Spec

(* The allocator, its callers and the timer keep their types; in           *)
(* particular the timer's scan never leaves its region.                    *)
THEOREM MemTypeCorrect == Spec => []MemTypeOK
BY Inductive, PTL DEF MemInv

(* Under any interleaving of calls, failed copies to the caller and the    *)
(* timer, the grants recorded in free_table tile the bitmap.               *)
THEOREM GrantsTileBitmap == Spec => []BitmapTiled
<1>1. MemInv => BitmapTiled
  <2> SUFFICES ASSUME MemInv, NEW r \in Regions
               PROVE  /\ bitmap[r] = UNION {Extent(r, p) : p \in Heads(r)}
                      /\ \A p, q \in Heads(r) : p # q => Extent(r, p) \cap Extent(r, q) = {}
    BY DEF BitmapTiled
  <2>1. /\ bitmap[r] \subseteq Pages(r) /\ PageCount[r] \in Nat
        /\ \A p \in Heads(r) : p \in Nat /\ freeTable[r][p] \in Nat
        /\ \A p \in Heads(r) : p + freeTable[r][p] <= PageCount[r]
        /\ \A p, q \in Heads(r) : p < q => p + freeTable[r][p] <= q
        /\ \A x \in Pages(r) : x \in bitmap[r] <=>
             \E p \in Heads(r) : p <= x /\ x < p + freeTable[r][p]
    <3>1. PageCount[r] \in Nat /\ bitmap[r] \subseteq Pages(r)
      BY MemAssumption DEF MemInv, MemTypeOK, TablesTyped
    <3>2. \A p \in Heads(r) : p \in Nat /\ freeTable[r][p] \in Nat
      BY <3>1 DEF MemInv, MemTypeOK, TablesTyped, Heads, Pages
    <3> QED
      BY <3>1, <3>2 DEF MemInv, Tiling, Tiled, EndOf
  <2>2. \A x, p \in Nat : p \in Heads(r) =>
          (x \in Extent(r, p) <=> p <= x /\ x < p + freeTable[r][p])
    BY <2>1 DEF Extent
  <2>3. \A p \in Heads(r) : Extent(r, p) \subseteq Pages(r)
    BY <2>1 DEF Extent, Pages
  <2>4. \A x \in Pages(r) : x \in bitmap[r] <=> \E p \in Heads(r) : x \in Extent(r, p)
    BY <2>1, <2>2 DEF Pages
  <2>5. bitmap[r] = UNION {Extent(r, p) : p \in Heads(r)}
    BY <2>1, <2>3, <2>4
  <2>6. ASSUME NEW p \in Heads(r), NEW q \in Heads(r), p # q
        PROVE  Extent(r, p) \cap Extent(r, q) = {}
    <3> SUFFICES ASSUME NEW x \in Extent(r, p), x \in Extent(r, q) PROVE FALSE
      OBVIOUS
    <3>1. x \in Nat
      BY <2>1 DEF Extent
    <3> QED
      BY <2>1, <2>2, <2>6, <3>1
  <2> QED
    BY <2>5, <2>6
<1> QED
  BY <1>1, Inductive, PTL

(* Whatever the users do meanwhile, a turn of the timer's scan, which      *)
(* holds the region's spinlock, gets further and leaves nothing of the     *)
(* session behind.                                                         *)
THEOREM ScanNeverSpins == Spec => ScanAdvances
<1>1. MemInv /\ [Next]_memAllVars =>
        [ReapScan => /\ reapOffset' > reapOffset
                     /\ \A p \in Heads(ReapRegion)' : p < reapOffset' =>
                          ownerTable'[ReapRegion][p] # reapSess]_memAllVars
  BY ScanKeepsInv
<1> QED
  BY <1>1, Inductive, PTL DEF Spec, ScanAdvances

-----------------------------------------------------------------------------
(* The refinement of DeviceMemory. *)

AbsStep == [Abs!Next]_<<Grants, Present>>

(* The grants of one region. *)
GrantsIn(t) == {GrantAt(t, p) : p \in Heads(t)}

(* Where no mark of a grant changes, the grants are the same. *)
LEMMA SameGrants ==
  ASSUME \A t \in Regions : Heads(t)' = Heads(t),
         \A t \in Regions : \A q \in Heads(t) :
           freeTable'[t][q] = freeTable[t][q] /\ ownerTable'[t][q] = ownerTable[t][q]
  PROVE  Grants' = Grants
<1>1. ASSUME NEW t \in Regions
      PROVE  GrantsIn(t)' = GrantsIn(t)
  BY DEF GrantsIn, GrantAt
<1>2. \A x : x \in Grants <=> \E t \in Regions : x \in GrantsIn(t)
  BY DEF Grants, GrantsIn
<1>3. \A x : x \in Grants' <=> \E t \in Regions : x \in GrantsIn(t)'
  BY DEF Grants, GrantsIn
<1>4. \A x : x \in Grants' <=> x \in Grants
  BY <1>1, <1>2, <1>3
<1> QED
  BY <1>4

(* A request that is served makes a grant, unless its rounded size wrapped *)
(* to no page; one that is not changes nothing.                            *)
LEMMA TryRefines ==
  ASSUME MemInv, NEW s \in Sess, sState[s] = "OPEN",
         NEW size \in Sizes, NEW rest \in Seq(Regions) \ {<<>>},
         TryRegion(s, size, rest)
  PROVE  AbsStep
<1>1. PICK r \in Regions, n \in Nat : r = Head(rest) /\ n = PageNeeded(r, size)
  BY HeadTailProperties, PagesNeeded
<1>2. Present' = Present
  BY DEF TryRegion, sessVars, Present
<1>3. CASE UNCHANGED memVars
  <2>1. Grants' = Grants
    BY <1>3, SameGrants, TablesAlone DEF memVars
  <2> QED
    BY <1>2, <2>1 DEF AbsStep
<1>4. ASSUME NEW p \in ZeroAreas(r, n), Take(s, r, p, n)
      PROVE  AbsStep
  <2>1. /\ p \in Pages(r) /\ p \notin Heads(r)
        /\ p + n <= PageCount[r]
        /\ \A q \in Heads(r) : EndOf(r, q) <= p \/ p + n <= q
        /\ \A t \in Regions : Heads(t)' = IF t = r /\ n # 0 THEN Heads(t) \cup {p} ELSE Heads(t)
        /\ \A t \in Regions : \A q \in Pages(t) :
             t # r \/ q # p => /\ freeTable'[t][q] = freeTable[t][q]
                               /\ ownerTable'[t][q] = ownerTable[t][q]
        /\ freeTable'[r][p] = n /\ ownerTable'[r][p] = s
    BY <1>1, <1>4, TakeKeepsTiling DEF MemInv, MemTypeOK
  <2>2. \A t \in Regions : \A q \in Heads(t) :
          freeTable'[t][q] = freeTable[t][q] /\ ownerTable'[t][q] = ownerTable[t][q]
    BY <2>1 DEF Heads
  <2>3. CASE n = 0
    <3>1. Grants' = Grants
      BY <2>1, <2>2, <2>3, SameGrants
    <3> QED
      BY <1>2, <3>1 DEF AbsStep
  <2>4. CASE n # 0
    <3> DEFINE g == [region |-> r, first |-> p, len |-> n, owner |-> s]
    <3>1. ASSUME NEW t \in Regions, NEW q \in Heads(t)
          PROVE  /\ GrantAt(t, q) # g /\ GrantAt(t, q)' = GrantAt(t, q)
                 /\ Abs!Apart(g, GrantAt(t, q))
      <4>1. GrantAt(t, q)' = GrantAt(t, q)
        BY <2>2 DEF GrantAt
      <4>2. GrantAt(t, q) # g
        BY <2>1 DEF GrantAt
      <4>3. Abs!Apart(g, GrantAt(t, q))
        <5> SUFFICES ASSUME t = r
                     PROVE  (p .. (p + n - 1)) \cap (q .. (q + freeTable[t][q] - 1)) = {}
          BY DEF Abs!Apart, Abs!PagesOf, GrantAt
        <5>1. q \in Nat /\ freeTable[t][q] \in Nat /\ p \in Nat
          <6>1. q \in Pages(t) /\ PageCount[t] \in Nat
            BY MemAssumption DEF Heads
          <6>2. freeTable[t][q] \in 0 .. PageCount[t]
            BY <6>1 DEF MemInv, MemTypeOK, TablesTyped
          <6> QED
            BY <6>1, <6>2, <2>1 DEF Pages
        <5>2. q + freeTable[t][q] <= p \/ p + n <= q
          BY <2>1 DEF EndOf
        <5> QED
          BY <5>1, <5>2
      <4> QED
        BY <4>1, <4>2, <4>3
    <3>2. GrantAt(r, p)' = g
      BY <2>1 DEF GrantAt
    <3>3. g \notin Grants /\ \A h \in Grants : Abs!Apart(g, h)
      BY <3>1 DEF Grants
    <3>4. Grants' = Grants \cup {g}
      <4>1. \A h : h \in Grants' <=> \E t \in Regions : \E q \in Heads(t)' : h = GrantAt(t, q)'
        BY DEF Grants
      <4>2. \A h : h \in Grants <=> \E t \in Regions : \E q \in Heads(t) : h = GrantAt(t, q)
        BY DEF Grants
      <4>3. \A t \in Regions : \A q \in Heads(t)' : GrantAt(t, q)' \in Grants \cup {g}
        <5> SUFFICES ASSUME NEW t \in Regions, NEW q \in Heads(t)'
                     PROVE  GrantAt(t, q)' \in Grants \cup {g}
          OBVIOUS
        <5>1. CASE q \in Heads(t)
          BY <5>1, <3>1, <4>2
        <5>2. CASE t = r /\ q = p
          BY <5>2, <3>2 DEF GrantAt
        <5> QED
          BY <5>1, <5>2, <2>1
      <4>4. \A t \in Regions : \A q \in Heads(t) : GrantAt(t, q) \in Grants'
        BY <2>1, <2>4, <3>1, <4>1 DEF GrantAt
      <4>5. g \in Grants'
        BY <2>1, <2>4, <3>2, <4>1 DEF GrantAt
      <4> QED
        BY <4>1, <4>2, <4>3, <4>4, <4>5
    <3>5. g \in Abs!Grant
      BY <2>1, <2>4 DEF Abs!Grant, Pages
    <3>6. g.owner \in Present /\ g.first + g.len <= PageCount[g.region]
      BY <2>1 DEF Present
    <3> HIDE DEF g
    <3>7. Abs!Allocate
      BY <1>2, <3>3, <3>4, <3>5, <3>6 DEF Abs!Allocate
    <3> QED
      BY <3>7 DEF AbsStep, Abs!Next
  <2> QED
    BY <2>3, <2>4
<1> QED
  BY <1>1, <1>3, <1>4 DEF TryRegion, IsLeast

(* Freeing gives a grant back whole, or does nothing. *)
LEMMA FreeRefines ==
  ASSUME MemInv, NEW s \in Sess, NEW r \in Regions, NEW p \in Pages(r), FreeLocked(s, r, p),
         UNCHANGED sState
  PROVE  AbsStep
<1>1. Present' = Present
  BY DEF Present
<1>2. CASE ~Freeable(s, r, p)
  <2>1. UNCHANGED memVars
    BY <1>2 DEF FreeLocked
  <2>2. Grants' = Grants
    BY <2>1, SameGrants, TablesAlone DEF memVars
  <2> QED
    BY <1>1, <2>2 DEF AbsStep
<1>3. CASE Freeable(s, r, p)
  <2> DEFINE g == GrantAt(r, p)
  <2>1. /\ p \in Heads(r)
        /\ \A t \in Regions : Heads(t)' = IF t = r THEN Heads(t) \ {p} ELSE Heads(t)
        /\ \A t \in Regions : \A q \in Heads(t)' : /\ freeTable'[t][q] = freeTable[t][q]
                                                   /\ ownerTable'[t][q] = ownerTable[t][q]
    BY <1>3, FreeKeepsTiling DEF MemInv, MemTypeOK
  <2>2. \A h : h \in Grants' <=> \E t \in Regions : \E q \in Heads(t)' : h = GrantAt(t, q)'
    BY DEF Grants
  <2>3. \A h : h \in Grants <=> \E t \in Regions : \E q \in Heads(t) : h = GrantAt(t, q)
    BY DEF Grants
  <2>4. \A t \in Regions : \A q \in Heads(t)' : q \in Heads(t) /\ (t # r \/ q # p)
    BY <2>1
  <2>5. \A t \in Regions : \A q \in Heads(t)' :
          GrantAt(t, q)' = GrantAt(t, q) /\ GrantAt(t, q) # g
    BY <2>1, <2>4 DEF GrantAt
  <2>6. \A t \in Regions : \A q \in Heads(t) : q \in Heads(t)' \/ GrantAt(t, q) = g
    BY <2>1 DEF GrantAt
  <2>7. g \in Grants
    BY <2>1, <2>3
  <2>8. Grants' = Grants \ {g}
    <3>1. ASSUME NEW h \in Grants' PROVE h \in Grants \ {g}
      <4>1. PICK t \in Regions : \E q \in Heads(t)' : h = GrantAt(t, q)'
        BY <2>2
      <4> QED
        BY <4>1, <2>3, <2>4, <2>5
    <3>2. ASSUME NEW h \in Grants \ {g} PROVE h \in Grants'
      <4>1. PICK t \in Regions : \E q \in Heads(t) : h = GrantAt(t, q)
        BY <2>3
      <4>2. \A q \in Heads(t) : h = GrantAt(t, q) => q \in Heads(t)' /\ GrantAt(t, q)' = GrantAt(t, q)
        BY <4>1, <2>5, <2>6
      <4> QED
        BY <4>1, <4>2, <2>2
    <3> QED
      BY <3>1, <3>2
  <2> HIDE DEF g
  <2>9. Abs!GiveBack
    BY <1>1, <2>7, <2>8 DEF Abs!GiveBack
  <2> QED
    BY <2>9 DEF AbsStep, Abs!Next
<1> QED
  BY <1>2, <1>3

(* A step that keeps the tables and the existing sessions changes nothing  *)
(* that was promised.                                                      *)
LEMMA NothingPromised ==
  ASSUME UNCHANGED memVars, Present' = Present
  PROVE  AbsStep
<1>1. Grants' = Grants
  BY SameGrants, TablesAlone DEF memVars
<1> QED
  BY <1>1 DEF AbsStep

LEMMA OpenRefines ==
  ASSUME MemInv, NEW s \in Sess, NEW p \in Procs, NEW c \in Ctxs, Open(s, p, c)
  PROVE  AbsStep
<1>1. Grants' = Grants
  BY SameGrants, TablesAlone DEF Open, memVars
<1>2. s \notin Present /\ Present' = Present \cup {s}
  BY DEF Open, Present, MemInv, MemTypeOK, SessionsTyped
<1>3. Abs!Arrive(s)
  BY <1>1, <1>2 DEF Abs!Arrive
<1> QED
  BY <1>3 DEF AbsStep, Abs!Next

(* The session the timer frees holds nothing. *)
LEMMA FreeSessionRefines ==
  ASSUME MemInv, ReapFree
  PROVE  AbsStep
<1>1. Grants' = Grants
  BY SameGrants, TablesAlone DEF ReapFree, memVars
<1>2. /\ reapSess \in Sess /\ sState[reapSess] = "DETACHED"
      /\ \A r \in Regions : NoneIn(r, reapSess)
  BY DEF ReapFree, MemInv, ScanBehind
<1>3. reapSess \in Present /\ Present' = Present \ {reapSess}
  BY <1>2 DEF ReapFree, Present, MemInv, MemTypeOK, SessionsTyped
<1>4. \A g \in Grants : g.owner # reapSess
  BY <1>2 DEF Grants, GrantAt, NoneIn
<1>5. Abs!Depart(reapSess)
  BY <1>1, <1>3, <1>4 DEF Abs!Depart
<1> QED
  BY <1>2, <1>5 DEF AbsStep, Abs!Next

LEMMA ScanRefines ==
  ASSUME MemInv, ReapScan
  PROVE  AbsStep
<1>1. sState' = sState
  BY DEF ReapScan, sessVars
<1>2. PICK p \in BitsFrom(ReapRegion, reapOffset) :
        /\ IsLeast(p, BitsFrom(ReapRegion, reapOffset))
        /\ IF ownerTable[ReapRegion][p] = reapSess
           THEN FreeLocked(reapSess, ReapRegion, p)
           ELSE UNCHANGED <<memVars, useVars>>
  BY DEF ReapScan
<1>3. ReapRegion \in Regions /\ reapSess \in Sess /\ p \in Pages(ReapRegion)
  BY <1>2, ScanTurn DEF ReapScan
<1>4. CASE FreeLocked(reapSess, ReapRegion, p)
  <2>1. PICK r \in Regions : r = ReapRegion
    BY <1>3
  <2>2. PICK s \in Sess : s = reapSess
    BY <1>3
  <2> QED
    BY <2>1, <2>2, <1>1, <1>3, <1>4, FreeRefines
<1>5. CASE UNCHANGED memVars
  BY <1>1, <1>5, NothingPromised DEF Present
<1> QED
  BY <1>2, <1>4, <1>5

LEMMA NextRefines == MemInv /\ [Next]_memAllVars => AbsStep
<1> SUFFICES ASSUME MemInv, [Next]_memAllVars PROVE AbsStep
  OBVIOUS
<1>1. CASE UNCHANGED memAllVars
  BY <1>1, NothingPromised DEF memAllVars, sessVars, Present
<1>2. ASSUME NEW s \in Sess, UserCall(s) \/ AllocStep(s)
      PROVE  AbsStep
  <2>1. ASSUME NEW p \in Procs, NEW c \in Ctxs, Open(s, p, c) PROVE AbsStep
    BY <2>1, OpenRefines
  <2>2. CASE Close(s)
    <3>1. Present' = Present
      BY <2>2 DEF Close, Present, MemInv, MemTypeOK, SessionsTyped
    <3> QED
      BY <2>2, <3>1, NothingPromised DEF Close
  <2>3. CASE (\E size \in Sizes, kind \in Kinds : Alloc(s, size, kind)) \/ AllocNext(s)
    BY <2>3, AllocKeepsInv, TryRefines
  <2>4. ASSUME NEW r \in Regions, NEW p \in Pages(r), Free(s, r, p) PROVE AbsStep
    BY <2>4, FreeRefines DEF Free, sessVars
  <2>5. CASE AllocReturn(s)
    BY <2>5, NothingPromised DEF AllocReturn, sessVars, Present
  <2>6. CASE AllocCopyFails(s)
    <3>1. at[s][1] \in Regions /\ at[s][2] \in Pages(at[s][1])
      BY <2>6 DEF AllocCopyFails, MemInv, MemTypeOK, CallsTyped
    <3> QED
      BY <2>6, <3>1, FreeRefines DEF AllocCopyFails, sessVars
  <2> QED
    BY <1>2, <2>1, <2>2, <2>3, <2>4, <2>5, <2>6 DEF UserCall, AllocStep
<1>3. ASSUME NEW D \in SUBSET Sess, ReapDetach(D) PROVE AbsStep
  <2>1. Present' = Present
    BY <1>3 DEF ReapDetach, Present
  <2> QED
    BY <1>3, <2>1, NothingPromised DEF ReapDetach
<1>4. CASE ReapStep
  <2>1. ASSUME NEW s \in Sess, ReapTake(s) PROVE AbsStep
    BY <2>1, NothingPromised DEF ReapTake, sessVars, Present
  <2>2. CASE ReapScan
    BY <2>2, ScanRefines
  <2>3. CASE ReapNextRegion
    BY <2>3, NothingPromised DEF ReapNextRegion, sessVars, Present
  <2>4. CASE ReapFree
    BY <2>4, FreeSessionRefines
  <2>5. CASE ReapCtx
    BY <2>5, NothingPromised DEF ReapCtx, sessVars, Present
  <2> QED
    BY <1>4, <2>1, <2>2, <2>3, <2>4, <2>5 DEF ReapStep
<1> QED
  BY <1>1, <1>2, <1>3, <1>4 DEF Next

(* The allocator with its tables, its first-fit search, its failing copies *)
(* and the page scan of the timer implements disjoint grants to existing   *)
(* sessions: nothing is granted twice, taken back in part, or held by a    *)
(* session that was freed.                                                 *)
THEOREM MemImplements == Spec => Implements
<1>1. Init => Abs!Init
  <2> SUFFICES ASSUME Init PROVE Abs!Init
    OBVIOUS
  <2>1. \A r \in Regions : Heads(r) = {}
    BY DEF Init, Heads
  <2>2. Grants = {} /\ Present = {}
    BY <2>1 DEF Grants, Present, Init
  <2> QED
    BY <2>2 DEF Abs!Init
<1>2. MemInv /\ [Next]_memAllVars => [Abs!Next]_<<Grants, Present>>
  BY NextRefines DEF AbsStep
<1> QED
  BY <1>1, <1>2, Inductive, PTL DEF Spec, Implements, Abs!Spec

-----------------------------------------------------------------------------
(* The books: the count of sessions that decides when a context is freed,  *)
(* and the pages charged to a region and to a context.                     *)
(*                                                                         *)
(* A context outlives its sessions because those that are on the list have *)
(* a listed context, and those that are off it are gone before the timer   *)
(* frees the contexts it took off (CtxInv).  The charges follow from the   *)
(* tiling: a grant adds an interval of pages that is disjoint from all     *)
(* others, and a release removes a whole one.                              *)

(* The sessions of context c on the list. *)
Members(c) == {s \in Sess : sCtx[s] = c /\ sState[s] \in {"OPEN", "CLOSED"}}

HasContext ==
  \A s \in Sess : sState[s] # "NONE" => sCtx[s] \in Ctxs /\ ctxProc[sCtx[s]] # Nothing

ListedTogether ==
  \A s \in Sess : sState[s] \in {"OPEN", "CLOSED"} => sCtx[s] \in ctxListed

ListedCounted ==
  \A c \in ctxListed : ctxProc[c] # Nothing /\ sessCnt[c] = Cardinality(Members(c))

DetachedAreBeingFreed == reapPc \in {"idle", "ctx"} => Detached = {}

(* The inductive invariant of the contexts, over MemInv. *)
CtxInv == HasContext /\ ListedTogether /\ ListedCounted /\ DetachedAreBeingFreed

LEMMA MembersFinite ==
  ASSUME NEW c
  PROVE  IsFiniteSet(Members(c)) /\ Cardinality(Members(c)) \in Nat
<1>1. Members(c) \in SUBSET Sess
  BY DEF Members
<1> QED
  BY <1>1, MemAssumption, FS_Subset, FS_CardinalityType

LEMMA CtxInit == Init => CtxInv
<1> SUFFICES ASSUME Init PROVE CtxInv
  OBVIOUS
<1> QED
  BY DEF Init, CtxInv, HasContext, ListedTogether, ListedCounted, DetachedAreBeingFreed, Detached

(* Most steps leave the sessions' contexts alone. *)
LEMMA CtxAlone ==
  ASSUME CtxInv, MemInv, UNCHANGED <<ctxVars, sCtx>>,
         \A x \in Sess : \/ sState'[x] = sState[x]
                         \/ sState[x] = "OPEN" /\ sState'[x] = "CLOSED",
         reapPc' \in {"idle", "ctx"} => reapPc \in {"idle", "ctx"}
  PROVE  CtxInv'
<1> USE DEF ctxVars
<1>1. \A c : Members(c)' = Members(c)
  BY DEF Members
<1>2. HasContext' /\ ListedTogether'
  BY DEF CtxInv, HasContext, ListedTogether
<1>3. ListedCounted'
  BY <1>1 DEF CtxInv, ListedCounted
<1>4. DetachedAreBeingFreed'
  BY DEF CtxInv, DetachedAreBeingFreed, Detached
<1> QED
  BY <1>2, <1>3, <1>4 DEF CtxInv

(* A new session joins a listed context, or is the only one of a new one. *)
LEMMA CtxOpen ==
  ASSUME CtxInv, MemInv, NEW s \in Sess, NEW p \in Procs, NEW c \in Ctxs, Open(s, p, c)
  PROVE  CtxInv'
<1>1. /\ sState[s] = "NONE" /\ sState' = [sState EXCEPT ![s] = "OPEN"]
      /\ sCtx' = [sCtx EXCEPT ![s] = c] /\ reapPc' = reapPc
  BY DEF Open, reapVars
<1>2. /\ sState'[s] = "OPEN" /\ sCtx'[s] = c
      /\ \A x \in Sess : x # s => sState'[x] = sState[x] /\ sCtx'[x] = sCtx[x]
  BY <1>1 DEF MemInv, MemTypeOK, SessionsTyped
<1>3. p # Nothing /\ \A d \in Ctxs : d # Nothing
  BY MemAssumption
<1>4. /\ c \in ctxListed'
      /\ ctxProc'[c] # Nothing
      /\ ctxListed \subseteq ctxListed'
      /\ \A d \in Ctxs : ctxProc[d] # Nothing => ctxProc'[d] # Nothing
      /\ \A d \in ctxListed' : d # c => d \in ctxListed /\ sessCnt'[d] = sessCnt[d]
  BY <1>3 DEF Open, MemInv, MemTypeOK, SessionsTyped, CountsTyped, CtxInv, ListedCounted
<1>5. HasContext' /\ ListedTogether'
  BY <1>2, <1>4 DEF CtxInv, HasContext, ListedTogether
<1>6. s \notin Members(c) /\ Members(c)' = Members(c) \cup {s}
  BY <1>1, <1>2 DEF Members
<1>7. \A d \in Ctxs : d # c => Members(d)' = Members(d)
  BY <1>1, <1>2 DEF Members
<1>8. sessCnt'[c] = Cardinality(Members(c)')
  <2>1. Cardinality(Members(c)') = Cardinality(Members(c)) + 1
    BY <1>6, MembersFinite, FS_AddElement
  <2>2. CASE c \in ctxListed /\ sessCnt' = [sessCnt EXCEPT ![c] = @ + 1]
    BY <2>1, <2>2 DEF CtxInv, ListedCounted, MemInv, MemTypeOK, CountsTyped
  <2>3. CASE ctxProc[c] = Nothing /\ sessCnt' = [sessCnt EXCEPT ![c] = 1]
    <3>1. Members(c) = {}
      BY <2>3 DEF CtxInv, HasContext, Members
    <3> QED
      BY <2>1, <2>3, <3>1, FS_EmptySet DEF MemInv, MemTypeOK, CountsTyped
  <2> QED
    BY <2>2, <2>3 DEF Open
<1>9. ListedCounted'
  <2> SUFFICES ASSUME NEW d \in ctxListed'
               PROVE  ctxProc'[d] # Nothing /\ sessCnt'[d] = Cardinality(Members(d)')
    BY DEF ListedCounted
  <2>1. CASE d = c
    BY <2>1, <1>4, <1>8
  <2>2. CASE d # c
    <3>1. d \in ctxListed /\ d \in Ctxs /\ sessCnt'[d] = sessCnt[d]
      BY <2>2, <1>4 DEF MemInv, MemTypeOK, SessionsTyped
    <3> QED
      BY <3>1, <2>2, <1>4, <1>7 DEF CtxInv, ListedCounted
  <2> QED
    BY <2>1, <2>2
<1>10. DetachedAreBeingFreed'
  BY <1>1, <1>2 DEF CtxInv, DetachedAreBeingFreed, Detached
<1> QED
  BY <1>5, <1>9, <1>10 DEF CtxInv

(* A context that keeps a session on the list is not abandoned by those    *)
(* that leave, which are counted off it.                                   *)
LEMMA CtxDetach ==
  ASSUME CtxInv, MemInv, NEW D \in SUBSET Sess, ReapDetach(D)
  PROVE  CtxInv'
<1> DEFINE L(c) == {s \in D : sCtx[s] = c}
<1>1. /\ reapPc' = "take" /\ ctxProc' = ctxProc /\ sCtx' = sCtx
      /\ \A s \in D : sState[s] = "CLOSED"
      /\ \A s \in Sess : sState'[s] = IF s \in D THEN "DETACHED" ELSE sState[s]
      /\ \A c \in Ctxs : sessCnt'[c] = sessCnt[c] - Cardinality(L(c))
      /\ ctxListed' = {c \in ctxListed : ~Abandoned(D, c)}
  BY DEF ReapDetach, Leaving
<1>2. \A c : L(c) \subseteq Members(c) /\ Members(c)' = Members(c) \ L(c)
  BY <1>1 DEF Members
<1>3. ASSUME NEW c
      PROVE  /\ IsFiniteSet(L(c)) /\ Cardinality(L(c)) \in Nat
             /\ Cardinality(Members(c)') = Cardinality(Members(c)) - Cardinality(L(c))
             /\ Cardinality(L(c)) = Cardinality(Members(c)) => L(c) = Members(c)
  <2>1. L(c) \in SUBSET Members(c) /\ Members(c) \cap L(c) = L(c)
    BY <1>2
  <2>2. IsFiniteSet(L(c))
    BY <2>1, MembersFinite, FS_Subset
  <2>3. Cardinality(Members(c) \ L(c)) = Cardinality(Members(c)) - Cardinality(L(c))
    BY <2>1, MembersFinite, FS_Difference
  <2>4. Cardinality(L(c)) = Cardinality(Members(c)) => L(c) = Members(c)
    BY <2>1, MembersFinite, FS_Subset
  <2> QED
    BY <2>2, <2>3, <2>4, <1>2, FS_CardinalityType
<1>4. HasContext'
  BY <1>1 DEF CtxInv, HasContext
<1>5. ListedTogether'
  <2> SUFFICES ASSUME NEW s \in Sess, sState'[s] \in {"OPEN", "CLOSED"}
               PROVE  sCtx'[s] \in ctxListed'
    BY DEF ListedTogether
  <2>1. s \notin D /\ sState[s] \in {"OPEN", "CLOSED"}
    BY <1>1
  <2>2. sCtx[s] \in ctxListed /\ s \in Members(sCtx[s])
    BY <2>1 DEF CtxInv, ListedTogether, Members
  <2>3. s \notin L(sCtx[s])
    BY <2>1
  <2>4. Cardinality(L(sCtx[s])) # sessCnt[sCtx[s]]
    BY <2>2, <2>3, <1>3 DEF CtxInv, ListedCounted
  <2> QED
    BY <1>1, <2>2, <2>4 DEF Abandoned, Leaving
<1>6. ListedCounted'
  <2> SUFFICES ASSUME NEW c \in ctxListed'
               PROVE  ctxProc'[c] # Nothing /\ sessCnt'[c] = Cardinality(Members(c)')
    BY DEF ListedCounted
  <2>1. c \in ctxListed /\ c \in Ctxs
    BY <1>1 DEF MemInv, MemTypeOK, SessionsTyped
  <2> HIDE DEF L
  <2> QED
    BY <2>1, <1>1, <1>3 DEF CtxInv, ListedCounted
<1>7. DetachedAreBeingFreed'
  BY <1>1 DEF DetachedAreBeingFreed
<1> QED
  BY <1>4, <1>5, <1>6, <1>7 DEF CtxInv

(* The contexts are freed after the last session that was taken off. *)
LEMMA CtxFreeSession ==
  ASSUME CtxInv, MemInv, ReapFree
  PROVE  CtxInv'
<1>1. /\ reapSess \in Sess /\ sState[reapSess] = "DETACHED"
      /\ sState' = [sState EXCEPT ![reapSess] = "NONE"]
      /\ sCtx' = [sCtx EXCEPT ![reapSess] = Nothing]
      /\ reapPc' = IF Detached = {reapSess} THEN "ctx" ELSE "take"
      /\ UNCHANGED ctxVars
  BY DEF ReapFree, MemInv, ScanBehind
<1>2. /\ sState'[reapSess] = "NONE"
      /\ \A x \in Sess : x # reapSess => sState'[x] = sState[x] /\ sCtx'[x] = sCtx[x]
  BY <1>1 DEF MemInv, MemTypeOK, SessionsTyped
<1>3. \A c : Members(c)' = Members(c)
  BY <1>1, <1>2 DEF Members
<1>4. HasContext' /\ ListedTogether'
  BY <1>1, <1>2 DEF CtxInv, HasContext, ListedTogether, ctxVars
<1>5. ListedCounted'
  BY <1>1, <1>3 DEF CtxInv, ListedCounted, ctxVars
<1>6. DetachedAreBeingFreed'
  BY <1>1, <1>2 DEF DetachedAreBeingFreed, Detached
<1> QED
  BY <1>4, <1>5, <1>6 DEF CtxInv

LEMMA CtxFree ==
  ASSUME CtxInv, MemInv, ReapCtx
  PROVE  CtxInv'
<1>1. /\ reapPc = "ctx" /\ reapPc' = "idle" /\ UNCHANGED <<ctxListed, sessCnt, sState, sCtx>>
      /\ \A c \in ctxListed : c \in Ctxs /\ ctxProc'[c] = ctxProc[c]
  BY DEF ReapCtx, sessVars, MemInv, MemTypeOK, SessionsTyped
<1>2. Detached = {} /\ \A s \in Sess : sState[s] # "DETACHED"
  BY <1>1 DEF CtxInv, DetachedAreBeingFreed, Detached
<1>3. \A s \in Sess : sState[s] # "NONE" => sCtx[s] \in ctxListed
  BY <1>2 DEF CtxInv, ListedTogether, MemInv, MemTypeOK, SessionsTyped
<1>4. HasContext' /\ ListedTogether'
  BY <1>1, <1>3 DEF CtxInv, HasContext, ListedTogether, ListedCounted
<1>5. \A c : Members(c)' = Members(c)
  BY <1>1 DEF Members
<1>6. ListedCounted' /\ DetachedAreBeingFreed'
  BY <1>1, <1>2, <1>5 DEF CtxInv, ListedCounted, DetachedAreBeingFreed, Detached
<1> QED
  BY <1>4, <1>6 DEF CtxInv

LEMMA CtxNext == CtxInv /\ MemInv /\ [Next]_memAllVars => CtxInv'
<1> SUFFICES ASSUME CtxInv, MemInv, [Next]_memAllVars PROVE CtxInv'
  OBVIOUS
<1>1. CASE UNCHANGED memAllVars
  BY <1>1, CtxAlone DEF memAllVars, sessVars, reapVars
<1>2. ASSUME NEW s \in Sess, UserCall(s) \/ AllocStep(s)
      PROVE  CtxInv'
  <2>1. ASSUME NEW p \in Procs, NEW c \in Ctxs, Open(s, p, c) PROVE CtxInv'
    BY <2>1, CtxOpen
  <2>2. CASE Close(s)
    <3>1. \A x \in Sess : \/ sState'[x] = sState[x]
                          \/ sState[x] = "OPEN" /\ sState'[x] = "CLOSED"
      BY <2>2 DEF Close, MemInv, MemTypeOK, SessionsTyped
    <3> QED
      BY <2>2, <3>1, CtxAlone DEF Close, reapVars
  <2>3. CASE (\E size \in Sizes, kind \in Kinds : Alloc(s, size, kind)) \/ AllocNext(s)
    BY <2>3, AllocKeepsInv, CtxAlone DEF TryRegion, sessVars, reapVars
  <2>4. ASSUME NEW r \in Regions, NEW p \in Pages(r), Free(s, r, p) PROVE CtxInv'
    BY <2>4, CtxAlone DEF Free, sessVars, reapVars
  <2>5. CASE AllocReturn(s) \/ AllocCopyFails(s)
    BY <2>5, CtxAlone DEF AllocReturn, AllocCopyFails, sessVars, reapVars
  <2> QED
    BY <1>2, <2>1, <2>2, <2>3, <2>4, <2>5 DEF UserCall, AllocStep
<1>3. ASSUME NEW D \in SUBSET Sess, ReapDetach(D) PROVE CtxInv'
  BY <1>3, CtxDetach
<1>4. CASE ReapStep
  <2>1. ASSUME NEW s \in Sess, ReapTake(s) PROVE CtxInv'
    BY <2>1, CtxAlone DEF ReapTake, sessVars
  <2>2. CASE ReapScan \/ ReapNextRegion
    BY <2>2, CtxAlone DEF ReapScan, ReapNextRegion, sessVars
  <2>3. CASE ReapFree
    BY <2>3, CtxFreeSession
  <2>4. CASE ReapCtx
    BY <2>4, CtxFree
  <2> QED
    BY <1>4, <2>1, <2>2, <2>3, <2>4 DEF ReapStep
<1> QED
  BY <1>1, <1>2, <1>3, <1>4 DEF Next

LEMMA CtxInductive == Spec => [](MemInv /\ CtxInv)
BY Inductive, CtxInit, CtxNext, PTL DEF Spec

(* The context a session points to is freed only after the session, which  *)
(* the timer still charges for the memory it takes back, for any number of *)
(* processes opening and closing at any moment (sess_cnt of                *)
(* kl1/xpu_session.c).                                                     *)
THEOREM ContextsOutliveSessions == Spec => []ContextOutlives
<1>1. CtxInv => ContextOutlives
  BY DEF CtxInv, HasContext, ListedCounted, Members, ContextOutlives
<1> QED
  BY <1>1, CtxInductive, PTL

-----------------------------------------------------------------------------
(* The pages. *)

(* A page held by the sessions of c. *)
Held(c, kind, x) ==
  \E r \in Regions : \E p \in Heads(r) : \E y \in Extent(r, p) :
    /\ Kind(r) = kind /\ sCtx[ownerTable[r][p]] = c
    /\ x = <<r, y>>

LEMMA HeldPages ==
  ASSUME NEW c, NEW kind
  PROVE  /\ \A x : x \in HeldBy(c, kind) <=> Held(c, kind, x)
         /\ \A x : x \in HeldBy(c, kind)' <=> Held(c, kind, x)'
<1>1. ASSUME NEW x PROVE x \in HeldBy(c, kind) <=> Held(c, kind, x)
  BY DEF HeldBy, Held
<1>2. ASSUME NEW x PROVE x \in HeldBy(c, kind)' <=> Held(c, kind, x)'
  BY DEF HeldBy, Held
<1> QED
  BY <1>1, <1>2

(* The books of one context. *)
Charged(c) ==
  /\ IsFiniteSet(HeldBy(c, "HBM")) /\ mainUsed[c] = Cardinality(HeldBy(c, "HBM"))
  /\ IsFiniteSet(HeldBy(c, "L3")) /\ cacheUsed[c] = Cardinality(HeldBy(c, "L3"))

BooksInv ==
  /\ \A r \in Regions : pageUsed[r] = Cardinality(bitmap[r])
  /\ \A c \in Ctxs : ctxProc[c] # Nothing => Charged(c)

LEMMA BitmapFinite ==
  ASSUME TablesTyped, NEW r \in Regions
  PROVE  IsFiniteSet(bitmap[r]) /\ Cardinality(bitmap[r]) \in Nat
<1>1. PageCount[r] - 1 \in Int
  BY MemAssumption
<1>2. IsFiniteSet(Pages(r))
  BY <1>1, FS_Interval DEF Pages
<1>3. bitmap[r] \in SUBSET Pages(r)
  BY DEF TablesTyped
<1> QED
  BY <1>2, <1>3, FS_Subset, FS_CardinalityType

(* n pages from p on. *)
LEMMA PagesFrom ==
  ASSUME NEW p \in Nat, NEW n \in Nat
  PROVE  IsFiniteSet(p .. (p + n - 1)) /\ Cardinality(p .. (p + n - 1)) = n
BY FS_Interval

(* Naming the region of some pages does not change their number. *)
LEMMA PagesOfRegion ==
  ASSUME NEW I, IsFiniteSet(I), NEW r
  PROVE  IsFiniteSet({r} \X I) /\ Cardinality({r} \X I) = Cardinality(I)
<1>1. IsFiniteSet({r}) /\ Cardinality({r}) = 1 /\ Cardinality(I) \in Nat
  BY FS_Singleton, FS_CardinalityType
<1>2. IsFiniteSet({r} \X I) /\ Cardinality({r} \X I) = 1 * Cardinality(I)
  BY <1>1, FS_Product
<1> QED
  BY <1>1, <1>2

(* The pages a step adds or removes, in numbers. *)
LEMMA Adding ==
  ASSUME NEW S, NEW J, IsFiniteSet(S), IsFiniteSet(J), S \cap J = {}
  PROVE  IsFiniteSet(S \cup J) /\ Cardinality(S \cup J) = Cardinality(S) + Cardinality(J)
<1>1. Cardinality(S \cap J) = 0
  BY FS_EmptySet
<1>2. /\ IsFiniteSet(S \cup J)
      /\ Cardinality(S \cup J) = Cardinality(S) + Cardinality(J) - Cardinality(S \cap J)
  BY FS_Union
<1> QED
  BY <1>1, <1>2, FS_CardinalityType

LEMMA Removing ==
  ASSUME NEW S, NEW J, IsFiniteSet(S), J \subseteq S
  PROVE  IsFiniteSet(S \ J) /\ Cardinality(S \ J) = Cardinality(S) - Cardinality(J)
<1>1. S \cap J = J
  OBVIOUS
<1> QED
  BY <1>1, FS_Difference

(* Tables and owners that stay hold the same pages. *)
LEMMA SameHeld ==
  ASSUME \A t \in Regions : Heads(t)' = Heads(t),
         \A t \in Regions : \A q \in Heads(t) :
           /\ freeTable'[t][q] = freeTable[t][q]
           /\ sCtx'[ownerTable'[t][q]] = sCtx[ownerTable[t][q]],
         NEW c, NEW kind
  PROVE  HeldBy(c, kind)' = HeldBy(c, kind)
<1>1. ASSUME NEW x PROVE Held(c, kind, x)' <=> Held(c, kind, x)
  BY DEF Held, Extent
<1>2. \A x : x \in HeldBy(c, kind)' <=> x \in HeldBy(c, kind)
  BY <1>1, HeldPages
<1> QED
  BY <1>2

LEMMA TakeAdds ==
  ASSUME MemInv, NEW s \in Sess, NEW r \in Regions, NEW n \in Nat,
         NEW p \in ZeroAreas(r, n), Take(s, r, p, n), UNCHANGED sCtx,
         NEW c, NEW kind
  PROVE  /\ HeldBy(c, kind) \cap ({r} \X (p .. (p + n - 1))) = {}
         /\ HeldBy(c, kind)' = IF Kind(r) = kind /\ sCtx[s] = c
                               THEN HeldBy(c, kind) \cup ({r} \X (p .. (p + n - 1)))
                               ELSE HeldBy(c, kind)
<1> DEFINE I == p .. (p + n - 1)
           Own == Kind(r) = kind /\ sCtx[s] = c
<1>1. /\ p \in Pages(r) /\ p \notin Heads(r)
      /\ \A q \in Heads(r) : EndOf(r, q) <= p \/ p + n <= q
      /\ \A t \in Regions : Heads(t)' = IF t = r /\ n # 0 THEN Heads(t) \cup {p} ELSE Heads(t)
      /\ \A t \in Regions : \A q \in Pages(t) :
           t # r \/ q # p => /\ freeTable'[t][q] = freeTable[t][q]
                             /\ ownerTable'[t][q] = ownerTable[t][q]
      /\ freeTable'[r][p] = n /\ ownerTable'[r][p] = s
  BY TakeKeepsTiling DEF MemInv, MemTypeOK
<1>2. p \in Nat /\ \A q \in Heads(r) : q \in Nat /\ freeTable[r][q] \in Nat
  BY <1>1, MemAssumption DEF Pages, Heads, MemInv, MemTypeOK, TablesTyped
<1>3. ASSUME NEW q \in Heads(r) PROVE Extent(r, q) \cap I = {}
  <2> SUFFICES ASSUME NEW y \in Extent(r, q), y \in I PROVE FALSE
    OBVIOUS
  <2>1. EndOf(r, q) <= p \/ p + n <= q
    BY <1>1
  <2> QED
    BY <2>1, <1>2 DEF EndOf, Extent
<1>4. HeldBy(c, kind) \cap ({r} \X I) = {}
  <2> SUFFICES ASSUME NEW x \in HeldBy(c, kind), x \in {r} \X I PROVE FALSE
    OBVIOUS
  <2>1. PICK t, q, y : t \in Regions /\ q \in Heads(t) /\ y \in Extent(t, q) /\ x = <<t, y>>
    BY HeldPages DEF Held
  <2>2. t = r /\ y \in I
    BY <2>1
  <2> QED
    BY <2>1, <2>2, <1>3
<1>5. \A t \in Regions : \A q \in Heads(t) :
        /\ q \in Heads(t)' /\ Extent(t, q)' = Extent(t, q)
        /\ ownerTable'[t][q] = ownerTable[t][q]
  BY <1>1 DEF Heads, Extent
<1>6. Extent(r, p)' = I
  BY <1>1 DEF Extent
<1>7. ASSUME NEW x \in HeldBy(c, kind) PROVE x \in HeldBy(c, kind)'
  <2>1. PICK t, q, y :
          /\ t \in Regions /\ q \in Heads(t) /\ y \in Extent(t, q)
          /\ Kind(t) = kind /\ sCtx[ownerTable[t][q]] = c /\ x = <<t, y>>
    BY <1>7, HeldPages DEF Held
  <2>2. q \in Heads(t)' /\ y \in Extent(t, q)' /\ sCtx'[ownerTable'[t][q]] = c
    BY <2>1, <1>5
  <2>3. Held(c, kind, x)'
    BY <2>1, <2>2 DEF Held
  <2> QED
    BY <2>3, HeldPages
<1>8. ASSUME NEW x \in {r} \X I, Own PROVE x \in HeldBy(c, kind)'
  <2>1. PICK y \in I : x = <<r, y>>
    OBVIOUS
  <2>2. n # 0
    BY <2>1, <1>2
  <2>3. p \in Heads(r)' /\ y \in Extent(r, p)' /\ sCtx'[ownerTable'[r][p]] = c
    BY <2>1, <2>2, <1>1, <1>6, <1>8
  <2>4. Held(c, kind, x)'
    BY <2>1, <2>3, <1>8 DEF Held
  <2> QED
    BY <2>4, HeldPages
<1>9. ASSUME NEW x \in HeldBy(c, kind)'
      PROVE  x \in HeldBy(c, kind) \/ (Own /\ x \in {r} \X I)
  <2>0. Held(c, kind, x)'
    BY <1>9, HeldPages
  <2>1. \E t \in Regions : \E q \in Heads(t)' : \E y \in Extent(t, q)' :
          Kind(t) = kind /\ sCtx'[ownerTable'[t][q]] = c /\ x = <<t, y>>
    BY <2>0 DEF Held
  <2>2. PICK t, q, y :
          /\ t \in Regions /\ q \in Heads(t)' /\ y \in Extent(t, q)'
          /\ Kind(t) = kind /\ sCtx'[ownerTable'[t][q]] = c /\ x = <<t, y>>
    BY <2>1
  <2>3. CASE t = r /\ q = p
    BY <2>2, <2>3, <1>1, <1>6
  <2>4. CASE t # r \/ q # p
    <3>1. q \in Heads(t)
      BY <2>2, <2>4, <1>1
    <3>2. y \in Extent(t, q) /\ sCtx[ownerTable[t][q]] = c
      BY <3>1, <2>2, <1>5
    <3>3. Held(c, kind, x)
      BY <3>1, <3>2, <2>2 DEF Held
    <3> QED
      BY <3>3, HeldPages
  <2> QED
    BY <2>3, <2>4
<1> QED
  BY <1>4, <1>7, <1>8, <1>9

LEMMA FreeRemoves ==
  ASSUME MemInv, NEW s \in Sess, NEW r \in Regions, NEW p \in Pages(r), FreeLocked(s, r, p),
         Freeable(s, r, p), UNCHANGED sCtx, NEW c, NEW kind
  PROVE  /\ Kind(r) = kind /\ sCtx[s] = c => ({r} \X Extent(r, p)) \subseteq HeldBy(c, kind)
         /\ HeldBy(c, kind)' = IF Kind(r) = kind /\ sCtx[s] = c
                               THEN HeldBy(c, kind) \ ({r} \X Extent(r, p))
                               ELSE HeldBy(c, kind)
<1> DEFINE I == Extent(r, p)
           Own == Kind(r) = kind /\ sCtx[s] = c
<1>1. /\ p \in Heads(r) /\ ownerTable[r][p] = s
      /\ \A t \in Regions : Heads(t)' = IF t = r THEN Heads(t) \ {p} ELSE Heads(t)
      /\ \A t \in Regions : \A q \in Heads(t)' : /\ freeTable'[t][q] = freeTable[t][q]
                                                 /\ ownerTable'[t][q] = ownerTable[t][q]
  BY FreeKeepsTiling DEF MemInv, MemTypeOK, Freeable
<1>2. \A q \in Heads(r) : q \in Nat /\ freeTable[r][q] \in Nat
  BY MemAssumption DEF Pages, Heads, MemInv, MemTypeOK, TablesTyped
<1>3. ASSUME NEW q \in Heads(r), q # p PROVE Extent(r, q) \cap I = {}
  <2> SUFFICES ASSUME NEW y \in Extent(r, q), y \in I PROVE FALSE
    OBVIOUS
  <2>1. EndOf(r, q) <= p \/ EndOf(r, p) <= q
    BY <1>1, <1>2, <1>3 DEF MemInv, Tiling, Tiled
  <2> QED
    BY <2>1, <1>1, <1>2 DEF EndOf, Extent
<1>4. ASSUME NEW x \in {r} \X I, Own PROVE x \in HeldBy(c, kind)
  <2>1. PICK y \in I : x = <<r, y>>
    OBVIOUS
  <2>2. Held(c, kind, x)
    BY <2>1, <1>1, <1>4 DEF Held
  <2> QED
    BY <2>2, HeldPages
<1>5. ASSUME NEW x \in HeldBy(c, kind), x \notin {r} \X I \/ ~Own PROVE x \in HeldBy(c, kind)'
  <2>1. PICK t, q, y :
          /\ t \in Regions /\ q \in Heads(t) /\ y \in Extent(t, q)
          /\ Kind(t) = kind /\ sCtx[ownerTable[t][q]] = c /\ x = <<t, y>>
    BY <1>5, HeldPages DEF Held
  <2>2. ~(t = r /\ q = p)
    BY <2>1, <1>1, <1>5
  <2>3. q \in Heads(t)'
    BY <2>1, <2>2, <1>1
  <2>4. y \in Extent(t, q)' /\ sCtx'[ownerTable'[t][q]] = c
    BY <2>1, <2>3, <1>1 DEF Extent
  <2>5. Held(c, kind, x)'
    BY <2>1, <2>3, <2>4 DEF Held
  <2> QED
    BY <2>5, HeldPages
<1>6. ASSUME NEW x \in HeldBy(c, kind)'
      PROVE  x \in HeldBy(c, kind) /\ x \notin {r} \X I
  <2>0. Held(c, kind, x)'
    BY <1>6, HeldPages
  <2>1. \E t \in Regions : \E q \in Heads(t)' : \E y \in Extent(t, q)' :
          Kind(t) = kind /\ sCtx'[ownerTable'[t][q]] = c /\ x = <<t, y>>
    BY <2>0 DEF Held
  <2>2. PICK t, q, y :
          /\ t \in Regions /\ q \in Heads(t)' /\ y \in Extent(t, q)'
          /\ Kind(t) = kind /\ sCtx'[ownerTable'[t][q]] = c /\ x = <<t, y>>
    BY <2>1
  <2>3. q \in Heads(t) /\ ~(t = r /\ q = p)
    BY <2>2, <1>1
  <2>4. y \in Extent(t, q) /\ sCtx[ownerTable[t][q]] = c
    BY <2>2, <1>1 DEF Extent
  <2>5. Held(c, kind, x)
    BY <2>2, <2>3, <2>4 DEF Held
  <2>6. x \notin {r} \X I
    BY <2>2, <2>3, <2>4, <1>3
  <2> QED
    BY <2>5, <2>6, HeldPages
<1> QED
  BY <1>4, <1>5, <1>6

(* The charge of a grant goes to the context that holds it. *)
LEMMA BooksTake ==
  ASSUME BooksInv, MemInv, NEW s \in Sess, NEW r \in Regions, NEW n \in Nat,
         NEW p \in ZeroAreas(r, n), Take(s, r, p, n), sCtx[s] \in Ctxs,
         UNCHANGED <<sCtx, ctxProc>>
  PROVE  BooksInv'
<1> DEFINE I == p .. (p + n - 1)
<1>1. p \in Nat /\ p + n <= PageCount[r] /\ I \cap bitmap[r] = {}
  BY MemAssumption DEF ZeroAreas, Fits, Pages
<1>2. IsFiniteSet(I) /\ Cardinality(I) = n
  BY <1>1, PagesFrom
<1>3. \A t \in Regions : pageUsed'[t] = Cardinality(bitmap'[t])
  <2>1. /\ bitmap'[r] = bitmap[r] \cup I /\ pageUsed'[r] = pageUsed[r] + n
        /\ \A t \in Regions : t # r => bitmap'[t] = bitmap[t] /\ pageUsed'[t] = pageUsed[t]
    BY DEF Take, MemInv, MemTypeOK, TablesTyped, CountsTyped
  <2>2. IsFiniteSet(bitmap[r])
    BY BitmapFinite DEF MemInv, MemTypeOK
  <2>3. bitmap[r] \cap I = {}
    BY <1>1
  <2> HIDE DEF I
  <2>4. Cardinality(bitmap[r] \cup I) = Cardinality(bitmap[r]) + n
    BY <1>2, <2>2, <2>3, Adding
  <2> QED
    BY <2>1, <2>4 DEF BooksInv
<1>4. ASSUME NEW c \in Ctxs, ctxProc'[c] # Nothing PROVE Charged(c)'
  <2> DEFINE J == {r} \X I
             Grown(kind) == Kind(r) = kind /\ sCtx[s] = c
  <2>1. Charged(c)
    BY <1>4 DEF BooksInv
  <2>2. IsFiniteSet(J) /\ Cardinality(J) = n
    BY <1>2, PagesOfRegion
  <2>3. \A kind : /\ HeldBy(c, kind) \cap J = {}
                  /\ HeldBy(c, kind)' = IF Grown(kind) THEN HeldBy(c, kind) \cup J
                                                       ELSE HeldBy(c, kind)
    BY TakeAdds
  <2>4. ASSUME NEW kind, IsFiniteSet(HeldBy(c, kind))
        PROVE  /\ IsFiniteSet(HeldBy(c, kind)')
               /\ Cardinality(HeldBy(c, kind)') =
                    IF Grown(kind) THEN Cardinality(HeldBy(c, kind)) + n
                                   ELSE Cardinality(HeldBy(c, kind))
    <3>1. CASE Grown(kind)
      <4>1. HeldBy(c, kind)' = HeldBy(c, kind) \cup J
        BY <2>3, <3>1
      <4> HIDE DEF J
      <4>2. /\ IsFiniteSet(HeldBy(c, kind) \cup J)
            /\ Cardinality(HeldBy(c, kind) \cup J) = Cardinality(HeldBy(c, kind)) + n
        BY <2>2, <2>3, <2>4, Adding
      <4> QED
        BY <4>1, <4>2, <3>1
    <3>2. CASE ~Grown(kind)
      BY <2>3, <2>4, <3>2
    <3> QED
      BY <3>1, <3>2
  <2>5. /\ Kind(r) \in {"HBM", "L3"} /\ Charge(s, r, n)
        /\ mainUsed \in [Ctxs -> Int] /\ cacheUsed \in [Ctxs -> Int]
    BY DEF Kind, Take, MemInv, MemTypeOK, CountsTyped
  <2>6. /\ mainUsed'[c] = IF Grown("HBM") THEN mainUsed[c] + n ELSE mainUsed[c]
        /\ cacheUsed'[c] = IF Grown("L3") THEN cacheUsed[c] + n ELSE cacheUsed[c]
    BY <2>5 DEF Charge
  <2>7. /\ IsFiniteSet(HeldBy(c, "HBM")') /\ mainUsed'[c] = Cardinality(HeldBy(c, "HBM")')
        /\ IsFiniteSet(HeldBy(c, "L3")') /\ cacheUsed'[c] = Cardinality(HeldBy(c, "L3")')
    BY <2>1, <2>4, <2>6 DEF Charged
  <2> QED
    BY <2>7 DEF Charged
<1> QED
  BY <1>3, <1>4 DEF BooksInv

(* A release takes the charge of the whole grant back, from the context of *)
(* its owner.                                                              *)
LEMMA BooksFree ==
  ASSUME BooksInv, MemInv, CtxInv, NEW s \in Sess, NEW r \in Regions, NEW p \in Pages(r),
         FreeLocked(s, r, p), UNCHANGED <<sCtx, ctxProc>>
  PROVE  BooksInv'
<1>1. CASE ~Freeable(s, r, p)
  <2>1. UNCHANGED <<memVars, useVars>>
    BY <1>1 DEF FreeLocked
  <2>2. ASSUME NEW c, NEW kind PROVE HeldBy(c, kind)' = HeldBy(c, kind)
    <3>1. \A t \in Regions : Heads(t)' = Heads(t)
      BY <2>1, TablesAlone
    <3>2. \A t \in Regions : \A q \in Heads(t) :
            /\ freeTable'[t][q] = freeTable[t][q]
            /\ sCtx'[ownerTable'[t][q]] = sCtx[ownerTable[t][q]]
      BY <2>1 DEF memVars
    <3> QED
      BY <3>1, <3>2, SameHeld
  <2> QED
    BY <2>1, <2>2 DEF BooksInv, Charged, memVars, useVars
<1>2. CASE Freeable(s, r, p)
  <2> DEFINE I == Extent(r, p)
             n == freeTable[r][p]
  <2>1. p \in Nat /\ n \in Nat /\ I = p .. (p + n - 1) /\ I \subseteq bitmap[r]
    <3>1. p \in Nat /\ n \in Nat /\ PageCount[r] \in Nat /\ I = p .. (p + n - 1)
      BY MemAssumption DEF Pages, Extent, MemInv, MemTypeOK, TablesTyped
    <3>2. p \in Heads(r) /\ p + n <= PageCount[r]
      BY <1>2 DEF Freeable, Heads
    <3>3. ASSUME NEW x \in I PROVE x \in bitmap[r]
      <4>1. x \in Pages(r) /\ p <= x /\ x < EndOf(r, p)
        BY <3>1, <3>2 DEF Pages, EndOf
      <4> QED
        BY <4>1, <3>2 DEF MemInv, Tiling, Tiled
    <3> QED
      BY <3>1, <3>3
  <2>2. \A t \in Regions : pageUsed'[t] = Cardinality(bitmap'[t])
    <3>1. /\ bitmap' = [bitmap EXCEPT ![r] = @ \ I]
          /\ pageUsed' = [pageUsed EXCEPT ![r] = @ - n]
      BY <1>2 DEF FreeLocked
    <3>2. /\ bitmap'[r] = bitmap[r] \ I /\ pageUsed'[r] = pageUsed[r] - n
          /\ \A t \in Regions : t # r => bitmap'[t] = bitmap[t] /\ pageUsed'[t] = pageUsed[t]
      BY <3>1 DEF MemInv, MemTypeOK, TablesTyped, CountsTyped
    <3>3. Cardinality(I) = n
      BY <2>1, PagesFrom
    <3>4. Cardinality(bitmap[r] \ I) = Cardinality(bitmap[r]) - Cardinality(I)
      BY <2>1, BitmapFinite, Removing DEF MemInv, MemTypeOK
    <3> QED
      BY <3>2, <3>3, <3>4 DEF BooksInv
  <2>3. ASSUME NEW c \in Ctxs, ctxProc'[c] # Nothing PROVE Charged(c)'
    <3> DEFINE J == {r} \X I
               Shrunk(kind) == Kind(r) = kind /\ sCtx[s] = c
    <3>1. Charged(c)
      BY <2>3 DEF BooksInv
    <3>2. IsFiniteSet(J) /\ Cardinality(J) = n
      <4>1. IsFiniteSet(I) /\ Cardinality(I) = n
        BY <2>1, PagesFrom
      <4> HIDE DEF I
      <4> QED
        BY <4>1, PagesOfRegion
    <3>3. \A kind : /\ Shrunk(kind) => J \subseteq HeldBy(c, kind)
                    /\ HeldBy(c, kind)' = IF Shrunk(kind) THEN HeldBy(c, kind) \ J
                                                          ELSE HeldBy(c, kind)
      BY <1>2, FreeRemoves
    <3>4. ASSUME NEW kind, IsFiniteSet(HeldBy(c, kind))
          PROVE  /\ IsFiniteSet(HeldBy(c, kind)')
                 /\ Cardinality(HeldBy(c, kind)') =
                      IF Shrunk(kind) THEN Cardinality(HeldBy(c, kind)) - n
                                      ELSE Cardinality(HeldBy(c, kind))
      <4>1. CASE Shrunk(kind)
        <5>1. HeldBy(c, kind)' = HeldBy(c, kind) \ J /\ J \subseteq HeldBy(c, kind)
          BY <3>3, <4>1
        <5> HIDE DEF J
        <5>2. /\ IsFiniteSet(HeldBy(c, kind) \ J)
              /\ Cardinality(HeldBy(c, kind) \ J) = Cardinality(HeldBy(c, kind)) - n
          BY <3>2, <3>4, <5>1, Removing
        <5> QED
          BY <5>1, <5>2, <4>1
      <4>2. CASE ~Shrunk(kind)
        BY <3>3, <3>4, <4>2
      <4> QED
        BY <4>1, <4>2
    <3>5. /\ Kind(r) \in {"HBM", "L3"} /\ Charge(s, r, -n)
          /\ mainUsed \in [Ctxs -> Int] /\ cacheUsed \in [Ctxs -> Int]
      BY <1>2 DEF Kind, FreeLocked, MemInv, MemTypeOK, CountsTyped
    <3>6. /\ mainUsed'[c] = IF Shrunk("HBM") THEN mainUsed[c] - n ELSE mainUsed[c]
          /\ cacheUsed'[c] = IF Shrunk("L3") THEN cacheUsed[c] - n ELSE cacheUsed[c]
      BY <2>1, <3>5 DEF Charge
    <3>7. /\ IsFiniteSet(HeldBy(c, "HBM")') /\ mainUsed'[c] = Cardinality(HeldBy(c, "HBM")')
          /\ IsFiniteSet(HeldBy(c, "L3")') /\ cacheUsed'[c] = Cardinality(HeldBy(c, "L3")')
      BY <3>1, <3>4, <3>6 DEF Charged
    <3> QED
      BY <3>7 DEF Charged
  <2> QED
    BY <2>2, <2>3 DEF BooksInv
<1> QED
  BY <1>1, <1>2

(* A step that leaves the tables, the charges and the owners' contexts     *)
(* alone, and makes no context.                                            *)
LEMMA BooksAlone ==
  ASSUME BooksInv, MemInv, UNCHANGED <<memVars, useVars>>,
         \A t \in Regions : \A q \in Heads(t) : sCtx'[ownerTable[t][q]] = sCtx[ownerTable[t][q]],
         \A c \in Ctxs : ctxProc'[c] # Nothing => ctxProc[c] # Nothing
  PROVE  BooksInv'
<1>1. \A t \in Regions : Heads(t)' = Heads(t)
  BY TablesAlone
<1>2. \A t \in Regions : \A q \in Heads(t) :
        /\ freeTable'[t][q] = freeTable[t][q]
        /\ sCtx'[ownerTable'[t][q]] = sCtx[ownerTable[t][q]]
  BY DEF memVars
<1>3. ASSUME NEW c, NEW kind PROVE HeldBy(c, kind)' = HeldBy(c, kind)
  BY <1>1, <1>2, SameHeld
<1> QED
  BY <1>3 DEF BooksInv, Charged, memVars, useVars

(* Nothing is charged to a context that is made anew. *)
LEMMA BooksOpen ==
  ASSUME BooksInv, MemInv, CtxInv, NEW s \in Sess, NEW p \in Procs, NEW c \in Ctxs, Open(s, p, c)
  PROVE  BooksInv'
<1>1. UNCHANGED memVars /\ sState[s] = "NONE" /\ sCtx' = [sCtx EXCEPT ![s] = c]
  BY DEF Open
<1>2. \A t \in Regions : \A q \in Heads(t) :
        /\ ownerTable[t][q] \in Sess /\ ownerTable[t][q] # s
        /\ ctxProc[sCtx[ownerTable[t][q]]] # Nothing
  BY <1>1 DEF MemInv, Owned, CtxInv, HasContext
<1>3. \A t \in Regions : \A q \in Heads(t) : sCtx'[ownerTable[t][q]] = sCtx[ownerTable[t][q]]
  BY <1>1, <1>2 DEF MemInv, MemTypeOK, SessionsTyped
<1>4. CASE UNCHANGED <<ctxProc, useVars>>
  BY <1>1, <1>3, <1>4, BooksAlone
<1>5. CASE /\ ctxProc[c] = Nothing /\ ctxProc' = [ctxProc EXCEPT ![c] = p]
           /\ mainUsed' = [mainUsed EXCEPT ![c] = 0]
           /\ cacheUsed' = [cacheUsed EXCEPT ![c] = 0]
  <2>1. \A t \in Regions : Heads(t)' = Heads(t)
    BY <1>1, TablesAlone
  <2>2. \A t \in Regions : \A q \in Heads(t) :
          /\ freeTable'[t][q] = freeTable[t][q]
          /\ sCtx'[ownerTable'[t][q]] = sCtx[ownerTable[t][q]]
    BY <1>1, <1>3 DEF memVars
  <2>3. ASSUME NEW d, NEW kind PROVE HeldBy(d, kind)' = HeldBy(d, kind)
    BY <2>1, <2>2, SameHeld
  <2>4. ASSUME NEW kind PROVE HeldBy(c, kind) = {}
    <3>1. ASSUME NEW x \in HeldBy(c, kind) PROVE FALSE
      <4>1. PICK t, q, y :
              t \in Regions /\ q \in Heads(t) /\ sCtx[ownerTable[t][q]] = c
        BY <3>1, HeldPages DEF Held
      <4> QED
        BY <4>1, <1>2, <1>5
    <3> QED
      BY <3>1
  <2>5. Charged(c)'
    <3>1. mainUsed'[c] = 0 /\ cacheUsed'[c] = 0
      BY <1>5 DEF MemInv, MemTypeOK, CountsTyped
    <3>2. HeldBy(c, "HBM")' = {} /\ HeldBy(c, "L3")' = {}
      BY <2>3, <2>4
    <3> QED
      BY <3>1, <3>2, FS_EmptySet DEF Charged
  <2>6. ASSUME NEW d \in Ctxs, d # c, ctxProc'[d] # Nothing PROVE Charged(d)'
    <3>1. ctxProc[d] # Nothing /\ mainUsed'[d] = mainUsed[d] /\ cacheUsed'[d] = cacheUsed[d]
      BY <1>5, <2>6 DEF MemInv, MemTypeOK, CountsTyped, SessionsTyped
    <3> QED
      BY <3>1, <2>3 DEF BooksInv, Charged
  <2> QED
    BY <1>1, <2>5, <2>6 DEF BooksInv, memVars
<1> QED
  BY <1>4, <1>5 DEF Open

(* One turn of an allocation. *)
LEMMA BooksTry ==
  ASSUME BooksInv, MemInv, CtxInv, NEW s \in Sess, sState[s] = "OPEN",
         NEW size \in Sizes, NEW rest \in Seq(Regions) \ {<<>>},
         TryRegion(s, size, rest)
  PROVE  BooksInv'
<1>1. PICK r \in Regions, n \in Nat : r = Head(rest) /\ n = PageNeeded(r, size)
  BY HeadTailProperties, PagesNeeded
<1>2. UNCHANGED <<sCtx, ctxProc>> /\ sCtx[s] \in Ctxs
  BY DEF TryRegion, ctxVars, sessVars, CtxInv, HasContext
<1>3. CASE UNCHANGED <<memVars, useVars>>
  BY <1>2, <1>3, BooksAlone
<1>4. ASSUME NEW p \in ZeroAreas(r, n), Take(s, r, p, n) PROVE BooksInv'
  BY <1>2, <1>4, BooksTake
<1> QED
  BY <1>1, <1>3, <1>4 DEF TryRegion, IsLeast

LEMMA BooksInit == Init => BooksInv
<1> SUFFICES ASSUME Init PROVE BooksInv
  OBVIOUS
<1> QED
  BY FS_EmptySet DEF Init, BooksInv

LEMMA BooksNext == BooksInv /\ MemInv /\ CtxInv /\ [Next]_memAllVars => BooksInv'
<1> SUFFICES ASSUME BooksInv, MemInv, CtxInv, [Next]_memAllVars PROVE BooksInv'
  OBVIOUS
<1>1. CASE UNCHANGED memAllVars
  BY <1>1, BooksAlone DEF memAllVars, sessVars, ctxVars
<1>2. ASSUME NEW s \in Sess, UserCall(s) \/ AllocStep(s)
      PROVE  BooksInv'
  <2>1. ASSUME NEW p \in Procs, NEW c \in Ctxs, Open(s, p, c) PROVE BooksInv'
    BY <2>1, BooksOpen
  <2>2. CASE Close(s) \/ AllocReturn(s)
    BY <2>2, BooksAlone DEF Close, AllocReturn, sessVars, ctxVars
  <2>3. CASE (\E size \in Sizes, kind \in Kinds : Alloc(s, size, kind)) \/ AllocNext(s)
    BY <2>3, AllocKeepsInv, BooksTry
  <2>4. ASSUME NEW r \in Regions, NEW p \in Pages(r), Free(s, r, p) PROVE BooksInv'
    BY <2>4, BooksFree DEF Free, sessVars, ctxVars
  <2>5. CASE AllocCopyFails(s)
    <3>1. at[s][1] \in Regions /\ at[s][2] \in Pages(at[s][1])
      BY <2>5 DEF AllocCopyFails, MemInv, MemTypeOK, CallsTyped
    <3> QED
      BY <2>5, <3>1, BooksFree DEF AllocCopyFails, sessVars, ctxVars
  <2> QED
    BY <1>2, <2>1, <2>2, <2>3, <2>4, <2>5 DEF UserCall, AllocStep
<1>3. ASSUME NEW D \in SUBSET Sess, ReapDetach(D) PROVE BooksInv'
  BY <1>3, BooksAlone DEF ReapDetach
<1>4. CASE ReapStep
  <2>1. ASSUME NEW s \in Sess, ReapTake(s) PROVE BooksInv'
    BY <2>1, BooksAlone DEF ReapTake, sessVars, ctxVars
  <2>2. CASE ReapScan
    <3>1. UNCHANGED <<sCtx, ctxProc>>
      BY <2>2 DEF ReapScan, sessVars, ctxVars
    <3>2. PICK p \in BitsFrom(ReapRegion, reapOffset) :
            /\ IsLeast(p, BitsFrom(ReapRegion, reapOffset))
            /\ IF ownerTable[ReapRegion][p] = reapSess
               THEN FreeLocked(reapSess, ReapRegion, p)
               ELSE UNCHANGED <<memVars, useVars>>
      BY <2>2 DEF ReapScan
    <3>3. ReapRegion \in Regions /\ reapSess \in Sess /\ p \in Pages(ReapRegion)
      BY <2>2, <3>2, ScanTurn DEF ReapScan
    <3>4. PICK r \in Regions, s \in Sess : r = ReapRegion /\ s = reapSess
      BY <3>3
    <3>5. CASE FreeLocked(s, r, p)
      BY <3>1, <3>3, <3>4, <3>5, BooksFree
    <3>6. CASE UNCHANGED <<memVars, useVars>>
      BY <3>1, <3>6, BooksAlone
    <3> QED
      BY <3>2, <3>4, <3>5, <3>6
  <2>3. CASE ReapNextRegion
    BY <2>3, BooksAlone DEF ReapNextRegion, sessVars, ctxVars
  <2>4. CASE ReapFree
    <3>1. /\ \A t \in Regions : NoneIn(t, reapSess)
          /\ sCtx' = [sCtx EXCEPT ![reapSess] = Nothing]
      BY <2>4 DEF ReapFree, MemInv, ScanBehind
    <3>2. \A t \in Regions : \A q \in Heads(t) :
            sCtx'[ownerTable[t][q]] = sCtx[ownerTable[t][q]]
      BY <3>1 DEF NoneIn, MemInv, MemTypeOK, SessionsTyped, Owned
    <3> QED
      BY <2>4, <3>2, BooksAlone DEF ReapFree, ctxVars
  <2>5. CASE ReapCtx
    BY <2>5, BooksAlone DEF ReapCtx, sessVars
  <2> QED
    BY <1>4, <2>1, <2>2, <2>3, <2>4, <2>5 DEF ReapStep
<1> QED
  BY <1>1, <1>2, <1>3, <1>4 DEF Next

(* page_used of a region is the number of pages marked in its bitmap, and  *)
(* a context is charged for exactly the pages its sessions hold, also      *)
(* while the timer takes them back page by page and after a grant whose    *)
(* rounded size wrapped to no page (__malloc_locked and __free_locked of   *)
(* kl1/xpu_mem.c).                                                         *)
THEOREM BooksAlwaysBalance == Spec => []PagesAccounted
<1>1. BooksInv => PagesAccounted
  BY DEF BooksInv, Charged, PagesAccounted
<1>2. Spec => []BooksInv
  BY CtxInductive, BooksInit, BooksNext, PTL DEF Spec
<1> QED
  BY <1>1, <1>2, PTL
=============================================================================
