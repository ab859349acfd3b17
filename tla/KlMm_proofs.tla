----------------------------- MODULE KlMm_proofs -----------------------------
(***************************************************************************)
(* The memory manager of R200 for any memories, page counts, sessions,     *)
(* threads and sizes: its tables, copied to and from huge_mem, tell of the *)
(* same disjoint grants, no call keeps a lock, and it implements           *)
(* DeviceMemory.                                                           *)
(*                                                                         *)
(* Grants are kept as the abstract records, by place instead of by memory  *)
(* and page, so that one that spans memories is no special case: a step    *)
(* adds one record, takes one away or leaves them, and what the tables say *)
(* follows (AddGrant, DropGrant).                                          *)
(***************************************************************************)
EXTENDS KlMm, FiniteSetTheorems, TLAPS

EndOf(g) == g.first + g.len

(* The pages of a space. *)
Limit(m) == IF m \in Main THEN HugeCount ELSE PageCount[m]

Disjoint(g, h) == g.region = h.region => EndOf(g) <= h.first \/ EndOf(h) <= g.first

(* The grants tile the bitmaps. *)
Tiled ==
  /\ \A g \in Grants : EndOf(g) <= SpaceSize[g.region]
  /\ \A g, h \in Grants : g # h => Disjoint(g, h)
  /\ \A m \in Mems : \A p \in Pages(m) :
       p \in bitmap[m] <=> \E g \in Grants : Covers(g, m, p)

(* An entry that is taken back loses its owner, too. *)
Clean == \A m \in Mems : \A p \in Pages(m) : freeTable[m][p] = 0 => ownerTable[m][p] = Nothing

(* huge_mem knows the grants that span.  What it says of others is stale.  *)
HugeKnown ==
  \A m \in Main : \A p \in Heads(m) : Spans(m, p) => hugeTable[Base[m] + p] = freeTable[m][p]

(* Every grant belongs to a session that exists. *)
Owned == \A m \in Mems : \A p \in Heads(m) : sState[ownerTable[m][p]] # "NONE"

(* A spanning grant of session s begins at page p of memory m. *)
Spanning(s, m, p) == p \in Heads(m) /\ Spans(m, p) /\ ownerTable[m][p] = s

InHuge(t) == ~Idle(t) /\ call[t].op = "huge"

(* Who has dropped its lock to go on to __free_huge_mem finds the grant    *)
(* there, since nobody else is about to free it.                           *)
Pending ==
  /\ \A t \in Threads : InHuge(t) => Spanning(call[t].sess, call[t].mem, call[t].page)
  /\ \A t, u \in Threads :
       InHuge(t) /\ InHuge(u) /\ t # u => call[t].mem # call[u].mem \/ call[t].page # call[u].page

OneScanner ==
  \A s, z \in Sess : sState[s] = "SCAN" /\ sState[z] = "SCAN" /\ s # z => reapMem[s] # reapMem[z]

NoneIn(m, s) == \A p \in Heads(m) : ownerTable[m][p] # s

Leaving(s) == sState[s] \in {"LOCK", "SCAN", "HUGE", "RELOCK"}

(* A release leaves nothing of its session behind it but the spanning      *)
(* grant it is about to take back ...                                      *)
Behind(s) ==
  /\ Leaving(s) => \A m \in Mems : m < reapMem[s] => NoneIn(m, s)
  /\ sState[s] \in {"SCAN", "HUGE", "RELOCK"} =>
       \A p \in Heads(reapMem[s]) :
         p < reapPage[s] /\ ownerTable[reapMem[s]][p] = s => sState[s] = "HUGE" /\ p = reapBlk[s]

(* ... no grant reaches over the page g of space x. *)
Between(x, g) == \A h \in Grants : h.region = x /\ h.first < g => EndOf(h) <= g

Scanning(s) == sState[s] = "SCAN" /\ 0 < reapPage[s] /\ reapPage[s] < PageCount[reapMem[s]]

ScanFine(s) ==
  /\ Behind(s)
  /\ Scanning(s) => Between(Space(reapMem[s]), PlaceOf(reapMem[s], reapPage[s]))
  /\ sState[s] = "HUGE" => Spanning(s, reapMem[s], reapBlk[s])
  /\ sState[s] # "HUGE" => reapBlk[s] = 0

(* The inductive invariant: the tables, and who is at work on them. *)
TablesInv == TablesTyped /\ Tiled /\ PartsEntered /\ Clean /\ UsedIsMarked /\ HugeKnown
CallsTyped == DOMAIN call = Threads /\ \A t \in Threads : call[t] # Nothing => CallTyped(call[t])
WorkInv ==
  /\ ReleasesTyped /\ CallsTyped /\ Owned /\ Pending /\ OneScanner
  /\ \A s \in Sess : ScanFine(s)

MmInv == TablesInv /\ WorkInv /\ stuck = FALSE

-----------------------------------------------------------------------------
(* Places *)

(* Memories, their pages and their bases are numbers. *)
LEMMA Sizing ==
  /\ Mems \subseteq Nat \ {0} /\ Main \subseteq Mems
  /\ IsFiniteSet(Mems) /\ IsFiniteSet(Main)
  /\ \A m \in Mems : PageCount[m] \in Nat \ {0} /\ PageSize[m] \in Nat \ {0}
  /\ \A m \in Main : Base[m] \in Nat
  /\ \A m \in Mems : 0 \in Pages(m) /\ \A p \in Pages(m) : p \in Nat /\ p < PageCount[m]
<1> USE MmAssumption
<1>1. Mems \subseteq Nat \ {0} /\ Main \subseteq Mems /\ IsFiniteSet(Mems)
  <2>1. 1 \in Int /\ MemCount \in Int
    OBVIOUS
  <2>2. IsFiniteSet(Mems)
    BY <2>1, FS_Interval DEF Mems
  <2> QED
    BY <2>1, <2>2 DEF Mems, Main
<1>2. IsFiniteSet(Main)
  BY <1>1, FS_Subset
<1>3. /\ \A m \in Mems : PageCount[m] \in Nat \ {0} /\ PageSize[m] \in Nat \ {0}
      /\ \A m \in Main : Base[m] \in Nat
  OBVIOUS
<1> QED
  BY <1>1, <1>2, <1>3 DEF Pages

(* huge_mem has as many pages as the MAIN memories. *)
LEMMA HugeSizing ==
  /\ HugeCount \in Nat
  /\ \A g : g \in HugePages <=> g \in Nat /\ g < HugeCount
  /\ \A m \in Main : Base[m] + PageCount[m] <= HugeCount
<1>1. HugeCount \in Nat
  <2> DEFINE U == {Base[m] .. (Base[m] + PageCount[m] - 1) : m \in Main}
  <2>1. IsFiniteSet(U)
    <3> DEFINE f == [m \in Main |-> Base[m] .. (Base[m] + PageCount[m] - 1)]
    <3>1. f \in [Main -> U] /\ \A T \in U : \E m \in Main : f[m] = T
      OBVIOUS
    <3>2. f \in Surjection(Main, U)
      BY <3>1 DEF Surjection
    <3> QED
      BY <3>2, Sizing, FS_Surjection
  <2>2. \A T \in U : IsFiniteSet(T)
    <3> SUFFICES ASSUME NEW m \in Main PROVE IsFiniteSet(Base[m] .. (Base[m] + PageCount[m] - 1))
      OBVIOUS
    <3>1. Base[m] \in Int /\ Base[m] + PageCount[m] - 1 \in Int
      BY Sizing
    <3> QED
      BY <3>1, FS_Interval
  <2>3. IsFiniteSet(UNION U)
    BY <2>1, <2>2, FS_UNION
  <2> QED
    BY <2>3, FS_CardinalityType DEF HugeCount, HugePages
<1>2. \A g : g \in HugePages <=> g \in Nat /\ g < HugeCount
  BY <1>1, MmAssumption
<1>3. ASSUME NEW m \in Main PROVE Base[m] + PageCount[m] <= HugeCount
  <2>1. Base[m] \in Nat /\ PageCount[m] \in Nat \ {0}
    BY Sizing
  <2>2. Base[m] + PageCount[m] - 1 \in HugePages
    BY <2>1 DEF HugePages
  <2> QED
    BY <2>1, <2>2, <1>1, <1>2
<1> QED
  BY <1>1, <1>2, <1>3

(* Pages of one memory have consecutive places within its space. *)
LEMMA Places ==
  ASSUME NEW m \in Mems
  PROVE  /\ PlaceOf(m, 0) \in Nat
         /\ \A p \in Nat : PlaceOf(m, p) = PlaceOf(m, 0) + p
         /\ PlaceOf(m, 0) + PageCount[m] <= Limit(m)
         /\ Limit(m) \in Nat
         /\ Space(m) \in Spaces /\ SpaceSize[Space(m)] = Limit(m)
<1>1. Space(m) \in Spaces
  BY DEF Spaces
<1>2. SpaceSize[Space(m)] = Limit(m)
  BY <1>1, Sizing DEF SpaceSize, Space, Limit
<1> QED
  BY <1>1, <1>2, Sizing, HugeSizing DEF PlaceOf, Limit

(* Two memories of one space lie one behind the other. *)
LEMMA MainApart ==
  ASSUME NEW m \in Mems, NEW k \in Mems, Space(m) = Space(k), m # k
  PROVE  /\ m \in Main /\ k \in Main
         /\ m < k => PlaceOf(m, 0) + PageCount[m] <= PlaceOf(k, 0)
         /\ k < m => PlaceOf(k, 0) + PageCount[k] <= PlaceOf(m, 0)
         /\ m < k \/ k < m
<1>1. m \in Main /\ k \in Main
  BY Sizing DEF Space
<1>2. m < k \/ k < m
  BY Sizing
<1> QED
  BY <1>1, <1>2, MmAssumption, Sizing DEF PlaceOf

(* A place of the device is one page of one memory.                        *)
LEMMA PlaceInjective ==
  ASSUME NEW m \in Mems, NEW k \in Mems, NEW p \in Pages(m), NEW q \in Pages(k),
         Space(m) = Space(k), PlaceOf(m, p) = PlaceOf(k, q)
  PROVE  m = k /\ p = q
<1>1. /\ p \in Nat /\ p < PageCount[m] /\ q \in Nat /\ q < PageCount[k]
      /\ PageCount[m] \in Nat /\ PageCount[k] \in Nat
  BY Sizing
<1>2. /\ PlaceOf(m, 0) \in Nat /\ PlaceOf(m, p) = PlaceOf(m, 0) + p
      /\ PlaceOf(k, 0) \in Nat /\ PlaceOf(k, q) = PlaceOf(k, 0) + q
  BY <1>1, Places
<1>3. m = k
  <2> SUFFICES ASSUME m # k PROVE FALSE
    OBVIOUS
  <2>1. \/ PlaceOf(m, 0) + PageCount[m] <= PlaceOf(k, 0)
        \/ PlaceOf(k, 0) + PageCount[k] <= PlaceOf(m, 0)
    BY MainApart
  <2>2. PlaceOf(m, 0) + p = PlaceOf(k, 0) + q
    BY <1>2
  <2> QED
    BY <2>1, <2>2, <1>1, <1>2
<1>4. PlaceOf(m, 0) + p = PlaceOf(m, 0) + q
  BY <1>2, <1>3
<1> QED
  BY <1>1, <1>2, <1>3, <1>4

(* Every page of huge_mem is a page of one MAIN memory. *)
LEMMA MemHolds ==
  ASSUME NEW g \in HugePages
  PROVE  /\ MemAt(g) \in Main /\ PageAt(g) \in Pages(MemAt(g))
         /\ PlaceOf(MemAt(g), PageAt(g)) = g /\ Base[MemAt(g)] + PageAt(g) = g
<1>1. \E m \in Main : g \in Base[m] .. (Base[m] + PageCount[m] - 1)
  BY DEF HugePages
<1>2. MemAt(g) \in Main /\ g \in Base[MemAt(g)] .. (Base[MemAt(g)] + PageCount[MemAt(g)] - 1)
  BY <1>1 DEF MemAt
<1>3. Base[MemAt(g)] \in Nat /\ PageCount[MemAt(g)] \in Nat /\ g \in Nat
  <2>1. g \in Nat
    BY HugeSizing
  <2> QED
    BY <1>2, <2>1, Sizing
<1> QED
  BY <1>2, <1>3 DEF PageAt, PlaceOf, Pages

-----------------------------------------------------------------------------
(* Grants *)

(* A grant is what the tables say at its head. *)
LEMMA GrantFacts ==
  ASSUME TablesTyped
  PROVE  /\ \A m \in Mems : \A p \in Heads(m) :
              /\ GrantAt(m, p) \in Grants
              /\ p \in Pages(m) /\ p \in Nat /\ PlaceOf(m, p) \in Nat
              /\ freeTable[m][p] \in Nat \ {0} /\ ownerTable[m][p] \in Sess
              /\ GrantAt(m, p).region = Space(m) /\ GrantAt(m, p).first = PlaceOf(m, p)
              /\ GrantAt(m, p).len = freeTable[m][p] /\ GrantAt(m, p).owner = ownerTable[m][p]
              /\ EndOf(GrantAt(m, p)) = PlaceOf(m, p) + freeTable[m][p]
         /\ \A g \in Grants : \E m \in Mems : \E p \in Heads(m) : g = GrantAt(m, p)
         /\ \A g \in Grants : /\ g.first \in Nat /\ g.len \in Nat \ {0}
                              /\ EndOf(g) \in Nat /\ g.first < EndOf(g)
<1>1. ASSUME NEW m \in Mems, NEW p \in Heads(m)
      PROVE  /\ GrantAt(m, p) \in Grants
             /\ p \in Pages(m) /\ p \in Nat /\ PlaceOf(m, p) \in Nat
             /\ freeTable[m][p] \in Nat \ {0} /\ ownerTable[m][p] \in Sess
             /\ GrantAt(m, p).region = Space(m) /\ GrantAt(m, p).first = PlaceOf(m, p)
             /\ GrantAt(m, p).len = freeTable[m][p] /\ GrantAt(m, p).owner = ownerTable[m][p]
             /\ EndOf(GrantAt(m, p)) = PlaceOf(m, p) + freeTable[m][p]
  <2>1. p \in Pages(m) /\ freeTable[m][p] # 0 /\ ownerTable[m][p] # Nothing
    BY DEF Heads
  <2>2. p \in Nat /\ PlaceOf(m, p) \in Nat
    <3>1. p \in Nat
      BY <2>1, Sizing
    <3> QED
      BY <3>1, Places
  <2>3. freeTable[m][p] \in Nat \ {0} /\ ownerTable[m][p] \in Sess
    BY <2>1 DEF TablesTyped
  <2> QED
    BY <2>1, <2>2, <2>3 DEF Grants, GrantAt, EndOf
<1>2. \A g \in Grants : \E m \in Mems : \E p \in Heads(m) : g = GrantAt(m, p)
  BY DEF Grants
<1>3. ASSUME NEW g \in Grants
      PROVE  g.first \in Nat /\ g.len \in Nat \ {0} /\ EndOf(g) \in Nat /\ g.first < EndOf(g)
  <2>1. PICK m \in Mems : \E p \in Heads(m) : g = GrantAt(m, p)
    BY <1>2
  <2>2. PICK p \in Heads(m) : g = GrantAt(m, p)
    BY <2>1
  <2>3. g.first = PlaceOf(m, p) /\ g.len = freeTable[m][p]
    BY <2>2, <1>1
  <2>4. PlaceOf(m, p) \in Nat /\ freeTable[m][p] \in Nat \ {0}
    BY <1>1
  <2> QED
    BY <2>3, <2>4 DEF EndOf
<1> QED
  BY <1>1, <1>2, <1>3

(* A grant that begins at a page is the one the tables have there. *)
LEMMA HeadOf ==
  ASSUME TablesTyped, NEW g \in Grants, NEW m \in Mems, NEW p \in Pages(m),
         g.region = Space(m), g.first = PlaceOf(m, p)
  PROVE  p \in Heads(m) /\ g = GrantAt(m, p)
<1>1. PICK k \in Mems : \E q \in Heads(k) : g = GrantAt(k, q)
  BY GrantFacts
<1>2. PICK q \in Heads(k) : g = GrantAt(k, q)
  BY <1>1
<1>3. q \in Pages(k) /\ Space(k) = Space(m) /\ PlaceOf(k, q) = PlaceOf(m, p)
  BY <1>2, GrantFacts
<1>4. k = m /\ q = p
  BY <1>3, PlaceInjective
<1> QED
  BY <1>2, <1>4

(* What it is for a grant to cover a page. *)
LEMMA CoverIff ==
  ASSUME NEW g, g.first \in Nat, g.len \in Nat, NEW m \in Mems, NEW p \in Pages(m)
  PROVE  Covers(g, m, p) <=>
           g.region = Space(m) /\ g.first <= PlaceOf(m, p) /\ PlaceOf(m, p) < EndOf(g)
<1>1. PlaceOf(m, p) \in Nat
  BY Places, Sizing
<1> QED
  BY <1>1 DEF Covers, EndOf

(* Of two grants at most one covers a page. *)
LEMMA OneCovers ==
  ASSUME TablesTyped, Tiled, NEW g \in Grants, NEW h \in Grants, NEW m \in Mems, NEW p \in Pages(m),
         Covers(g, m, p), Covers(h, m, p)
  PROVE  g = h
<1>1. /\ g.first \in Nat /\ EndOf(g) \in Nat /\ h.first \in Nat /\ EndOf(h) \in Nat
      /\ g.len \in Nat /\ h.len \in Nat
      /\ PlaceOf(m, p) \in Nat
  BY GrantFacts, Places, Sizing
<1>2. /\ g.region = Space(m) /\ g.first <= PlaceOf(m, p) /\ PlaceOf(m, p) < EndOf(g)
      /\ h.region = Space(m) /\ h.first <= PlaceOf(m, p) /\ PlaceOf(m, p) < EndOf(h)
  BY <1>1, CoverIff
<1>3. g # h => EndOf(g) <= h.first \/ EndOf(h) <= g.first
  BY <1>2 DEF Tiled, Disjoint
<1> QED
  BY <1>1, <1>2, <1>3

(* A grant covers its first page. *)
LEMMA HeadCovered ==
  ASSUME TablesTyped, Tiled, NEW m \in Mems, NEW p \in Heads(m)
  PROVE  Covers(GrantAt(m, p), m, p) /\ p \in bitmap[m]
<1>1. /\ GrantAt(m, p) \in Grants /\ p \in Pages(m) /\ PlaceOf(m, p) \in Nat
      /\ freeTable[m][p] \in Nat \ {0}
      /\ GrantAt(m, p).region = Space(m) /\ GrantAt(m, p).first = PlaceOf(m, p)
      /\ GrantAt(m, p).len = freeTable[m][p]
      /\ EndOf(GrantAt(m, p)) = PlaceOf(m, p) + freeTable[m][p]
  BY GrantFacts
<1>2. Covers(GrantAt(m, p), m, p)
  <2>1. EndOf(GrantAt(m, p)) \in Nat /\ PlaceOf(m, p) < EndOf(GrantAt(m, p))
    BY <1>1
  <2> QED
    BY <1>1, <2>1, CoverIff
<1> QED
  BY <1>1, <1>2 DEF Tiled

(* The pages of memory m among the n from page p of memory k on. *)
Piece(k, p, n, m) ==
  {x \in Pages(m) : Space(m) = Space(k) /\ PlaceOf(m, x) \in PlaceOf(k, p) .. (PlaceOf(k, p) + n - 1)}

(* What reaches into another memory begins at its first page. *)
LEMMA PieceBegins ==
  ASSUME NEW k \in Mems, NEW p \in Pages(k), NEW n \in Nat, NEW m \in Mems
  PROVE  /\ IsFiniteSet(Piece(k, p, n, m)) /\ Cardinality(Piece(k, p, n, m)) \in Nat
         /\ Piece(k, p, n, m) # {} => Cardinality(Piece(k, p, n, m)) # 0
         /\ m # k /\ Piece(k, p, n, m) # {} =>
              0 \in Piece(k, p, n, m) /\ k \in Main /\ m \in Main /\ PlaceOf(k, p) < PlaceOf(m, 0)
         /\ m = k /\ n # 0 => p \in Piece(k, p, n, m)
<1> DEFINE P == Piece(k, p, n, m)
<1>1. IsFiniteSet(P) /\ Cardinality(P) \in Nat /\ (P # {} => Cardinality(P) # 0)
  <2>1. PageCount[m] \in Nat
    BY Sizing
  <2>2. IsFiniteSet(Pages(m))
    BY <2>1, FS_Interval DEF Pages
  <2>3. P \in SUBSET Pages(m)
    BY DEF Piece
  <2>4. IsFiniteSet(P)
    BY <2>2, <2>3, FS_Subset
  <2> HIDE DEF P
  <2> QED
    BY <2>4, FS_CardinalityType, FS_EmptySet
<1>2. p \in Nat /\ p < PageCount[k] /\ PlaceOf(k, 0) \in Nat /\ PlaceOf(k, p) = PlaceOf(k, 0) + p
      /\ PageCount[k] \in Nat
  BY Sizing, Places
<1>3. ASSUME m # k, NEW x \in P
      PROVE  0 \in P /\ k \in Main /\ m \in Main /\ PlaceOf(k, p) < PlaceOf(m, 0)
  <2>1. x \in Pages(m) /\ Space(m) = Space(k)
        /\ PlaceOf(m, x) \in PlaceOf(k, p) .. (PlaceOf(k, p) + n - 1)
    BY DEF Piece
  <2>2. x \in Nat /\ x < PageCount[m] /\ PlaceOf(m, 0) \in Nat /\ PlaceOf(m, x) = PlaceOf(m, 0) + x
        /\ PageCount[m] \in Nat
    BY <2>1, Sizing, Places
  <2>3. /\ m \in Main /\ k \in Main
        /\ \/ PlaceOf(m, 0) + PageCount[m] <= PlaceOf(k, 0)
           \/ PlaceOf(k, 0) + PageCount[k] <= PlaceOf(m, 0)
    BY <2>1, <1>3, MainApart
  <2>4. PlaceOf(k, p) <= PlaceOf(m, 0) + x /\ PlaceOf(m, 0) + x < PlaceOf(k, p) + n
    BY <2>1, <2>2, <1>2
  <2>5. PlaceOf(k, p) < PlaceOf(m, 0) /\ PlaceOf(m, 0) < PlaceOf(k, p) + n
    BY <2>2, <2>3, <2>4, <1>2
  <2>6. PlaceOf(m, 0) \in PlaceOf(k, p) .. (PlaceOf(k, p) + n - 1)
    BY <2>2, <2>5, <1>2
  <2> QED
    BY <2>1, <2>3, <2>5, <2>6, Sizing DEF Piece
<1>4. m = k /\ n # 0 => p \in P
  BY <1>2 DEF Piece
<1> QED
  BY <1>1, <1>3, <1>4

(* A piece is what a grant covers. *)
LEMMA PieceCovered ==
  ASSUME NEW k \in Mems, NEW p \in Pages(k), NEW n \in Nat \ {0}, NEW m \in Mems, NEW g,
         g.region = Space(k), g.first = PlaceOf(k, p), g.len = n
  PROVE  /\ \A x \in Pages(m) : Covers(g, m, x) <=> x \in Piece(k, p, n, m)
         /\ {x \in Pages(m) : Covers(g, m, x)} = Piece(k, p, n, m)
BY DEF Covers, Piece

(* The room for a grant: within the space, and free in every memory. *)
Roomy(k, p, n) ==
  /\ PlaceOf(k, p) + n <= Limit(k)
  /\ \A m \in Mems : Piece(k, p, n, m) \cap bitmap[m] = {}

(* What an allocation writes, in one memory or in several. *)
Granted(k, p, n, s) ==
  /\ TablesTyped'
  /\ \A m \in Mems : /\ bitmap'[m] = bitmap[m] \cup Piece(k, p, n, m)
                     /\ pageUsed'[m] = pageUsed[m] + Cardinality(Piece(k, p, n, m))
  /\ \A m \in Mems : \A x \in Pages(m) :
       /\ freeTable'[m][x] = IF m = k /\ x = p THEN n
                             ELSE IF m # k /\ x = 0 /\ Piece(k, p, n, m) # {}
                             THEN Cardinality(Piece(k, p, n, m)) ELSE freeTable[m][x]
       /\ ownerTable'[m][x] = IF m = k /\ x = p THEN s ELSE ownerTable[m][x]
  /\ p + n > PageCount[k] => hugeTable'[Base[k] + p] = n
  /\ \A m \in Main : \A x \in Pages(m) :
       m # k \/ x # p => hugeTable'[Base[m] + x] = hugeTable[Base[m] + x]

(* The record a grant is in DeviceMemory. *)
Record(k, p, n, s) == [region |-> Space(k), first |-> PlaceOf(k, p), len |-> n, owner |-> s]

(* No grant has begun, or come into a memory, where there is room. *)
LEMMA RoomIsEmpty ==
  ASSUME TablesInv, NEW k \in Mems, NEW p \in Pages(k), NEW n \in Nat \ {0}, Roomy(k, p, n),
         NEW m \in Mems, NEW x \in Piece(k, p, n, m)
  PROVE  /\ x \notin Heads(m) /\ x \in Pages(m)
         /\ \A g \in Grants : ~Covers(g, m, x)
         /\ freeTable[m][x] = 0 /\ ownerTable[m][x] = Nothing
<1> USE DEF TablesInv
<1>1. x \in Pages(m) /\ x \notin bitmap[m]
  BY DEF Piece, Roomy
<1>2. \A g \in Grants : ~Covers(g, m, x)
  BY <1>1 DEF Tiled
<1>3. x \notin Heads(m)
  BY <1>1, HeadCovered
<1>4. ~(freeTable[m][x] # 0 /\ ownerTable[m][x] = Nothing)
  BY <1>1, <1>2 DEF PartsEntered
<1>5. freeTable[m][x] = 0
  BY <1>1, <1>3, <1>4 DEF Heads
<1> QED
  BY <1>1, <1>2, <1>3, <1>5 DEF Clean

(* Bitmaps are finite. *)
LEMMA BitmapFinite ==
  ASSUME TablesTyped, NEW m \in Mems
  PROVE  IsFiniteSet(bitmap[m]) /\ Cardinality(bitmap[m]) \in Nat
<1>1. PageCount[m] \in Nat
  BY Sizing
<1>2. IsFiniteSet(Pages(m))
  BY <1>1, FS_Interval DEF Pages
<1>3. bitmap[m] \in SUBSET Pages(m)
  BY DEF TablesTyped
<1> QED
  BY <1>2, <1>3, FS_Subset, FS_CardinalityType

(* What an allocation does to the heads and to the grants. *)
LEMMA AddHead ==
  ASSUME TablesInv, NEW k \in Mems, NEW p \in Pages(k), NEW n \in Nat \ {0}, NEW s \in Sess,
         Roomy(k, p, n), Granted(k, p, n, s)
  PROVE  /\ p \notin Heads(k)
         /\ \A m \in Mems : Heads(m)' = IF m = k THEN Heads(m) \cup {p} ELSE Heads(m)
         /\ \A m \in Mems : \A x \in Heads(m) : /\ freeTable'[m][x] = freeTable[m][x]
                                                /\ ownerTable'[m][x] = ownerTable[m][x]
         /\ freeTable'[k][p] = n /\ ownerTable'[k][p] = s
<1>1. p \in Piece(k, p, n, k)
  BY PieceBegins
<1>2. p \notin Heads(k)
  BY <1>1, RoomIsEmpty
<1>3. freeTable'[k][p] = n /\ ownerTable'[k][p] = s /\ s # Nothing
  BY MmAssumption DEF Granted
<1>4. ASSUME NEW m \in Mems, NEW x \in Pages(m), m # k \/ x # p
      PROVE  /\ x \in Heads(m)' <=> x \in Heads(m)
             /\ x \in Heads(m) => freeTable'[m][x] = freeTable[m][x]
             /\ ownerTable'[m][x] = ownerTable[m][x]
  <2>1. ownerTable'[m][x] = ownerTable[m][x]
    BY <1>4 DEF Granted
  <2>2. CASE m # k /\ x = 0 /\ Piece(k, p, n, m) # {}
    <3>1. x \in Piece(k, p, n, m)
      BY <2>2, PieceBegins
    <3>2. x \notin Heads(m) /\ ownerTable[m][x] = Nothing
      BY <3>1, RoomIsEmpty
    <3> QED
      BY <2>1, <3>2 DEF Heads
  <2>3. CASE ~(m # k /\ x = 0 /\ Piece(k, p, n, m) # {})
    <3>1. freeTable'[m][x] = freeTable[m][x]
      BY <2>3, <1>4 DEF Granted
    <3> QED
      BY <2>1, <3>1 DEF Heads, Pages
  <2> QED
    BY <2>2, <2>3
<1>5. \A m \in Mems : Heads(m) \subseteq Pages(m) /\ Heads(m)' \subseteq Pages(m)
  BY DEF Heads, Pages
<1>6. ASSUME NEW m \in Mems
      PROVE  Heads(m)' = IF m = k THEN Heads(m) \cup {p} ELSE Heads(m)
  <2>1. p \in Heads(k)'
    BY <1>3 DEF Heads, Pages
  <2>2. \A x \in Pages(m) : x \in Heads(m)' <=> x \in Heads(m) \/ (m = k /\ x = p)
    BY <1>4, <2>1
  <2> QED
    BY <2>2, <1>5
<1>7. ASSUME NEW m \in Mems, NEW x \in Heads(m)
      PROVE  freeTable'[m][x] = freeTable[m][x] /\ ownerTable'[m][x] = ownerTable[m][x]
  <2>1. x \in Pages(m) /\ (m # k \/ x # p)
    BY <1>2, <1>5
  <2> QED
    BY <2>1, <1>4
<1> QED
  BY <1>2, <1>3, <1>6, <1>7

(* An allocation adds one record, apart from all others.                   *)
LEMMA AddGrant ==
  ASSUME TablesInv, NEW k \in Mems, NEW p \in Pages(k), NEW n \in Nat \ {0}, NEW s \in Sess,
         Roomy(k, p, n), Granted(k, p, n, s)
  PROVE  LET g == Record(k, p, n, s)
         IN  /\ Grants' = Grants \cup {g} /\ g \notin Grants
             /\ \A h \in Grants : Disjoint(g, h) /\ Disjoint(h, g)
<1> DEFINE g == Record(k, p, n, s)
<1>1. /\ g.region = Space(k) /\ g.first = PlaceOf(k, p) /\ g.len = n /\ g.owner = s
      /\ PlaceOf(k, p) \in Nat /\ EndOf(g) = PlaceOf(k, p) + n
  BY Places, Sizing DEF Record, EndOf
<1>2. /\ p \notin Heads(k)
      /\ \A m \in Mems : Heads(m)' = IF m = k THEN Heads(m) \cup {p} ELSE Heads(m)
      /\ \A m \in Mems : \A x \in Heads(m) : /\ freeTable'[m][x] = freeTable[m][x]
                                             /\ ownerTable'[m][x] = ownerTable[m][x]
      /\ freeTable'[k][p] = n /\ ownerTable'[k][p] = s
  BY AddHead
<1>3. GrantAt(k, p)' = g
  BY <1>2 DEF GrantAt, Record
<1>4. \A m \in Mems : \A x \in Heads(m) : GrantAt(m, x)' = GrantAt(m, x)
  BY <1>2 DEF GrantAt
<1>5. Grants' = Grants \cup {g}
  <2>1. \A h : h \in Grants' <=> \E m \in Mems : \E x \in Heads(m)' : h = GrantAt(m, x)'
    BY DEF Grants
  <2>2. \A h : h \in Grants <=> \E m \in Mems : \E x \in Heads(m) : h = GrantAt(m, x)
    BY DEF Grants
  <2>3. ASSUME NEW h \in Grants' PROVE h \in Grants \cup {g}
    <3>1. PICK m \in Mems : \E x \in Heads(m)' : h = GrantAt(m, x)'
      BY <2>1
    <3>2. PICK x \in Heads(m)' : h = GrantAt(m, x)'
      BY <3>1
    <3>3. x \in Heads(m) \/ (m = k /\ x = p)
      BY <1>2
    <3>4. CASE x \in Heads(m)
      BY <3>2, <3>4, <1>4, <2>2
    <3>5. CASE m = k /\ x = p
      BY <3>2, <3>5, <1>3 DEF GrantAt
    <3> QED
      BY <3>3, <3>4, <3>5
  <2>4. ASSUME NEW h \in Grants PROVE h \in Grants'
    <3>1. PICK m \in Mems : \E x \in Heads(m) : h = GrantAt(m, x)
      BY <2>2
    <3>2. PICK x \in Heads(m) : h = GrantAt(m, x)
      BY <3>1
    <3>3. x \in Heads(m)'
      BY <1>2
    <3> QED
      BY <3>2, <3>3, <1>4, <2>1
  <2>5. g \in Grants'
    <3>1. p \in Heads(k)'
      BY <1>2
    <3> QED
      BY <3>1, <1>3, <2>1
  <2> HIDE DEF g
  <2> QED
    BY <2>3, <2>4, <2>5
<1>6. ASSUME NEW h \in Grants PROVE h # g /\ Disjoint(g, h) /\ Disjoint(h, g)
  <2>1. h.first \in Nat /\ h.len \in Nat \ {0} /\ EndOf(h) \in Nat /\ h.first < EndOf(h)
    BY GrantFacts DEF TablesInv
  <2>2. p \in Piece(k, p, n, k)
    BY PieceBegins
  <2>3. ~Covers(h, k, p)
    BY <2>2, RoomIsEmpty
  <2>4. h.region = Space(k) => ~(h.first <= PlaceOf(k, p) /\ PlaceOf(k, p) < EndOf(h))
    BY <2>1, <2>3, CoverIff
  <2>5. h.region = Space(k) => ~(PlaceOf(k, p) <= h.first /\ h.first < PlaceOf(k, p) + n)
    <3> SUFFICES ASSUME h.region = Space(k), PlaceOf(k, p) <= h.first, h.first < PlaceOf(k, p) + n
                 PROVE  FALSE
      OBVIOUS
    <3>1. PICK m \in Mems : \E x \in Heads(m) : h = GrantAt(m, x)
      BY GrantFacts DEF TablesInv
    <3>2. PICK x \in Heads(m) : h = GrantAt(m, x)
      BY <3>1
    <3>3. x \in Pages(m) /\ h.region = Space(m) /\ h.first = PlaceOf(m, x)
      BY <3>2, GrantFacts DEF TablesInv
    <3>4. h.first \in PlaceOf(k, p) .. (PlaceOf(k, p) + n - 1)
      BY <2>1, <1>1
    <3>5. x \in Piece(k, p, n, m)
      BY <3>3, <3>4 DEF Piece
    <3> QED
      BY <3>5, RoomIsEmpty
  <2>6. h # g
    BY <2>1, <2>4, <1>1
  <2> HIDE DEF g
  <2>7. h.region = Space(k) => EndOf(h) <= PlaceOf(k, p) \/ PlaceOf(k, p) + n <= h.first
    BY <2>1, <2>4, <2>5, <1>1
  <2> QED
    BY <2>6, <2>7, <1>1 DEF Disjoint
<1> HIDE DEF g
<1>7. g \notin Grants
  BY <1>6
<1> QED
  BY <1>5, <1>6, <1>7 DEF g

(* Marks and parts follow a new grant. *)
LEMMA GrantKeepsTables ==
  ASSUME TablesInv, NEW k \in Mems, NEW p \in Pages(k), NEW n \in Nat \ {0}, NEW s \in Sess,
         Roomy(k, p, n), Granted(k, p, n, s)
  PROVE  TablesInv'
<1> DEFINE g == Record(k, p, n, s)
<1>1. /\ g.region = Space(k) /\ g.first = PlaceOf(k, p) /\ g.len = n /\ g.owner = s
      /\ PlaceOf(k, p) \in Nat /\ EndOf(g) = PlaceOf(k, p) + n
  BY Places, Sizing DEF Record, EndOf
<1>2. \A m \in Mems : \A x \in Pages(m) : Covers(g, m, x) <=> x \in Piece(k, p, n, m)
  BY <1>1, PieceCovered
<1>3. \A m \in Mems : {x \in Pages(m) : Covers(g, m, x)} = Piece(k, p, n, m)
  BY <1>1, PieceCovered
<1>4. /\ Grants' = Grants \cup {g} /\ g \notin Grants
      /\ \A h \in Grants : Disjoint(g, h) /\ Disjoint(h, g)
  BY AddGrant
<1> HIDE DEF g
<1>5. Tiled'
  <2>1. ASSUME NEW h \in Grants' PROVE EndOf(h) <= SpaceSize[h.region]
    <3>1. CASE h = g
      BY <3>1, <1>1, Places DEF Roomy
    <3>2. CASE h \in Grants
      BY <3>2 DEF TablesInv, Tiled
    <3> QED
      BY <3>1, <3>2, <1>4
  <2>2. \A h, j \in Grants' : h # j => Disjoint(h, j)
    BY <1>4 DEF TablesInv, Tiled
  <2>3. ASSUME NEW m \in Mems, NEW x \in Pages(m)
        PROVE  x \in bitmap'[m] <=> \E h \in Grants' : Covers(h, m, x)
    <3>1. x \in bitmap'[m] <=> x \in bitmap[m] \/ x \in Piece(k, p, n, m)
      BY DEF Granted
    <3>2. x \in bitmap[m] <=> \E h \in Grants : Covers(h, m, x)
      BY DEF TablesInv, Tiled
    <3> QED
      BY <3>1, <3>2, <1>2, <1>4
  <2> QED
    BY <2>1, <2>2, <2>3 DEF Tiled, Pages, Covers, PlaceOf, Space, EndOf
<1>6. PartsEntered'
  <2> SUFFICES ASSUME NEW m \in Mems, NEW x \in Pages(m)
               PROVE  LET comesIn == {h \in Grants' : Covers(h, m, x) /\ h.first < PlaceOf(m, x)}
                      IN  /\ (freeTable'[m][x] # 0 /\ ownerTable'[m][x] = Nothing)
                               <=> (x = 0 /\ comesIn # {})
                          /\ x = 0 => \A h \in comesIn :
                               freeTable'[m][x] = Cardinality({q \in Pages(m) : Covers(h, m, q)})
    BY DEF PartsEntered, Pages, Covers, PlaceOf, Space
  <2> DEFINE old == {h \in Grants : Covers(h, m, x) /\ h.first < PlaceOf(m, x)}
             new == {h \in Grants' : Covers(h, m, x) /\ h.first < PlaceOf(m, x)}
  <2>1. /\ (freeTable[m][x] # 0 /\ ownerTable[m][x] = Nothing) <=> (x = 0 /\ old # {})
        /\ x = 0 => \A h \in old :
                      freeTable[m][x] = Cardinality({q \in Pages(m) : Covers(h, m, q)})
    BY DEF TablesInv, PartsEntered
  <2>2. CASE m = k /\ x = p
    <3>1. ownerTable'[m][x] # Nothing
      BY <2>2, MmAssumption DEF Granted
    <3>2. x \in Piece(k, p, n, m)
      BY <2>2, PieceBegins
    <3>3. \A h \in Grants : ~Covers(h, m, x)
      BY <3>2, RoomIsEmpty
    <3>4. new = {}
      BY <3>3, <2>2, <1>1, <1>4
    <3> QED
      BY <3>1, <3>4
  <2>3. CASE m # k /\ x = 0 /\ Piece(k, p, n, m) # {}
    <3>1. /\ x \in Piece(k, p, n, m) /\ PlaceOf(k, p) < PlaceOf(m, x)
          /\ Cardinality(Piece(k, p, n, m)) # 0
      BY <2>3, PieceBegins
    <3>2. (\A h \in Grants : ~Covers(h, m, x)) /\ ownerTable[m][x] = Nothing
      BY <3>1, RoomIsEmpty
    <3>3. freeTable'[m][x] = Cardinality(Piece(k, p, n, m)) /\ ownerTable'[m][x] = Nothing
      BY <2>3, <3>2 DEF Granted
    <3>4. g \in new /\ \A h \in new : h = g
      BY <3>1, <3>2, <1>1, <1>2, <1>4
    <3> QED
      BY <3>1, <3>3, <3>4, <2>3, <1>3
  <2>4. CASE ~(m = k /\ x = p) /\ ~(m # k /\ x = 0 /\ Piece(k, p, n, m) # {})
    <3>1. freeTable'[m][x] = freeTable[m][x] /\ ownerTable'[m][x] = ownerTable[m][x]
      BY <2>4 DEF Granted
    <3>2. ASSUME x = 0 PROVE ~(Covers(g, m, x) /\ g.first < PlaceOf(m, x))
      <4>1. CASE m = k
        <5>1. PlaceOf(m, 0) \in Nat /\ PlaceOf(k, p) = PlaceOf(m, 0) + p /\ p \in Nat
          BY <4>1, Places, Sizing
        <5> QED
          BY <3>2, <5>1, <1>1
      <4>2. CASE m # k
        BY <4>2, <2>4, <3>2, <1>2
      <4> QED
        BY <4>1, <4>2
    <3>3. x = 0 => new = old
      BY <3>2, <1>4
    <3> HIDE DEF new, old
    <3>4. (freeTable'[m][x] # 0 /\ ownerTable'[m][x] = Nothing) <=> (x = 0 /\ new # {})
      BY <3>1, <3>3, <2>1
    <3>5. x = 0 => \A h \in new :
                     freeTable'[m][x] = Cardinality({q \in Pages(m) : Covers(h, m, q)})
      BY <3>1, <3>3, <2>1
    <3> QED
      BY <3>4, <3>5 DEF new
  <2> QED
    BY <2>2, <2>3, <2>4
<1>7. Clean'
  <2> SUFFICES ASSUME NEW m \in Mems, NEW x \in Pages(m), freeTable'[m][x] = 0
               PROVE  ownerTable'[m][x] = Nothing
    BY DEF Clean, Pages
  <2>1. Piece(k, p, n, m) # {} => Cardinality(Piece(k, p, n, m)) # 0
    BY PieceBegins
  <2>2. ~(m = k /\ x = p) /\ freeTable[m][x] = 0
    BY <2>1 DEF Granted
  <2>3. ownerTable'[m][x] = ownerTable[m][x]
    BY <2>2 DEF Granted
  <2> QED
    BY <2>2, <2>3 DEF TablesInv, Clean
<1>8. UsedIsMarked'
  <2> SUFFICES ASSUME NEW m \in Mems PROVE pageUsed'[m] = Cardinality(bitmap'[m])
    BY DEF UsedIsMarked
  <2>1. PICK A : A = bitmap[m]
    OBVIOUS
  <2>2. PICK B : B = Piece(k, p, n, m)
    OBVIOUS
  <2>3. IsFiniteSet(B) /\ Cardinality(B) \in Nat /\ A \cap B = {}
    BY <2>1, <2>2, PieceBegins DEF Roomy
  <2>4. IsFiniteSet(A)
    BY <2>1, BitmapFinite DEF TablesInv
  <2>5. Cardinality(A \cup B) = Cardinality(A) + Cardinality(B)
    <3>1. Cardinality(A \cup B) = Cardinality(A) + Cardinality(B) - Cardinality(A \cap B)
      BY <2>3, <2>4, FS_Union
    <3>2. Cardinality(A \cap B) = 0 /\ Cardinality(A) \in Nat
      BY <2>3, <2>4, FS_EmptySet, FS_CardinalityType
    <3> QED
      BY <3>1, <3>2, <2>3
  <2> QED
    BY <2>1, <2>2, <2>5 DEF Granted, TablesInv, UsedIsMarked
<1>9. HugeKnown'
  <2> SUFFICES ASSUME NEW m \in Main, NEW x \in Heads(m)', m \in Mems, Spans(m, x)'
               PROVE  hugeTable'[Base[m] + x] = freeTable'[m][x]
    BY Sizing DEF HugeKnown
  <2>1. /\ freeTable'[k][p] = n
        /\ x \in Heads(m) \/ (m = k /\ x = p)
        /\ x \in Heads(m) => freeTable'[m][x] = freeTable[m][x]
        /\ p \notin Heads(k) /\ x \in Pages(m)
    BY AddHead DEF Heads
  <2>2. CASE m = k /\ x = p
    BY <2>1, <2>2 DEF Granted, Spans
  <2>3. CASE ~(m = k /\ x = p)
    <3>1. x \in Heads(m) /\ Spans(m, x)
      BY <2>1, <2>3 DEF Spans
    <3> QED
      BY <3>1, <2>1, <2>3 DEF TablesInv, HugeKnown, Granted
  <2> QED
    BY <2>2, <2>3
<1> QED
  BY <1>5, <1>6, <1>7, <1>8, <1>9 DEF TablesInv, Granted

(* What a release of the n pages from p on writes, in all memories.        *)
Dropped(k, p, n) ==
  /\ TablesTyped'
  /\ \A m \in Mems : /\ bitmap'[m] = bitmap[m] \ Piece(k, p, n, m)
                     /\ pageUsed'[m] = pageUsed[m] - Cardinality(Piece(k, p, n, m))
  /\ \A m \in Mems : \A x \in Pages(m) :
       LET taken == (m = k /\ x = p) \/ (m # k /\ x = 0 /\ Piece(k, p, n, m) # {})
       IN  /\ freeTable'[m][x] = IF taken THEN 0 ELSE freeTable[m][x]
           /\ ownerTable'[m][x] = IF taken THEN Nothing ELSE ownerTable[m][x]
  /\ \A m \in Main : \A x \in Pages(m) :
       m # k \/ x # p => hugeTable'[Base[m] + x] = hugeTable[Base[m] + x]

(* Where a grant comes into a further memory there is an entry, and no     *)
(* head.                                                                   *)
LEMMA PartThere ==
  ASSUME TablesInv, NEW k \in Mems, NEW p \in Heads(k), NEW m \in Mems, m # k,
         Piece(k, p, freeTable[k][p], m) # {}
  PROVE  /\ 0 \in Piece(k, p, freeTable[k][p], m) /\ 0 \notin Heads(m)
         /\ Covers(GrantAt(k, p), m, 0) /\ PlaceOf(k, p) < PlaceOf(m, 0)
<1> DEFINE g == GrantAt(k, p)
           n == freeTable[k][p]
<1>1. /\ g \in Grants /\ p \in Pages(k) /\ n \in Nat \ {0}
      /\ g.region = Space(k) /\ g.first = PlaceOf(k, p) /\ g.len = n
  BY GrantFacts DEF TablesInv
<1> HIDE DEF g, n
<1>2. 0 \in Piece(k, p, n, m) /\ PlaceOf(k, p) < PlaceOf(m, 0) /\ 0 \in Pages(m)
  BY <1>1, PieceBegins, Sizing DEF n
<1>3. Covers(g, m, 0)
  BY <1>1, <1>2, PieceCovered
<1>4. ownerTable[m][0] = Nothing
  BY <1>1, <1>2, <1>3 DEF TablesInv, PartsEntered
<1> QED
  BY <1>2, <1>3, <1>4 DEF Heads, g, n

(* A free takes one head away and leaves the others as they are.           *)
LEMMA DropHead ==
  ASSUME TablesInv, NEW k \in Mems, NEW p \in Heads(k), Dropped(k, p, freeTable[k][p])
  PROVE  /\ \A m \in Mems : Heads(m)' = IF m = k THEN Heads(m) \ {p} ELSE Heads(m)
         /\ \A m \in Mems : \A x \in Heads(m)' : /\ x \in Heads(m) /\ (m # k \/ x # p)
                                                 /\ freeTable'[m][x] = freeTable[m][x]
                                                 /\ ownerTable'[m][x] = ownerTable[m][x]
<1> DEFINE n == freeTable[k][p]
<1>1. p \in Pages(k)
  BY DEF Heads
<1>2. freeTable'[k][p] = 0
  BY <1>1 DEF Dropped
<1>3. ASSUME NEW m \in Mems, NEW x \in Pages(m), m # k \/ x # p
      PROVE  /\ x \in Heads(m)' <=> x \in Heads(m)
             /\ x \in Heads(m) => /\ freeTable'[m][x] = freeTable[m][x]
                                  /\ ownerTable'[m][x] = ownerTable[m][x]
  <2>1. CASE m # k /\ x = 0 /\ Piece(k, p, n, m) # {}
    <3>1. x \notin Heads(m)
      BY <2>1, PartThere
    <3>2. freeTable'[m][x] = 0
      BY <2>1 DEF Dropped
    <3> QED
      BY <3>1, <3>2 DEF Heads
  <2>2. CASE ~(m # k /\ x = 0 /\ Piece(k, p, n, m) # {})
    <3>1. freeTable'[m][x] = freeTable[m][x] /\ ownerTable'[m][x] = ownerTable[m][x]
      BY <2>2, <1>3 DEF Dropped
    <3> QED
      BY <3>1 DEF Heads, Pages
  <2> QED
    BY <2>1, <2>2
<1>4. \A m \in Mems : Heads(m) \subseteq Pages(m) /\ Heads(m)' \subseteq Pages(m)
  BY DEF Heads, Pages
<1>5. p \notin Heads(k)'
  BY <1>2 DEF Heads
<1>6. ASSUME NEW m \in Mems
      PROVE  Heads(m)' = IF m = k THEN Heads(m) \ {p} ELSE Heads(m)
  <2>1. \A x \in Pages(m) : x \in Heads(m)' <=> x \in Heads(m) /\ ~(m = k /\ x = p)
    BY <1>3, <1>5
  <2> QED
    BY <2>1, <1>4
<1>7. ASSUME NEW m \in Mems, NEW x \in Heads(m)'
      PROVE  /\ x \in Heads(m) /\ (m # k \/ x # p)
             /\ freeTable'[m][x] = freeTable[m][x] /\ ownerTable'[m][x] = ownerTable[m][x]
  <2>1. x \in Pages(m) /\ (m # k \/ x # p)
    BY <1>4, <1>5
  <2> QED
    BY <2>1, <1>3
<1> QED
  BY <1>6, <1>7

(* A free takes away one record, and nothing else.                         *)
LEMMA DropGrant ==
  ASSUME TablesInv, NEW k \in Mems, NEW p \in Heads(k), Dropped(k, p, freeTable[k][p])
  PROVE  GrantAt(k, p) \in Grants /\ Grants' = Grants \ {GrantAt(k, p)}
<1> DEFINE g == GrantAt(k, p)
<1>1. /\ \A m \in Mems : Heads(m)' = IF m = k THEN Heads(m) \ {p} ELSE Heads(m)
      /\ \A m \in Mems : \A x \in Heads(m)' : /\ x \in Heads(m) /\ (m # k \/ x # p)
                                              /\ freeTable'[m][x] = freeTable[m][x]
                                              /\ ownerTable'[m][x] = ownerTable[m][x]
  BY DropHead
<1>2. \A h : h \in Grants' <=> \E m \in Mems : \E x \in Heads(m)' : h = GrantAt(m, x)'
  BY DEF Grants
<1>3. \A h : h \in Grants <=> \E m \in Mems : \E x \in Heads(m) : h = GrantAt(m, x)
  BY DEF Grants
<1>4. g \in Grants
  BY <1>3
<1>5. \A m \in Mems : \A x \in Heads(m)' : GrantAt(m, x)' = GrantAt(m, x)
  BY <1>1 DEF GrantAt
<1>6. ASSUME NEW m \in Mems, NEW x \in Heads(m), GrantAt(m, x) = g PROVE m = k /\ x = p
  <2>1. x \in Pages(m) /\ p \in Pages(k) /\ Space(m) = Space(k) /\ PlaceOf(m, x) = PlaceOf(k, p)
    BY <1>6, GrantFacts DEF TablesInv
  <2> QED
    BY <2>1, PlaceInjective
<1>7. ASSUME NEW h \in Grants' PROVE h \in Grants \ {g}
  <2>1. PICK m \in Mems : \E x \in Heads(m)' : h = GrantAt(m, x)'
    BY <1>2
  <2>2. PICK x \in Heads(m)' : h = GrantAt(m, x)'
    BY <2>1
  <2>3. x \in Heads(m) /\ h = GrantAt(m, x) /\ (m # k \/ x # p)
    BY <2>2, <1>1, <1>5
  <2> HIDE DEF g
  <2> QED
    BY <2>3, <1>3, <1>6
<1>8. ASSUME NEW h \in Grants \ {g} PROVE h \in Grants'
  <2>1. PICK m \in Mems : \E x \in Heads(m) : h = GrantAt(m, x)
    BY <1>3
  <2>2. PICK x \in Heads(m) : h = GrantAt(m, x)
    BY <2>1
  <2>3. m # k \/ x # p
    BY <2>2
  <2>4. x \in Heads(m)'
    BY <2>3, <1>1
  <2> QED
    BY <2>2, <2>4, <1>2, <1>5
<1> HIDE DEF g
<1>9. Grants' = Grants \ {g}
  BY <1>7, <1>8
<1> QED
  BY <1>4, <1>9 DEF g

(* Marks and parts follow a grant that goes. *)
LEMMA DropKeepsTables ==
  ASSUME TablesInv, NEW k \in Mems, NEW p \in Heads(k), Dropped(k, p, freeTable[k][p])
  PROVE  TablesInv'
<1> DEFINE g == GrantAt(k, p)
           n == freeTable[k][p]
<1>1. /\ g \in Grants /\ p \in Pages(k) /\ p \in Nat /\ n \in Nat \ {0} /\ PlaceOf(k, p) \in Nat
      /\ g.region = Space(k) /\ g.first = PlaceOf(k, p) /\ g.len = n
  BY GrantFacts DEF TablesInv
<1>2. Grants' = Grants \ {g}
  BY DropGrant
<1>3. Dropped(k, p, n)
  OBVIOUS
<1>4. \A m \in Mems : m # k /\ Piece(k, p, n, m) # {} =>
         /\ 0 \in Piece(k, p, n, m) /\ 0 \notin Heads(m)
         /\ Covers(g, m, 0) /\ PlaceOf(k, p) < PlaceOf(m, 0)
  BY PartThere
<1>5. /\ \A m \in Mems : \A x \in Heads(m)' : /\ x \in Heads(m) /\ (m # k \/ x # p)
                                              /\ freeTable'[m][x] = freeTable[m][x]
  BY DropHead
<1>6. Covers(g, k, p)
  BY HeadCovered DEF TablesInv
<1> HIDE DEF g, n
<1>7. \A m \in Mems : \A x \in Pages(m) : Covers(g, m, x) <=> x \in Piece(k, p, n, m)
  BY <1>1, PieceCovered
<1>8. \A m \in Mems : \A x \in Pages(m) : \A h \in Grants :
        Covers(g, m, x) /\ Covers(h, m, x) => h = g
  BY <1>1, OneCovers DEF TablesInv
<1>9. Tiled'
  <2>1. \A h \in Grants' : EndOf(h) <= SpaceSize[h.region]
    BY <1>2 DEF TablesInv, Tiled
  <2>2. \A h, j \in Grants' : h # j => Disjoint(h, j)
    BY <1>2 DEF TablesInv, Tiled
  <2>3. ASSUME NEW m \in Mems, NEW x \in Pages(m)
        PROVE  x \in bitmap'[m] <=> \E h \in Grants' : Covers(h, m, x)
    <3>1. x \in bitmap'[m] <=> x \in bitmap[m] /\ x \notin Piece(k, p, n, m)
      BY <1>3 DEF Dropped
    <3>2. x \in bitmap[m] <=> \E h \in Grants : Covers(h, m, x)
      BY DEF TablesInv, Tiled
    <3> QED
      BY <3>1, <3>2, <1>1, <1>2, <1>7, <1>8
  <2> QED
    BY <2>1, <2>2, <2>3 DEF Tiled, Pages, Covers, PlaceOf, Space, EndOf
<1>10. PartsEntered'
  <2> SUFFICES ASSUME NEW m \in Mems, NEW x \in Pages(m)
               PROVE  LET comesIn == {h \in Grants' : Covers(h, m, x) /\ h.first < PlaceOf(m, x)}
                      IN  /\ (freeTable'[m][x] # 0 /\ ownerTable'[m][x] = Nothing)
                               <=> (x = 0 /\ comesIn # {})
                          /\ x = 0 => \A h \in comesIn :
                               freeTable'[m][x] = Cardinality({q \in Pages(m) : Covers(h, m, q)})
    BY DEF PartsEntered, Pages, Covers, PlaceOf, Space
  <2> DEFINE old == {h \in Grants : Covers(h, m, x) /\ h.first < PlaceOf(m, x)}
             new == {h \in Grants' : Covers(h, m, x) /\ h.first < PlaceOf(m, x)}
  <2>1. /\ (freeTable[m][x] # 0 /\ ownerTable[m][x] = Nothing) <=> (x = 0 /\ old # {})
        /\ x = 0 => \A h \in old :
                      freeTable[m][x] = Cardinality({q \in Pages(m) : Covers(h, m, q)})
    BY DEF TablesInv, PartsEntered
  <2>2. CASE (m = k /\ x = p) \/ (m # k /\ x = 0 /\ Piece(k, p, n, m) # {})
    <3>1. freeTable'[m][x] = 0
      BY <2>2, <1>3 DEF Dropped
    <3>2. Covers(g, m, x)
      BY <2>2, <1>4, <1>6
    <3>3. new = {}
      BY <3>2, <1>2, <1>8
    <3> QED
      BY <3>1, <3>3
  <2>3. CASE ~(m = k /\ x = p) /\ ~(m # k /\ x = 0 /\ Piece(k, p, n, m) # {})
    <3>1. freeTable'[m][x] = freeTable[m][x] /\ ownerTable'[m][x] = ownerTable[m][x]
      BY <2>3, <1>3 DEF Dropped
    <3>2. ASSUME x = 0 PROVE ~(Covers(g, m, x) /\ g.first < PlaceOf(m, x))
      <4>1. CASE m = k
        <5>1. PlaceOf(m, 0) \in Nat /\ PlaceOf(k, p) = PlaceOf(m, 0) + p
          BY <4>1, <1>1, Places
        <5> QED
          BY <3>2, <5>1, <1>1
      <4>2. CASE m # k
        BY <4>2, <2>3, <3>2, <1>7
      <4> QED
        BY <4>1, <4>2
    <3>3. x = 0 => new = old
      BY <3>2, <1>2
    <3> HIDE DEF new, old
    <3>4. (freeTable'[m][x] # 0 /\ ownerTable'[m][x] = Nothing) <=> (x = 0 /\ new # {})
      BY <3>1, <3>3, <2>1
    <3>5. x = 0 => \A h \in new :
                     freeTable'[m][x] = Cardinality({q \in Pages(m) : Covers(h, m, q)})
      BY <3>1, <3>3, <2>1
    <3> QED
      BY <3>4, <3>5 DEF new
  <2> QED
    BY <2>2, <2>3
<1>11. Clean'
  <2> SUFFICES ASSUME NEW m \in Mems, NEW x \in Pages(m), freeTable'[m][x] = 0
               PROVE  ownerTable'[m][x] = Nothing
    BY DEF Clean, Pages
  <2> QED
    BY <1>3 DEF Dropped, TablesInv, Clean
<1>12. UsedIsMarked'
  <2> SUFFICES ASSUME NEW m \in Mems PROVE pageUsed'[m] = Cardinality(bitmap'[m])
    BY DEF UsedIsMarked
  <2>1. PICK A : A = bitmap[m]
    OBVIOUS
  <2>2. PICK B : B = Piece(k, p, n, m)
    OBVIOUS
  <2>3. B \subseteq A
    <3>1. \A x \in Piece(k, p, n, m) : x \in Pages(m) /\ Covers(g, m, x)
      BY <1>7 DEF Piece
    <3> QED
      BY <3>1, <1>1, <2>1, <2>2 DEF TablesInv, Tiled
  <2>4. IsFiniteSet(A) /\ Cardinality(A) \in Nat
    BY <2>1, BitmapFinite DEF TablesInv
  <2>5. Cardinality(A \ B) = Cardinality(A) - Cardinality(B)
    <3>1. Cardinality(A \ B) = Cardinality(A) - Cardinality(A \cap B)
      BY <2>4, FS_Difference
    <3>2. A \cap B = B
      BY <2>3
    <3> QED
      BY <3>1, <3>2
  <2> QED
    BY <2>1, <2>2, <2>5, <1>3 DEF Dropped, TablesInv, UsedIsMarked
<1>13. HugeKnown'
  <2> SUFFICES ASSUME NEW m \in Main, NEW x \in Heads(m)', m \in Mems, Spans(m, x)'
               PROVE  hugeTable'[Base[m] + x] = freeTable'[m][x]
    BY Sizing DEF HugeKnown
  <2>1. x \in Heads(m) /\ (m # k \/ x # p) /\ freeTable'[m][x] = freeTable[m][x] /\ x \in Pages(m)
    BY <1>5 DEF Heads
  <2>2. Spans(m, x)
    BY <2>1 DEF Spans
  <2> QED
    BY <2>1, <2>2, <1>3 DEF TablesInv, HugeKnown, Dropped
<1> QED
  BY <1>3, <1>9, <1>10, <1>11, <1>12, <1>13 DEF TablesInv, Dropped

-----------------------------------------------------------------------------
(* What the code writes *)

(* The pieces of a grant that stays in its memory. *)
LEMMA PieceInside ==
  ASSUME NEW k \in Mems, NEW p \in Pages(k), NEW n \in Nat, p + n <= PageCount[k]
  PROVE  /\ Piece(k, p, n, k) = p .. (p + n - 1) /\ p .. (p + n - 1) \subseteq Pages(k)
         /\ \A m \in Mems : m # k => Piece(k, p, n, m) = {}
         /\ PlaceOf(k, p) + n <= Limit(k)
         /\ Cardinality(Piece(k, p, n, k)) = n
<1>1. /\ p \in Nat /\ PageCount[k] \in Nat /\ PlaceOf(k, 0) \in Nat /\ Limit(k) \in Nat
      /\ PlaceOf(k, p) = PlaceOf(k, 0) + p /\ PlaceOf(k, 0) + PageCount[k] <= Limit(k)
  BY Sizing, Places
<1>2. p .. (p + n - 1) \subseteq Pages(k)
  BY <1>1 DEF Pages
<1>3. Piece(k, p, n, k) = p .. (p + n - 1)
  <2>1. \A x \in Pages(k) : /\ x \in Nat /\ PlaceOf(k, x) = PlaceOf(k, 0) + x
    BY Sizing, Places
  <2>2. \A x \in Pages(k) : PlaceOf(k, x) \in PlaceOf(k, p) .. (PlaceOf(k, p) + n - 1)
                              <=> x \in p .. (p + n - 1)
    BY <2>1, <1>1
  <2> QED
    BY <2>2, <1>2 DEF Piece
<1>4. ASSUME NEW m \in Mems, m # k, NEW x \in Piece(k, p, n, m) PROVE FALSE
  <2>1. 0 \in Piece(k, p, n, m) /\ PlaceOf(k, p) < PlaceOf(m, 0)
    BY <1>4, PieceBegins
  <2>2. Space(m) = Space(k) /\ PlaceOf(m, 0) \in PlaceOf(k, p) .. (PlaceOf(k, p) + n - 1)
    BY <2>1 DEF Piece
  <2>3. \/ PlaceOf(m, 0) + PageCount[m] <= PlaceOf(k, 0)
        \/ PlaceOf(k, 0) + PageCount[k] <= PlaceOf(m, 0)
    BY <2>2, <1>4, MainApart
  <2>4. PlaceOf(m, 0) \in Nat /\ PageCount[m] \in Nat
    BY Places, Sizing
  <2> QED
    BY <2>1, <2>2, <2>3, <2>4, <1>1
<1>5. Cardinality(p .. (p + n - 1)) = n
  <2>1. p \in Int /\ p + n - 1 \in Int
    BY <1>1
  <2>2. Cardinality(p .. (p + n - 1)) = IF p > p + n - 1 THEN 0 ELSE p + n - 1 - p + 1
    BY <2>1, FS_Interval
  <2> QED
    BY <2>2, <1>1
<1> QED
  BY <1>1, <1>2, <1>3, <1>4, <1>5

(* A rounded size is a number of pages, and not zero. *)
LEMMA PagesNeeded ==
  ASSUME NEW m \in Mems, NEW size \in Sizes
  PROVE  ((size + PageSize[m] - 1) % U64) \div PageSize[m] \in Nat \ {0}
<1>1. size \in Nat \ {0} /\ U64 \in Nat \ {0} /\ PageSize[m] \in Nat \ {0}
  BY MmAssumption
<1>2. size + PageSize[m] - 1 < U64
  BY MmAssumption DEF SizesDoNotWrap
<1>3. (size + PageSize[m] - 1) % U64 = size + PageSize[m] - 1
  BY <1>1, <1>2
<1>4. PICK a \in Nat, b \in Nat \ {0} : a = size + PageSize[m] - 1 /\ b = PageSize[m] /\ a >= b
  BY <1>1
<1>5. a \div b \in Nat \ {0}
  BY <1>4
<1> QED
  BY <1>3, <1>4, <1>5

(* __take_pages makes a grant within one memory. *)
LEMMA TakeGrants ==
  ASSUME TablesInv, NEW k \in Mems, NEW n \in Nat \ {0}, NEW p \in ZeroAreas(k, n), NEW s \in Sess,
         TakePages(k, p, n, s)
  PROVE  p \in Pages(k) /\ p + n <= PageCount[k] /\ Roomy(k, p, n) /\ Granted(k, p, n, s)
<1>1. /\ p \in Pages(k) /\ p + n <= PageCount[k]
      /\ (p .. (p + n - 1)) \cap bitmap[k] = {}
  BY DEF ZeroAreas
<1>2. /\ Piece(k, p, n, k) = p .. (p + n - 1) /\ p .. (p + n - 1) \subseteq Pages(k)
      /\ \A m \in Mems : m # k => Piece(k, p, n, m) = {}
      /\ PlaceOf(k, p) + n <= Limit(k)
      /\ Cardinality(Piece(k, p, n, k)) = n
  BY <1>1, PieceInside
<1>3. Roomy(k, p, n)
  BY <1>1, <1>2 DEF Roomy
<1>4. /\ DOMAIN freeTable' = Mems /\ DOMAIN ownerTable' = Mems /\ DOMAIN bitmap' = Mems
      /\ \A m \in Mems : m # k => /\ freeTable'[m] = freeTable[m] /\ ownerTable'[m] = ownerTable[m]
                                  /\ bitmap'[m] = bitmap[m] /\ pageUsed'[m] = pageUsed[m]
      /\ freeTable'[k] = [freeTable[k] EXCEPT ![p] = n]
      /\ ownerTable'[k] = [ownerTable[k] EXCEPT ![p] = s]
      /\ bitmap'[k] = bitmap[k] \cup (p .. (p + n - 1))
      /\ pageUsed'[k] = pageUsed[k] + n /\ pageUsed' \in [Mems -> Int]
      /\ hugeTable' = hugeTable
  BY DEF TakePages, TablesInv, TablesTyped
<1>5. /\ freeTable'[k] \in [Pages(k) -> Nat] /\ ownerTable'[k] \in [Pages(k) -> Sess \cup {Nothing}]
      /\ freeTable'[k][p] = n /\ ownerTable'[k][p] = s
      /\ \A x \in Pages(k) : x # p => /\ freeTable'[k][x] = freeTable[k][x]
                                      /\ ownerTable'[k][x] = ownerTable[k][x]
  BY <1>1, <1>4 DEF TablesInv, TablesTyped
<1>6. TablesTyped'
  <2>1. \A m \in Mems : /\ bitmap'[m] \subseteq Pages(m)
                        /\ freeTable'[m] \in [Pages(m) -> Nat]
                        /\ ownerTable'[m] \in [Pages(m) -> Sess \cup {Nothing}]
    BY <1>2, <1>4, <1>5 DEF TablesInv, TablesTyped
  <2> QED
    BY <2>1, <1>4 DEF TablesInv, TablesTyped, Pages
<1>7. \A m \in Mems : Cardinality(Piece(k, p, n, m)) = IF m = k THEN n ELSE 0
  BY <1>2, FS_EmptySet
<1>8. Granted(k, p, n, s)
  <2>1. \A m \in Mems : /\ bitmap'[m] = bitmap[m] \cup Piece(k, p, n, m)
                        /\ pageUsed'[m] = pageUsed[m] + Cardinality(Piece(k, p, n, m))
    <3> SUFFICES ASSUME NEW m \in Mems
                 PROVE  /\ bitmap'[m] = bitmap[m] \cup Piece(k, p, n, m)
                        /\ pageUsed'[m] = pageUsed[m] + Cardinality(Piece(k, p, n, m))
      OBVIOUS
    <3>1. CASE m = k
      BY <3>1, <1>2, <1>4
    <3>2. CASE m # k
      <4>1. pageUsed[m] \in Int /\ pageUsed'[m] = pageUsed[m] + 0
        BY <3>2, <1>4 DEF TablesInv, TablesTyped
      <4> QED
        BY <3>2, <4>1, <1>2, <1>4, <1>7
    <3> QED
      BY <3>1, <3>2
  <2>2. \A m \in Mems : \A x \in Pages(m) :
          /\ freeTable'[m][x] = IF m = k /\ x = p THEN n
                                ELSE IF m # k /\ x = 0 /\ Piece(k, p, n, m) # {}
                                THEN Cardinality(Piece(k, p, n, m)) ELSE freeTable[m][x]
          /\ ownerTable'[m][x] = IF m = k /\ x = p THEN s ELSE ownerTable[m][x]
    BY <1>2, <1>4, <1>5
  <2>3. ~(p + n > PageCount[k])
    BY <1>1, Sizing
  <2> QED
    BY <1>4, <1>6, <2>1, <2>2, <2>3 DEF Granted
<1> QED
  BY <1>1, <1>3, <1>8

(* The pieces of a grant in the MAIN memories are those of the code.       *)
LEMMA PieceMain ==
  ASSUME NEW k \in Main, NEW p \in Pages(k), NEW n \in Nat \ {0}, NEW g, g = Base[k] + p
  PROVE  /\ \A m \in Main : Piece(k, p, n, m) = PiecePages(m, g, n)
         /\ \A m \in Mems : m \notin Main => Piece(k, p, n, m) = {}
         /\ \A m \in Main : m \in Touched(g, n) <=> m = k \/ Piece(k, p, n, m) # {}
         /\ g \in HugePages /\ MemAt(g) = k /\ PageAt(g) = p
<1>1. k \in Mems /\ Base[k] \in Nat /\ p \in Nat /\ p < PageCount[k] /\ PageCount[k] \in Nat
  BY Sizing
<1>2. PlaceOf(k, p) = g /\ Space(k) = 0
  BY DEF PlaceOf, Space
<1>3. \A m \in Main : Piece(k, p, n, m) = PiecePages(m, g, n)
  BY <1>2 DEF Piece, PiecePages, PlaceOf, Space
<1>4. \A m \in Mems : m \notin Main => Piece(k, p, n, m) = {}
  BY <1>2, Sizing DEF Piece, Space
<1>5. p \in Piece(k, p, n, k)
  BY <1>1, PieceBegins
<1>6. \A m \in Main : m \in Touched(g, n) <=> m = k \/ Piece(k, p, n, m) # {}
  BY <1>3, <1>5 DEF Touched
<1>7. g \in HugePages
  BY <1>1, HugeSizing
<1>8. MemAt(g) = k /\ PageAt(g) = p
  <2>1. /\ MemAt(g) \in Mems /\ PageAt(g) \in Pages(MemAt(g)) /\ Space(MemAt(g)) = Space(k)
        /\ PlaceOf(MemAt(g), PageAt(g)) = PlaceOf(k, p)
    BY <1>2, <1>7, MemHolds, Sizing DEF Space
  <2> QED
    BY <2>1, <1>1, PlaceInjective
<1> QED
  BY <1>3, <1>4, <1>6, <1>7, <1>8

(* Other pages of the MAIN memories have other places in huge_mem. *)
LEMMA OtherPlace ==
  ASSUME NEW k \in Main, NEW p \in Pages(k), NEW m \in Main, NEW x \in Pages(m), m # k \/ x # p
  PROVE  Base[m] + x # Base[k] + p
<1>1. k \in Mems /\ m \in Mems /\ Space(m) = Space(k)
  BY Sizing DEF Space
<1>2. PlaceOf(m, x) = Base[m] + x /\ PlaceOf(k, p) = Base[k] + p
  BY DEF PlaceOf
<1> QED
  BY <1>1, <1>2, PlaceInjective

(* __malloc_huge_mem makes a grant over the memories. *)
LEMMA HugeGrants ==
  ASSUME TablesInv, NEW n \in Nat \ {0}, NEW g \in HugeAreas(n), NEW s \in Sess,
         hugeTable' = [hugeTable EXCEPT ![g] = n],
         bitmap' = [m \in Mems |-> IF m \in Main THEN bitmap[m] \cup PiecePages(m, g, n)
                                   ELSE bitmap[m]],
         EnterParts(g, n, s),
         ownerTable' = [ownerTable EXCEPT ![MemAt(g)][PageAt(g)] = s],
         pageUsed' = [m \in Mems |->
                       IF m \in Main THEN pageUsed[m] + Cardinality(PiecePages(m, g, n))
                       ELSE pageUsed[m]]
  PROVE  /\ MemAt(g) \in Main /\ PageAt(g) \in Pages(MemAt(g))
         /\ Roomy(MemAt(g), PageAt(g), n) /\ Granted(MemAt(g), PageAt(g), n, s)
<1>1. PICK k \in Main, p \in Pages(MemAt(g)) :
        k = MemAt(g) /\ p = PageAt(g) /\ Base[k] + p = g /\ PlaceOf(k, p) = g /\ g \in HugePages
  BY MemHolds DEF HugeAreas
<1>2. /\ k \in Mems /\ p \in Pages(k) /\ p \in Nat /\ Space(k) = 0 /\ Limit(k) = HugeCount
  BY <1>1, Sizing DEF Space, Limit
<1>3. /\ \A m \in Main : Piece(k, p, n, m) = PiecePages(m, g, n)
      /\ \A m \in Mems : m \notin Main => Piece(k, p, n, m) = {}
      /\ \A m \in Main : m \in Touched(g, n) <=> m = k \/ Piece(k, p, n, m) # {}
  BY <1>1, <1>2, PieceMain
<1>4. g + n <= HugeCount /\ (g .. (g + n - 1)) \cap HugeBitmap = {}
  BY DEF HugeAreas
<1>5. Roomy(k, p, n)
  <2>1. ASSUME NEW m \in Mems, NEW x \in Piece(k, p, n, m), x \in bitmap[m] PROVE FALSE
    <3>1. m \in Main
      BY <2>1, <1>3
    <3>2. Base[m] + x \in g .. (g + n - 1)
      BY <3>1, <1>3 DEF PiecePages
    <3>3. Base[m] + x \in HugeBitmap
      BY <3>1, <2>1 DEF HugeBitmap
    <3> QED
      BY <3>2, <3>3, <1>4
  <2> QED
    BY <2>1, <1>1, <1>2, <1>4 DEF Roomy
<1>6. \A m \in Mems : /\ IsFiniteSet(Piece(k, p, n, m)) /\ Cardinality(Piece(k, p, n, m)) \in Nat
                      /\ m # k => (Piece(k, p, n, m) # {} => 0 \in Piece(k, p, n, m))
  BY <1>2, PieceBegins
<1>7. ASSUME NEW m \in Mems
      PROVE  /\ bitmap'[m] = bitmap[m] \cup Piece(k, p, n, m)
             /\ pageUsed'[m] = pageUsed[m] + Cardinality(Piece(k, p, n, m))
  <2>1. CASE m \in Main
    BY <2>1, <1>3
  <2>2. CASE m \notin Main
    <3>1. Piece(k, p, n, m) = {} /\ Cardinality(Piece(k, p, n, m)) = 0
      BY <2>2, <1>3, FS_EmptySet
    <3>2. pageUsed[m] \in Int /\ bitmap'[m] = bitmap[m] /\ pageUsed'[m] = pageUsed[m]
      BY <2>2 DEF TablesInv, TablesTyped
    <3> QED
      BY <3>1, <3>2
  <2> QED
    BY <2>1, <2>2
<1>8. ASSUME NEW m \in Mems
      PROVE  /\ ownerTable'[m] = IF m = k THEN [ownerTable[m] EXCEPT ![p] = s] ELSE ownerTable[m]
             /\ DOMAIN ownerTable' = Mems /\ DOMAIN freeTable' = Mems
             /\ m = k => freeTable'[m] = [freeTable[m] EXCEPT ![p] = n]
             /\ m # k /\ Piece(k, p, n, m) # {} =>
                  freeTable'[m] = [freeTable[m] EXCEPT ![0] = Cardinality(Piece(k, p, n, m))]
             /\ m # k /\ Piece(k, p, n, m) = {} => freeTable'[m] = freeTable[m]
  <2>1. /\ ownerTable'[m] = IF m = k THEN [ownerTable[m] EXCEPT ![p] = s] ELSE ownerTable[m]
        /\ DOMAIN ownerTable' = Mems /\ DOMAIN freeTable' = Mems
    BY <1>1, <1>2 DEF EnterParts, TablesInv, TablesTyped
  <2>2. freeTable'[m] = IF m \in Touched(g, n)
                        THEN [freeTable[m] EXCEPT ![PieceStart(m, g)] = PieceLength(m, g, n)]
                        ELSE freeTable[m]
    BY DEF EnterParts
  <2>3. Touched(g, n) \subseteq Main
    BY DEF Touched
  <2>4. CASE m = k
    BY <2>1, <2>2, <2>4, <1>1, <1>3 DEF PieceStart, PieceLength
  <2>5. CASE m # k /\ Piece(k, p, n, m) # {}
    BY <2>1, <2>2, <2>5, <1>1, <1>3 DEF PieceStart, PieceLength
  <2>6. CASE m # k /\ Piece(k, p, n, m) = {}
    BY <2>1, <2>2, <2>3, <2>6, <1>3
  <2> QED
    BY <2>1, <2>4, <2>5, <2>6
<1>9. ASSUME NEW m \in Mems, NEW x \in Pages(m)
      PROVE  /\ freeTable'[m][x] = IF m = k /\ x = p THEN n
                                   ELSE IF m # k /\ x = 0 /\ Piece(k, p, n, m) # {}
                                   THEN Cardinality(Piece(k, p, n, m)) ELSE freeTable[m][x]
             /\ ownerTable'[m][x] = IF m = k /\ x = p THEN s ELSE ownerTable[m][x]
  <2>1. DOMAIN freeTable[m] = Pages(m) /\ DOMAIN ownerTable[m] = Pages(m)
    BY DEF TablesInv, TablesTyped
  <2> QED
    BY <2>1, <1>8
<1>10. TablesTyped'
  <2>1. ASSUME NEW m \in Mems
        PROVE  /\ bitmap'[m] \subseteq Pages(m)
               /\ freeTable'[m] \in [Pages(m) -> Nat]
               /\ ownerTable'[m] \in [Pages(m) -> Sess \cup {Nothing}]
    <3>1. bitmap'[m] \subseteq Pages(m)
      BY <1>7 DEF Piece, TablesInv, TablesTyped
    <3>2. freeTable[m] \in [Pages(m) -> Nat] /\ ownerTable[m] \in [Pages(m) -> Sess \cup {Nothing}]
      BY DEF TablesInv, TablesTyped
    <3>3. freeTable'[m] \in [Pages(m) -> Nat]
      <4>1. CASE m = k
        <5>1. freeTable'[m] = [freeTable[m] EXCEPT ![p] = n]
          BY <4>1, <1>8
        <5> QED
          BY <5>1, <3>2
      <4>2. CASE m # k /\ Piece(k, p, n, m) # {}
        <5>1. PICK c \in Nat : c = Cardinality(Piece(k, p, n, m))
          BY <1>6
        <5>2. freeTable'[m] = [freeTable[m] EXCEPT ![0] = c]
          BY <4>2, <5>1, <1>8
        <5> QED
          BY <5>2, <3>2
      <4>3. CASE m # k /\ Piece(k, p, n, m) = {}
        BY <4>3, <3>2, <1>8
      <4> QED
        BY <4>1, <4>2, <4>3
    <3>4. ownerTable'[m] \in [Pages(m) -> Sess \cup {Nothing}]
      BY <3>2, <1>8
    <3> QED
      BY <3>1, <3>3, <3>4
  <2>2. hugeTable' \in [HugePages -> Nat]
    BY DEF TablesInv, TablesTyped
  <2>3. DOMAIN bitmap' = Mems /\ DOMAIN freeTable' = Mems /\ DOMAIN ownerTable' = Mems
    BY <1>2, <1>8
  <2>4. pageUsed' \in [Mems -> Int]
    <3>1. \A m \in Mems : pageUsed[m] \in Int
      BY DEF TablesInv, TablesTyped
    <3>2. \A m \in Mems : pageUsed'[m] \in Int
      BY <3>1, <1>6, <1>7
    <3> QED
      BY <3>2
  <2> QED
    BY <2>1, <2>2, <2>3, <2>4 DEF TablesTyped, Pages
<1>11. hugeTable'[Base[k] + p] = n
  BY <1>1 DEF TablesInv, TablesTyped
<1>12. ASSUME NEW m \in Main, NEW x \in Pages(m), m # k \/ x # p
       PROVE  hugeTable'[Base[m] + x] = hugeTable[Base[m] + x]
  <2>1. Base[m] + x # g
    BY <1>1, <1>2, <1>12, OtherPlace
  <2> QED
    BY <2>1 DEF TablesInv, TablesTyped
<1>13. Granted(k, p, n, s)
  BY <1>7, <1>9, <1>10, <1>11, <1>12 DEF Granted
<1> QED
  BY <1>1, <1>2, <1>5, <1>13

(* __release_pages takes a grant back that lies within its memory. *)
LEMMA ReleaseDrops ==
  ASSUME TablesInv, NEW k \in Mems, NEW p \in Heads(k), ~Spans(k, p), ReleasePages(k, p)
  PROVE  Dropped(k, p, freeTable[k][p])
<1>1. PICK n \in Nat \ {0} : n = freeTable[k][p]
  BY GrantFacts DEF TablesInv
<1>2. p \in Pages(k) /\ p \in Nat /\ p + n <= PageCount[k]
  BY <1>1, Sizing DEF Heads, Spans
<1>3. /\ Piece(k, p, n, k) = p .. (p + n - 1)
      /\ \A m \in Mems : m # k => Piece(k, p, n, m) = {}
      /\ Cardinality(Piece(k, p, n, k)) = n
  BY <1>2, PieceInside
<1>4. /\ DOMAIN freeTable' = Mems /\ DOMAIN ownerTable' = Mems /\ DOMAIN bitmap' = Mems
      /\ \A m \in Mems : m # k => /\ freeTable'[m] = freeTable[m] /\ ownerTable'[m] = ownerTable[m]
                                  /\ bitmap'[m] = bitmap[m] /\ pageUsed'[m] = pageUsed[m]
      /\ freeTable'[k] = [freeTable[k] EXCEPT ![p] = 0]
      /\ ownerTable'[k] = [ownerTable[k] EXCEPT ![p] = Nothing]
      /\ bitmap'[k] = bitmap[k] \ (p .. (p + n - 1))
      /\ pageUsed'[k] = pageUsed[k] - n /\ pageUsed' \in [Mems -> Int]
      /\ hugeTable' = hugeTable
  BY <1>1 DEF ReleasePages, TablesInv, TablesTyped
<1>5. /\ freeTable'[k] \in [Pages(k) -> Nat] /\ ownerTable'[k] \in [Pages(k) -> Sess \cup {Nothing}]
      /\ freeTable'[k][p] = 0 /\ ownerTable'[k][p] = Nothing
      /\ \A x \in Pages(k) : x # p => /\ freeTable'[k][x] = freeTable[k][x]
                                      /\ ownerTable'[k][x] = ownerTable[k][x]
  BY <1>2, <1>4 DEF TablesInv, TablesTyped
<1>6. TablesTyped'
  <2>1. \A m \in Mems : /\ bitmap'[m] \subseteq Pages(m)
                        /\ freeTable'[m] \in [Pages(m) -> Nat]
                        /\ ownerTable'[m] \in [Pages(m) -> Sess \cup {Nothing}]
    BY <1>4, <1>5 DEF TablesInv, TablesTyped
  <2> QED
    BY <2>1, <1>4 DEF TablesInv, TablesTyped, Pages
<1>7. \A m \in Mems : Cardinality(Piece(k, p, n, m)) = IF m = k THEN n ELSE 0
  BY <1>3, FS_EmptySet
<1>8. ASSUME NEW m \in Mems
      PROVE  /\ bitmap'[m] = bitmap[m] \ Piece(k, p, n, m)
             /\ pageUsed'[m] = pageUsed[m] - Cardinality(Piece(k, p, n, m))
  <2>1. CASE m = k
    BY <2>1, <1>3, <1>4
  <2>2. CASE m # k
    <3>1. pageUsed[m] \in Int /\ pageUsed'[m] = pageUsed[m] - 0
      BY <2>2, <1>4 DEF TablesInv, TablesTyped
    <3> QED
      BY <2>2, <3>1, <1>3, <1>4, <1>7
  <2> QED
    BY <2>1, <2>2
<1>9. ASSUME NEW m \in Mems, NEW x \in Pages(m)
      PROVE  LET taken == (m = k /\ x = p) \/ (m # k /\ x = 0 /\ Piece(k, p, n, m) # {})
             IN  /\ freeTable'[m][x] = IF taken THEN 0 ELSE freeTable[m][x]
                 /\ ownerTable'[m][x] = IF taken THEN Nothing ELSE ownerTable[m][x]
  BY <1>3, <1>4, <1>5
<1>10. Dropped(k, p, n)
  BY <1>4, <1>6, <1>8, <1>9 DEF Dropped
<1> QED
  BY <1>1, <1>10

(* __free_huge_mem takes a spanning grant back from all memories. *)
LEMMA HugeDrops ==
  ASSUME TablesInv, NEW k \in Main, NEW p \in Heads(k), Spans(k, p), NEW s \in Sess,
         ownerTable[k][p] = s, FreeHuge(s, k, p)
  PROVE  Dropped(k, p, freeTable[k][p]) /\ UNCHANGED stuck
<1>1. k \in Mems /\ p \in Pages(k)
  BY Sizing DEF Heads
<1>2. PICK n \in Nat \ {0} : n = freeTable[k][p] /\ hugeTable[Base[k] + p] = n
  BY <1>1, GrantFacts DEF TablesInv, HugeKnown
<1>3. PICK g \in HugePages : g = Base[k] + p /\ MemAt(g) = k /\ PageAt(g) = p
  BY <1>1, <1>2, PieceMain
<1>4. /\ \A m \in Main : Piece(k, p, n, m) = PiecePages(m, g, n)
      /\ \A m \in Mems : m \notin Main => Piece(k, p, n, m) = {}
      /\ \A m \in Main : m \in Touched(g, n) <=> m = k \/ Piece(k, p, n, m) # {}
  BY <1>1, <1>3, PieceMain
<1>5. /\ hugeTable' = [hugeTable EXCEPT ![g] = 0]
      /\ bitmap' = [m \in Mems |-> IF m \in Main THEN bitmap[m] \ PiecePages(m, g, n) ELSE bitmap[m]]
      /\ LeaveParts(g, n)
      /\ pageUsed' = [m \in Mems |->
                       IF m \in Main THEN pageUsed[m] - Cardinality(PiecePages(m, g, n))
                       ELSE pageUsed[m]]
      /\ UNCHANGED stuck
  BY <1>2, <1>3 DEF FreeHuge
<1>6. \A m \in Mems : /\ IsFiniteSet(Piece(k, p, n, m)) /\ Cardinality(Piece(k, p, n, m)) \in Nat
                      /\ m # k => (Piece(k, p, n, m) # {} => 0 \in Piece(k, p, n, m))
  BY <1>1, PieceBegins
<1>7. ASSUME NEW m \in Mems
      PROVE  /\ bitmap'[m] = bitmap[m] \ Piece(k, p, n, m)
             /\ pageUsed'[m] = pageUsed[m] - Cardinality(Piece(k, p, n, m))
  <2>1. CASE m \in Main
    BY <2>1, <1>4, <1>5
  <2>2. CASE m \notin Main
    <3>1. Piece(k, p, n, m) = {} /\ Cardinality(Piece(k, p, n, m)) = 0
      BY <2>2, <1>4, FS_EmptySet
    <3>2. pageUsed[m] \in Int /\ bitmap'[m] = bitmap[m] /\ pageUsed'[m] = pageUsed[m]
      BY <2>2, <1>5 DEF TablesInv, TablesTyped
    <3> QED
      BY <3>1, <3>2
  <2> QED
    BY <2>1, <2>2
<1>8. ASSUME NEW m \in Mems
      PROVE  /\ m = k => /\ freeTable'[m] = [freeTable[m] EXCEPT ![p] = 0]
                         /\ ownerTable'[m] = [ownerTable[m] EXCEPT ![p] = Nothing]
             /\ m # k /\ Piece(k, p, n, m) # {} =>
                  /\ freeTable'[m] = [freeTable[m] EXCEPT ![0] = 0]
                  /\ ownerTable'[m] = [ownerTable[m] EXCEPT ![0] = Nothing]
             /\ m # k /\ Piece(k, p, n, m) = {} =>
                  freeTable'[m] = freeTable[m] /\ ownerTable'[m] = ownerTable[m]
  <2>1. /\ freeTable'[m] = IF m \in Touched(g, n)
                           THEN [freeTable[m] EXCEPT ![PieceStart(m, g)] = 0] ELSE freeTable[m]
        /\ ownerTable'[m] = IF m \in Touched(g, n)
                            THEN [ownerTable[m] EXCEPT ![PieceStart(m, g)] = Nothing]
                            ELSE ownerTable[m]
    BY <1>5 DEF LeaveParts
  <2>2. Touched(g, n) \subseteq Main
    BY DEF Touched
  <2>3. CASE m = k
    BY <2>1, <2>3, <1>3, <1>4 DEF PieceStart
  <2>4. CASE m # k /\ Piece(k, p, n, m) # {}
    BY <2>1, <2>4, <1>3, <1>4 DEF PieceStart
  <2>5. CASE m # k /\ Piece(k, p, n, m) = {}
    BY <2>1, <2>2, <2>5, <1>4
  <2> QED
    BY <2>3, <2>4, <2>5
<1>9. ASSUME NEW m \in Mems
      PROVE  /\ freeTable[m] \in [Pages(m) -> Nat] /\ ownerTable[m] \in [Pages(m) -> Sess \cup {Nothing}]
             /\ freeTable'[m] \in [Pages(m) -> Nat] /\ ownerTable'[m] \in [Pages(m) -> Sess \cup {Nothing}]
             /\ bitmap'[m] \subseteq Pages(m)
  <2>1. freeTable[m] \in [Pages(m) -> Nat] /\ ownerTable[m] \in [Pages(m) -> Sess \cup {Nothing}]
    BY DEF TablesInv, TablesTyped
  <2>2. bitmap'[m] \subseteq Pages(m)
    BY <1>7 DEF TablesInv, TablesTyped
  <2>3. CASE m = k
    <3>1. /\ freeTable'[m] = [freeTable[m] EXCEPT ![p] = 0]
          /\ ownerTable'[m] = [ownerTable[m] EXCEPT ![p] = Nothing]
      BY <2>3, <1>8
    <3>2. freeTable'[m] \in [Pages(m) -> Nat]
      <4>1. PICK z \in Nat : freeTable'[m] = [freeTable[m] EXCEPT ![p] = z]
        BY <3>1
      <4> QED
        BY <2>1, <4>1
    <3>3. ownerTable'[m] \in [Pages(m) -> Sess \cup {Nothing}]
      BY <2>1, <3>1
    <3> QED
      BY <2>1, <2>2, <3>2, <3>3
  <2>4. CASE m # k /\ Piece(k, p, n, m) # {}
    <3>1. /\ freeTable'[m] = [freeTable[m] EXCEPT ![0] = 0]
          /\ ownerTable'[m] = [ownerTable[m] EXCEPT ![0] = Nothing]
      BY <2>4, <1>8
    <3>2. freeTable'[m] \in [Pages(m) -> Nat]
      <4>1. PICK z \in Nat : freeTable'[m] = [freeTable[m] EXCEPT ![0] = z]
        BY <3>1
      <4> QED
        BY <2>1, <4>1
    <3>3. ownerTable'[m] \in [Pages(m) -> Sess \cup {Nothing}]
      BY <2>1, <3>1
    <3> QED
      BY <2>1, <2>2, <3>2, <3>3
  <2>5. CASE m # k /\ Piece(k, p, n, m) = {}
    BY <2>1, <2>2, <2>5, <1>8
  <2> QED
    BY <2>3, <2>4, <2>5
<1>10. ASSUME NEW m \in Mems, NEW x \in Pages(m)
       PROVE  LET taken == (m = k /\ x = p) \/ (m # k /\ x = 0 /\ Piece(k, p, n, m) # {})
              IN  /\ freeTable'[m][x] = IF taken THEN 0 ELSE freeTable[m][x]
                  /\ ownerTable'[m][x] = IF taken THEN Nothing ELSE ownerTable[m][x]
  BY <1>8, <1>9
<1>11. TablesTyped'
  <2>1. hugeTable' \in [HugePages -> Nat]
    BY <1>5 DEF TablesInv, TablesTyped
  <2>2. DOMAIN bitmap' = Mems /\ DOMAIN freeTable' = Mems /\ DOMAIN ownerTable' = Mems
    BY <1>5 DEF LeaveParts
  <2>3. pageUsed' \in [Mems -> Int]
    <3>1. \A m \in Mems : pageUsed[m] \in Int
      BY DEF TablesInv, TablesTyped
    <3>2. \A m \in Mems : pageUsed'[m] \in Int
      BY <3>1, <1>6, <1>7
    <3> QED
      BY <3>2, <1>5
  <2> QED
    BY <2>1, <2>2, <2>3, <1>9 DEF TablesTyped, Pages
<1>12. ASSUME NEW m \in Main, NEW x \in Pages(m), m # k \/ x # p
       PROVE  hugeTable'[Base[m] + x] = hugeTable[Base[m] + x]
  <2>1. Base[m] + x # g
    BY <1>1, <1>3, <1>12, OtherPlace
  <2> QED
    BY <2>1, <1>5 DEF TablesInv, TablesTyped
<1>13. Dropped(k, p, n)
  BY <1>7, <1>10, <1>11, <1>12 DEF Dropped
<1> QED
  BY <1>2, <1>5, <1>13

-----------------------------------------------------------------------------
(* What a step on the tables means for those at work *)

(* A head was there before, or belongs to a session that is open. *)
HeadsFrom ==
  \A m \in Mems : \A x \in Heads(m)' :
    \/ x \in Heads(m) /\ ownerTable'[m][x] = ownerTable[m][x]
    \/ sState[ownerTable'[m][x]] = "OPEN"

(* A head stays as it is. *)
HeadStays(m, x) ==
  x \in Heads(m) => /\ x \in Heads(m)' /\ freeTable'[m][x] = freeTable[m][x]
                    /\ ownerTable'[m][x] = ownerTable[m][x]

(* A grant was there before, or reaches over no page where a scan is. *)
GrantsFit ==
  \A g \in Grants' :
    \/ g \in Grants
    \/ \A s \in Sess :
         Scanning(s) /\ g.region = Space(reapMem[s]) /\ g.first < PlaceOf(reapMem[s], reapPage[s])
           => EndOf(g) <= PlaceOf(reapMem[s], reapPage[s])

(* A new grant keeps all heads and lies across no page where a scan is.    *)
LEMMA StepAdds ==
  ASSUME TablesInv, ReleasesTyped, NEW k \in Mems, NEW p \in Pages(k), NEW n \in Nat \ {0},
         NEW s \in Sess, Roomy(k, p, n), Granted(k, p, n, s), sState[s] = "OPEN",
         \A z \in Sess : sState[z] = "SCAN" => Piece(k, p, n, reapMem[z]) = {}
  PROVE  HeadsFrom /\ GrantsFit /\ \A m \in Mems : \A x \in Pages(m) : HeadStays(m, x)
<1> DEFINE g == Record(k, p, n, s)
<1>1. HeadsFrom /\ \A m \in Mems : \A x \in Pages(m) : HeadStays(m, x)
  <2>1. /\ \A m \in Mems : Heads(m)' = IF m = k THEN Heads(m) \cup {p} ELSE Heads(m)
        /\ \A m \in Mems : \A x \in Heads(m) : /\ freeTable'[m][x] = freeTable[m][x]
                                               /\ ownerTable'[m][x] = ownerTable[m][x]
        /\ ownerTable'[k][p] = s
    BY AddHead
  <2>2. HeadsFrom
    <3> SUFFICES ASSUME NEW m \in Mems, NEW x \in Heads(m)'
                 PROVE  \/ x \in Heads(m) /\ ownerTable'[m][x] = ownerTable[m][x]
                        \/ sState[ownerTable'[m][x]] = "OPEN"
      BY DEF HeadsFrom
    <3>1. CASE x \in Heads(m)
      BY <3>1, <2>1
    <3>2. CASE m = k /\ x = p
      BY <3>2, <2>1
    <3> QED
      BY <3>1, <3>2, <2>1
  <2>3. \A m \in Mems : \A x \in Pages(m) : HeadStays(m, x)
    BY <2>1 DEF HeadStays
  <2> QED
    BY <2>2, <2>3
<1>2. GrantsFit
  <2>1. Grants' = Grants \cup {g}
    BY AddGrant
  <2>2. /\ g.region = Space(k) /\ g.first = PlaceOf(k, p) /\ g.len = n
        /\ PlaceOf(k, p) \in Nat /\ EndOf(g) = PlaceOf(k, p) + n
    BY Places, Sizing DEF Record, EndOf
  <2> HIDE DEF g
  <2>3. ASSUME NEW z \in Sess, Scanning(z), g.region = Space(reapMem[z]),
               g.first < PlaceOf(reapMem[z], reapPage[z])
        PROVE  EndOf(g) <= PlaceOf(reapMem[z], reapPage[z])
    <3>1. /\ reapMem[z] \in Mems /\ reapPage[z] \in Pages(reapMem[z])
          /\ PlaceOf(reapMem[z], reapPage[z]) \in Nat
      <4>1. reapMem[z] \in Mems /\ reapPage[z] \in Nat /\ reapPage[z] < PageCount[reapMem[z]]
        BY <2>3 DEF ReleasesTyped, Scanning
      <4>2. PageCount[reapMem[z]] \in Nat
        BY <4>1, Sizing
      <4>3. PlaceOf(reapMem[z], reapPage[z]) \in Nat
        BY <4>1, Places
      <4> QED
        BY <4>1, <4>2, <4>3 DEF Pages
    <3>2. reapPage[z] \notin Piece(k, p, n, reapMem[z])
      BY <2>3 DEF Scanning
    <3>3. PlaceOf(reapMem[z], reapPage[z]) \notin PlaceOf(k, p) .. (PlaceOf(k, p) + n - 1)
      BY <3>1, <3>2, <2>2, <2>3 DEF Piece
    <3> QED
      BY <3>1, <3>3, <2>2, <2>3
  <2> QED
    BY <2>1, <2>3 DEF GrantsFit
<1> QED
  BY <1>1, <1>2

(* A free keeps all heads but one.                                         *)
LEMMA StepDrops ==
  ASSUME TablesInv, NEW k \in Mems, NEW p \in Heads(k), Dropped(k, p, freeTable[k][p])
  PROVE  /\ HeadsFrom /\ GrantsFit
         /\ \A m \in Mems : \A x \in Pages(m) : m # k \/ x # p => HeadStays(m, x)
         /\ p \notin Heads(k)'
<1>1. /\ \A m \in Mems : Heads(m)' = IF m = k THEN Heads(m) \ {p} ELSE Heads(m)
      /\ \A m \in Mems : \A x \in Heads(m)' : /\ x \in Heads(m) /\ (m # k \/ x # p)
                                              /\ freeTable'[m][x] = freeTable[m][x]
                                              /\ ownerTable'[m][x] = ownerTable[m][x]
  BY DropHead
<1>2. Grants' \subseteq Grants
  BY DropGrant
<1>3. ASSUME NEW m \in Mems, NEW x \in Pages(m), m # k \/ x # p PROVE HeadStays(m, x)
  BY <1>1, <1>3 DEF HeadStays
<1> QED
  BY <1>1, <1>2, <1>3 DEF HeadsFrom, GrantsFit

(* Tables that stay tell of the same grants.                               *)
LEMMA StepLeaves ==
  ASSUME UNCHANGED tableVars
  PROVE  /\ HeadsFrom /\ GrantsFit
         /\ \A m \in Mems : \A x \in Pages(m) : HeadStays(m, x)
         /\ TablesInv => TablesInv'
         /\ Grants' = Grants
<1>1. \A m \in Mems : Heads(m)' = Heads(m)
  BY DEF Heads, Pages, tableVars
<1>2. ownerTable' = ownerTable /\ freeTable' = freeTable
  BY DEF tableVars
<1>3. Grants' = Grants
  <2>1. \A m \in Mems : {GrantAt(m, p) : p \in Heads(m)}' = {GrantAt(m, p) : p \in Heads(m)}
    BY <1>1, <1>2 DEF GrantAt
  <2> QED
    BY <2>1 DEF Grants
<1>4. TablesInv => TablesInv'
  <2>1. TablesTyped => TablesTyped'
    BY DEF tableVars, TablesTyped, Pages
  <2>2. Tiled => Tiled'
    BY <1>3 DEF tableVars, Tiled, Pages, Covers, Space, PlaceOf, EndOf
  <2>3. PartsEntered => PartsEntered'
    BY <1>3 DEF tableVars, PartsEntered, Pages, Covers, Space, PlaceOf
  <2>4. Clean => Clean'
    BY DEF tableVars, Clean, Pages
  <2>5. UsedIsMarked => UsedIsMarked'
    BY DEF tableVars, UsedIsMarked
  <2>6. HugeKnown => HugeKnown'
    BY <1>1, Sizing DEF tableVars, HugeKnown, Spans
  <2> QED
    BY <2>1, <2>2, <2>3, <2>4, <2>5, <2>6 DEF TablesInv
<1> QED
  BY <1>1, <1>2, <1>3, <1>4 DEF HeadsFrom, GrantsFit, HeadStays

(* Owners go on to exist. *)
LEMMA OwnedKept ==
  ASSUME Owned, HeadsFrom, TablesTyped',
         \A z \in Sess : sState[z] # "NONE" => sState'[z] # "NONE"
  PROVE  Owned'
<1> SUFFICES ASSUME NEW m \in Mems, NEW x \in Heads(m)' PROVE sState'[ownerTable'[m][x]] # "NONE"
  BY DEF Owned
<1>1. ownerTable'[m][x] \in Sess
  BY DEF TablesTyped, Heads
<1>2. sState[ownerTable'[m][x]] # "NONE"
  BY DEF HeadsFrom, Owned
<1> QED
  BY <1>1, <1>2

(* The release of a session goes on as before when others work. *)
LEMMA ScanKept ==
  ASSUME NEW s \in Sess, ScanFine(s), ReleasesTyped, HeadsFrom, GrantsFit,
         sState'[s] = sState[s], reapMem'[s] = reapMem[s], reapPage'[s] = reapPage[s],
         reapBlk'[s] = reapBlk[s],
         sState[s] = "HUGE" => HeadStays(reapMem[s], reapBlk[s])
  PROVE  ScanFine(s)'
<1>1. reapMem[s] \in Mems
  BY DEF ReleasesTyped
<1>2. \A m \in Mems : \A x \in Heads(m)' :
        Leaving(s) /\ ownerTable'[m][x] = s => x \in Heads(m) /\ ownerTable[m][x] = s
  BY DEF HeadsFrom, Leaving
<1>3. Behind(s)'
  <2>1. ASSUME Leaving(s)', NEW m \in Mems, m < reapMem'[s] PROVE NoneIn(m, s)'
    BY <2>1, <1>2 DEF ScanFine, Behind, Leaving, NoneIn
  <2>2. PICK m \in Mems : m = reapMem[s] /\ m = reapMem'[s]
    BY <1>1
  <2>3. ASSUME sState'[s] \in {"SCAN", "HUGE", "RELOCK"}, NEW x \in Heads(m)',
               x < reapPage'[s], ownerTable'[m][x] = s
        PROVE  sState'[s] = "HUGE" /\ x = reapBlk'[s]
    BY <2>2, <2>3, <1>2 DEF ScanFine, Behind, Leaving
  <2> QED
    BY <2>1, <2>2, <2>3 DEF Behind
<1>4. Scanning(s)' => Between(Space(reapMem[s]), PlaceOf(reapMem[s], reapPage[s]))'
  BY DEF ScanFine, Scanning, Between, GrantsFit
<1>5. sState'[s] = "HUGE" => Spanning(s, reapMem[s], reapBlk[s])'
  BY DEF ScanFine, Spanning, HeadStays, Spans
<1>6. sState'[s] # "HUGE" => reapBlk'[s] = 0
  BY DEF ScanFine
<1> QED
  BY <1>3, <1>4, <1>5, <1>6 DEF ScanFine, Space, PlaceOf, Between, EndOf, Spanning, Spans, Heads, Pages

-----------------------------------------------------------------------------
(* What a step on the tables promises *)

AbsStep == [Abs!Next]_<<Grants, Present>>

(* Apart for the records is disjoint for the sets of pages. *)
LEMMA GrantRefines ==
  ASSUME TablesInv, NEW k \in Mems, NEW p \in Pages(k), NEW n \in Nat \ {0}, NEW s \in Sess,
         Roomy(k, p, n), Granted(k, p, n, s), s \in Present, Present' = Present
  PROVE  AbsStep
<1>1. PICK g : g = Record(k, p, n, s)
  OBVIOUS
<1>2. /\ Grants' = Grants \cup {g} /\ g \notin Grants
      /\ \A h \in Grants : Disjoint(g, h)
  BY <1>1, AddGrant
<1>3. /\ g \in Abs!Grant /\ g.owner = s /\ g.first \in Nat /\ g.len \in Nat
      /\ g.first + g.len <= SpaceSize[g.region]
  <2>1. PlaceOf(k, p) \in Nat /\ Space(k) \in Spaces
    BY Places, Sizing
  <2> QED
    BY <1>1, <2>1, Places DEF Record, Abs!Grant, Roomy
<1>4. ASSUME NEW h \in Grants PROVE Abs!Apart(g, h)
  <2> SUFFICES ASSUME g.region = h.region PROVE Abs!PagesOf(g) \cap Abs!PagesOf(h) = {}
    BY DEF Abs!Apart
  <2>1. h.first \in Nat /\ h.len \in Nat
    BY GrantFacts DEF TablesInv
  <2>2. g.first + g.len <= h.first \/ h.first + h.len <= g.first
    BY <1>2 DEF Disjoint, EndOf
  <2>3. PICK a \in Nat, b \in Nat, c \in Nat, d \in Nat :
          a = g.first /\ b = g.len /\ c = h.first /\ d = h.len
    BY <1>3, <2>1
  <2>4. (a .. (a + b - 1)) \cap (c .. (c + d - 1)) = {}
    BY <2>2, <2>3
  <2> QED
    BY <2>3, <2>4 DEF Abs!PagesOf
<1>5. Abs!Allocate
  BY <1>2, <1>3, <1>4 DEF Abs!Allocate
<1> QED
  BY <1>5 DEF AbsStep, Abs!Next

(* To take a head away is to give its grant back.                          *)
LEMMA DropRefines ==
  ASSUME TablesInv, NEW k \in Mems, NEW p \in Heads(k), Dropped(k, p, freeTable[k][p]),
         Present' = Present
  PROVE  AbsStep
<1>1. PICK g : g = GrantAt(k, p)
  OBVIOUS
<1>2. g \in Grants /\ Grants' = Grants \ {g}
  BY <1>1, DropGrant
<1>3. Abs!GiveBack
  BY <1>2 DEF Abs!GiveBack
<1> QED
  BY <1>3 DEF AbsStep, Abs!Next

(* A step within the life of a session is seen by nobody.                  *)
LEMMA SamePresent ==
  ASSUME NEW s \in Sess, \A z \in Sess : z # s => sState'[z] = sState[z],
         sState'[s] = "NONE" <=> sState[s] = "NONE"
  PROVE  Present' = Present
BY DEF Present

(* A step that keeps the tables promises nothing new.                      *)
LEMMA QuietRefines ==
  ASSUME UNCHANGED tableVars, Present' = Present
  PROVE  AbsStep
<1>1. Grants' = Grants
  BY StepLeaves
<1> QED
  BY <1>1 DEF AbsStep

-----------------------------------------------------------------------------
(* The steps of a thread *)

(* Only a grant in the MAIN memories goes beyond its memory.               *)
LEMMA SpansInMain ==
  ASSUME TablesInv, NEW m \in Mems, NEW p \in Heads(m), Spans(m, p)
  PROVE  m \in Main
<1> SUFFICES ASSUME m \notin Main PROVE FALSE
  OBVIOUS
<1>1. /\ GrantAt(m, p) \in Grants /\ p \in Nat /\ freeTable[m][p] \in Nat
      /\ GrantAt(m, p).region = Space(m)
      /\ EndOf(GrantAt(m, p)) = PlaceOf(m, p) + freeTable[m][p]
  BY GrantFacts DEF TablesInv
<1>2. SpaceSize[Space(m)] = PageCount[m] /\ PlaceOf(m, p) = p /\ PageCount[m] \in Nat
  BY Places, Sizing DEF Limit, PlaceOf
<1> QED
  BY <1>1, <1>2 DEF TablesInv, Tiled, Spans

(* What a thread leaves behind when its call goes on as c.                 *)
LEMMA ThreadStep ==
  ASSUME MmInv, NEW t \in Threads, NEW c, c = Nothing \/ CallTyped(c),
         call' = [call EXCEPT ![t] = c], UNCHANGED <<stuck, reapVars>>,
         TablesInv', HeadsFrom, GrantsFit,
         c # Nothing /\ c.op = "huge" => Spanning(c.sess, c.mem, c.page)' /\ ~FreedElsewhere(c.mem, c.page),
         \A u \in Threads : u # t /\ InHuge(u) => HeadStays(call[u].mem, call[u].page),
         \A z \in Sess : sState[z] = "HUGE" => HeadStays(reapMem[z], reapBlk[z])
  PROVE  MmInv'
<1> USE DEF reapVars
<1>1. CallsTyped'
  <2>1. \A x : CallTyped(x)' <=> CallTyped(x)
    BY DEF CallTyped, Pages
  <2>2. DOMAIN call' = Threads /\ call'[t] = c /\ \A u \in Threads : u # t => call'[u] = call[u]
    BY DEF MmInv, WorkInv, CallsTyped
  <2> QED
    BY <2>1, <2>2 DEF MmInv, WorkInv, CallsTyped
<1>2. call'[t] = c /\ \A u \in Threads : u # t => call'[u] = call[u]
  BY DEF MmInv, WorkInv, CallsTyped
<1>3. ReleasesTyped'
  BY DEF MmInv, WorkInv, ReleasesTyped, Pages
<1>4. Owned'
  BY OwnedKept DEF MmInv, WorkInv, TablesInv
<1>5. Pending'
  <2>1. ASSUME NEW u \in Threads, InHuge(u)'
        PROVE  Spanning(call[u].sess, call[u].mem, call[u].page)'
    <3>1. CASE u = t
      BY <2>1, <3>1, <1>2 DEF InHuge, Idle, Spanning, Spans, Heads, Pages
    <3>2. CASE u # t
      <4>1. InHuge(u) /\ call'[u] = call[u]
        BY <2>1, <3>2, <1>2 DEF InHuge, Idle
      <4>2. Spanning(call[u].sess, call[u].mem, call[u].page) /\ HeadStays(call[u].mem, call[u].page)
        BY <3>2, <4>1 DEF MmInv, WorkInv, Pending
      <4> QED
        BY <4>1, <4>2 DEF Spanning, HeadStays, Spans, Heads, Pages
    <3> QED
      BY <3>1, <3>2
  <2>2. ASSUME NEW u \in Threads, NEW v \in Threads, InHuge(u)', InHuge(v)', u # v
        PROVE  call'[u].mem # call'[v].mem \/ call'[u].page # call'[v].page
    <3>1. CASE u = t
      <4>1. call'[v] = call[v] /\ ~Idle(v) /\ call[v].op = "huge" /\ c # Nothing /\ c.op = "huge"
        BY <2>2, <3>1, <1>2 DEF InHuge, Idle
      <4> QED
        BY <3>1, <4>1, <1>2 DEF FreedElsewhere
    <3>2. CASE v = t
      <4>1. call'[u] = call[u] /\ ~Idle(u) /\ call[u].op = "huge" /\ c # Nothing /\ c.op = "huge"
        BY <2>2, <3>2, <1>2 DEF InHuge, Idle
      <4> QED
        BY <3>2, <4>1, <1>2 DEF FreedElsewhere
    <3>3. CASE u # t /\ v # t
      BY <2>2, <3>3, <1>2 DEF InHuge, Idle, MmInv, WorkInv, Pending
    <3> QED
      BY <3>1, <3>2, <3>3
  <2> QED
    BY <2>1, <2>2 DEF Pending
<1>6. OneScanner'
  BY DEF MmInv, WorkInv, OneScanner
<1>7. ASSUME NEW z \in Sess PROVE ScanFine(z)'
  BY ScanKept DEF MmInv, WorkInv
<1> QED
  BY <1>1, <1>3, <1>4, <1>5, <1>6, <1>7 DEF MmInv, WorkInv

(* A thread whose tables stay and whose call is not about to go on to      *)
(* __free_huge_mem.                                                        *)
LEMMA QuietThread ==
  ASSUME MmInv, NEW t \in Threads, NEW c, c = Nothing \/ CallTyped(c),
         call' = [call EXCEPT ![t] = c], UNCHANGED <<stuck, reapVars, tableVars>>,
         c = Nothing \/ c.op # "huge"
  PROVE  MmInv' /\ AbsStep
<1>1. /\ HeadsFrom /\ GrantsFit /\ TablesInv'
      /\ \A m \in Mems : \A x \in Pages(m) : HeadStays(m, x)
  BY StepLeaves DEF MmInv
<1>2. \A u \in Threads : InHuge(u) => HeadStays(call[u].mem, call[u].page)
  BY <1>1 DEF MmInv, WorkInv, CallsTyped, CallTyped, InHuge, Idle
<1>3. \A z \in Sess : sState[z] = "HUGE" => HeadStays(reapMem[z], reapBlk[z])
  BY <1>1 DEF MmInv, WorkInv, ReleasesTyped
<1>4. AbsStep
  BY QuietRefines DEF reapVars, Present
<1> QED
  BY <1>1, <1>2, <1>3, <1>4, ThreadStep

(* A thread that makes a grant. *)
LEMMA GrantingThread ==
  ASSUME MmInv, NEW t \in Threads, NEW k \in Mems, NEW p \in Pages(k), NEW n \in Nat \ {0},
         NEW s \in Sess, sState[s] = "OPEN", Roomy(k, p, n), Granted(k, p, n, s),
         \A z \in Sess : sState[z] = "SCAN" => Piece(k, p, n, reapMem[z]) = {},
         call' = [call EXCEPT ![t] = [op |-> "copy", sess |-> s, mem |-> k, page |-> p]],
         UNCHANGED <<stuck, reapVars>>
  PROVE  MmInv' /\ AbsStep
<1>1. TablesInv'
  BY GrantKeepsTables DEF MmInv
<1>2. HeadsFrom /\ GrantsFit /\ \A m \in Mems : \A x \in Pages(m) : HeadStays(m, x)
  BY StepAdds DEF MmInv, WorkInv
<1>3. \A u \in Threads : InHuge(u) => HeadStays(call[u].mem, call[u].page)
  BY <1>2 DEF MmInv, WorkInv, CallsTyped, CallTyped, InHuge, Idle
<1>4. \A z \in Sess : sState[z] = "HUGE" => HeadStays(reapMem[z], reapBlk[z])
  BY <1>2 DEF MmInv, WorkInv, ReleasesTyped
<1>5. PICK c : c = [op |-> "copy", sess |-> s, mem |-> k, page |-> p]
  OBVIOUS
<1>6. CallTyped(c) /\ c.op # "huge" /\ call' = [call EXCEPT ![t] = c]
  BY <1>5 DEF CallTyped
<1>7. AbsStep
  BY GrantRefines DEF reapVars, Present, MmInv
<1> QED
  BY <1>1, <1>2, <1>3, <1>4, <1>6, <1>7, ThreadStep

(* One memory is tried: a grant, the next memory, or the end.              *)
LEMMA TryIsSound ==
  ASSUME MmInv, NEW t \in Threads, NEW s \in Sess, sState[s] = "OPEN", NEW size \in Sizes,
         NEW kind \in Kinds, NEW m \in Mems, TryMem(t, s, size, kind, m)
  PROVE  MmInv' /\ AbsStep
<1>0. PICK k \in Candidates(kind, m) : \E n : n = PageNeeded(k, size) /\
        (LET room == IF Enough(k, n) THEN ZeroAreas(k, n) ELSE {}
        IN  /\ LockFree(k)
            /\ \/ \E p \in room :
                    /\ TakePages(k, p, n, s)
                    /\ call' = [call EXCEPT ![t] = [op |-> "copy", sess |-> s, mem |-> k, page |-> p]]
               \/ /\ call' = [call EXCEPT ![t] =
                       IF Candidates(kind, k + 1) = {} THEN Nothing
                       ELSE [op |-> "try", sess |-> s, size |-> size, kind |-> kind, mem |-> k + 1]]
                  /\ UNCHANGED tableVars
            /\ UNCHANGED <<stuck, reapVars>>)
  BY DEF TryMem
<1>1. PICK n : n = PageNeeded(k, size) /\
        (LET room == IF Enough(k, n) THEN ZeroAreas(k, n) ELSE {}
        IN  /\ LockFree(k)
            /\ \/ \E p \in room :
                    /\ TakePages(k, p, n, s)
                    /\ call' = [call EXCEPT ![t] = [op |-> "copy", sess |-> s, mem |-> k, page |-> p]]
               \/ /\ call' = [call EXCEPT ![t] =
                       IF Candidates(kind, k + 1) = {} THEN Nothing
                       ELSE [op |-> "try", sess |-> s, size |-> size, kind |-> kind, mem |-> k + 1]]
                  /\ UNCHANGED tableVars
            /\ UNCHANGED <<stuck, reapVars>>)
  BY <1>0
<1>2. k \in Mems /\ n \in Nat \ {0}
  BY <1>0, <1>1, PagesNeeded DEF Candidates, PageNeeded
<1>3. ASSUME NEW p \in ZeroAreas(k, n), TakePages(k, p, n, s),
             call' = [call EXCEPT ![t] = [op |-> "copy", sess |-> s, mem |-> k, page |-> p]]
      PROVE  MmInv' /\ AbsStep
  <2>1. p \in Pages(k) /\ p + n <= PageCount[k] /\ Roomy(k, p, n) /\ Granted(k, p, n, s)
    BY <1>2, <1>3, TakeGrants DEF MmInv
  <2>2. \A z \in Sess : sState[z] = "SCAN" => reapMem[z] \in Mems /\ reapMem[z] # k
    BY <1>1 DEF LockFree, MmInv, WorkInv, ReleasesTyped
  <2>3. \A z \in Sess : sState[z] = "SCAN" => Piece(k, p, n, reapMem[z]) = {}
    BY <1>2, <2>1, <2>2, PieceInside
  <2>4. UNCHANGED <<stuck, reapVars>>
    BY <1>1
  <2> QED
    BY <1>2, <1>3, <2>1, <2>3, <2>4, GrantingThread
<1>4. ASSUME UNCHANGED tableVars,
             call' = [call EXCEPT ![t] =
                       IF Candidates(kind, k + 1) = {} THEN Nothing
                       ELSE [op |-> "try", sess |-> s, size |-> size, kind |-> kind, mem |-> k + 1]]
      PROVE  MmInv' /\ AbsStep
  <2>1. PICK c : c = IF Candidates(kind, k + 1) = {} THEN Nothing
                     ELSE [op |-> "try", sess |-> s, size |-> size, kind |-> kind, mem |-> k + 1]
    OBVIOUS
  <2>2. ASSUME Candidates(kind, k + 1) # {} PROVE k + 1 \in Mems
    <3>1. PICK j \in Mems : j >= k + 1
      BY <2>2 DEF Candidates
    <3> QED
      BY <3>1, <1>2, MmAssumption DEF Mems
  <2>3. c = Nothing \/ (CallTyped(c) /\ c.op # "huge")
    BY <2>1, <2>2 DEF CallTyped
  <2> QED
    BY <1>1, <1>4, <2>1, <2>3, QuietThread
<1> QED
  BY <1>1, <1>3, <1>4

(* An allocation over several memories.                                    *)
LEMMA HugeIsSound ==
  ASSUME MmInv, NEW t \in Threads, NEW s \in Sess, NEW size \in Sizes, MallocHuge(t, s, size)
  PROVE  MmInv' /\ AbsStep
<1> DEFINE n == ((size + HugeSize - 1) % U64) \div HugeSize
<1>2. n \in Nat \ {0}
  <2>1. PICK m \in Main : HugeSize = PageSize[m]
    BY MmAssumption DEF HugeSize
  <2> QED
    BY <2>1, PagesNeeded, Sizing
<1>3. PICK g \in HugeAreas(n) :
        /\ IsLeast(g, HugeAreas(n))
        /\ hugeTable' = [hugeTable EXCEPT ![g] = n]
        /\ bitmap' = [m \in Mems |-> IF m \in Main THEN bitmap[m] \cup PiecePages(m, g, n)
                                     ELSE bitmap[m]]
        /\ EnterParts(g, n, s)
        /\ ownerTable' = [ownerTable EXCEPT ![MemAt(g)][PageAt(g)] = s]
        /\ pageUsed' = [m \in Mems |->
                         IF m \in Main THEN pageUsed[m] + Cardinality(PiecePages(m, g, n))
                         ELSE pageUsed[m]]
        /\ call' = [call EXCEPT ![t] =
             [op |-> "copy", sess |-> s, mem |-> MemAt(g), page |-> PageAt(g)]]
  BY DEF MallocHuge
<1> HIDE DEF n
<1>4. PICK k \in Mems, p \in Pages(MemAt(g)) : k = MemAt(g) /\ p = PageAt(g)
  BY MemHolds, Sizing DEF HugeAreas
<1>5. /\ k \in Main /\ p \in Pages(k) /\ Roomy(k, p, n) /\ Granted(k, p, n, s)
  BY <1>2, <1>3, <1>4, HugeGrants DEF MmInv
<1>6. ASSUME NEW z \in Sess, sState[z] = "SCAN" PROVE Piece(k, p, n, reapMem[z]) = {}
  <2>1. reapMem[z] \in Mems /\ reapMem[z] \notin Main
    BY <1>6 DEF MallocHuge, MainLocksFree, LockFree, MmInv, WorkInv, ReleasesTyped
  <2> QED
    BY <2>1, <1>2, <1>5, PieceMain
<1>7. /\ sState[s] = "OPEN" /\ UNCHANGED <<stuck, reapVars>>
      /\ call' = [call EXCEPT ![t] = [op |-> "copy", sess |-> s, mem |-> k, page |-> p]]
  BY <1>3, <1>4 DEF MallocHuge
<1> QED
  BY <1>2, <1>5, <1>6, <1>7, GrantingThread

(* A free, or the first half of one that spans.                            *)
LEMMA FreeLockedIsSound ==
  ASSUME MmInv, NEW t \in Threads, NEW s \in Sess, sState[s] = "OPEN", NEW m \in Mems,
         NEW p \in Pages(m), FreeLocked(t, s, m, p)
  PROVE  MmInv' /\ AbsStep
<1>1. Freeable(s, m, p) => p \in Heads(m)
  BY MmAssumption DEF Freeable, Heads
<1>2. CASE ~Freeable(s, m, p)
  BY <1>2, QuietThread DEF FreeLocked, Done
<1>3. CASE Freeable(s, m, p) /\ Spans(m, p)
  <2>1. PICK c : c = [op |-> "huge", sess |-> s, mem |-> m, page |-> p]
    OBVIOUS
  <2>2. /\ call' = [call EXCEPT ![t] = c] /\ CallTyped(c) /\ ~FreedElsewhere(c.mem, c.page)
        /\ UNCHANGED <<tableVars, stuck, reapVars>>
    BY <2>1, <1>3 DEF FreeLocked, CallTyped
  <2>3. /\ HeadsFrom /\ GrantsFit /\ TablesInv'
        /\ \A k \in Mems : \A x \in Pages(k) : HeadStays(k, x)
    BY <2>2, StepLeaves DEF MmInv
  <2>4. Spanning(c.sess, c.mem, c.page)'
    BY <2>1, <2>3, <1>1, <1>3 DEF Spanning, HeadStays, Spans, Freeable
  <2>5. \A u \in Threads : InHuge(u) => HeadStays(call[u].mem, call[u].page)
    BY <2>3 DEF MmInv, WorkInv, CallsTyped, CallTyped, InHuge, Idle
  <2>6. \A z \in Sess : sState[z] = "HUGE" => HeadStays(reapMem[z], reapBlk[z])
    BY <2>3 DEF MmInv, WorkInv, ReleasesTyped
  <2>7. AbsStep
    BY <2>2, QuietRefines DEF reapVars, Present
  <2> QED
    BY <2>2, <2>3, <2>4, <2>5, <2>6, <2>7, ThreadStep
<1>4. CASE Freeable(s, m, p) /\ ~Spans(m, p)
  <2>1. p \in Heads(m) /\ ReleasePages(m, p) /\ call' = [call EXCEPT ![t] = Nothing]
        /\ UNCHANGED <<stuck, reapVars>>
    BY <1>1, <1>4 DEF FreeLocked, Done
  <2>2. Dropped(m, p, freeTable[m][p])
    BY <2>1, <1>4, ReleaseDrops DEF MmInv
  <2>3. /\ TablesInv' /\ HeadsFrom /\ GrantsFit
        /\ \A k \in Mems : \A x \in Pages(k) : k # m \/ x # p => HeadStays(k, x)
    BY <2>1, <2>2, DropKeepsTables, StepDrops DEF MmInv
  <2>4. \A u \in Threads : InHuge(u) => HeadStays(call[u].mem, call[u].page)
    BY <2>3, <1>4 DEF MmInv, WorkInv, CallsTyped, CallTyped, InHuge, Idle, Pending, Spanning
  <2>5. \A z \in Sess : sState[z] = "HUGE" => HeadStays(reapMem[z], reapBlk[z])
    BY <2>3, <1>4 DEF MmInv, WorkInv, ReleasesTyped, ScanFine, Spanning
  <2>6. PICK c : c = Nothing
    OBVIOUS
  <2>7. AbsStep
    BY <2>1, <2>2, DropRefines DEF reapVars, Present, MmInv
  <2> QED
    BY <2>1, <2>3, <2>4, <2>5, <2>6, <2>7, ThreadStep
<1> QED
  BY <1>2, <1>3, <1>4

(* The second half finds the grant that the first one saw.                 *)
LEMMA SpanningIsSound ==
  ASSUME MmInv, NEW t \in Threads, FreeSpanning(t)
  PROVE  MmInv' /\ AbsStep
<1>1. PICK s \in Sess, m \in Mems, p \in Pages(call[t].mem) :
        s = call[t].sess /\ m = call[t].mem /\ p = call[t].page /\ sState[s] = "OPEN"
  BY DEF FreeSpanning, MmInv, WorkInv, CallsTyped, CallTyped, Idle
<1>2. p \in Heads(m) /\ Spans(m, p) /\ ownerTable[m][p] = s /\ InHuge(t)
  BY <1>1 DEF FreeSpanning, InHuge, MmInv, WorkInv, Pending, Spanning
<1>3. m \in Main
  BY <1>2, SpansInMain DEF MmInv
<1>4. Dropped(m, p, freeTable[m][p]) /\ UNCHANGED stuck
  BY <1>1, <1>2, <1>3, HugeDrops DEF FreeSpanning, MmInv
<1>5. /\ TablesInv' /\ HeadsFrom /\ GrantsFit
      /\ \A k \in Mems : \A x \in Pages(k) : k # m \/ x # p => HeadStays(k, x)
  BY <1>2, <1>4, DropKeepsTables, StepDrops DEF MmInv
<1>6. \A u \in Threads : u # t /\ InHuge(u) => HeadStays(call[u].mem, call[u].page)
  BY <1>1, <1>2, <1>5 DEF MmInv, WorkInv, CallsTyped, CallTyped, InHuge, Idle, Pending
<1>7. \A z \in Sess : sState[z] = "HUGE" => HeadStays(reapMem[z], reapBlk[z])
  BY <1>1, <1>2, <1>5 DEF MmInv, WorkInv, ReleasesTyped, ScanFine, Spanning
<1>8. PICK c : c = Nothing
  OBVIOUS
<1>9. AbsStep
  BY <1>2, <1>4, DropRefines DEF FreeSpanning, reapVars, Present, MmInv
<1> QED
  BY <1>4, <1>5, <1>6, <1>7, <1>8, <1>9, ThreadStep DEF FreeSpanning, Done

-----------------------------------------------------------------------------
(* The release of a session *)

(* The part of a grant that comes into a memory is the beginning of it.    *)
LEMMA PartLength ==
  ASSUME TablesTyped, NEW g \in Grants, NEW m \in Mems, Covers(g, m, 0), g.first < PlaceOf(m, 0)
  PROVE  \E n \in Nat \ {0} :
           /\ {q \in Pages(m) : Covers(g, m, q)} = 0 .. (n - 1)
           /\ Cardinality({q \in Pages(m) : Covers(g, m, q)}) = n
           /\ n <= PageCount[m]
           /\ n < PageCount[m] => PlaceOf(m, 0) + n = EndOf(g)
<1>1. PICK a \in Nat, e \in Nat, c \in Nat \ {0} : a = PlaceOf(m, 0) /\ e = EndOf(g) /\ c = PageCount[m]
  BY GrantFacts, Places, Sizing
<1>2. /\ g.first \in Nat /\ g.len \in Nat /\ 0 \in Pages(m)
      /\ \A q \in Pages(m) : q \in Nat /\ q < c /\ PlaceOf(m, q) = a + q
  BY <1>1, GrantFacts, Places, Sizing
<1>3. g.region = Space(m) /\ a < e /\ g.first < a
  BY <1>1, <1>2, CoverIff
<1>4. PICK n \in Nat \ {0} : n = IF e - a < c THEN e - a ELSE c
  BY <1>1, <1>3
<1>5. \A q \in Pages(m) : Covers(g, m, q) <=> q < n
  <2> SUFFICES ASSUME NEW q \in Pages(m) PROVE Covers(g, m, q) <=> q < n
    OBVIOUS
  <2>1. Covers(g, m, q) <=> g.first <= a + q /\ a + q < e
    BY <1>1, <1>2, <1>3, CoverIff
  <2>2. q \in Nat /\ q < c
    BY <1>2
  <2> QED
    BY <2>1, <2>2, <1>1, <1>2, <1>3, <1>4
<1>6. {q \in Pages(m) : Covers(g, m, q)} = 0 .. (n - 1)
  <2>1. \A q : q \in 0 .. (n - 1) <=> q \in Pages(m) /\ q < n
    <3>1. Pages(m) = 0 .. (c - 1)
      BY <1>1 DEF Pages
    <3> QED
      BY <3>1, <1>1, <1>3, <1>4
  <2> QED
    BY <2>1, <1>5
<1>7. Cardinality(0 .. (n - 1)) = n
  <2>1. 0 \in Int /\ n - 1 \in Int
    OBVIOUS
  <2>2. Cardinality(0 .. (n - 1)) = IF 0 > n - 1 THEN 0 ELSE n - 1 - 0 + 1
    BY <2>1, FS_Interval
  <2> QED
    BY <2>2
<1>8. Cardinality({q \in Pages(m) : Covers(g, m, q)}) = n
  BY <1>6, <1>7
<1>9. n <= PageCount[m] /\ (n < PageCount[m] => PlaceOf(m, 0) + n = EndOf(g))
  BY <1>1, <1>3, <1>4
<1> QED
  BY <1>6, <1>8, <1>9

(* No grant reaches over the end of another. *)
LEMMA EndIsBetween ==
  ASSUME TablesInv, NEW g \in Grants, NEW x, x = g.region
  PROVE  Between(x, EndOf(g))
<1> SUFFICES ASSUME NEW h \in Grants, h.region = g.region, h.first < EndOf(g)
             PROVE  EndOf(h) <= EndOf(g)
  BY DEF Between
<1>1. /\ g.first \in Nat /\ EndOf(g) \in Nat /\ g.first < EndOf(g)
      /\ h.first \in Nat /\ EndOf(h) \in Nat
  BY GrantFacts DEF TablesInv
<1>2. h = g \/ EndOf(h) <= g.first \/ EndOf(g) <= h.first
  BY DEF TablesInv, Tiled, Disjoint
<1> QED
  BY <1>1, <1>2

(* The first marked page from the scan on is the head of a grant, or the   *)
(* part of one at the beginning of the memory; the table tells how far it  *)
(* goes, there is no other head before that, and no grant goes beyond it.  *)
LEMMA ScanTurn ==
  ASSUME TablesInv, ReleasesTyped, NEW s \in Sess, sState[s] = "SCAN", ScanFine(s),
         NEW m, m = reapMem[s],
         NEW blk \in BitsFrom(m, reapPage[s]), IsLeast(blk, BitsFrom(m, reapPage[s]))
  PROVE  /\ m \in Mems /\ blk \in Pages(m) /\ reapPage[s] <= blk
         /\ freeTable[m][blk] \in Nat \ {0} /\ ScanAfter(m, blk) > blk
         /\ \A x \in Heads(m) : x < ScanAfter(m, blk) => x < reapPage[s] \/ x = blk
         /\ ScanAfter(m, blk) < PageCount[m] => Between(Space(m), PlaceOf(m, ScanAfter(m, blk)))
<1> USE DEF TablesInv
<1>1. m \in Mems /\ blk \in Pages(m) /\ blk \in bitmap[m]
  BY DEF BitsFrom, ReleasesTyped, TablesTyped
<1>2. PICK r \in Nat : r = reapPage[s]
  BY DEF ReleasesTyped
<1>3. PICK a \in Nat, c \in Nat \ {0} : a = PlaceOf(m, 0) /\ c = PageCount[m]
  BY <1>1, Places, Sizing
<1>4. \A x \in Pages(m) : x \in Nat /\ x < c /\ PlaceOf(m, x) = a + x
  BY <1>1, <1>3, Places, Sizing
<1>5. /\ r <= blk /\ blk \in Nat /\ blk < c
      /\ \A x \in Pages(m) : x \in bitmap[m] /\ r <= x => blk <= x
  <2>1. r <= blk
    BY <1>2 DEF BitsFrom
  <2>2. ASSUME NEW x \in Pages(m), x \in bitmap[m], r <= x PROVE blk <= x
    BY <2>2, <1>2, <1>4 DEF BitsFrom, IsLeast
  <2> QED
    BY <2>1, <2>2, <1>1, <1>4
<1>6. PICK g \in Grants : Covers(g, m, blk)
  BY <1>1 DEF Tiled
<1>7. /\ g.first \in Nat /\ g.len \in Nat \ {0} /\ EndOf(g) \in Nat /\ g.region = Space(m)
      /\ g.first <= a + blk /\ a + blk < EndOf(g)
  BY <1>1, <1>4, <1>6, GrantFacts, CoverIff
<1>8. \A x \in Heads(m) : x \in Pages(m) /\ x \in bitmap[m]
  BY <1>1, HeadCovered DEF Heads
<1>9. blk = 0 \/ g.first = a + blk
  <2> SUFFICES ASSUME blk # 0, g.first < a + blk PROVE FALSE
    BY <1>5, <1>7
  <2>1. CASE blk = r
    <3>1. Scanning(s) /\ PlaceOf(m, r) = a + r
      BY <2>1, <1>1, <1>2, <1>3, <1>4, <1>5 DEF Scanning
    <3>2. Between(Space(m), a + r)
      BY <3>1, <1>2 DEF ScanFine
    <3>3. EndOf(g) <= a + r
      BY <3>2, <2>1, <1>7 DEF Between
    <3> QED
      BY <3>3, <2>1, <1>7
  <2>2. CASE blk # r
    <3>1. blk - 1 \in Pages(m) /\ r <= blk - 1
      BY <2>2, <1>2, <1>3, <1>5 DEF Pages
    <3>2. PlaceOf(m, blk - 1) = a + (blk - 1)
      BY <3>1, <1>4
    <3>3. Covers(g, m, blk - 1)
      <4>1. g.first <= PlaceOf(m, blk - 1) /\ PlaceOf(m, blk - 1) < EndOf(g)
        BY <3>2, <1>5, <1>7
      <4> QED
        BY <3>1, <4>1, <1>1, <1>7, CoverIff
    <3>4. blk - 1 \in bitmap[m]
      BY <3>1, <3>3, <1>1 DEF Tiled
    <3> QED
      BY <3>1, <3>4, <1>5
  <2> QED
    BY <2>1, <2>2
<1>10. CASE g.first = a + blk
  <2>1. blk \in Heads(m) /\ g = GrantAt(m, blk)
    BY <1>1, <1>4, <1>7, <1>10, HeadOf
  <2>2. PICK n \in Nat \ {0} : n = freeTable[m][blk] /\ EndOf(g) = a + blk + n
    BY <2>1, <1>1, <1>4, GrantFacts
  <2>3. ScanAfter(m, blk) = blk + n
    BY <2>2 DEF ScanAfter
  <2>4. ASSUME NEW x \in Heads(m), x < blk + n, r <= x PROVE x = blk
    <3>1. x \in Nat /\ blk <= x /\ x \in Pages(m) /\ PlaceOf(m, x) = a + x
      BY <2>4, <1>4, <1>5, <1>8
    <3>2. Covers(g, m, x)
      <4>1. g.first <= PlaceOf(m, x) /\ PlaceOf(m, x) < EndOf(g)
        BY <3>1, <2>2, <2>4, <1>5, <1>10
      <4> QED
        BY <3>1, <4>1, <1>1, <1>7, CoverIff
    <3>3. GrantAt(m, x) \in Grants /\ Covers(GrantAt(m, x), m, x) /\ GrantAt(m, x).first = a + x
      BY <3>1, <1>1, HeadCovered, GrantFacts
    <3>4. GrantAt(m, x) = g
      BY <3>1, <3>2, <3>3, <1>1, OneCovers
    <3> QED
      BY <3>1, <3>3, <3>4, <1>5, <1>10
  <2>5. ASSUME blk + n < c PROVE Between(Space(m), PlaceOf(m, blk + n))
    <3>1. blk + n \in Pages(m)
      BY <2>5, <1>3, <1>5 DEF Pages
    <3>2. PlaceOf(m, blk + n) = EndOf(g)
      BY <3>1, <2>2, <1>3, <1>4, <1>5
    <3> QED
      BY <3>2, <1>7, EndIsBetween
  <2>6. \A x \in Heads(m) : x < blk + n => x < r \/ x = blk
    BY <2>4, <1>2, <1>4, <1>8
  <2> QED
    BY <2>2, <2>3, <2>5, <2>6, <1>1, <1>2, <1>3, <1>5
<1>11. CASE g.first # a + blk
  <2>1. blk = 0 /\ g.first < a
    BY <1>7, <1>9, <1>11
  <2>2. Covers(g, m, 0) /\ g.first < PlaceOf(m, 0)
    BY <2>1, <1>3, <1>6
  <2>3. PICK n \in Nat \ {0} :
           /\ {q \in Pages(m) : Covers(g, m, q)} = 0 .. (n - 1)
           /\ Cardinality({q \in Pages(m) : Covers(g, m, q)}) = n
           /\ n <= PageCount[m]
           /\ n < PageCount[m] => PlaceOf(m, 0) + n = EndOf(g)
    BY <2>2, <1>1, PartLength
  <2>4. freeTable[m][blk] = n
    BY <2>1, <2>2, <2>3, <1>1 DEF PartsEntered
  <2>5. ScanAfter(m, blk) = n
    BY <2>1, <2>4 DEF ScanAfter
  <2>6. ASSUME NEW x \in Heads(m), x < n PROVE FALSE
    <3>1. x \in Nat /\ x \in Pages(m) /\ PlaceOf(m, x) = a + x
      BY <1>4, <1>8
    <3>2. Covers(g, m, x)
      BY <3>1, <2>3, <2>6
    <3>3. GrantAt(m, x) \in Grants /\ Covers(GrantAt(m, x), m, x) /\ GrantAt(m, x).first = a + x
      BY <3>1, <1>1, HeadCovered, GrantFacts
    <3>4. GrantAt(m, x) = g
      BY <3>1, <3>2, <3>3, <1>1, OneCovers
    <3> QED
      BY <3>1, <3>3, <3>4, <2>1, <1>7
  <2>7. ASSUME n < c PROVE Between(Space(m), PlaceOf(m, n))
    <3>1. n \in Pages(m)
      BY <2>7, <1>3 DEF Pages
    <3>2. PlaceOf(m, n) = EndOf(g)
      BY <3>1, <2>3, <2>7, <1>3, <1>4
    <3> QED
      BY <3>2, <1>7, EndIsBetween
  <2> QED
    BY <2>1, <2>4, <2>5, <2>6, <2>7, <1>1, <1>2, <1>3, <1>5
<1> QED
  BY <1>10, <1>11

(* What the others find when the release of s, or its opening, takes a     *)
(* step.                                                                   *)
LEMMA SessionStep ==
  ASSUME MmInv, NEW s \in Sess, ReleasesTyped', UNCHANGED <<stuck, call>>,
         TablesInv', HeadsFrom, GrantsFit, ScanFine(s)',
         sState'[s] = "NONE" => \A m \in Mems : NoneIn(m, s)',
         sState'[s] = "SCAN" =>
           \A z \in Sess : z # s /\ sState[z] = "SCAN" => reapMem[z] # reapMem'[s],
         sState[s] = "OPEN" =>
           sState'[s] = "OPEN" \/ \A t \in Threads : ~Idle(t) => call[t].sess # s,
         \A u \in Threads : InHuge(u) => HeadStays(call[u].mem, call[u].page),
         \A z \in Sess : z # s /\ sState[z] = "HUGE" => HeadStays(reapMem[z], reapBlk[z]),
         \A z \in Sess : z # s => /\ sState'[z] = sState[z] /\ reapMem'[z] = reapMem[z]
                                  /\ reapPage'[z] = reapPage[z] /\ reapBlk'[z] = reapBlk[z]
  PROVE  MmInv'
<1>1. CallsTyped'
  <2> SUFFICES ASSUME NEW t \in Threads, call[t] # Nothing PROVE CallTyped(call[t])'
    BY DEF MmInv, WorkInv, CallsTyped
  <2>1. CallTyped(call[t])
    BY DEF MmInv, WorkInv, CallsTyped
  <2>2. PICK z \in Sess : z = call[t].sess /\ sState[z] = "OPEN"
    BY <2>1 DEF CallTyped
  <2>3. sState'[z] = "OPEN"
    BY <2>2 DEF Idle
  <2>4. PICK c : c = call[t]
    OBVIOUS
  <2>5. CallTyped(c)'
    BY <2>1, <2>2, <2>3, <2>4 DEF CallTyped, Pages
  <2> QED
    BY <2>4, <2>5
<1>2. Owned'
  <2> SUFFICES ASSUME NEW m \in Mems, NEW x \in Heads(m)' PROVE sState'[ownerTable'[m][x]] # "NONE"
    BY DEF Owned
  <2>1. PICK z \in Sess : z = ownerTable'[m][x]
    BY DEF TablesInv, TablesTyped, Heads
  <2>2. sState[z] # "NONE"
    BY <2>1 DEF HeadsFrom, MmInv, WorkInv, Owned
  <2>3. CASE z = s
    BY <2>1, <2>3 DEF NoneIn
  <2> QED
    BY <2>1, <2>2, <2>3
<1>3. Pending'
  <2>1. \A u \in Threads : InHuge(u)' <=> InHuge(u)
    BY DEF InHuge, Idle
  <2>2. ASSUME NEW u \in Threads, InHuge(u) PROVE Spanning(call[u].sess, call[u].mem, call[u].page)'
    <3>1. Spanning(call[u].sess, call[u].mem, call[u].page) /\ HeadStays(call[u].mem, call[u].page)
      BY <2>2 DEF MmInv, WorkInv, Pending
    <3> QED
      BY <3>1 DEF Spanning, HeadStays, Spans, Heads, Pages
  <2> QED
    BY <2>1, <2>2 DEF Pending, MmInv, WorkInv
<1>4. OneScanner'
  <2> SUFFICES ASSUME NEW y \in Sess, NEW z \in Sess, sState'[y] = "SCAN", sState'[z] = "SCAN", y # z
               PROVE  reapMem'[y] # reapMem'[z]
    BY DEF OneScanner
  <2> QED
    BY DEF OneScanner, MmInv, WorkInv
<1>5. ASSUME NEW z \in Sess, z # s PROVE ScanFine(z)'
  <2>1. ScanFine(z) /\ ReleasesTyped
    BY DEF MmInv, WorkInv
  <2> QED
    BY <1>5, <2>1, ScanKept
<1>6. \A z \in Sess : ScanFine(z)'
  BY <1>5
<1> QED
  BY <1>1, <1>2, <1>3, <1>4, <1>6 DEF MmInv, WorkInv

(* What a step that leaves the tables alone means for those at work.       *)
LEMMA TablesLeft ==
  ASSUME MmInv, UNCHANGED tableVars
  PROVE  /\ HeadsFrom /\ GrantsFit /\ TablesInv' /\ Grants' = Grants
         /\ \A m \in Mems : Heads(m)' = Heads(m)
         /\ \A u \in Threads : InHuge(u) => HeadStays(call[u].mem, call[u].page)
         /\ \A z \in Sess : sState[z] = "HUGE" => HeadStays(reapMem[z], reapBlk[z])
<1>1. /\ HeadsFrom /\ GrantsFit /\ TablesInv' /\ Grants' = Grants
      /\ \A m \in Mems : \A x \in Pages(m) : HeadStays(m, x)
  BY StepLeaves DEF MmInv
<1>2. \A u \in Threads : InHuge(u) => HeadStays(call[u].mem, call[u].page)
  BY <1>1 DEF MmInv, WorkInv, CallsTyped, CallTyped, InHuge, Idle
<1>3. \A z \in Sess : sState[z] = "HUGE" => HeadStays(reapMem[z], reapBlk[z])
  BY <1>1 DEF MmInv, WorkInv, ReleasesTyped
<1>4. \A m \in Mems : Heads(m)' = Heads(m)
  BY DEF Heads, Pages, tableVars
<1> QED
  BY <1>1, <1>2, <1>3, <1>4

(* A session comes ...                                                     *)
LEMMA OpenIsSound ==
  ASSUME MmInv, NEW s \in Sess, Open(s)
  PROVE  MmInv' /\ AbsStep
<1>1. /\ sState[s] = "NONE" /\ sState'[s] = "OPEN" /\ reapMem'[s] = reapMem[s]
      /\ reapPage'[s] = reapPage[s] /\ reapBlk'[s] = reapBlk[s] /\ reapBlk[s] = 0
      /\ \A z \in Sess : z # s => /\ sState'[z] = sState[z] /\ reapMem'[z] = reapMem[z]
                                  /\ reapPage'[z] = reapPage[z] /\ reapBlk'[z] = reapBlk[z]
  BY DEF Open, MmInv, WorkInv, ReleasesTyped, ScanFine
<1>2. ReleasesTyped'
  BY <1>1 DEF Open, MmInv, WorkInv, ReleasesTyped, Pages
<1>3. ScanFine(s)'
  BY <1>1 DEF ScanFine, Behind, Leaving, Scanning
<1>4. UNCHANGED tableVars /\ UNCHANGED <<stuck, call>>
  BY DEF Open
<1>5. AbsStep
  <2>1. Grants' = Grants
    BY <1>4, TablesLeft
  <2>2. s \notin Present /\ Present' = Present \cup {s}
    BY <1>1 DEF Present
  <2>3. Abs!Arrive(s)
    BY <2>1, <2>2 DEF Abs!Arrive
  <2> QED
    BY <2>3 DEF AbsStep, Abs!Next
<1> QED
  BY <1>1, <1>2, <1>3, <1>4, <1>5, TablesLeft, SessionStep

(* ... and begins to go, with all memories before it.                      *)
LEMMA LeaveIsSound ==
  ASSUME MmInv, NEW s \in Sess, Leave(s)
  PROVE  MmInv' /\ AbsStep
<1>1. /\ sState[s] = "OPEN" /\ sState'[s] = "LOCK" /\ reapMem'[s] = 1
      /\ reapPage'[s] = reapPage[s] /\ reapBlk'[s] = reapBlk[s] /\ reapBlk[s] = 0
      /\ \A z \in Sess : z # s => /\ sState'[z] = sState[z] /\ reapMem'[z] = reapMem[z]
                                  /\ reapPage'[z] = reapPage[z] /\ reapBlk'[z] = reapBlk[z]
  BY DEF Leave, MmInv, WorkInv, ReleasesTyped, ScanFine
<1>2. ReleasesTyped'
  <2>1. 1 \in Mems /\ 0 \in Pages(1)
    BY MmAssumption, Sizing DEF Mems
  <2> QED
    BY <1>1, <2>1 DEF Leave, MmInv, WorkInv, ReleasesTyped, Pages
<1>3. ScanFine(s)'
  <2>1. \A m \in Mems : ~(m < 1)
    BY MmAssumption DEF Mems
  <2> QED
    BY <1>1, <2>1 DEF ScanFine, Behind, Leaving, Scanning
<1>4. UNCHANGED tableVars /\ UNCHANGED <<stuck, call>> /\ \A t \in Threads : ~Idle(t) => call[t].sess # s
  BY DEF Leave
<1>5. AbsStep
  BY <1>1, <1>4, SamePresent, QuietRefines
<1> QED
  BY <1>1, <1>2, <1>3, <1>4, <1>5, TablesLeft, SessionStep

(* The scan of a memory begins at its first page.                          *)
LEMMA ReapLockIsSound ==
  ASSUME MmInv, NEW s \in Sess, ReapLock(s)
  PROVE  MmInv' /\ AbsStep
<1>1. /\ sState[s] = "LOCK" /\ sState'[s] = "SCAN" /\ reapMem'[s] = reapMem[s]
      /\ reapPage'[s] = 0 /\ reapBlk'[s] = reapBlk[s] /\ reapBlk[s] = 0
      /\ \A z \in Sess : z # s => /\ sState'[z] = sState[z] /\ reapMem'[z] = reapMem[z]
                                  /\ reapPage'[z] = reapPage[z] /\ reapBlk'[z] = reapBlk[z]
  BY DEF ReapLock, MmInv, WorkInv, ReleasesTyped, ScanFine
<1>2. ReleasesTyped'
  BY <1>1 DEF ReapLock, MmInv, WorkInv, ReleasesTyped, Pages
<1>4. UNCHANGED tableVars /\ UNCHANGED <<stuck, call>>
      /\ \A z \in Sess : z # s /\ sState[z] = "SCAN" => reapMem[z] # reapMem[s]
  BY DEF ReapLock, LockFree
<1>5. PICK m \in Mems : m = reapMem[s]
  BY DEF MmInv, WorkInv, ReleasesTyped
<1>6. /\ \A k \in Mems : Heads(k)' = Heads(k)
      /\ \A x \in Heads(m) : x \in Nat
  BY <1>4, TablesLeft, GrantFacts DEF MmInv, TablesInv
<1>7. Behind(s)'
  <2>1. ASSUME NEW k \in Mems, k < m PROVE NoneIn(k, s)'
    BY <1>1, <1>4, <1>5, <1>6, <2>1 DEF MmInv, WorkInv, ScanFine, Behind, Leaving, NoneIn, tableVars
  <2>2. ASSUME NEW x \in Heads(m)', x < 0 PROVE FALSE
    BY <1>6, <2>2
  <2> QED
    BY <2>1, <2>2, <1>1, <1>5 DEF Behind
<1>8. ScanFine(s)'
  BY <1>1, <1>7 DEF ScanFine, Scanning
<1>9. AbsStep
  BY <1>1, <1>4, SamePresent, QuietRefines
<1> QED
  BY <1>1, <1>2, <1>4, <1>8, <1>9, TablesLeft, SessionStep

(* After a spanning grant the scan is past the end of its memory.          *)
LEMMA ReapRelockIsSound ==
  ASSUME MmInv, NEW s \in Sess, ReapRelock(s)
  PROVE  MmInv' /\ AbsStep
<1>1. /\ sState[s] = "RELOCK" /\ sState'[s] = "SCAN" /\ reapMem'[s] = reapMem[s]
      /\ reapPage'[s] = reapPage[s] /\ reapBlk'[s] = reapBlk[s] /\ reapBlk[s] = 0
      /\ \A z \in Sess : z # s => /\ sState'[z] = sState[z] /\ reapMem'[z] = reapMem[z]
                                  /\ reapPage'[z] = reapPage[z] /\ reapBlk'[z] = reapBlk[z]
  BY DEF ReapRelock, MmInv, WorkInv, ReleasesTyped, ScanFine
<1>2. ReleasesTyped'
  BY <1>1 DEF ReapRelock, MmInv, WorkInv, ReleasesTyped, Pages
<1>4. UNCHANGED tableVars /\ UNCHANGED <<stuck, call>>
      /\ \A z \in Sess : z # s /\ sState[z] = "SCAN" => reapMem[z] # reapMem[s]
  BY DEF ReapRelock, LockFree
<1>5. PICK m \in Mems, r \in Nat : m = reapMem[s] /\ r = reapPage[s] /\ r >= PageCount[m]
  BY <1>1 DEF MmInv, WorkInv, ReleasesTyped
<1>6. \A k \in Mems : Heads(k)' = Heads(k)
  BY <1>4, TablesLeft
<1>7. Behind(s)'
  <2>1. ASSUME NEW k \in Mems, k < m PROVE NoneIn(k, s)'
    BY <1>1, <1>4, <1>5, <1>6, <2>1 DEF MmInv, WorkInv, ScanFine, Behind, Leaving, NoneIn, tableVars
  <2>2. ASSUME NEW x \in Heads(m)', x < r, ownerTable'[m][x] = s PROVE FALSE
    BY <1>1, <1>4, <1>5, <1>6, <2>2 DEF MmInv, WorkInv, ScanFine, Behind, tableVars
  <2> QED
    BY <2>1, <2>2, <1>1, <1>5 DEF Behind
<1>8. ScanFine(s)'
  <2>1. ~Scanning(s)'
    <3>1. PageCount[m] \in Nat
      BY Sizing
    <3> QED
      BY <3>1, <1>1, <1>5 DEF Scanning
  <2> QED
    BY <1>1, <1>7, <2>1 DEF ScanFine
<1>9. AbsStep
  BY <1>1, <1>4, SamePresent, QuietRefines
<1> QED
  BY <1>1, <1>2, <1>4, <1>8, <1>9, TablesLeft, SessionStep

(* The scan goes on after a grant that does not span, or is another's.     *)
LEMMA ScanGoesOn ==
  ASSUME MmInv, NEW s \in Sess, sState[s] = "SCAN", NEW m \in Mems, m = reapMem[s],
         NEW blk \in BitsFrom(m, reapPage[s]), IsLeast(blk, BitsFrom(m, reapPage[s])),
         NEW r, r = ScanAfter(m, blk),
         sState'[s] = "SCAN", reapMem'[s] = m, reapPage'[s] = r, reapBlk'[s] = 0,
         HeadsFrom, Grants' \subseteq Grants,
         \A x \in Heads(m)' : x \in Heads(m) /\ (x = blk => ownerTable'[m][blk] # s)
  PROVE  ScanFine(s)'
<1>1. ScanFine(s) /\ ReleasesTyped /\ TablesInv
  BY DEF MmInv, WorkInv
<1>2. /\ blk \in Pages(m) /\ r > blk /\ reapPage[s] <= blk
      /\ \A x \in Heads(m) : x < r => x < reapPage[s] \/ x = blk
      /\ r < PageCount[m] => Between(Space(m), PlaceOf(m, r))
  BY <1>1, ScanTurn
<1>3. \A k \in Mems : \A x \in Heads(k)' : ownerTable'[k][x] = s => x \in Heads(k) /\ ownerTable[k][x] = s
  BY DEF HeadsFrom
<1>4. Behind(s)'
  <2>1. ASSUME NEW k \in Mems, k < m PROVE NoneIn(k, s)'
    BY <1>1, <1>3, <2>1 DEF ScanFine, Behind, Leaving, NoneIn
  <2>2. ASSUME NEW x \in Heads(m)', x < r, ownerTable'[m][x] = s PROVE FALSE
    <3>1. x \in Heads(m) /\ ownerTable[m][x] = s /\ x # blk
      BY <1>3, <2>2
    <3>2. x < reapPage[s]
      BY <3>1, <1>2, <2>2
    <3> QED
      BY <3>1, <3>2, <1>1 DEF ScanFine, Behind
  <2> QED
    BY <2>1, <2>2 DEF Behind
<1>5. Scanning(s)' => Between(Space(m), PlaceOf(m, r))'
  BY <1>2 DEF Scanning, Between
<1>6. sState'[s] # "HUGE" /\ reapBlk'[s] = 0
  OBVIOUS
<1> QED
  BY <1>4, <1>5, <1>6 DEF ScanFine

(* A turn of the scan: a grant released, handed on, or left to another.    *)
LEMMA ReapScanIsSound ==
  ASSUME MmInv, NEW s \in Sess, ReapScan(s)
  PROVE  MmInv' /\ AbsStep
<1>1. PICK m \in Mems : m = reapMem[s]
  BY DEF MmInv, WorkInv, ReleasesTyped
<1>2. PICK blk \in BitsFrom(m, reapPage[s]) :
        /\ IsLeast(blk, BitsFrom(m, reapPage[s]))
        /\ reapPage' = [reapPage EXCEPT ![s] = ScanAfter(m, blk)]
        /\ IF Freeable(s, m, blk) /\ Spans(m, blk)
           THEN /\ sState' = [sState EXCEPT ![s] = "HUGE"]
                /\ reapBlk' = [reapBlk EXCEPT ![s] = blk]
                /\ UNCHANGED tableVars
           ELSE /\ UNCHANGED <<sState, reapBlk>>
                /\ IF Freeable(s, m, blk) THEN ReleasePages(m, blk) ELSE UNCHANGED tableVars
  BY <1>1 DEF ReapScan
<1>3. sState[s] = "SCAN" /\ UNCHANGED <<stuck, reapMem, call>>
  BY DEF ReapScan
<1>4. ScanFine(s) /\ ReleasesTyped /\ TablesInv
  BY DEF MmInv, WorkInv
<1>5. PICK r : r = ScanAfter(m, blk)
  OBVIOUS
<1>6. /\ blk \in Pages(m) /\ r > blk /\ reapPage[s] <= blk
      /\ freeTable[m][blk] \in Nat \ {0} /\ blk \in Nat /\ r = blk + freeTable[m][blk]
      /\ \A x \in Heads(m) : x < r => x < reapPage[s] \/ x = blk
  <2>1. /\ blk \in Pages(m) /\ r > blk /\ reapPage[s] <= blk /\ freeTable[m][blk] \in Nat \ {0}
        /\ \A x \in Heads(m) : x < r => x < reapPage[s] \/ x = blk
    BY <1>1, <1>2, <1>3, <1>4, <1>5, ScanTurn
  <2> QED
    BY <2>1, <1>5, Sizing DEF ScanAfter
<1>7. /\ reapPage'[s] = r /\ r \in Nat /\ reapMem'[s] = m /\ reapBlk[s] = 0
      /\ \A z \in Sess : z # s => /\ sState'[z] = sState[z] /\ reapMem'[z] = reapMem[z]
                                  /\ reapPage'[z] = reapPage[z] /\ reapBlk'[z] = reapBlk[z]
  BY <1>1, <1>2, <1>3, <1>4, <1>5, <1>6 DEF ReleasesTyped, ScanFine
<1>8. Freeable(s, m, blk) <=> blk \in Heads(m) /\ ownerTable[m][blk] = s
  BY <1>6, MmAssumption DEF Freeable, Heads
<1>9. sState'[s] = "SCAN" =>
        \A z \in Sess : z # s /\ sState[z] = "SCAN" => reapMem[z] # reapMem'[s]
  BY <1>1, <1>3 DEF MmInv, WorkInv, OneScanner
<1>10. CASE Freeable(s, m, blk) /\ Spans(m, blk)
  <2>1. sState'[s] = "HUGE" /\ reapBlk'[s] = blk /\ UNCHANGED tableVars
    BY <1>2, <1>4, <1>10 DEF ReleasesTyped
  <2>2. m \in Main
    BY <1>4, <1>8, <1>10, SpansInMain
  <2>3. ReleasesTyped'
    <3>1. r >= PageCount[m]
      <4>1. PageCount[m] \in Nat
        BY Sizing
      <4> QED
        BY <4>1, <1>6, <1>10 DEF Spans
    <3> QED
      BY <2>1, <2>2, <3>1, <1>1, <1>2, <1>3, <1>4, <1>6, <1>7 DEF ReleasesTyped, Pages
  <2>4. ScanFine(s)'
    <3>1. \A k \in Mems : Heads(k)' = Heads(k)
      BY <2>1, TablesLeft
    <3>2. UNCHANGED <<ownerTable, freeTable>>
      BY <2>1 DEF tableVars
    <3>3. Behind(s)'
      <4>1. ASSUME NEW k \in Mems, k < m PROVE NoneIn(k, s)'
        BY <1>1, <1>3, <1>4, <3>1, <3>2, <4>1 DEF ScanFine, Behind, Leaving, NoneIn
      <4>2. ASSUME NEW x \in Heads(m)', x < r, ownerTable'[m][x] = s PROVE x = blk
        <5>1. x \in Heads(m) /\ ownerTable[m][x] = s
          BY <3>1, <3>2, <4>2
        <5>2. x < reapPage[s] \/ x = blk
          BY <5>1, <1>6, <4>2
        <5> QED
          BY <5>1, <5>2, <1>1, <1>3, <1>4 DEF ScanFine, Behind
      <4> QED
        BY <4>1, <4>2, <1>7, <2>1 DEF Behind
    <3>4. Spanning(s, m, blk)'
      BY <1>8, <1>10, <3>1, <3>2 DEF Spanning, Spans
    <3> QED
      BY <1>7, <2>1, <3>3, <3>4 DEF ScanFine, Scanning
  <2>5. AbsStep
    BY <2>1, <1>3, <1>7, SamePresent, QuietRefines
  <2> QED
    BY <2>1, <2>3, <2>4, <2>5, <1>3, <1>7, <1>9, TablesLeft, SessionStep
<1>11. CASE Freeable(s, m, blk) /\ ~Spans(m, blk)
  <2>1. UNCHANGED <<sState, reapBlk>> /\ ReleasePages(m, blk)
    BY <1>2, <1>11
  <2>2. Dropped(m, blk, freeTable[m][blk]) /\ blk \in Heads(m)
    BY <2>1, <1>4, <1>8, <1>11, ReleaseDrops
  <2>3. /\ TablesInv' /\ HeadsFrom /\ GrantsFit /\ blk \notin Heads(m)'
        /\ \A k \in Mems : \A x \in Pages(k) : k # m \/ x # blk => HeadStays(k, x)
    BY <2>2, <1>4, DropKeepsTables, StepDrops
  <2>4. ReleasesTyped'
    BY <2>1, <1>2, <1>3, <1>4, <1>5, <1>7 DEF ReleasesTyped, Pages
  <2>5. Grants' \subseteq Grants /\ \A x \in Heads(m)' : x \in Heads(m)
    BY <2>2, <1>4, DropGrant, DropHead
  <2>6. ScanFine(s)'
    BY <2>1, <2>3, <2>5, <1>1, <1>2, <1>3, <1>5, <1>7, ScanGoesOn
  <2>7. \A u \in Threads : InHuge(u) => HeadStays(call[u].mem, call[u].page)
    BY <2>3, <1>11 DEF MmInv, WorkInv, CallsTyped, CallTyped, InHuge, Idle, Pending, Spanning
  <2>8. \A z \in Sess : sState[z] = "HUGE" => HeadStays(reapMem[z], reapBlk[z])
    BY <2>3, <1>11 DEF MmInv, WorkInv, ReleasesTyped, ScanFine, Spanning
  <2>9. AbsStep
    BY <2>1, <2>2, <1>4, DropRefines DEF Present
  <2> QED
    BY <2>1, <2>3, <2>4, <2>6, <2>7, <2>8, <2>9, <1>3, <1>7, <1>9, SessionStep
<1>12. CASE ~Freeable(s, m, blk)
  <2>1. UNCHANGED <<sState, reapBlk>> /\ UNCHANGED tableVars
    BY <1>2, <1>12
  <2>2. ReleasesTyped'
    BY <2>1, <1>2, <1>3, <1>4, <1>5, <1>7 DEF ReleasesTyped, Pages
  <2>3. Grants' \subseteq Grants /\ HeadsFrom /\ \A x \in Heads(m)' : x \in Heads(m)
    BY <2>1, TablesLeft
  <2>4. \A x \in Heads(m)' : x = blk => ownerTable'[m][blk] # s
    BY <2>1, <2>3, <1>8, <1>12 DEF tableVars
  <2>5. ScanFine(s)'
    BY <2>1, <2>3, <2>4, <1>1, <1>2, <1>3, <1>5, <1>7, ScanGoesOn
  <2>6. AbsStep
    BY <2>1, QuietRefines DEF Present
  <2> QED
    BY <2>1, <2>2, <2>5, <2>6, <1>3, <1>7, <1>9, TablesLeft, SessionStep
<1> QED
  BY <1>10, <1>11, <1>12

(* The release of a spanning grant on the way.                             *)
LEMMA ReapHugeIsSound ==
  ASSUME MmInv, NEW s \in Sess, ReapHuge(s)
  PROVE  MmInv' /\ AbsStep
<1>1. PICK m \in Main, p \in Pages(reapMem[s]) : m = reapMem[s] /\ p = reapBlk[s]
  BY DEF ReapHuge, MmInv, WorkInv, ReleasesTyped
<1>2. ScanFine(s) /\ ReleasesTyped /\ TablesInv /\ m \in Mems
  BY Sizing DEF MmInv, WorkInv
<1>3. p \in Heads(m) /\ Spans(m, p) /\ ownerTable[m][p] = s
  BY <1>1, <1>2 DEF ReapHuge, ScanFine, Spanning
<1>4. Dropped(m, p, freeTable[m][p]) /\ UNCHANGED stuck
  BY <1>1, <1>2, <1>3, HugeDrops DEF ReapHuge
<1>5. /\ TablesInv' /\ HeadsFrom /\ GrantsFit /\ p \notin Heads(m)'
      /\ \A k \in Mems : \A x \in Pages(k) : k # m \/ x # p => HeadStays(k, x)
  BY <1>2, <1>3, <1>4, DropKeepsTables, StepDrops
<1>6. /\ sState[s] = "HUGE" /\ sState'[s] = "RELOCK" /\ reapBlk'[s] = 0
      /\ UNCHANGED <<reapMem, reapPage, call>>
      /\ \A z \in Sess : z # s => sState'[z] = sState[z] /\ reapBlk'[z] = reapBlk[z]
  BY <1>2 DEF ReapHuge, ReleasesTyped
<1>7. ReleasesTyped'
  <2>1. \A z \in Sess : 0 \in Pages(reapMem[z])
    BY <1>2, Sizing DEF ReleasesTyped
  <2> QED
    BY <2>1, <1>2, <1>6 DEF ReapHuge, ReleasesTyped, Pages
<1>8. Behind(s)'
  <2>1. \A k \in Mems : \A x \in Heads(k)' :
          ownerTable'[k][x] = s => x \in Heads(k) /\ ownerTable[k][x] = s
    BY <1>5, <1>6 DEF HeadsFrom
  <2>2. ASSUME NEW k \in Mems, k < m PROVE NoneIn(k, s)'
    BY <2>1, <2>2, <1>1, <1>2, <1>6 DEF ScanFine, Behind, Leaving, NoneIn
  <2>3. ASSUME NEW x \in Heads(m)', x < reapPage[s], ownerTable'[m][x] = s PROVE FALSE
    BY <2>1, <2>3, <1>1, <1>2, <1>5, <1>6 DEF ScanFine, Behind
  <2> QED
    BY <2>2, <2>3, <1>1, <1>6 DEF Behind
<1>9. ScanFine(s)'
  BY <1>6, <1>8 DEF ScanFine, Scanning
<1>10. \A u \in Threads : InHuge(u) => HeadStays(call[u].mem, call[u].page)
  BY <1>3, <1>5, <1>6 DEF MmInv, WorkInv, CallsTyped, CallTyped, InHuge, Idle, Pending, Spanning
<1>11. \A z \in Sess : z # s /\ sState[z] = "HUGE" => HeadStays(reapMem[z], reapBlk[z])
  BY <1>3, <1>5 DEF MmInv, WorkInv, ReleasesTyped, ScanFine, Spanning
<1>12. AbsStep
  <2>1. Present' = Present
    BY <1>6, SamePresent
  <2> QED
    BY <2>1, <1>2, <1>3, <1>4, DropRefines
<1> QED
  BY <1>4, <1>5, <1>6, <1>7, <1>9, <1>10, <1>11, <1>12, SessionStep

(* No page of the session is left in this memory, nor before it.           *)
LEMMA ReapNextIsSound ==
  ASSUME MmInv, NEW s \in Sess, ReapNext(s)
  PROVE  MmInv' /\ AbsStep
<1>1. PICK m \in Mems, r \in Nat : m = reapMem[s] /\ r = reapPage[s]
  BY DEF MmInv, WorkInv, ReleasesTyped
<1>2. ScanFine(s) /\ ReleasesTyped /\ TablesInv /\ m \in Int /\ MemCount \in Nat
  BY MmAssumption DEF MmInv, WorkInv, Mems
<1>3. UNCHANGED tableVars /\ UNCHANGED <<stuck, call>> /\ sState[s] = "SCAN" /\ BitsFrom(m, r) = {}
  BY <1>1 DEF ReapNext
<1>4. NoneIn(m, s)
  <2> SUFFICES ASSUME NEW x \in Heads(m), ownerTable[m][x] = s PROVE FALSE
    BY DEF NoneIn
  <2>1. x \in bitmap[m] /\ x \in Nat
    BY <1>2, HeadCovered, GrantFacts DEF TablesInv
  <2>2. x < r
    BY <2>1, <1>1, <1>3 DEF BitsFrom
  <2> QED
    BY <2>2, <1>1, <1>2, <1>3 DEF ScanFine, Behind
<1>5. \A k \in Mems : k <= m => NoneIn(k, s)'
  <2>1. \A k \in Mems : k < m => NoneIn(k, s)
    BY <1>1, <1>2, <1>3 DEF ScanFine, Behind, Leaving
  <2>2. \A k \in Mems : Heads(k)' = Heads(k)
    BY <1>3, TablesLeft
  <2>3. \A k \in Mems : k <= m => k < m \/ k = m
    BY <1>2 DEF Mems
  <2> QED
    BY <2>1, <2>2, <2>3, <1>3, <1>4 DEF NoneIn, tableVars
<1>6. /\ reapPage'[s] = 0 /\ reapBlk'[s] = reapBlk[s] /\ reapBlk[s] = 0
      /\ \A z \in Sess : z # s => /\ sState'[z] = sState[z] /\ reapMem'[z] = reapMem[z]
                                  /\ reapPage'[z] = reapPage[z] /\ reapBlk'[z] = reapBlk[z]
  BY <1>2, <1>3 DEF ReapNext, ReleasesTyped, ScanFine
<1>7. CASE m < MemCount
  <2>1. sState'[s] = "LOCK" /\ reapMem'[s] = m + 1 /\ m + 1 \in Mems
    BY <1>1, <1>2, <1>7 DEF ReapNext, ReleasesTyped, Mems
  <2>2. ReleasesTyped'
    <3>1. 0 \in Pages(m + 1)
      BY <2>1, Sizing
    <3> QED
      BY <2>1, <3>1, <1>1, <1>2, <1>6, <1>7 DEF ReapNext, ReleasesTyped, Pages
  <2>3. ScanFine(s)'
    <3>1. \A k \in Mems : k < m + 1 => k <= m
      BY <1>2 DEF Mems
    <3> QED
      BY <2>1, <3>1, <1>5, <1>6 DEF ScanFine, Behind, Scanning
  <2>4. AbsStep
    BY <2>1, <1>3, <1>6, SamePresent, QuietRefines
  <2> QED
    BY <2>1, <2>2, <2>3, <2>4, <1>3, <1>6, TablesLeft, SessionStep
<1>8. CASE ~(m < MemCount)
  <2>1. sState'[s] = "NONE" /\ reapMem'[s] = 1 /\ 1 \in Mems
    BY <1>1, <1>2, <1>8, MmAssumption DEF ReapNext, ReleasesTyped, Mems
  <2>2. ReleasesTyped'
    <3>1. 0 \in Pages(1)
      BY <2>1, Sizing
    <3> QED
      BY <2>1, <3>1, <1>1, <1>2, <1>6, <1>8 DEF ReapNext, ReleasesTyped, Pages
  <2>3. ScanFine(s)'
    BY <2>1, <1>6 DEF ScanFine, Behind, Leaving, Scanning
  <2>4. \A k \in Mems : NoneIn(k, s)'
    <3>1. \A k \in Mems : k <= m
      BY <1>2, <1>8 DEF Mems
    <3> QED
      BY <3>1, <1>5
  <2>5. AbsStep
    <3>1. Grants' = Grants /\ \A k \in Mems : Heads(k)' = Heads(k)
      BY <1>3, TablesLeft
    <3>2. s \in Present /\ Present' = Present \ {s}
      BY <2>1, <1>3, <1>6 DEF Present
    <3>3. ASSUME NEW g \in Grants, g.owner = s PROVE FALSE
      <4>1. PICK k \in Mems : \E x \in Heads(k) : g = GrantAt(k, x)
        BY DEF Grants
      <4>2. PICK x \in Heads(k) : g = GrantAt(k, x)
        BY <4>1
      <4>3. ownerTable[k][x] = s /\ ownerTable' = ownerTable
        BY <4>2, <3>3, <1>3 DEF GrantAt, tableVars
      <4> QED
        BY <4>3, <3>1, <2>4 DEF NoneIn
    <3>4. Abs!Depart(s)
      BY <3>1, <3>2, <3>3 DEF Abs!Depart
    <3> QED
      BY <3>4 DEF AbsStep, Abs!Next
  <2> QED
    BY <2>1, <2>2, <2>3, <2>4, <2>5, <1>3, <1>6, TablesLeft, SessionStep
<1> QED
  BY <1>7, <1>8

-----------------------------------------------------------------------------
(* The invariant and what it says *)

(* An empty device.                                                        *)
LEMMA InitInv == Init => MmInv /\ Grants = {}
<1> SUFFICES ASSUME Init PROVE MmInv /\ Grants = {}
  OBVIOUS
<1> USE DEF Init
<1>1. \A m \in Mems : Heads(m) = {}
  BY DEF Heads
<1>2. Grants = {}
  BY <1>1 DEF Grants
<1>3. TablesTyped
  BY DEF TablesTyped
<1>4. Tiled
  BY <1>2 DEF Tiled
<1>5. PartsEntered /\ Clean
  BY <1>2 DEF PartsEntered, Clean
<1>6. UsedIsMarked
  BY FS_EmptySet DEF UsedIsMarked
<1>7. HugeKnown /\ Owned
  BY <1>1, Sizing DEF HugeKnown, Owned
<1>8. ReleasesTyped
  <2>1. 1 \in Mems /\ 0 \in Pages(1)
    BY MmAssumption, Sizing DEF Mems
  <2> QED
    BY <2>1 DEF ReleasesTyped
<1>9. CallsTyped /\ Pending /\ OneScanner
  BY DEF CallsTyped, Pending, InHuge, Idle, OneScanner
<1>10. \A s \in Sess : ScanFine(s)
  BY DEF ScanFine, Behind, Leaving, Scanning
<1> QED
  BY <1>2, <1>3, <1>4, <1>5, <1>6, <1>7, <1>8, <1>9, <1>10 DEF MmInv, TablesInv, WorkInv

(* Nothing happens.                                                        *)
LEMMA StutterIsSound ==
  ASSUME MmInv, UNCHANGED mmVars
  PROVE  MmInv' /\ AbsStep
<1>1. UNCHANGED tableVars /\ UNCHANGED <<stuck, call, sState, reapMem, reapPage, reapBlk>>
  BY DEF mmVars, reapVars
<1>2. AbsStep
  BY <1>1, QuietRefines DEF Present
<1>3. ReleasesTyped'
  BY <1>1 DEF MmInv, WorkInv, ReleasesTyped, Pages
<1>4. \A z \in Sess : ScanFine(z)'
  BY <1>1, <1>3, TablesLeft, ScanKept DEF MmInv, WorkInv
<1>5. CallsTyped'
  BY <1>1 DEF MmInv, WorkInv, CallsTyped, CallTyped, Pages
<1>6. Owned'
  BY <1>1, TablesLeft, OwnedKept DEF MmInv, WorkInv, TablesInv
<1>7. \A t \in Threads : InHuge(t)' => Spanning(call[t].sess, call[t].mem, call[t].page)'
  <2>1. UNCHANGED <<freeTable, ownerTable>>
    BY <1>1 DEF tableVars
  <2> QED
    BY <1>1, <2>1 DEF MmInv, WorkInv, Pending, InHuge, Idle, Spanning, Spans, Heads, Pages
<1>8. Pending' /\ OneScanner'
  BY <1>1, <1>7 DEF MmInv, WorkInv, Pending, OneScanner, InHuge, Idle
<1> QED
  BY <1>1, <1>2, <1>3, <1>4, <1>5, <1>6, <1>8, TablesLeft DEF MmInv, WorkInv

(* Every step keeps the invariant and is a step of DeviceMemory, or none.  *)
LEMMA NextIsSound == MmInv /\ [Next]_mmVars => MmInv' /\ AbsStep
<1> SUFFICES ASSUME MmInv, [Next]_mmVars PROVE MmInv' /\ AbsStep
  OBVIOUS
<1>1. CASE UNCHANGED mmVars
  BY <1>1, StutterIsSound
<1>2. ASSUME NEW t \in Threads, GoOn(t) PROVE MmInv' /\ AbsStep
  <2>1. PICK c : c = call[t] /\ CallTyped(c) /\ ~Idle(t)
    BY <1>2 DEF GoOn, MallocNext, MallocReturn, MallocCopyFails, FreeSpanning,
                MmInv, WorkInv, CallsTyped, Idle
  <2>2. PICK s \in Sess : s = c.sess /\ sState[s] = "OPEN"
    BY <2>1 DEF CallTyped
  <2>3. CASE MallocNext(t)
    <3>1. PICK m \in Mems, size \in Sizes, kind \in Kinds :
            m = c.mem /\ size = c.size /\ kind = c.kind
      BY <2>1, <2>3 DEF MallocNext, CallTyped
    <3> QED
      BY <2>1, <2>2, <2>3, <3>1, TryIsSound DEF MallocNext
  <2>4. CASE MallocReturn(t)
    <3>1. PICK x : x = Nothing
      OBVIOUS
    <3> QED
      BY <2>4, <3>1, QuietThread DEF MallocReturn, Done
  <2>5. CASE MallocCopyFails(t)
    <3>1. PICK m \in Mems, p \in Pages(c.mem) : m = c.mem /\ p = c.page
      BY <2>1, <2>5 DEF MallocCopyFails, CallTyped
    <3> QED
      BY <2>1, <2>2, <2>5, <3>1, FreeLockedIsSound DEF MallocCopyFails
  <2>6. CASE FreeSpanning(t)
    BY <2>6, SpanningIsSound
  <2> QED
    BY <1>2, <2>3, <2>4, <2>5, <2>6 DEF GoOn
<1>3. ASSUME NEW t \in Threads, NEW s \in Sess, Ioctl(t, s) PROVE MmInv' /\ AbsStep
  <2>1. ASSUME NEW size \in Sizes, NEW kind \in Kinds, Malloc(t, s, size, kind)
        PROVE  MmInv' /\ AbsStep
    <3>1. PICK m \in Mems : m = 1
      BY MmAssumption DEF Mems
    <3> QED
      BY <2>1, <3>1, TryIsSound DEF Malloc
  <2>2. ASSUME NEW size \in Sizes, MallocHuge(t, s, size) PROVE MmInv' /\ AbsStep
    BY <2>2, HugeIsSound
  <2>3. ASSUME NEW m \in Mems, NEW p \in Pages(m), Free(t, s, m, p) PROVE MmInv' /\ AbsStep
    BY <2>3, FreeLockedIsSound DEF Free
  <2> QED
    BY <1>3, <2>1, <2>2, <2>3 DEF Ioctl
<1>4. ASSUME NEW s \in Sess, Open(s) \/ Leave(s) \/ Release(s) PROVE MmInv' /\ AbsStep
  BY <1>4, OpenIsSound, LeaveIsSound, ReapLockIsSound, ReapScanIsSound, ReapHugeIsSound,
     ReapRelockIsSound, ReapNextIsSound DEF Release
<1> QED
  BY <1>1, <1>2, <1>3, <1>4 DEF Next

(* The invariant holds in every reachable state.                           *)
LEMMA Inductive == Spec => []MmInv
<1>1. Init => MmInv
  BY InitInv
<1>2. MmInv /\ [Next]_mmVars => MmInv'
  BY NextIsSound
<1> QED
  BY <1>1, <1>2, PTL DEF Spec

(* No two grants share a page, also where one of them spans memories.      *)
LEMMA EachMarkedOnce == TablesInv => MarkedOnce
<1> SUFFICES ASSUME TablesInv, NEW m \in Mems, NEW p \in Pages(m)
             PROVE  Cardinality({g \in Grants : Covers(g, m, p)}) = IF p \in bitmap[m] THEN 1 ELSE 0
  BY DEF MarkedOnce
<1>1. CASE p \in bitmap[m]
  <2>1. PICK g \in Grants : Covers(g, m, p)
    BY <1>1 DEF TablesInv, Tiled
  <2>2. \A h \in Grants : Covers(h, m, p) => h = g
    BY <2>1, OneCovers DEF TablesInv
  <2>3. {h \in Grants : Covers(h, m, p)} = {g}
    BY <2>1, <2>2
  <2> QED
    BY <2>3, <1>1, FS_Singleton
<1>2. CASE p \notin bitmap[m]
  <2>1. {g \in Grants : Covers(g, m, p)} = {}
    BY <1>2 DEF TablesInv, Tiled
  <2> QED
    BY <2>1, <1>2, FS_EmptySet
<1> QED
  BY <1>1, <1>2

(* The bitmaps, the tables and the counts of all memories always tell of   *)
(* the same disjoint grants, those that span several memories included;    *)
(* and whoever has allocated or freed since the scan of a release went by, *)
(* its next turn gets further.                                             *)
THEOREM TablesAlwaysAgree == Spec => []TablesAgree
<1>1. MmInv => TablesAgree
  <2> SUFFICES ASSUME MmInv PROVE TablesAgree
    OBVIOUS
  <2>1. MmTypeOK
    BY DEF MmInv, TablesInv, WorkInv, CallsTyped, MmTypeOK
  <2>2. MarkedOnce
    BY EachMarkedOnce DEF MmInv
  <2>3. ScanGetsOn
    <3> SUFFICES ASSUME NEW s \in Sess, sState[s] = "SCAN",
                        NEW blk \in BitsFrom(reapMem[s], reapPage[s]),
                        IsLeast(blk, BitsFrom(reapMem[s], reapPage[s]))
                 PROVE  ScanAfter(reapMem[s], blk) > blk
      BY DEF ScanGetsOn
    <3>1. PICK m : m = reapMem[s]
      OBVIOUS
    <3> QED
      BY <3>1, ScanTurn DEF MmInv, WorkInv
  <2> QED
    BY <2>1, <2>2, <2>3 DEF TablesAgree, MmInv, TablesInv
<1> QED
  BY <1>1, Inductive, PTL

(* Nobody leaves __free_huge_mem with the locks of the MAIN memories: what *)
(* was seen before the lock was dropped still holds when all are taken.    *)
THEOREM LocksAlwaysReturned == Spec => []LocksReturned
<1>1. MmInv => LocksReturned
  BY DEF MmInv, LocksReturned
<1> QED
  BY <1>1, Inductive, PTL

(* The manager, with its memories tried one after another, its calls that  *)
(* work on all MAIN memories at once and its page scan with the lock       *)
(* dropped on the way, implements disjoint grants to existing sessions.    *)
THEOREM MmImplements == Spec => Implements
<1>1. Init => Abs!Init
  BY InitInv DEF Init, Abs!Init, Present
<1>2. MmInv /\ [Next]_mmVars => [Abs!Next]_<<Grants, Present>>
  BY NextIsSound DEF AbsStep
<1> QED
  BY <1>1, <1>2, Inductive, PTL DEF Spec, Implements, Abs!Spec
=============================================================================
