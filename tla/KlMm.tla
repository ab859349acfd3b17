-------------------------------- MODULE KlMm --------------------------------
(***************************************************************************)
(* The device memory manager of the R200 family: an array of memories, of  *)
(* which those of kind MAIN adjoin and can also serve one allocation that  *)
(* spans several of them.  Such a "huge" call works with the locks of all  *)
(* MAIN memories on huge_mem, whose bitmap is a copy of theirs; the parts  *)
(* of its grant are entered into the tables of the memories they lie in.   *)
(*                                                                         *)
(* A critical section is one step.  An allocation tries one memory after   *)
(* another, a free drops the lock of its memory before it takes all of     *)
(* them, and the release of a session scans the memories step by step with *)
(* their lock held.                                                        *)
(*                                                                         *)
(* Left out, since nothing reads them: page_current, and of huge_mem the   *)
(* owner table and page_used.                                              *)
(***************************************************************************)
EXTENDS Integers, Sequences, FiniteSets

CONSTANTS
  Sess,       \* the sessions, owners of memory
  Threads,    \* threads in a malloc or free ioctl
  MemCount,   \* mm->mem_count
  KindOf,     \* mem[idx].kind
  PageCount,  \* mem[idx].page_count
  PageSize,   \* mem[idx].page_size
  Base,       \* the page of huge_mem at which a MAIN memory begins
  U64,        \* number of values of a u64
  Sizes,      \* sizes asked for, in bytes
  Nothing     \* a null pointer

Mems  == 1 .. MemCount
Main  == {m \in Mems : KindOf[m] = "MAIN"}
Kinds == {KindOf[m] : m \in Mems}

HugePages == UNION {Base[m] .. (Base[m] + PageCount[m] - 1) : m \in Main}
HugeCount == Cardinality(HugePages)
HugeSize  == PageSize[CHOOSE m \in Main : TRUE]

(* kl_mm_init refuses MAIN memories with a hole between them or with pages *)
(* of different sizes; huge_mem begins where the first one does.  A size   *)
(* so near to 2^64 that rounding it up wraps to no page at all is left out *)
(* (named bound SizesDoNotWrap).                                           *)
SizesDoNotWrap == \A z \in Sizes, m \in Mems : z + PageSize[m] - 1 < U64

ASSUME MmAssumption ==
  /\ MemCount \in Nat \ {0}
  /\ PageCount \in [Mems -> Nat \ {0}]
  /\ PageSize \in [Mems -> Nat \ {0}]
  /\ Base \in [Main -> Nat]
  /\ Main # {}
  /\ HugePages = 0 .. (HugeCount - 1)
  /\ \A m, k \in Main : m < k => Base[m] + PageCount[m] <= Base[k]
  /\ \A m, k \in Main : PageSize[m] = PageSize[k]
  /\ U64 \in Nat \ {0}
  /\ Sizes \subseteq Nat \ {0}
  /\ SizesDoNotWrap
  /\ Nothing \notin Sess
  /\ IsFiniteSet(Sess)

VARIABLES
  bitmap,      \* mem->page_bitmap: the pages in use
  freeTable,   \* mem->free_table: the length of the grant, or part, at a page
  ownerTable,  \* mem->owner_table: its owner; a further part has none
  pageUsed,    \* mem->page_used
  hugeTable,   \* huge_mem->free_table
  stuck,       \* an error return left the locks of all MAIN memories held
  sState,      \* life of a session and the next step of its release
  reapMem,     \* the memory its release is at ...
  reapPage,    \* ... and p of __free_by_owner_locked there
  reapBlk,     \* the spanning grant it goes to release
  call         \* what each thread has yet to do

tableVars == <<bitmap, freeTable, ownerTable, pageUsed, hugeTable>>
reapVars  == <<sState, reapMem, reapPage, reapBlk>>
mmVars    == <<tableVars, stuck, reapVars, call>>

Pages(m) == 0 .. (PageCount[m] - 1)

(* Between two steps only the release of a session holds a lock, or a call *)
(* that left without giving them back.                                     *)
LockFree(m) ==
  /\ \A s \in Sess : ~(sState[s] = "SCAN" /\ reapMem[s] = m)
  /\ ~(stuck /\ m \in Main)

MainLocksFree == \A m \in Main : LockFree(m)

IsLeast(x, S) == x \in S /\ \A y \in S : x <= y

(* The pages of the memories from global page g on, n of them. *)
PiecePages(m, g, n) == {p \in Pages(m) : Base[m] + p \in g .. (g + n - 1)}

(* Mutant: a grant up to the last page is taken for one that goes beyond. *)
SpansAtEnd(m, p) == p + freeTable[m][p] >= PageCount[m]

(* The grant at p goes beyond the end of its memory. *)
Spans(m, p) == p + freeTable[m][p] > PageCount[m]

Idle(t) == call[t] = Nothing
Done(t) == call' = [call EXCEPT ![t] = Nothing]

-----------------------------------------------------------------------------
(* Allocation *)

(* kl_mm_malloc: the memories of a kind, from index m on. *)
Candidates(kind, m) == {k \in Mems : KindOf[k] = kind /\ k >= m}

PageNeeded(m, size) == ((size + PageSize[m] - 1) % U64) \div PageSize[m]

(* bitmap_find_next_zero_area returns the first of these, if any. *)
ZeroAreas(m, n) ==
  {p \in Pages(m) : p + n <= PageCount[m] /\ (p .. (p + n - 1)) \cap bitmap[m] = {}}

Enough(m, n) == n + pageUsed[m] <= PageCount[m]

(* __take_pages *)
TakePages(m, p, n, s) ==
  /\ bitmap' = [bitmap EXCEPT ![m] = @ \cup (p .. (p + n - 1))]
  /\ pageUsed' = [pageUsed EXCEPT ![m] = @ + n]
  /\ freeTable' = [freeTable EXCEPT ![m][p] = n]
  /\ ownerTable' = [ownerTable EXCEPT ![m][p] = s]
  /\ UNCHANGED hugeTable

(* One turn of the loop of kl_mm_malloc: __malloc_locked under the lock of *)
(* the first memory of the kind from m on; without room, the next.         *)
TryMem(t, s, size, kind, m) ==
  \E k \in Candidates(kind, m) :
    LET n == PageNeeded(k, size)
        room == IF Enough(k, n) THEN ZeroAreas(k, n) ELSE {}
    IN  /\ IsLeast(k, Candidates(kind, m))
        /\ LockFree(k)
        /\ \/ \E p \in room :
                /\ IsLeast(p, room)
                /\ TakePages(k, p, n, s)
                /\ call' = [call EXCEPT ![t] = [op |-> "copy", sess |-> s, mem |-> k, page |-> p]]
           \/ /\ room = {}
              /\ call' = [call EXCEPT ![t] =
                   IF Candidates(kind, k + 1) = {} THEN Nothing
                   ELSE [op |-> "try", sess |-> s, size |-> size, kind |-> kind, mem |-> k + 1]]
              /\ UNCHANGED tableVars
        /\ UNCHANGED <<stuck, reapVars>>

(* ioctl_malloc *)
Malloc(t, s, size, kind) ==
  /\ Idle(t) /\ sState[s] = "OPEN"
  /\ TryMem(t, s, size, kind, 1)

MallocNext(t) ==
  /\ ~Idle(t) /\ call[t].op = "try"
  /\ TryMem(t, call[t].sess, call[t].size, call[t].kind, call[t].mem)

(* The bitmap of huge_mem, copied from the memories it spans. *)
HugeBitmap == UNION {{Base[m] + p : p \in bitmap[m]} : m \in Main}

HugeAreas(n) ==
  {g \in HugePages : g + n <= HugeCount /\ (g .. (g + n - 1)) \cap HugeBitmap = {}}

(* The memory that holds global page g, and its page there. *)
MemAt(g)  == CHOOSE m \in Main : g \in Base[m] .. (Base[m] + PageCount[m] - 1)
PageAt(g) == g - Base[MemAt(g)]

(* The memories a grant of n pages from g on touches, and where. *)
Touched(g, n) == {m \in Main : PiecePages(m, g, n) # {}}

(* Mutant: the part in a further memory is entered with the whole length. *)
PieceLengthWhole(m, g, n) == n

(* What free_table of memory m holds for its part: the first memory has    *)
(* the whole length, a further one the length of the part.                 *)
PieceLength(m, g, n) ==
  IF m = MemAt(g) THEN n ELSE Cardinality(PiecePages(m, g, n))
PieceStart(m, g) == IF m = MemAt(g) THEN PageAt(g) ELSE 0

(* The loop of __malloc_huge_mem over the memories. *)
EnterParts(g, n, s) ==
  freeTable' = [m \in Mems |->
                 IF m \in Touched(g, n)
                 THEN [freeTable[m] EXCEPT ![PieceStart(m, g)] = PieceLength(m, g, n)]
                 ELSE freeTable[m]]

(* __malloc_huge_mem: all locks, one area of huge_mem, the bitmaps copied  *)
(* back.                                                                   *)
MallocHuge(t, s, size) ==
  LET n == ((size + HugeSize - 1) % U64) \div HugeSize
  IN  /\ Idle(t) /\ sState[s] = "OPEN"
      /\ MainLocksFree
      /\ \E g \in HugeAreas(n) :
           /\ IsLeast(g, HugeAreas(n))
           /\ hugeTable' = [hugeTable EXCEPT ![g] = n]
           /\ bitmap' = [m \in Mems |-> IF m \in Main THEN bitmap[m] \cup PiecePages(m, g, n)
                                        ELSE bitmap[m]]
           /\ EnterParts(g, n, s)
           /\ ownerTable' = [ownerTable EXCEPT ![MemAt(g)][PageAt(g)] = s]
           /\ pageUsed' = [m \in Mems |->
                            IF m \in Main THEN pageUsed[m] + Cardinality(PiecePages(m, g, n))
                            ELSE pageUsed[m]]
           /\ call' = [call EXCEPT ![t] =
                [op |-> "copy", sess |-> s, mem |-> MemAt(g), page |-> PageAt(g)]]
      /\ UNCHANGED <<stuck, reapVars>>

(* The address reaches the process ... *)
MallocReturn(t) ==
  /\ ~Idle(t) /\ call[t].op = "copy"
  /\ Done(t)
  /\ UNCHANGED <<tableVars, stuck, reapVars>>

-----------------------------------------------------------------------------
(* Release *)

(* The checks of __free_locked. *)
Freeable(s, m, p) == freeTable[m][p] # 0 /\ ownerTable[m][p] = s

(* __release_pages *)
ReleasePages(m, p) ==
  /\ bitmap' = [bitmap EXCEPT ![m] = @ \ (p .. (p + freeTable[m][p] - 1))]
  /\ pageUsed' = [pageUsed EXCEPT ![m] = @ - freeTable[m][p]]
  /\ freeTable' = [freeTable EXCEPT ![m][p] = 0]
  /\ ownerTable' = [ownerTable EXCEPT ![m][p] = Nothing]
  /\ UNCHANGED hugeTable

(* Named bound: no other thread of the session is about to free the same   *)
(* spanning grant.  Two that are can leave the locks held, see the README.   *)
FreedElsewhere(m, p) ==
  \E t \in Threads : ~Idle(t) /\ call[t].op = "huge" /\ call[t].mem = m /\ call[t].page = p

(* __free_locked for thread t; a grant that spans is left to __free_huge_mem. *)
FreeLocked(t, s, m, p) ==
  /\ LockFree(m)
  /\ IF Freeable(s, m, p) /\ Spans(m, p)
     THEN /\ ~FreedElsewhere(m, p)
          /\ call' = [call EXCEPT ![t] = [op |-> "huge", sess |-> s, mem |-> m, page |-> p]]
          /\ UNCHANGED tableVars
     ELSE /\ Done(t)
          /\ IF Freeable(s, m, p) THEN ReleasePages(m, p) ELSE UNCHANGED tableVars
  /\ UNCHANGED <<stuck, reapVars>>

(* ioctl_free, with any page of any memory. *)
Free(t, s, m, p) ==
  /\ Idle(t) /\ sState[s] = "OPEN"
  /\ FreeLocked(t, s, m, p)

(* ... or it does not, and the memory is freed again. *)
MallocCopyFails(t) ==
  /\ ~Idle(t) /\ call[t].op = "copy"
  /\ FreeLocked(t, call[t].sess, call[t].mem, call[t].page)

(* The loop of __free_huge_mem over the memories. *)
LeaveParts(g, n) ==
  /\ freeTable' = [m \in Mems |->
                    IF m \in Touched(g, n) THEN [freeTable[m] EXCEPT ![PieceStart(m, g)] = 0]
                    ELSE freeTable[m]]
  /\ ownerTable' = [m \in Mems |->
                     IF m \in Touched(g, n) THEN [ownerTable[m] EXCEPT ![PieceStart(m, g)] = Nothing]
                     ELSE ownerTable[m]]

(* __free_huge_mem, entered without a lock: the grant is looked up anew,   *)
(* its length in the table of huge_mem.  The error returns keep the locks. *)
FreeHuge(s, m, p) ==
  LET g == Base[m] + p
      n == hugeTable[g]
  IN  /\ MainLocksFree
      /\ IF n # 0 /\ ownerTable[m][p] = s
         THEN /\ hugeTable' = [hugeTable EXCEPT ![g] = 0]
              /\ bitmap' = [k \in Mems |-> IF k \in Main THEN bitmap[k] \ PiecePages(k, g, n)
                                           ELSE bitmap[k]]
              /\ LeaveParts(g, n)
              /\ pageUsed' = [k \in Mems |->
                               IF k \in Main THEN pageUsed[k] - Cardinality(PiecePages(k, g, n))
                               ELSE pageUsed[k]]
              /\ UNCHANGED stuck
         ELSE stuck' = TRUE /\ UNCHANGED tableVars

(* The second half of a free. *)
FreeSpanning(t) ==
  /\ ~Idle(t) /\ call[t].op = "huge"
  /\ FreeHuge(call[t].sess, call[t].mem, call[t].page)
  /\ Done(t)
  /\ UNCHANGED reapVars

-----------------------------------------------------------------------------
(* A session comes and goes *)

Open(s) ==
  /\ sState[s] = "NONE"
  /\ sState' = [sState EXCEPT ![s] = "OPEN"]
  /\ UNCHANGED <<tableVars, stuck, reapMem, reapPage, reapBlk, call>>

(* Mutant: only the last memory is scanned. *)
LeaveFromLast(s) ==
  /\ sState[s] = "OPEN"
  /\ \A t \in Threads : ~Idle(t) => call[t].sess # s
  /\ sState' = [sState EXCEPT ![s] = "LOCK"]
  /\ reapMem' = [reapMem EXCEPT ![s] = MemCount]
  /\ UNCHANGED <<tableVars, stuck, reapPage, reapBlk, call>>

(* kl2_destroy_session_ref calls kl_mm_free_by_owner; no ioctl of the      *)
(* session is under way.                                                   *)
Leave(s) ==
  /\ sState[s] = "OPEN"
  /\ \A t \in Threads : ~Idle(t) => call[t].sess # s
  /\ sState' = [sState EXCEPT ![s] = "LOCK"]
  /\ reapMem' = [reapMem EXCEPT ![s] = 1]
  /\ UNCHANGED <<tableVars, stuck, reapPage, reapBlk, call>>

ReapLock(s) ==
  /\ sState[s] = "LOCK"
  /\ LockFree(reapMem[s])
  /\ sState' = [sState EXCEPT ![s] = "SCAN"]
  /\ reapPage' = [reapPage EXCEPT ![s] = 0]
  /\ UNCHANGED <<tableVars, stuck, reapMem, reapBlk, call>>

(* find_next_bit *)
BitsFrom(m, p) == {q \in bitmap[m] : q >= p}

(* Where the scan goes on after the grant at blk. *)
ScanAfter(m, blk) == blk + freeTable[m][blk]

(* One turn of the loop of __free_by_owner_locked. *)
ReapScan(s) ==
  LET m == reapMem[s]
  IN  /\ sState[s] = "SCAN"
      /\ \E blk \in BitsFrom(m, reapPage[s]) :
           /\ IsLeast(blk, BitsFrom(m, reapPage[s]))
           /\ reapPage' = [reapPage EXCEPT ![s] = ScanAfter(m, blk)]
           /\ IF Freeable(s, m, blk) /\ Spans(m, blk)
              THEN /\ sState' = [sState EXCEPT ![s] = "HUGE"]
                   /\ reapBlk' = [reapBlk EXCEPT ![s] = blk]
                   /\ UNCHANGED tableVars
              ELSE /\ UNCHANGED <<sState, reapBlk>>
                   /\ IF Freeable(s, m, blk) THEN ReleasePages(m, blk) ELSE UNCHANGED tableVars
      /\ UNCHANGED <<stuck, reapMem, call>>

(* The lock has been dropped for a spanning grant; after __free_huge_mem   *)
(* it is taken again, but the scan is past the end of the memory.          *)
ReapHuge(s) ==
  /\ sState[s] = "HUGE"
  /\ FreeHuge(s, reapMem[s], reapBlk[s])
  /\ sState' = [sState EXCEPT ![s] = "RELOCK"]
  /\ reapBlk' = [reapBlk EXCEPT ![s] = 0]
  /\ UNCHANGED <<reapMem, reapPage, call>>

ReapRelock(s) ==
  /\ sState[s] = "RELOCK"
  /\ LockFree(reapMem[s])
  /\ sState' = [sState EXCEPT ![s] = "SCAN"]
  /\ UNCHANGED <<tableVars, stuck, reapMem, reapPage, reapBlk, call>>

(* No bit is left: unlock, and the next memory; after the last one the     *)
(* session is freed.                                                       *)
ReapNext(s) ==
  /\ sState[s] = "SCAN"
  /\ BitsFrom(reapMem[s], reapPage[s]) = {}
  /\ IF reapMem[s] < MemCount
     THEN /\ sState' = [sState EXCEPT ![s] = "LOCK"]
          /\ reapMem' = [reapMem EXCEPT ![s] = @ + 1]
     ELSE /\ sState' = [sState EXCEPT ![s] = "NONE"]
          /\ reapMem' = [reapMem EXCEPT ![s] = 1]
  /\ reapPage' = [reapPage EXCEPT ![s] = 0]
  /\ UNCHANGED <<tableVars, stuck, reapBlk, call>>

-----------------------------------------------------------------------------
Init ==
  /\ bitmap = [m \in Mems |-> {}]
  /\ freeTable = [m \in Mems |-> [p \in Pages(m) |-> 0]]
  /\ ownerTable = [m \in Mems |-> [p \in Pages(m) |-> Nothing]]
  /\ pageUsed = [m \in Mems |-> 0]
  /\ hugeTable = [g \in HugePages |-> 0]
  /\ stuck = FALSE
  /\ sState = [s \in Sess |-> "NONE"]
  /\ reapMem = [s \in Sess |-> 1]
  /\ reapPage = [s \in Sess |-> 0]
  /\ reapBlk = [s \in Sess |-> 0]
  /\ call = [t \in Threads |-> Nothing]

Ioctl(t, s) ==
  \/ \E size \in Sizes, kind \in Kinds : Malloc(t, s, size, kind)
  \/ \E size \in Sizes : MallocHuge(t, s, size)
  \/ \E m \in Mems : \E p \in Pages(m) : Free(t, s, m, p)

GoOn(t) == MallocNext(t) \/ MallocReturn(t) \/ MallocCopyFails(t) \/ FreeSpanning(t)

Release(s) ==
  ReapLock(s) \/ ReapScan(s) \/ ReapHuge(s) \/ ReapRelock(s) \/ ReapNext(s)

Next ==
  \/ \E t \in Threads : GoOn(t) \/ \E s \in Sess : Ioctl(t, s)
  \/ \E s \in Sess : Open(s) \/ Leave(s) \/ Release(s)

Spec == Init /\ [][Next]_mmVars

-----------------------------------------------------------------------------
(* Properties *)

CallTyped(c) ==
  /\ c.sess \in Sess /\ sState[c.sess] = "OPEN"
  /\ \/ c.op = "try" /\ c.size \in Sizes /\ c.kind \in Kinds /\ c.mem \in Mems
     \/ c.op \in {"copy", "huge"} /\ c.mem \in Mems /\ c.page \in Pages(c.mem)

TablesTyped ==
  /\ DOMAIN bitmap = Mems /\ DOMAIN freeTable = Mems /\ DOMAIN ownerTable = Mems
  /\ \A m \in Mems :
       /\ bitmap[m] \subseteq Pages(m)
       /\ freeTable[m] \in [Pages(m) -> Nat]
       /\ ownerTable[m] \in [Pages(m) -> Sess \cup {Nothing}]
  /\ pageUsed \in [Mems -> Int]
  /\ hugeTable \in [HugePages -> Nat]

ReleasesTyped ==
  /\ sState \in [Sess -> {"NONE", "OPEN", "LOCK", "SCAN", "HUGE", "RELOCK"}]
  /\ reapMem \in [Sess -> Mems]
  /\ reapPage \in [Sess -> Nat] /\ reapBlk \in [Sess -> Nat]
  /\ \A s \in Sess :
       /\ reapBlk[s] \in Pages(reapMem[s])
       /\ sState[s] = "HUGE" => reapMem[s] \in Main
       /\ sState[s] \in {"HUGE", "RELOCK"} => reapPage[s] >= PageCount[reapMem[s]]

(* A call belongs to an open session, and a scan that drops its lock for a *)
(* spanning grant is past the end of its memory, so that what others do    *)
(* meanwhile cannot lead it astray.                                        *)
MmTypeOK ==
  /\ TablesTyped /\ ReleasesTyped /\ stuck \in BOOLEAN
  /\ DOMAIN call = Threads
  /\ \A t \in Threads : call[t] # Nothing => CallTyped(call[t])

(* One page of the device: the MAIN memories are one range of addresses.   *)
Space(m)     == IF m \in Main THEN 0 ELSE m
PlaceOf(m, p) == IF m \in Main THEN Base[m] + p ELSE p
Spaces       == {Space(m) : m \in Mems}
SpaceSize    == [x \in Spaces |-> IF x = 0 THEN HugeCount ELSE PageCount[x]]

GrantAt(m, p) ==
  [region |-> Space(m), first |-> PlaceOf(m, p), len |-> freeTable[m][p], owner |-> ownerTable[m][p]]

(* An owner makes an entry of the tables the beginning of a grant. *)
Heads(m) == {p \in Pages(m) : freeTable[m][p] # 0 /\ ownerTable[m][p] # Nothing}
Grants   == UNION {{GrantAt(m, p) : p \in Heads(m)} : m \in Mems}

Covers(g, m, p) ==
  /\ g.region = Space(m)
  /\ PlaceOf(m, p) \in g.first .. (g.first + g.len - 1)

(* A page is marked in its memory exactly when one grant covers it, also   *)
(* when the grant begins in another memory: the copy of the bitmaps to     *)
(* huge_mem and back loses no mark.                                        *)
MarkedOnce ==
  LET all == Grants
  IN  \A m \in Mems : \A p \in Pages(m) :
        LET over == {g \in all : Covers(g, m, p)}
        IN  Cardinality(over) = IF p \in bitmap[m] THEN 1 ELSE 0

(* The entries without an owner are the parts of the spanning grants in    *)
(* further memories, each at page 0 and as long as the part: by them the   *)
(* scan of a release steps over what another session holds.                *)
PartsEntered ==
  \A m \in Mems : \A p \in Pages(m) :
    LET comesIn == {g \in Grants : Covers(g, m, p) /\ g.first < PlaceOf(m, p)}
    IN  /\ (freeTable[m][p] # 0 /\ ownerTable[m][p] = Nothing) <=> (p = 0 /\ comesIn # {})
        /\ p = 0 => \A g \in comesIn :
                      freeTable[m][p] = Cardinality({q \in Pages(m) : Covers(g, m, q)})

(* page_used of a memory is the number of its marked pages, whether they   *)
(* were taken one memory at a time or across several.                      *)
UsedIsMarked == \A m \in Mems : pageUsed[m] = Cardinality(bitmap[m])

(* Where the scan of a release stops, whoever has allocated since it went  *)
(* by, the table tells how far to go on: the loop, which holds a spinlock, *)
(* gets further at every turn.                                             *)
ScanGetsOn ==
  \A s \in Sess :
    sState[s] = "SCAN" =>
      LET ahead == BitsFrom(reapMem[s], reapPage[s])
      IN  \A blk \in ahead : IsLeast(blk, ahead) => ScanAfter(reapMem[s], blk) > blk

(* Bitmaps, counts and tables of all memories tell of the same grants,     *)
(* those that span memories included, and the scans are on solid ground.   *)
TablesAgree == MmTypeOK /\ MarkedOnce /\ PartsEntered /\ UsedIsMarked /\ ScanGetsOn

(* No call leaves with the locks of the MAIN memories held: between the    *)
(* checks of __free_locked and those of __free_huge_mem, with no lock in   *)
(* between, the grant stays and the two tables agree on it.                *)
LocksReturned == ~stuck

Present == {s \in Sess : sState[s] # "NONE"}

Abs == INSTANCE DeviceMemory
         WITH Owners <- Sess, Regions <- Spaces, PageCount <- SpaceSize,
              grants <- Grants, present <- Present

(* Bitmaps, tables and scans of the memories, with huge_mem over several   *)
(* of them, implement disjoint grants that only go back whole, none of     *)
(* which outlives its session.                                             *)
Implements == Abs!Spec
=============================================================================
