------------------------------- MODULE XpuMem -------------------------------
(***************************************************************************)
(* Device memory of one K200 power domain: the page allocator of its four  *)
(* regions, the sessions that own the pages, the per-process contexts that *)
(* are charged for them, and the timer that takes everything back from a   *)
(* closed session.  A critical section of a region's lock is one step, but *)
(* an allocation tries region after region, and the timer scans a region   *)
(* step by step.                                                           *)
(*                                                                         *)
(* A session id stands for the address of its struct: it is free for reuse *)
(* after kfree.  first_free of struct xpu_mem_data, which nothing reads,   *)
(* is left out.                                                            *)
(***************************************************************************)
EXTENDS Integers, Sequences, FiniteSets

CONSTANTS
  Sess,       \* addresses of struct xpu_session
  Ctxs,       \* addresses of struct xpu_context
  Procs,      \* processes
  PageCount,  \* page_count of each region
  PageSize,   \* page_size of each region
  U64,        \* number of values of a u64
  Sizes,      \* sizes asked for, in bytes
  Nothing     \* a null pointer

(* enum XPUMemoryRegion, the order in which the regions are released *)
RegionOrder == <<"HBM_LO", "HBM_HI", "L3", "CODE">>
Regions == {"HBM_LO", "HBM_HI", "L3", "CODE"}
Kinds   == {"HBM", "L3", "CODE"}

ASSUME MemAssumption ==
  /\ PageCount \in [Regions -> Nat \ {0}]
  /\ PageSize \in [Regions -> Nat \ {0}]
  /\ U64 \in Nat \ {0}
  /\ Sizes \subseteq (1 .. (U64 - 1))
  /\ Nothing \notin Sess \cup Ctxs \cup Procs
  /\ IsFiniteSet(Sess)

VARIABLES
  bitmap,      \* mem->page_bitmap: the pages in use of each region
  freeTable,   \* mem->free_table: the length of the grant that starts at a page
  ownerTable,  \* mem->owner_table: its owner
  pageUsed,    \* mem->page_used
  sState,      \* sess->state (an error counts as OPEN), DETACHED off the list
  sCtx,        \* sess->xctx
  ctxProc,     \* ctx->pid, Nothing if there is no such context
  ctxListed,   \* the contexts on xpd->contexts
  sessCnt,     \* ctx->sess_cnt
  mainUsed,    \* ctx->main_page_used
  cacheUsed,   \* ctx->cache_mem_page_used
  pc,          \* the next step of each session's thread
  req,         \* the size it still asks for and the regions left to try
  at,          \* the address it got
  reapPc,      \* the next step of the timer
  reapSess,    \* the session it frees
  reapIdx,     \* the region it scans, a position of RegionOrder
  reapOffset   \* offset of __release_mem_data_by_owner

memVars  == <<bitmap, freeTable, ownerTable, pageUsed>>
ctxVars  == <<ctxProc, ctxListed, sessCnt>>
useVars  == <<mainUsed, cacheUsed>>
sessVars == <<sState, sCtx>>
ioVars   == <<pc, req, at>>
reapVars == <<reapPc, reapSess, reapIdx, reapOffset>>
memAllVars == <<memVars, ctxVars, useVars, sessVars, ioVars, reapVars>>

Pages(r) == 0 .. (PageCount[r] - 1)
Kind(r)  == IF r = "L3" THEN "L3" ELSE "HBM"

ReapRegion == RegionOrder[reapIdx]

(* Only the timer keeps a region's lock from one step to the next. *)
LockFree(r) == ~(reapPc = "scan" /\ r = ReapRegion)

(* The pages of the grant that starts at p. *)
Extent(r, p) == p .. (p + freeTable[r][p] - 1)
Heads(r) == {p \in Pages(r) : freeTable[r][p] # 0}

IsLeast(x, S) == x \in S /\ \A y \in S : x <= y

-----------------------------------------------------------------------------
(* Open and close *)

(* session_create: join the context of the process, or list a new one. *)
Open(s, p, c) ==
  /\ sState[s] = "NONE"
  /\ \/ /\ c \in ctxListed /\ ctxProc[c] = p
        /\ sessCnt' = [sessCnt EXCEPT ![c] = @ + 1]
        /\ UNCHANGED <<ctxProc, ctxListed, useVars>>
     \/ /\ \A d \in ctxListed : ctxProc[d] # p
        /\ ctxProc[c] = Nothing
        /\ ctxProc' = [ctxProc EXCEPT ![c] = p]
        /\ ctxListed' = ctxListed \cup {c}
        /\ sessCnt' = [sessCnt EXCEPT ![c] = 1]
        /\ mainUsed' = [mainUsed EXCEPT ![c] = 0]
        /\ cacheUsed' = [cacheUsed EXCEPT ![c] = 0]
  /\ sState' = [sState EXCEPT ![s] = "OPEN"]
  /\ sCtx' = [sCtx EXCEPT ![s] = c]
  /\ UNCHANGED <<memVars, ioVars, reapVars>>

(* session_destroy *)
Close(s) ==
  /\ sState[s] = "OPEN"
  /\ pc[s] = "idle"
  /\ sState' = [sState EXCEPT ![s] = "CLOSED"]
  /\ UNCHANGED <<memVars, ctxVars, useVars, sCtx, ioVars, reapVars>>

-----------------------------------------------------------------------------
(* Allocation *)

(* xpu_mem_alloc: the regions that may serve a kind of memory, in order. *)
CandidateRegions(kind) ==
  IF kind = "HBM" THEN <<"HBM_LO", "HBM_HI">> ELSE <<kind>>

(* The size is rounded up in 64 bits, which a huge one wraps. *)
PageNeeded(r, size) == ((size + PageSize[r] - 1) % U64) \div PageSize[r]

(* Mutant: does not look at the last page. *)
FitsButLast(r, n, p) ==
  p + n <= PageCount[r] /\ (p .. (p + n - 2)) \cap bitmap[r] = {} /\ p \notin bitmap[r]

(* n pages are free from p on (the first one even if n = 0). *)
Fits(r, n, p) ==
  p + n <= PageCount[r] /\ (p .. (p + n - 1)) \cap bitmap[r] = {} /\ p \notin bitmap[r]

(* bitmap_find_next_zero_area returns the first of these, if any. *)
ZeroAreas(r, n) == {p \in Pages(r) : Fits(r, n, p)}

(* The context of s is charged for n more pages of region r. *)
Charge(s, r, n) ==
  IF Kind(r) = "HBM"
  THEN mainUsed' = [mainUsed EXCEPT ![sCtx[s]] = @ + n] /\ UNCHANGED cacheUsed
  ELSE cacheUsed' = [cacheUsed EXCEPT ![sCtx[s]] = @ + n] /\ UNCHANGED mainUsed

(* __malloc_locked, when there is room at p. *)
Take(s, r, p, n) ==
  /\ bitmap' = [bitmap EXCEPT ![r] = @ \cup (p .. (p + n - 1))]
  /\ pageUsed' = [pageUsed EXCEPT ![r] = @ + n]
  /\ freeTable' = [freeTable EXCEPT ![r][p] = n]
  /\ ownerTable' = [ownerTable EXCEPT ![r][p] = s]
  /\ Charge(s, r, n)

(* One turn of the loop of xpu_mem_alloc: the first region of rest serves  *)
(* the request, or the next one is left to try, if any.                    *)
TryRegion(s, size, rest) ==
  LET r == Head(rest)
      n == PageNeeded(r, size)
      enough == n + pageUsed[r] <= PageCount[r]
  IN  /\ LockFree(r)
      /\ \/ \E p \in Pages(r) :
            /\ enough
            /\ IsLeast(p, ZeroAreas(r, n))
            /\ Take(s, r, p, n)
            /\ at' = [at EXCEPT ![s] = <<r, p>>]
            /\ req' = [req EXCEPT ![s] = Nothing]
            /\ pc' = [pc EXCEPT ![s] = "copy"]
         \/ /\ enough => ZeroAreas(r, n) = {}
            /\ IF Len(rest) > 1
               THEN /\ req' = [req EXCEPT ![s] = [size |-> size, rest |-> Tail(rest)]]
                    /\ pc' = [pc EXCEPT ![s] = "alloc"]
               ELSE /\ req' = [req EXCEPT ![s] = Nothing]
                    /\ pc' = [pc EXCEPT ![s] = "idle"]
            /\ UNCHANGED <<memVars, useVars, at>>
      /\ UNCHANGED <<ctxVars, sessVars, reapVars>>

(* ioctl_memory_alloc refuses an empty request only. *)
Alloc(s, size, kind) ==
  /\ sState[s] = "OPEN"
  /\ pc[s] = "idle"
  /\ TryRegion(s, size, CandidateRegions(kind))

AllocNext(s) ==
  /\ pc[s] = "alloc"
  /\ TryRegion(s, req[s].size, req[s].rest)

(* The address reaches the process ... *)
AllocReturn(s) ==
  /\ pc[s] = "copy"
  /\ pc' = [pc EXCEPT ![s] = "idle"]
  /\ at' = [at EXCEPT ![s] = Nothing]
  /\ UNCHANGED <<memVars, ctxVars, useVars, sessVars, req, reapVars>>

-----------------------------------------------------------------------------
(* Release *)

(* Mutant: anybody may free. *)
FreeableByAny(s, r, p) ==
  freeTable[r][p] # 0 /\ p + freeTable[r][p] <= PageCount[r]

(* The checks of __free_locked. *)
Freeable(s, r, p) ==
  /\ freeTable[r][p] # 0 /\ p + freeTable[r][p] <= PageCount[r]
  /\ ownerTable[r][p] = s

(* Mutant: only the first page of a grant is given back. *)
FreeLockedOnePage(s, r, p) ==
  IF Freeable(s, r, p)
  THEN LET rest == Extent(r, p) \ {p}
           then(q) == q = p + 1 /\ q \in rest
       IN  /\ bitmap' = [bitmap EXCEPT ![r] = @ \ {p}]
           /\ pageUsed' = [pageUsed EXCEPT ![r] = @ - 1]
           /\ freeTable' = [freeTable EXCEPT ![r] = [q \in Pages(r) |->
                CASE q = p -> 0 [] then(q) -> @[p] - 1 [] OTHER -> @[q]]]
           /\ ownerTable' = [ownerTable EXCEPT ![r] = [q \in Pages(r) |->
                CASE q = p -> Nothing [] then(q) -> s [] OTHER -> @[q]]]
           /\ Charge(s, r, -1)
  ELSE UNCHANGED <<memVars, useVars>>

(* __free_locked *)
FreeLocked(s, r, p) ==
  IF Freeable(s, r, p)
  THEN /\ bitmap' = [bitmap EXCEPT ![r] = @ \ Extent(r, p)]
       /\ pageUsed' = [pageUsed EXCEPT ![r] = @ - freeTable[r][p]]
       /\ freeTable' = [freeTable EXCEPT ![r][p] = 0]
       /\ ownerTable' = [ownerTable EXCEPT ![r][p] = Nothing]
       /\ Charge(s, r, -freeTable[r][p])
  ELSE UNCHANGED <<memVars, useVars>>

(* ... or it does not, and the memory is freed again. *)
AllocCopyFails(s) ==
  /\ pc[s] = "copy"
  /\ LockFree(at[s][1])
  /\ FreeLocked(s, at[s][1], at[s][2])
  /\ pc' = [pc EXCEPT ![s] = "idle"]
  /\ at' = [at EXCEPT ![s] = Nothing]
  /\ UNCHANGED <<ctxVars, sessVars, req, reapVars>>

(* ioctl_memory_free, with an address in any page of any region; another   *)
(* thread of the process may be allocating meanwhile.                      *)
Free(s, r, p) ==
  /\ sState[s] = "OPEN"
  /\ LockFree(r)
  /\ FreeLocked(s, r, p)
  /\ UNCHANGED <<ctxVars, sessVars, ioVars, reapVars>>

-----------------------------------------------------------------------------
(* The timer, __clean_sessions *)

Detached == {s \in Sess : sState[s] = "DETACHED"}
Leaving(D, c) == Cardinality({s \in D : sCtx[s] = c})

(* Mutant: a context goes with the first of its sessions. *)
AbandonedEarly(D, c) == Leaving(D, c) > 0

(* The context has lost its last session. *)
Abandoned(D, c) == Leaving(D, c) > 0 /\ sessCnt[c] = Leaving(D, c)

(* Under sessions_lock: the closed sessions D, whose tasks have finished,  *)
(* leave the list, and so do the contexts they were the last of.           *)
ReapDetach(D) ==
  /\ reapPc = "idle"
  /\ D # {}
  /\ \A s \in D : sState[s] = "CLOSED"
  /\ sState' = [s \in Sess |-> IF s \in D THEN "DETACHED" ELSE sState[s]]
  /\ sessCnt' = [c \in Ctxs |-> sessCnt[c] - Leaving(D, c)]
  /\ ctxListed' = {c \in ctxListed : ~Abandoned(D, c)}
  /\ reapPc' = "take"
  /\ UNCHANGED <<memVars, ctxProc, useVars, sCtx, ioVars, reapSess, reapIdx, reapOffset>>

(* xpu_release_mem of one of them: the first region is locked. *)
ReapTake(s) ==
  /\ reapPc = "take"
  /\ s \in Detached
  /\ reapSess' = s
  /\ reapIdx' = 1
  /\ reapOffset' = 0
  /\ reapPc' = "scan"
  /\ UNCHANGED <<memVars, ctxVars, useVars, sessVars, ioVars>>

(* find_next_bit *)
BitsFrom(r, offset) == {p \in bitmap[r] : p >= offset}

(* Mutant: the scan steps one page too far. *)
ScanAfterTooFar(r, p) == p + freeTable[r][p] + 1
(* Mutant: the scan stays at a grant. *)
ScanAfterNothing(r, p) == p

(* Where the scan goes on after the grant at p. *)
ScanAfter(r, p) == p + freeTable[r][p]

(* One turn of the loop of __release_mem_data_by_owner. *)
ReapScan ==
  /\ reapPc = "scan"
  /\ \E p \in BitsFrom(ReapRegion, reapOffset) :
       /\ IsLeast(p, BitsFrom(ReapRegion, reapOffset))
       /\ reapOffset' = ScanAfter(ReapRegion, p)
       /\ IF ownerTable[ReapRegion][p] = reapSess
          THEN FreeLocked(reapSess, ReapRegion, p)
          ELSE UNCHANGED <<memVars, useVars>>
  /\ UNCHANGED <<ctxVars, sessVars, ioVars, reapPc, reapSess, reapIdx>>

(* No bit is left: the next region, if any. *)
ReapNextRegion ==
  /\ reapPc = "scan"
  /\ BitsFrom(ReapRegion, reapOffset) = {}
  /\ reapOffset' = 0
  /\ IF reapIdx < Len(RegionOrder)
     THEN reapIdx' = reapIdx + 1 /\ UNCHANGED reapPc
     ELSE reapIdx' = 1 /\ reapPc' = "free"
  /\ UNCHANGED <<memVars, ctxVars, useVars, sessVars, ioVars, reapSess>>

(* kfree of the session, and on to the next. *)
ReapFree ==
  /\ reapPc = "free"
  /\ sState' = [sState EXCEPT ![reapSess] = "NONE"]
  /\ sCtx' = [sCtx EXCEPT ![reapSess] = Nothing]
  /\ reapSess' = Nothing
  /\ reapPc' = IF Detached = {reapSess} THEN "ctx" ELSE "take"
  /\ UNCHANGED <<memVars, ctxVars, useVars, ioVars, reapIdx, reapOffset>>

(* Last, kfree of the contexts that were taken off the list. *)
ReapCtx ==
  /\ reapPc = "ctx"
  /\ ctxProc' = [c \in Ctxs |-> IF c \in ctxListed THEN ctxProc[c] ELSE Nothing]
  /\ reapPc' = "idle"
  /\ UNCHANGED <<memVars, ctxListed, sessCnt, useVars, sessVars, ioVars,
                 reapSess, reapIdx, reapOffset>>

-----------------------------------------------------------------------------
Init ==
  /\ bitmap = [r \in Regions |-> {}]
  /\ freeTable = [r \in Regions |-> [p \in Pages(r) |-> 0]]
  /\ ownerTable = [r \in Regions |-> [p \in Pages(r) |-> Nothing]]
  /\ pageUsed = [r \in Regions |-> 0]
  /\ sState = [s \in Sess |-> "NONE"]
  /\ sCtx = [s \in Sess |-> Nothing]
  /\ ctxProc = [c \in Ctxs |-> Nothing]
  /\ ctxListed = {}
  /\ sessCnt = [c \in Ctxs |-> 0]
  /\ mainUsed = [c \in Ctxs |-> 0]
  /\ cacheUsed = [c \in Ctxs |-> 0]
  /\ pc = [s \in Sess |-> "idle"]
  /\ req = [s \in Sess |-> Nothing]
  /\ at = [s \in Sess |-> Nothing]
  /\ reapPc = "idle" /\ reapSess = Nothing /\ reapIdx = 1 /\ reapOffset = 0

UserCall(s) ==
  \/ \E p \in Procs, c \in Ctxs : Open(s, p, c)
  \/ Close(s)
  \/ \E size \in Sizes, kind \in Kinds : Alloc(s, size, kind)
  \/ \E r \in Regions : \E p \in Pages(r) : Free(s, r, p)

AllocStep(s) == AllocNext(s) \/ AllocReturn(s) \/ AllocCopyFails(s)

ReapStep ==
  \/ \E s \in Sess : ReapTake(s)
  \/ ReapScan \/ ReapNextRegion \/ ReapFree \/ ReapCtx

Next ==
  \/ \E s \in Sess : UserCall(s) \/ AllocStep(s)
  \/ \E D \in SUBSET Sess : ReapDetach(D)
  \/ ReapStep

Spec == Init /\ [][Next]_memAllVars

-----------------------------------------------------------------------------
(* Properties *)

TablesTyped ==
  /\ DOMAIN freeTable = Regions /\ DOMAIN ownerTable = Regions
  /\ bitmap \in [Regions -> SUBSET Nat]
  /\ \A r \in Regions :
       /\ bitmap[r] \subseteq Pages(r)
       /\ freeTable[r] \in [Pages(r) -> 0 .. PageCount[r]]
       /\ ownerTable[r] \in [Pages(r) -> Sess \cup {Nothing}]

SessionsTyped ==
  /\ sState \in [Sess -> {"NONE", "OPEN", "CLOSED", "DETACHED"}]
  /\ sCtx \in [Sess -> Ctxs \cup {Nothing}]
  /\ ctxProc \in [Ctxs -> Procs \cup {Nothing}]
  /\ ctxListed \subseteq Ctxs

CountsTyped ==
  /\ pageUsed \in [Regions -> Int]
  /\ sessCnt \in [Ctxs -> Int]
  /\ mainUsed \in [Ctxs -> Int] /\ cacheUsed \in [Ctxs -> Int]

CallsTyped ==
  /\ pc \in [Sess -> {"idle", "alloc", "copy"}]
  /\ DOMAIN req = Sess /\ DOMAIN at = Sess
  /\ \A s \in Sess :
       /\ pc[s] = "alloc" => req[s].size \in Sizes /\ req[s].rest \in Seq(Regions) \ {<<>>}
       /\ pc[s] = "copy" => at[s][1] \in Regions /\ at[s][2] \in Pages(at[s][1])

ReaperTyped ==
  /\ reapPc \in {"idle", "take", "scan", "free", "ctx"}
  /\ reapSess \in Sess \cup {Nothing}
  /\ reapIdx \in 1 .. Len(RegionOrder)
  /\ reapOffset \in 0 .. PageCount[ReapRegion]

(* Every variable has its type; the scan of the timer never leaves its     *)
(* region.                                                                 *)
MemTypeOK == TablesTyped /\ SessionsTyped /\ CountsTyped /\ CallsTyped /\ ReaperTyped

(* The grants tile the bitmap of a region: no two overlap, and a page is   *)
(* marked exactly when a grant holds it (bitmap_set and bitmap_clear with  *)
(* lengths kept in free_table).                                            *)
BitmapTiled ==
  \A r \in Regions :
    /\ bitmap[r] = UNION {Extent(r, p) : p \in Heads(r)}
    /\ \A p, q \in Heads(r) : p # q => Extent(r, p) \cap Extent(r, q) = {}

(* The pages of one kind that the sessions of context c hold. *)
HeldBy(c, kind) ==
  UNION {UNION {{r} \X Extent(r, p) : p \in {q \in Heads(r) : sCtx[ownerTable[r][q]] = c}} :
          r \in {r \in Regions : Kind(r) = kind}}

(* The books agree with the bitmap: page_used of a region is its number of *)
(* marked pages, and a context is charged exactly for what its sessions    *)
(* hold, also while the timer is taking it back.                           *)
PagesAccounted ==
  /\ \A r \in Regions : pageUsed[r] = Cardinality(bitmap[r])
  /\ \A c \in Ctxs : ctxProc[c] # Nothing =>
       /\ mainUsed[c] = Cardinality(HeldBy(c, "HBM"))
       /\ cacheUsed[c] = Cardinality(HeldBy(c, "L3"))

(* The context a session points to is not freed before the session, whose  *)
(* memory is still charged to it by the timer; the count that decides it   *)
(* is the number of its sessions on the list.                              *)
ContextOutlives ==
  /\ \A s \in Sess : sState[s] # "NONE" => sCtx[s] \in Ctxs /\ ctxProc[sCtx[s]] # Nothing
  /\ \A c \in ctxListed :
       sessCnt[c] = Cardinality({s \in Sess : sCtx[s] = c /\ sState[s] \in {"OPEN", "CLOSED"}})

GrantAt(r, p) ==
  [region |-> r, first |-> p, len |-> freeTable[r][p], owner |-> ownerTable[r][p]]

(* The grants in force and the sessions that exist. *)
Grants == UNION {{GrantAt(r, p) : p \in Heads(r)} : r \in Regions}
Present == {s \in Sess : sState[s] # "NONE"}

Abs == INSTANCE DeviceMemory WITH Owners <- Sess, grants <- Grants, present <- Present

(* The bitmap, the length and owner tables and the page scan of the timer  *)
(* implement disjoint grants that only go back whole, and a session is     *)
(* freed only when it holds nothing.                                       *)
Implements == Abs!Spec

(* The timer never spins with a region locked: every turn of its loop gets *)
(* further, because a marked page it meets starts a grant of some length   *)
(* (offset = start + free_table[start]), and what is behind it is no       *)
(* longer held by the session.                                             *)
ScanAdvances ==
  [][ReapScan => /\ reapOffset' > reapOffset
                 /\ \A p \in Heads(ReapRegion)' : p < reapOffset' =>
                      ownerTable'[ReapRegion][p] # reapSess]_memAllVars
=============================================================================
