--------------------------- MODULE XpuEdma_proofs ---------------------------
(***************************************************************************)
(* The channels of the copies over PCIe, for any numbers of threads,       *)
(* channels and chunks, any mix of paths, and resets at any moment: every  *)
(* channel has one user and no semaphore count is lost or made up.         *)
(*                                                                         *)
(* A lock taken by a copy must be that of a channel whose bit it has set,  *)
(* for which the steps of every path must name a channel the copy has      *)
(* (Equipped, ScriptTyped).  A copy never takes more channels than counts  *)
(* because the order in which it takes them follows its counts (Ready,     *)
(* HeldShape), which depend on the tries that failed (MustGot).            *)
(***************************************************************************)
EXTENDS XpuEdma, FiniteSetTheorems, SequenceTheorems, WellFoundedInduction, TLAPS

Labels == {"idle", "down", "get", "begin", "lock", "run", "poll", "drain", "put", "up", "ret"}

ETypes ==
  /\ sema \in [Pools -> Nat]
  /\ used \in [Pools -> SUBSET Ch]
  /\ enable \in [Channels -> BOOLEAN]
  /\ lock \in [Channels -> Threads \cup {Nothing}]
  /\ engine \in [Channels -> {"idle", "busy", "done", "abort"}]
  /\ mix \in [Threads -> SUBSET JobType]
  /\ pc \in [Threads -> Labels]
  /\ job \in [Threads -> JobType]
  /\ sems \in [Threads -> [Pools -> 0 .. NumCh]]
  /\ tried \in [Threads -> Nat]
  /\ held \in [Threads -> [Pools -> Seq(Channels)]]
  /\ at \in [Threads -> Nat]
  /\ flight \in [Threads -> SUBSET (Pools \X (1 .. MaxChunks))]
  /\ mapped \in [Threads -> SUBSET (1 .. MaxChunks)]
  /\ res \in [Threads -> {"ok", "err", "again"}]
  /\ inReset \in BOOLEAN /\ resetPc \in {"no", "disable", "chip", "end"}
  /\ resetAt \in 1 .. (2 * NumCh)

(* The bits of held channels are set, no two copies hold the same one, and *)
(* whoever has a lock holds its channel.                                   *)
BitsSet  == \A t \in Threads : \A x \in Own(t) : x[2] \in used[x[1]]
Disjoint == \A t, u \in Threads : t # u => Own(t) \cap Own(u) = {}
LockHeld == \A t \in Threads : \A x \in Channels : lock[x] = t => x \in Own(t)

PoolInv == BitsSet /\ Disjoint /\ LockHeld

Conserved == \A p \in Pools : sema[p] + Cardinality(Taken(p)) = Cardinality(WithKbuf(p))

(* What a copy holds where it is. *)
Empty(t) == \A p \in Pools : held[t][p] = <<>>

OfPools(t) == \A p \in Pools : \A i \in 1 .. Len(held[t][p]) : held[t][p][i][1] = p
Counted(t) == \A p \in Pools : Len(held[t][p]) <= sems[t][p]

HeldShape(t) ==
  IF job[t].dir = "p2p"
  THEN \/ Len(held[t]["rd"]) = 0 /\ Len(held[t]["wr"]) <= 1
       \/ Len(held[t]["rd"]) = 1 /\ Len(held[t]["wr"]) >= 1
  ELSE \A p \in Pools : p # HostPool(job[t]) => held[t][p] = <<>>

MustGot(t) ==
  /\ tried[t] < Len(SemaPlan(job[t]))
  /\ \A i \in 1 .. tried[t] :
       SemaPlan(job[t])[i].must => sems[t][SemaPlan(job[t])[i].pool] >= 1

PlanLen(t) == IF job[t].dir = "p2p" THEN 1 + sems[t]["wr"] ELSE sems[t][HostPool(job[t])]

Ready(t) ==
  /\ sems[t][HostPool(job[t])] >= 1
  /\ job[t].dir = "p2p" => sems[t]["rd"] >= 1
  /\ Has(t) < PlanLen(t)

Equipped(t) ==
  /\ Bounce(job[t]) => Len(held[t][HostPool(job[t])]) >= 2
  /\ Len(held[t][HostPool(job[t])]) >= 1
  /\ job[t].dir = "p2p" => Len(held[t]["rd"]) >= 1

Local(t) ==
  /\ OfPools(t) /\ Counted(t) /\ HeldShape(t)
  /\ pc[t] \in {"idle", "down", "up", "ret"} => Empty(t)
  /\ pc[t] = "idle" => res[t] = "ok"
  /\ pc[t] # "down" => tried[t] = 0
  /\ pc[t] = "down" => MustGot(t)
  /\ pc[t] = "get" => Ready(t)
  /\ pc[t] \in {"lock", "run", "poll", "drain"} => Equipped(t)
  /\ pc[t] \in {"lock", "run"} => at[t] \in Steps(t)
  /\ res[t] = "again" => job[t].dir # "p2p"

EInv == ETypes /\ PoolInv /\ Conserved /\ \A t \in Threads : Local(t)

-----------------------------------------------------------------------------
(* The least of a set of naturals. *)
LEMMA LeastIsIn ==
  ASSUME NEW S \in SUBSET Nat, S # {}
  PROVE  Least(S) \in S /\ \A y \in S : Least(S) <= y
<1> DEFINE T == {0 .. x : x \in S}
<1>1. T \subseteq FiniteSubsetsOf(Nat) /\ T # {}
  <2>1. \A x \in S : 0 .. x \in SUBSET Nat /\ IsFiniteSet(0 .. x)
    BY FS_Interval
  <2> QED
    BY <2>1 DEF FiniteSubsetsOf
<1>2. PICK X \in T : \A Y \in T : ~ (<<Y, X>> \in StrictSubsetOrdering(Nat))
  <2>1. IsWellFoundedOn(StrictSubsetOrdering(Nat), FiniteSubsetsOf(Nat))
    BY FS_StrictSubsetOrderingWellFounded
  <2> HIDE DEF T
  <2> QED
    BY <1>1, <2>1, WFMin
<1>3. PICK x \in S : X = 0 .. x
  OBVIOUS
<1>4. ASSUME NEW y \in S PROVE x <= y
  <2> SUFFICES ASSUME y < x PROVE FALSE
    OBVIOUS
  <2>1. 0 .. y \in T /\ 0 .. y \in SUBSET Nat /\ X \in SUBSET Nat
    BY <1>3
  <2>2. 0 .. y \subseteq X /\ 0 .. y # X
    BY <1>3
  <2> QED
    BY <1>2, <2>1, <2>2 DEF StrictSubsetOrdering
<1> QED
  BY <1>4 DEF Least

LEMMA Taking == ASSUME NEW n \in Nat, n # 0, NEW c \in Nat PROVE (c % n) + 1 \in 1 .. n
OBVIOUS

-----------------------------------------------------------------------------
(* The steps of every path name pools the copy has channels of. *)

StepOf(j) ==
  {s \in [op : {"map", "unmap", "start", "wait", "fill", "out"}, pool : Pools, chunk : Int] :
     j.dir # "p2p" => s.pool = HostPool(j)}

LEMMA JobFields ==
  ASSUME NEW j \in JobType
  PROVE  /\ j.dir \in {"d2h", "h2d", "p2p"} /\ j.n \in Nat /\ j.n >= 1 /\ j.n <= MaxChunks
         /\ j.path \in {"direct", "pin", "serial", "single", "conc", "overlap", "srcfirst", "dstfirst"}
         /\ j.path \in {"single", "conc"} => j.dir = "d2h"
         /\ j.path = "overlap" => j.dir = "h2d"
         /\ j.path \in {"srcfirst", "dstfirst"} <=> j.dir = "p2p"
BY EdmaAssumption DEF JobType

LEMMA TurnTyped ==
  ASSUME NEW j \in JobType, NEW twin \in BOOLEAN, NEW i \in Nat
  PROVE  /\ Len(Turn(j, twin, i)) \in {3, 4}
         /\ Len(Turn(j, twin, i)) = Len(Turn(j, twin, 1))
         /\ \A m \in 1 .. Len(Turn(j, twin, i)) : Turn(j, twin, i)[m] \in StepOf(j)
<1> USE JobFields DEF Turn, StepOf, Step, Map, Unmap, Start, Wait, FillBuf, Out, HostPool, Pools,
                      Direct
<1>1. CASE Direct(j)
  BY <1>1 DEF DirectTurn
<1>2. CASE j.path = "serial" /\ j.dir = "d2h"
  BY <1>2 DEF SerialOutTurn
<1>3. CASE j.path = "serial" /\ j.dir = "h2d"
  BY <1>3 DEF SerialInTurn
<1>4. CASE j.path = "single"
  BY <1>4 DEF SingleIssueTurn
<1>5. CASE j.path = "conc"
  BY <1>5 DEF ConcurrentTurn
<1>6. CASE j.path = "overlap"
  BY <1>6 DEF OverlapTurn
<1>7. CASE j.path \in {"srcfirst", "dstfirst"}
  BY <1>7 DEF PeerTurn
<1> QED
  BY <1>1, <1>2, <1>3, <1>4, <1>5, <1>6, <1>7

(* Some step of the first turn is about the first chunk. *)
LEMMA TurnStarts ==
  ASSUME NEW j \in JobType, NEW twin \in BOOLEAN
  PROVE  \E m \in 1 .. Len(Turn(j, twin, 1)) : Turn(j, twin, 1)[m].chunk = 1
<1> USE JobFields DEF Turn, Step, Map, Unmap, Start, Wait, FillBuf, Out, HostPool, Direct
<1>1. CASE Direct(j)
  BY <1>1 DEF DirectTurn
<1>2. CASE j.path = "serial" /\ j.dir = "d2h"
  BY <1>2 DEF SerialOutTurn
<1>3. CASE j.path = "serial" /\ j.dir = "h2d"
  BY <1>3 DEF SerialInTurn
<1>4. CASE j.path = "single"
  BY <1>4 DEF SingleIssueTurn
<1>5. CASE j.path = "conc"
  BY <1>5 DEF ConcurrentTurn
<1>6. CASE j.path = "overlap"
  BY <1>6 DEF OverlapTurn
<1>7. CASE j.path \in {"srcfirst", "dstfirst"}
  BY <1>7 DEF PeerTurn
<1> QED
  BY <1>1, <1>2, <1>3, <1>4, <1>5, <1>6, <1>7

LEMMA ScriptTyped ==
  ASSUME NEW j \in JobType, NEW twin \in BOOLEAN
  PROVE  /\ DOMAIN Script[j][twin] \in SUBSET (Nat \ {0})
         /\ \A k \in DOMAIN Script[j][twin] : Script[j][twin][k] \in StepOf(j)
         /\ \E k \in DOMAIN Script[j][twin] : Script[j][twin][k].chunk = 1
<1>1. PICK len \in {3, 4} : len = Len(Turn(j, twin, 1))
  BY TurnTyped
<1>2. Script[j][twin] = [k \in 1 .. (len * (j.n + 1)) |->
                           Turn(j, twin, ((k - 1) \div len) + 1)[((k - 1) % len) + 1]]
  <2>1. Script[j][twin] = Turns(j, twin)
    BY DEF Script
  <2> QED
    BY <1>1, <2>1 DEF Turns
<1>3. len * (j.n + 1) \in Nat /\ len * (j.n + 1) >= len
  BY JobFields
<1>4. ASSUME NEW k \in 1 .. (len * (j.n + 1))
      PROVE  ((k - 1) \div len) + 1 \in Nat /\ ((k - 1) % len) + 1 \in 1 .. len
  <2>1. PICK q \in Nat : q = k - 1
    BY <1>3
  <2>2. q \div len \in Nat /\ q % len \in 0 .. (len - 1)
    <3>1. q \div 3 \in Nat /\ q % 3 \in 0 .. 2
      OBVIOUS
    <3>2. q \div 4 \in Nat /\ q % 4 \in 0 .. 3
      OBVIOUS
    <3>3. CASE len = 3
      BY <3>1, <3>3
    <3>4. CASE len = 4
      BY <3>2, <3>4
    <3> QED
      BY <1>1, <3>3, <3>4
  <2> QED
    BY <2>1, <2>2
<1>5. \A k \in 1 .. (len * (j.n + 1)) : Script[j][twin][k] \in StepOf(j)
  BY <1>1, <1>2, <1>4, TurnTyped
<1>6. \E k \in DOMAIN Script[j][twin] : Script[j][twin][k].chunk = 1
  <2>1. PICK m \in 1 .. len : Turn(j, twin, 1)[m].chunk = 1
    BY <1>1, TurnStarts
  <2>2. m \in 1 .. (len * (j.n + 1)) /\ ((m - 1) \div len) + 1 = 1 /\ ((m - 1) % len) + 1 = m
    BY <1>3
  <2> QED
    BY <1>2, <2>1, <2>2
<1>7. DOMAIN Script[j][twin] = 1 .. (len * (j.n + 1))
  BY <1>2
<1>8. 1 .. (len * (j.n + 1)) \in SUBSET (Nat \ {0})
  BY <1>3
<1> QED
  BY <1>5, <1>6, <1>7, <1>8

(* The steps a copy still has, for a copy that has its channels. *)
LEMMA StepsTyped ==
  ASSUME ETypes, NEW t \in Threads
  PROVE  /\ Steps(t) \in SUBSET Nat /\ Steps(t) # {}
         /\ at[t] \in Steps(t) =>
              /\ Cur(t) \in StepOf(job[t]) /\ Cur(t).chunk \in 1 .. job[t].n
              /\ Cur(t).pool \in Pools /\ Cur(t).chunk \in 1 .. MaxChunks
<1>1. job[t] \in JobType /\ (Has(t) = 3) \in BOOLEAN
  BY DEF ETypes
<1>2. PICK j \in JobType, twin \in BOOLEAN : j = job[t] /\ twin = (Has(t) = 3)
  BY <1>1
<1>3. /\ j.n \in Nat /\ j.n >= 1 /\ j.n <= MaxChunks /\ MaxChunks \in Nat
      /\ ScriptOf(t) = Script[j][twin]
  BY <1>2, JobFields, EdmaAssumption DEF ScriptOf
<1>4. Steps(t) = {k \in DOMAIN Script[j][twin] : Script[j][twin][k].chunk \in 1 .. j.n}
  BY <1>2, <1>3 DEF Steps
<1>5. Steps(t) \in SUBSET Nat
  BY <1>4, ScriptTyped
<1>6. Steps(t) # {}
  <2>1. PICK k \in DOMAIN Script[j][twin] : Script[j][twin][k].chunk = 1
    BY ScriptTyped
  <2>2. 1 \in 1 .. j.n
    BY <1>3
  <2> QED
    BY <1>4, <2>1, <2>2
<1>7. ASSUME at[t] \in Steps(t)
      PROVE  /\ Cur(t) \in StepOf(job[t]) /\ Cur(t).chunk \in 1 .. job[t].n
             /\ Cur(t).pool \in Pools /\ Cur(t).chunk \in 1 .. MaxChunks
  <2>1. Cur(t) \in StepOf(j) /\ Cur(t).chunk \in 1 .. j.n
    BY <1>3, <1>4, <1>7, ScriptTyped DEF Cur
  <2>2. Cur(t).pool \in Pools
    BY <2>1 DEF StepOf
  <2>3. Cur(t).chunk \in 1 .. MaxChunks
    BY <1>3, <2>1
  <2> QED
    BY <1>2, <2>1, <2>2, <2>3
<1> QED
  BY <1>5, <1>6, <1>7

LEMMA HeldTyped ==
  ASSUME ETypes, NEW t \in Threads, NEW p \in Pools
  PROVE  /\ held[t][p] \in Seq(Channels) /\ Len(held[t][p]) \in Nat
         /\ \A i \in 1 .. Len(held[t][p]) : held[t][p][i] \in Channels /\ held[t][p][i] \in Own(t)
         /\ Own(t) \in SUBSET Channels
         /\ HostPool(job[t]) \in Pools
<1>1. \A q \in Pools : held[t][q] \in Seq(Channels)
  BY DEF ETypes
<1>2. \A q \in Pools : Len(held[t][q]) \in Nat /\ \A i \in 1 .. Len(held[t][q]) : held[t][q][i] \in Channels
  BY <1>1, ElementOfSeq, LenProperties
<1>3. Own(t) \in SUBSET Channels
  BY <1>2 DEF Own, Elems, Pools
<1>4. \A i \in 1 .. Len(held[t][p]) : held[t][p][i] \in Own(t)
  BY DEF Own, Elems, Pools
<1> QED
  BY <1>1, <1>2, <1>3, <1>4 DEF HostPool, Pools

(* What a step names is a channel the copy has. *)
LEMMA EngineOwned ==
  ASSUME ETypes, NEW t \in Threads, Equipped(t), at[t] \in Steps(t)
  PROVE  EngineOf(t, Cur(t).pool, Cur(t).chunk) \in Own(t)
<1>1. PICK p \in Pools, c \in Nat : p = Cur(t).pool /\ c + 1 = Cur(t).chunk
  <2>1. Cur(t).pool \in Pools /\ Cur(t).chunk \in 1 .. MaxChunks
    BY StepsTyped
  <2>2. Cur(t).chunk - 1 \in Nat /\ (Cur(t).chunk - 1) + 1 = Cur(t).chunk
    BY <2>1, EdmaAssumption
  <2> QED
    BY <2>1, <2>2
<1>2. job[t].dir # "p2p" => p = HostPool(job[t])
  BY <1>1, StepsTyped DEF StepOf
<1>3. PICK h \in Pools : h = HostPool(job[t])
  BY DEF HostPool, Pools
<1>4. Len(held[t][h]) \in Nat /\ Len(held[t][h]) >= 1
  BY <1>3, HeldTyped DEF Equipped
<1>5. CASE job[t].dir = "p2p" \/ Direct(job[t])
  <2>1. Len(held[t][p]) \in Nat /\ Len(held[t][p]) >= 1
    <3>1. CASE job[t].dir = "p2p"
      <4>1. h = "wr"
        BY <1>3, <3>1 DEF HostPool
      <4> QED
        BY <1>4, <3>1, <4>1, HeldTyped DEF Equipped, Pools
    <3>2. CASE job[t].dir # "p2p"
      BY <1>2, <1>3, <1>4, <3>2
    <3> QED
      BY <3>1, <3>2
  <2>2. held[t][p][1] \in Own(t)
    BY <2>1, HeldTyped
  <2> QED
    BY <1>1, <1>5, <2>2 DEF EngineOf
<1>6. CASE ~(job[t].dir = "p2p" \/ Direct(job[t]))
  <2>1. PICK n \in Nat : n # 0 /\ n <= Len(held[t][h])
                         /\ n = IF job[t].path = "conc" THEN 2 ELSE Len(held[t][h])
    BY <1>3, <1>4 DEF Equipped, Bounce
  <2>2. (c % n) + 1 \in 1 .. Len(held[t][h])
    <3>1. PICK k \in 1 .. n : k = (c % n) + 1
      BY <2>1, Taking
    <3>2. PICK l \in Nat : l = Len(held[t][h]) /\ n <= l
      BY <1>4, <2>1
    <3>3. k \in 1 .. l
      BY <3>2
    <3> QED
      BY <3>1, <3>2, <3>3
  <2>3. (c + 1) - 1 = c
    OBVIOUS
  <2>4. EngineOf(t, Cur(t).pool, Cur(t).chunk) = held[t][h][(c % n) + 1]
    BY <1>1, <1>3, <1>6, <2>1, <2>3 DEF EngineOf, BufOf
  <2> QED
    BY <2>2, <2>4, HeldTyped
<1> QED
  BY <1>5, <1>6

-----------------------------------------------------------------------------
(* Counting the counts. *)

LEMMA PairsFinite == IsFiniteSet(Threads \X Ch)
<1>1. IsFiniteSet(Ch)
  BY EdmaAssumption, FS_Interval DEF Ch
<1> QED
  BY <1>1, EdmaAssumption, FS_Product

(* The permits that counts f stand for, and those of others than t. *)
Below(f) == {x \in Threads \X Ch : x[2] <= f[x[1]]}
BelowOthers(f, t) == {x \in Threads \X Ch : x[1] # t /\ x[2] <= f[x[1]]}

(* The counts of one copy, and those of the others. *)
LEMMA TakenSplit ==
  ASSUME NEW f, NEW t \in Threads, f[t] \in 0 .. NumCh,
         NEW S, S = Below(f),
         NEW O, O = BelowOthers(f, t)
  PROVE  /\ IsFiniteSet(S) /\ Cardinality(S) \in Nat /\ Cardinality(O) \in Nat
         /\ Cardinality(S) = Cardinality(O) + f[t]
<1> USE DEF Below, BelowOthers
<1>1. PICK n \in Nat : n = f[t] /\ n <= NumCh /\ NumCh \in Nat
  BY EdmaAssumption
<1> DEFINE M == {t} \X (1 .. n)
<1>2. IsFiniteSet(1 .. n) /\ Cardinality(1 .. n) = n
  BY FS_Interval
<1>3. IsFiniteSet({t}) /\ Cardinality({t}) = 1
  BY FS_Singleton
<1>4. IsFiniteSet(M) /\ Cardinality(M) = n
  <2>1. IsFiniteSet(M) /\ Cardinality(M) = Cardinality({t}) * Cardinality(1 .. n)
    BY <1>2, <1>3, FS_Product
  <2> QED
    BY <1>2, <1>3, <2>1
<1>5. IsFiniteSet(Threads \X Ch)
  BY PairsFinite
<1>6. IsFiniteSet(O) /\ IsFiniteSet(S)
  <2>1. O \in SUBSET (Threads \X Ch) /\ S \in SUBSET (Threads \X Ch)
    OBVIOUS
  <2> QED
    BY <1>5, <2>1, FS_Subset
<1>7. S = O \cup M
  <2>1. ASSUME NEW x \in S PROVE x \in O \cup M
    <3>1. CASE x[1] = t
      <4>1. x \in Threads \X Ch /\ x[2] <= n
        BY <1>1, <3>1
      <4>2. x = <<x[1], x[2]>> /\ x[2] \in 1 .. n
        BY <1>1, <4>1 DEF Ch
      <4> QED
        BY <3>1, <4>2
    <3>2. CASE x[1] # t
      BY <3>2
    <3> QED
      BY <3>1, <3>2
  <2>2. ASSUME NEW i \in 1 .. n PROVE <<t, i>> \in S
    <3>1. i \in Ch /\ i <= f[t]
      BY <1>1 DEF Ch
    <3> QED
      BY <3>1
  <2>3. M \subseteq S
    BY <2>2
  <2> QED
    BY <2>1, <2>3
<1>8. O \cap M = {}
  OBVIOUS
<1>9. Cardinality(O \cap M) = 0
  BY <1>8, FS_EmptySet
<1>10. Cardinality(O \cup M) = Cardinality(O) + Cardinality(M) - Cardinality(O \cap M)
  BY <1>4, <1>6, FS_Union
<1>11. Cardinality(O) \in Nat /\ Cardinality(S) \in Nat
  BY <1>6, FS_CardinalityType
<1> HIDE DEF M
<1>12. Cardinality(S) = Cardinality(O \cup M)
  BY <1>7
<1>13. Cardinality(S) = Cardinality(O) + n
  BY <1>4, <1>9, <1>10, <1>11, <1>12
<1> QED
  BY <1>1, <1>6, <1>11, <1>13

(* A change of the counts of one copy changes the total by as much. *)
LEMMA TakenMoves ==
  ASSUME NEW f, NEW g, NEW t \in Threads, f[t] \in 0 .. NumCh, g[t] \in 0 .. NumCh,
         \A u \in Threads : u # t => g[u] = f[u],
         NEW F, F = Below(f),
         NEW G, G = Below(g)
  PROVE  /\ Cardinality(F) \in Nat /\ Cardinality(G) \in Nat
         /\ Cardinality(G) = Cardinality(F) + g[t] - f[t]
         /\ f[t] <= Cardinality(F)
<1>1. PICK O : O = BelowOthers(f, t)
  OBVIOUS
<1>2. O = BelowOthers(g, t)
  BY <1>1 DEF BelowOthers
<1>3. Cardinality(F) \in Nat /\ Cardinality(O) \in Nat /\ Cardinality(F) = Cardinality(O) + f[t]
  BY <1>1, TakenSplit
<1>4. Cardinality(G) \in Nat /\ Cardinality(G) = Cardinality(O) + g[t]
  BY <1>2, TakenSplit
<1> QED
  BY <1>3, <1>4, EdmaAssumption

LEMMA Semaphores ==
  ASSUME NEW p \in Pools
  PROVE  Cardinality(WithKbuf(p)) \in 0 .. NumCh
<1>1. IsFiniteSet(Ch) /\ Cardinality(Ch) = NumCh
  BY EdmaAssumption, FS_Interval DEF Ch
<1>2. WithKbuf(p) \in SUBSET Ch
  BY DEF WithKbuf
<1> QED
  BY <1>1, <1>2, FS_Subset, FS_CardinalityType, EdmaAssumption

-----------------------------------------------------------------------------
(* What holds initially. *)
LEMMA EInit ==
  ASSUME Init
  PROVE  EInv
<1>1. \A p \in Pools : sema[p] = Cardinality(WithKbuf(p)) /\ sema[p] \in 0 .. NumCh
  BY Semaphores DEF Init, WithKbuf
<1>2. \A p \in Pools : sema[p] \in Nat /\ used[p] \in SUBSET Ch
  <2>1. \A p \in Pools : used[p] \in SUBSET Ch
    BY DEF Init
  <2> QED
    BY <1>1, <2>1, EdmaAssumption
<1>3. NoJob \in JobType
  BY EdmaAssumption DEF NoJob, JobType
<1>4. None \in [Pools -> 0 .. NumCh] /\ NoCh \in [Pools -> Seq(Channels)] /\ 1 \in 1 .. (2 * NumCh)
  BY EdmaAssumption, EmptySeq DEF None, NoCh
<1>5. ETypes
  BY <1>2, <1>3, <1>4, EdmaAssumption DEF Init, ETypes, Labels
<1>6. \A t \in Threads : Own(t) = {} /\ \A p \in Pools : held[t][p] = <<>> /\ Len(held[t][p]) = 0
  BY DEF Init, Own, Elems, NoCh, Pools
<1>7. PoolInv
  BY <1>6, EdmaAssumption DEF PoolInv, BitsSet, Disjoint, LockHeld, Init
<1>8. Conserved
  <2> SUFFICES ASSUME NEW p \in Pools
               PROVE  sema[p] + Cardinality(Taken(p)) = Cardinality(WithKbuf(p))
    BY DEF Conserved
  <2>1. Taken(p) = {}
    <3> SUFFICES ASSUME NEW x \in Threads \X Ch PROVE ~(x[2] <= sems[x[1]][p])
      BY DEF Taken
    <3>1. sems[x[1]][p] = 0 /\ x[2] \in Nat /\ x[2] >= 1
      BY EdmaAssumption DEF Init, None, Ch
    <3> QED
      BY <3>1
  <2>2. Cardinality(Taken(p)) = 0
    BY <2>1, FS_EmptySet
  <2> QED
    BY <1>1, <2>2, EdmaAssumption
<1>9. \A t \in Threads : Local(t)
  BY <1>5, <1>6 DEF Local, OfPools, Counted, HeldShape, Empty, Init, NoJob, None, Pools
<1> QED
  BY <1>5, <1>7, <1>8, <1>9 DEF EInv

-----------------------------------------------------------------------------
(* What steps leave alone. *)

LEMMA LocalKept ==
  ASSUME NEW u \in Threads, Local(u), pc'[u] = pc[u], tried'[u] = tried[u], job'[u] = job[u],
         sems'[u] = sems[u], held'[u] = held[u], at'[u] = at[u], res'[u] = res[u]
  PROVE  Local(u)'
<1>1. Has(u)' = Has(u) /\ Steps(u)' = Steps(u)
  BY DEF Has, Steps, ScriptOf
<1>2. OfPools(u)' /\ Counted(u)' /\ HeldShape(u)'
  BY DEF Local, OfPools, Counted, HeldShape
<1>3. Empty(u) => Empty(u)'
  BY DEF Empty
<1>4. MustGot(u) => MustGot(u)'
  BY DEF MustGot
<1>5. Ready(u) => Ready(u)'
  BY <1>1 DEF Ready, PlanLen
<1>6. Equipped(u) => Equipped(u)'
  BY DEF Equipped
<1> QED
  BY <1>1, <1>2, <1>3, <1>4, <1>5, <1>6 DEF Local

LEMMA PoolKept ==
  ASSUME PoolInv, UNCHANGED <<used, held>>,
         \A u \in Threads : \A x \in Channels : lock'[x] = u => lock[x] = u \/ x \in Own(u)
  PROVE  PoolInv'
<1>1. \A u : Own(u)' = Own(u)
  BY DEF Own
<1> QED
  BY <1>1 DEF PoolInv, BitsSet, Disjoint, LockHeld

LEMMA CountsKept ==
  ASSUME Conserved, UNCHANGED <<sema, sems>>
  PROVE  Conserved'
BY DEF Conserved, Taken

(* The steps that move data change nothing of what a copy holds. *)
LEMMA MoveKeeps ==
  ASSUME EInv, NEW t \in Threads, UNCHANGED <<poolVars, ownVars>>,
         pc[t] \in {"run", "poll", "drain"}, pc'[t] \in {"run", "poll", "drain", "put"},
         pc'[t] = "run" => at'[t] \in Steps(t),
         res'[t] = "again" => job[t].dir # "p2p",
         \A u \in Threads : u # t => pc'[u] = pc[u] /\ at'[u] = at[u] /\ res'[u] = res[u],
         \A u \in Threads : \A x \in Channels : lock'[x] = u => lock[x] = u \/ x \in Own(u)
  PROVE  PoolInv' /\ Conserved' /\ \A u \in Threads : Local(u)'
<1> USE DEF poolVars, ownVars
<1>1. PoolInv' /\ Conserved'
  BY PoolKept, CountsKept DEF EInv
<1>2. \A u \in Threads : u # t => Local(u)'
  BY LocalKept DEF EInv
<1>3. Local(t)'
  <2>1. Local(t)
    BY DEF EInv
  <2>2. OfPools(t)' /\ Counted(t)' /\ HeldShape(t)'
    BY <2>1 DEF Local, OfPools, Counted, HeldShape
  <2>3. Equipped(t)'
    BY <2>1 DEF Local, Equipped
  <2>4. Steps(t)' = Steps(t)
    BY DEF Steps, ScriptOf, Has
  <2>5. tried'[t] = 0
    BY <2>1 DEF Local
  <2> QED
    BY <2>2, <2>3, <2>4, <2>5 DEF Local
<1> QED
  BY <1>1, <1>2, <1>3

LEMMA AdvanceGoes ==
  ASSUME ETypes, NEW t \in Threads, Advance(t)
  PROVE  /\ pc'[t] \in {"run", "put"}
         /\ pc'[t] = "run" => at'[t] \in Steps(t)
         /\ \A u \in Threads : u # t => pc'[u] = pc[u] /\ at'[u] = at[u]
         /\ pc' \in [Threads -> Labels] /\ at' \in [Threads -> Nat]
<1>0. pc \in [Threads -> Labels] /\ at \in [Threads -> Nat]
  BY DEF ETypes
<1>1. PICK left \in SUBSET Nat : left = {k \in Steps(t) : k > at[t]} /\ left \subseteq Steps(t)
  BY StepsTyped
<1>2. CASE left = {}
  <2>1. pc' = [pc EXCEPT ![t] = "put"] /\ at' = [at EXCEPT ![t] = 1]
    BY <1>1, <1>2 DEF Advance
  <2> QED
    BY <1>0, <2>1 DEF Labels
<1>3. CASE left # {}
  <2>1. pc' = [pc EXCEPT ![t] = "run"] /\ at' = [at EXCEPT ![t] = Least(left)]
    BY <1>1, <1>3 DEF Advance
  <2>2. Least(left) \in left
    BY <1>3, LeastIsIn
  <2> QED
    BY <1>0, <1>1, <2>1, <2>2 DEF Labels
<1> QED
  BY <1>2, <1>3

LEMMA FailGoes ==
  ASSUME ETypes, NEW t \in Threads, NEW left \in SUBSET (Pools \X (1 .. MaxChunks)), Fail(t, left)
  PROVE  /\ pc'[t] \in {"put", "drain"} /\ res'[t] = "err"
         /\ \A u \in Threads : u # t => pc'[u] = pc[u] /\ at'[u] = at[u] /\ res'[u] = res[u]
         /\ pc' \in [Threads -> Labels] /\ at' \in [Threads -> Nat]
         /\ res' \in [Threads -> {"ok", "err", "again"}]
         /\ flight' \in [Threads -> SUBSET (Pools \X (1 .. MaxChunks))]
BY DEF ETypes, Fail, Labels

-----------------------------------------------------------------------------
(* The steps that move data. *)

LEMMA Running ==
  ASSUME EInv, NEW t \in Threads
  PROVE  /\ pc[t] = "run" =>
              /\ at[t] \in Steps(t)
              /\ EngineOf(t, Cur(t).pool, Cur(t).chunk) \in Own(t)
              /\ EngineOf(t, Cur(t).pool, Cur(t).chunk) \in Channels
              /\ Cur(t).pool \in Pools /\ Cur(t).chunk \in 1 .. MaxChunks
         /\ res[t] = "again" => job[t].dir # "p2p"
         /\ flight[t] \in SUBSET (Pools \X (1 .. MaxChunks))
<1>1. /\ pc[t] = "run" => at[t] \in Steps(t) /\ Equipped(t)
      /\ res[t] = "again" => job[t].dir # "p2p"
  BY DEF EInv, Local
<1>2. Own(t) \in SUBSET Channels
  <2>1. "wr" \in Pools
    BY DEF Pools
  <2> QED
    BY <2>1, HeldTyped DEF EInv
<1>3. flight[t] \in SUBSET (Pools \X (1 .. MaxChunks))
  BY DEF EInv, ETypes
<1> QED
  BY <1>1, <1>2, <1>3, EngineOwned, StepsTyped DEF EInv

LEMMA StartKeeps ==
  ASSUME EInv, NEW t \in Threads, StartEngine(t)
  PROVE  EInv'
<1>1. PICK p, c, x : p = Cur(t).pool /\ c = Cur(t).chunk /\ x = EngineOf(t, p, c)
  OBVIOUS
<1>2. /\ pc[t] = "run" /\ UNCHANGED <<poolVars, enable, ownVars, mapped, dst, resetVars>>
      /\ \/ Fail(t, flight[t]) /\ UNCHANGED <<lock, kbuf, engine>>
         \/ /\ lock' = [lock EXCEPT ![x] = t]
            /\ engine' = [engine EXCEPT ![x] = "busy"]
            /\ flight' = [flight EXCEPT ![t] = @ \cup {<<p, c>>}]
            /\ Advance(t) /\ UNCHANGED res
  BY <1>1 DEF StartEngine, Doing
<1>3. x \in Own(t) /\ x \in Channels /\ <<p, c>> \in Pools \X (1 .. MaxChunks)
  BY <1>1, <1>2, Running
<1>4. ETypes
  BY DEF EInv
<1>5. CASE Fail(t, flight[t]) /\ UNCHANGED <<lock, kbuf, engine>>
  <2>1. ETypes'
    BY <1>2, <1>4, <1>5, FailGoes, Running DEF ETypes, poolVars, ownVars, resetVars
  <2>2. PoolInv' /\ Conserved' /\ \A u \in Threads : Local(u)'
    BY <1>2, <1>4, <1>5, FailGoes, Running, MoveKeeps
  <2> QED
    BY <2>1, <2>2 DEF EInv
<1>6. CASE /\ lock' = [lock EXCEPT ![x] = t]
           /\ engine' = [engine EXCEPT ![x] = "busy"]
           /\ flight' = [flight EXCEPT ![t] = @ \cup {<<p, c>>}]
           /\ Advance(t) /\ UNCHANGED res
  <2>1. ETypes'
    BY <1>2, <1>3, <1>4, <1>6, AdvanceGoes DEF ETypes, poolVars, ownVars, resetVars
  <2>2. \A u \in Threads : \A y \in Channels : lock'[y] = u => lock[y] = u \/ y \in Own(u)
    BY <1>3, <1>4, <1>6 DEF ETypes
  <2>3. PoolInv' /\ Conserved' /\ \A u \in Threads : Local(u)'
    BY <1>2, <1>4, <1>6, <2>2, AdvanceGoes, Running, MoveKeeps
  <2> QED
    BY <2>1, <2>3 DEF EInv
<1> QED
  BY <1>2, <1>5, <1>6

(* Locks are at most given back. *)
LEMMA GivenBack ==
  ASSUME EInv, NEW t \in Threads, NEW x, UnlockUnlessPiped(t, x)
  PROVE  /\ lock' \in [Channels -> Threads \cup {Nothing}]
         /\ \A u \in Threads : \A y \in Channels : lock'[y] = u => lock[y] = u \/ y \in Own(u)
<1>1. lock \in [Channels -> Threads \cup {Nothing}]
  BY DEF EInv, ETypes
<1>2. CASE lock' = lock
  BY <1>1, <1>2
<1>3. CASE lock' = [lock EXCEPT ![x] = Nothing]
  BY <1>1, <1>3, EdmaAssumption
<1> QED
  BY <1>2, <1>3 DEF UnlockUnlessPiped

LEMMA WaitKeeps ==
  ASSUME EInv, NEW t \in Threads, WaitEngine(t)
  PROVE  EInv'
<1>1. PICK f, x : f = <<Cur(t).pool, Cur(t).chunk>> /\ x = EngineOf(t, Cur(t).pool, Cur(t).chunk)
  OBVIOUS
<1>2. /\ pc[t] = "run"
      /\ UNCHANGED <<poolVars, enable, kbuf, engine, ownVars, mapped, dst, resetVars>>
      /\ \/ Fail(t, flight[t] \ {f}) /\ UnlockUnlessPiped(t, x)
         \/ pc' = [pc EXCEPT ![t] = "poll"] /\ UNCHANGED <<at, res, flight, lock>>
  BY <1>1 DEF WaitEngine, Doing
<1>3. ETypes /\ flight[t] \ {f} \in SUBSET (Pools \X (1 .. MaxChunks))
  BY Running DEF EInv
<1>4. CASE Fail(t, flight[t] \ {f}) /\ UnlockUnlessPiped(t, x)
  <2>1. ETypes'
    BY <1>2, <1>3, <1>4, FailGoes, GivenBack DEF ETypes, poolVars, ownVars, resetVars
  <2>2. PoolInv' /\ Conserved' /\ \A u \in Threads : Local(u)'
    BY <1>2, <1>3, <1>4, FailGoes, GivenBack, MoveKeeps
  <2> QED
    BY <2>1, <2>2 DEF EInv
<1>5. CASE pc' = [pc EXCEPT ![t] = "poll"] /\ UNCHANGED <<at, res, flight, lock>>
  <2>1. ETypes' /\ pc'[t] = "poll" /\ \A u \in Threads : u # t => pc'[u] = pc[u]
    BY <1>2, <1>3, <1>5 DEF ETypes, Labels, poolVars, ownVars, resetVars
  <2>2. PoolInv' /\ Conserved' /\ \A u \in Threads : Local(u)'
    BY <1>2, <1>5, <2>1, Running, MoveKeeps
  <2> QED
    BY <2>1, <2>2 DEF EInv
<1> QED
  BY <1>2, <1>4, <1>5

LEMMA DrainKeeps ==
  ASSUME EInv, NEW t \in Threads, Drain(t)
  PROVE  EInv'
<1>1. PICK f \in flight[t] :
        /\ pc[t] = "drain" /\ UNCHANGED <<poolVars, chanVars, ownVars, mapped, dst, resetVars>>
        /\ \/ Fail(t, flight[t] \ {f})
           \/ pc' = [pc EXCEPT ![t] = "poll"] /\ UNCHANGED <<flight, res, at>>
  BY DEF Drain
<1>2. ETypes /\ flight[t] \ {f} \in SUBSET (Pools \X (1 .. MaxChunks))
  BY Running DEF EInv
<1>3. CASE Fail(t, flight[t] \ {f})
  <2>1. ETypes'
    BY <1>1, <1>2, <1>3, FailGoes DEF ETypes, poolVars, chanVars, ownVars, resetVars
  <2>2. PoolInv' /\ Conserved' /\ \A u \in Threads : Local(u)'
    BY <1>1, <1>2, <1>3, FailGoes, MoveKeeps DEF chanVars
  <2> QED
    BY <2>1, <2>2 DEF EInv
<1>4. CASE pc' = [pc EXCEPT ![t] = "poll"] /\ UNCHANGED <<flight, res, at>>
  <2>1. ETypes' /\ pc'[t] = "poll" /\ \A u \in Threads : u # t => pc'[u] = pc[u]
    BY <1>1, <1>2, <1>4 DEF ETypes, Labels, poolVars, chanVars, ownVars, resetVars
  <2>2. PoolInv' /\ Conserved' /\ \A u \in Threads : Local(u)'
    BY <1>1, <1>4, <2>1, Running, MoveKeeps DEF chanVars
  <2> QED
    BY <2>1, <2>2 DEF EInv
<1> QED
  BY <1>1, <1>3, <1>4

LEMMA PollKeeps ==
  ASSUME EInv, NEW t \in Threads, Poll(t)
  PROVE  EInv'
<1>1. PICK f, x : f = Awaited(t) /\ x = EngineOf(t, f[1], f[2])
  OBVIOUS
<1>2. /\ pc[t] = "poll" /\ UNCHANGED <<poolVars, enable, kbuf, ownVars, mapped, dst, resetVars>>
      /\ engine' = [engine EXCEPT ![x] = "idle"] /\ UnlockUnlessPiped(t, x)
      /\ \/ flight' = [flight EXCEPT ![t] = @ \ {f}] /\ Advance(t) /\ UNCHANGED res
         \/ Fail(t, flight[t] \ {f})
  BY <1>1 DEF Poll
<1>3. ETypes /\ flight[t] \ {f} \in SUBSET (Pools \X (1 .. MaxChunks))
  BY Running DEF EInv
<1>4. engine' \in [Channels -> {"idle", "busy", "done", "abort"}]
  BY <1>2, <1>3 DEF ETypes
<1>5. CASE flight' = [flight EXCEPT ![t] = @ \ {f}] /\ Advance(t) /\ UNCHANGED res
  <2>1. flight' \in [Threads -> SUBSET (Pools \X (1 .. MaxChunks))]
    BY <1>3, <1>5 DEF ETypes
  <2>2. ETypes'
    BY <1>2, <1>3, <1>4, <1>5, <2>1, AdvanceGoes, GivenBack DEF ETypes, poolVars, ownVars, resetVars
  <2>3. PoolInv' /\ Conserved' /\ \A u \in Threads : Local(u)'
    BY <1>2, <1>3, <1>5, AdvanceGoes, GivenBack, Running, MoveKeeps
  <2> QED
    BY <2>2, <2>3 DEF EInv
<1>6. CASE Fail(t, flight[t] \ {f})
  <2>1. ETypes'
    BY <1>2, <1>3, <1>4, <1>6, FailGoes, GivenBack DEF ETypes, poolVars, ownVars, resetVars
  <2>2. PoolInv' /\ Conserved' /\ \A u \in Threads : Local(u)'
    BY <1>2, <1>3, <1>6, FailGoes, GivenBack, MoveKeeps
  <2> QED
    BY <2>1, <2>2 DEF EInv
<1> QED
  BY <1>2, <1>5, <1>6

(* User copies and mappings touch no engine. *)
LEMMA CopyKeeps ==
  ASSUME EInv, NEW t \in Threads,
         pc[t] = "run", UNCHANGED <<poolVars, enable, lock, engine, ownVars, resetVars>>,
         \/ Advance(t) /\ UNCHANGED <<res, flight>>
         \/ \E left \in {{}, flight[t]} : Fail(t, left)
         \/ /\ pc' = [pc EXCEPT ![t] = "put"] /\ res' = [res EXCEPT ![t] = "again"]
            /\ job[t].dir # "p2p" /\ UNCHANGED <<at, flight>>,
         mapped' \in [Threads -> SUBSET (1 .. MaxChunks)]
  PROVE  EInv'
<1>1. ETypes
  BY DEF EInv
<1>2. CASE Advance(t) /\ UNCHANGED <<res, flight>>
  <2>1. ETypes'
    BY <1>1, <1>2, AdvanceGoes DEF ETypes, poolVars, ownVars, resetVars
  <2>2. PoolInv' /\ Conserved' /\ \A u \in Threads : Local(u)'
    BY <1>1, <1>2, AdvanceGoes, Running, MoveKeeps
  <2> QED
    BY <2>1, <2>2 DEF EInv
<1>3. CASE \E left \in {{}, flight[t]} : Fail(t, left)
  <2>1. PICK left \in SUBSET (Pools \X (1 .. MaxChunks)) : Fail(t, left)
    BY <1>3, Running
  <2>2. ETypes'
    BY <1>1, <2>1, FailGoes DEF ETypes, poolVars, ownVars, resetVars
  <2>3. PoolInv' /\ Conserved' /\ \A u \in Threads : Local(u)'
    BY <1>1, <2>1, FailGoes, MoveKeeps
  <2> QED
    BY <2>2, <2>3 DEF EInv
<1>4. CASE /\ pc' = [pc EXCEPT ![t] = "put"] /\ res' = [res EXCEPT ![t] = "again"]
           /\ job[t].dir # "p2p" /\ UNCHANGED <<at, flight>>
  <2>1. /\ ETypes' /\ pc'[t] = "put"
        /\ \A u \in Threads : u # t => pc'[u] = pc[u] /\ res'[u] = res[u]
    BY <1>1, <1>4 DEF ETypes, Labels, poolVars, ownVars, resetVars
  <2>2. PoolInv' /\ Conserved' /\ \A u \in Threads : Local(u)'
    BY <1>4, <2>1, MoveKeeps
  <2> QED
    BY <2>1, <2>2 DEF EInv
<1> QED
  BY <1>2, <1>3, <1>4

LEMMA MoveStepKeeps ==
  ASSUME EInv, NEW t \in Threads, Move(t)
  PROVE  EInv'
<1>1. mapped \in [Threads -> SUBSET (1 .. MaxChunks)] /\ job[t] \in JobType
  BY DEF EInv, ETypes
<1>2. CASE Fill(t)
  BY <1>1, <1>2, CopyKeeps DEF Fill, Doing
<1>3. CASE CopyOut(t)
  BY <1>1, <1>3, CopyKeeps DEF CopyOut, Doing, chanVars
<1>4. CASE MapPage(t)
  <2>1. pc[t] = "run" /\ Cur(t).chunk \in 1 .. MaxChunks
    BY <1>4, Running DEF MapPage, Doing
  <2>2. mapped' \in [Threads -> SUBSET (1 .. MaxChunks)]
    BY <1>1, <1>4, <2>1 DEF MapPage
  <2>3. job[t].path = "pin" => job[t].dir # "p2p"
    BY <1>1, JobFields
  <2> QED
    BY <1>4, <2>1, <2>2, <2>3, CopyKeeps DEF MapPage, GiveUp, chanVars
<1>5. CASE UnmapPage(t)
  <2>1. mapped' \in [Threads -> SUBSET (1 .. MaxChunks)]
    BY <1>1, <1>5 DEF UnmapPage
  <2> QED
    BY <1>5, <2>1, CopyKeeps DEF UnmapPage, Doing, chanVars
<1> QED
  BY <1>2, <1>3, <1>4, <1>5, StartKeeps, WaitKeeps, PollKeeps, DrainKeeps DEF Move
-----------------------------------------------------------------------------
(* The steps that take semaphores and channels. *)

OnlyCopy(t) ==
  \A u \in Threads : u # t =>
    /\ pc'[u] = pc[u] /\ tried'[u] = tried[u] /\ job'[u] = job[u]
    /\ sems'[u] = sems[u] /\ held'[u] = held[u] /\ at'[u] = at[u] /\ res'[u] = res[u]

LEMMA OneCopy ==
  ASSUME EInv, NEW t \in Threads, ETypes', PoolInv', Conserved', Local(t)', OnlyCopy(t)
  PROVE  EInv'
<1>1. \A u \in Threads : Local(u)'
  <2> SUFFICES ASSUME NEW u \in Threads, u # t PROVE Local(u)'
    OBVIOUS
  <2> QED
    BY LocalKept DEF EInv, OnlyCopy
<1> QED
  BY <1>1 DEF EInv

(* What a copy that holds no channel satisfies, whatever its path is. *)
LEMMA EmptyHolds ==
  ASSUME ETypes', NEW t \in Threads, Empty(t)'
  PROVE  OfPools(t)' /\ Counted(t)' /\ HeldShape(t)' /\ Has(t)' = 0
<1>1. \A p \in Pools : held'[t][p] = <<>> /\ Len(held'[t][p]) = 0
  BY DEF Empty
<1>2. \A p \in Pools : sems'[t][p] \in Nat
  BY EdmaAssumption DEF ETypes
<1>3. OfPools(t)' /\ Counted(t)'
  BY <1>1, <1>2 DEF OfPools, Counted
<1>4. Len(held'[t]["wr"]) = 0 /\ Len(held'[t]["rd"]) = 0
  BY <1>1 DEF Pools
<1>5. HeldShape(t)'
  BY <1>1, <1>4 DEF HeldShape
<1>6. Has(t)' = 0
  BY <1>4 DEF Has
<1> QED
  BY <1>3, <1>5, <1>6

LEMMA PlanTyped ==
  ASSUME NEW j \in JobType
  PROVE  /\ Len(SemaPlan(j)) \in 1 .. 3
         /\ \A i \in 1 .. Len(SemaPlan(j)) : SemaPlan(j)[i].pool \in Pools
<1> USE JobFields DEF SemaPlan, Must, May, HostPool, Pools
<1>1. CASE j.path \in {"single", "conc"}
  BY <1>1
<1>2. CASE j.path = "overlap"
  BY <1>2
<1>3. CASE j.path = "srcfirst"
  BY <1>3
<1>4. CASE j.path = "dstfirst"
  BY <1>4
<1>5. CASE j.path \in {"direct", "pin", "serial"}
  BY <1>5
<1> QED
  BY <1>1, <1>2, <1>3, <1>4, <1>5

LEMMA NextTry ==
  ASSUME NEW len \in 1 .. 3, NEW n \in Nat, n < len
  PROVE  (n + 1) % len = IF n + 1 = len THEN 0 ELSE n + 1
<1>1. n \in 0 .. 2 /\ len \in {1, 2, 3}
  OBVIOUS
<1>2. 1 % 1 = 0 /\ 1 % 2 = 1 /\ 2 % 2 = 0 /\ 1 % 3 = 1 /\ 2 % 3 = 2 /\ 3 % 3 = 0
  OBVIOUS
<1>3. CASE len = 1
  BY <1>2, <1>3
<1>4. CASE len = 2
  BY <1>1, <1>2, <1>4
<1>5. CASE len = 3
  BY <1>1, <1>2, <1>5
<1> QED
  BY <1>1, <1>3, <1>4, <1>5

(* The tries that must succeed are enough to take channels. *)
LEMMA MustsSuffice ==
  ASSUME NEW j \in JobType, NEW s \in [Pools -> Nat],
         \A i \in 1 .. Len(SemaPlan(j)) : SemaPlan(j)[i].must => s[SemaPlan(j)[i].pool] >= 1
  PROVE  s[HostPool(j)] >= 1 /\ (j.dir = "p2p" => s["rd"] >= 1)
<1> USE JobFields DEF SemaPlan, Must, May, HostPool, Pools
<1>1. CASE j.path \in {"single", "conc"}
  BY <1>1
<1>2. CASE j.path = "overlap"
  BY <1>2
<1>3. CASE j.path = "srcfirst"
  BY <1>3
<1>4. CASE j.path = "dstfirst"
  BY <1>4
<1>5. CASE j.path \in {"direct", "pin", "serial"}
  BY <1>5
<1> QED
  BY <1>1, <1>2, <1>3, <1>4, <1>5

LEMMA CallKeeps ==
  ASSUME EInv, NEW t \in Threads, Call(t)
  PROVE  EInv'
<1>1. PICK j \in mix[t] :
        /\ pc[t] = "idle" /\ pc' = [pc EXCEPT ![t] = "down"] /\ job' = [job EXCEPT ![t] = j]
        /\ UNCHANGED <<poolVars, chanVars, mix, sems, tried, held, moveVars, resetVars>>
  BY DEF Call
<1> USE DEF poolVars, chanVars, moveVars, resetVars
<1>2. ETypes /\ j \in JobType
  BY DEF EInv, ETypes
<1>3. ETypes' /\ pc'[t] = "down" /\ job'[t] = j /\ OnlyCopy(t)
  BY <1>1, <1>2 DEF ETypes, Labels, OnlyCopy
<1>4. PoolInv' /\ Conserved'
  BY <1>1, PoolKept, CountsKept DEF EInv
<1>5. Empty(t)' /\ tried'[t] = 0 /\ res'[t] = "ok"
  BY <1>1 DEF EInv, Local, Empty
<1>6. MustGot(t)'
  <2>1. PICK len \in 1 .. 3 : len = Len(SemaPlan(j))
    BY <1>2, PlanTyped
  <2>2. 0 < len
    OBVIOUS
  <2> QED
    BY <1>3, <1>5, <2>1, <2>2 DEF MustGot
<1>7. OfPools(t)' /\ Counted(t)' /\ HeldShape(t)'
  BY <1>3, <1>5, EmptyHolds
<1>8. Local(t)'
  BY <1>3, <1>5, <1>6, <1>7 DEF Local
<1> QED
  BY <1>3, <1>4, <1>8, OneCopy

(* A semaphore got, or a try that failed. *)
LEMMA TriedKeeps ==
  ASSUME EInv, NEW t \in Threads, NEW count, pc[t] = "down", Tried(t, count),
         UNCHANGED <<used, chanVars, mix, job, held, at, flight, mapped, dst, resetVars>>,
         \A u \in Threads : u # t => sems'[u] = sems[u],
         \A p \in Pools : sems'[t][p] >= sems[t][p],
         Wanted(t).must => sems'[t][Wanted(t).pool] >= 1,
         sems' \in [Threads -> [Pools -> 0 .. NumCh]], sema' \in [Pools -> Nat], Conserved'
  PROVE  EInv'
<1> USE DEF chanVars, resetVars
<1>1. ETypes /\ job[t] \in JobType /\ tried[t] \in Nat
  BY DEF EInv, ETypes
<1>2. Empty(t) /\ MustGot(t) /\ (res[t] = "again" => job[t].dir # "p2p")
  BY DEF EInv, Local
<1>3. PICK len \in 1 .. 3 : len = Len(SemaPlan(job[t]))
  BY <1>1, PlanTyped
<1>4. PICK n \in Nat : n = tried[t] /\ n < len
  BY <1>1, <1>2, <1>3 DEF MustGot
<1>5. \A i \in 1 .. (n + 1) :
        SemaPlan(job[t])[i].must => sems'[t][SemaPlan(job[t])[i].pool] >= 1
  <2> SUFFICES ASSUME NEW i \in 1 .. (n + 1), SemaPlan(job[t])[i].must
               PROVE  sems'[t][SemaPlan(job[t])[i].pool] >= 1
    OBVIOUS
  <2>1. CASE i = n + 1
    BY <1>4, <2>1 DEF Wanted
  <2>2. CASE i # n + 1
    <3>1. PICK p \in Pools : p = SemaPlan(job[t])[i].pool
      <4>1. i \in 1 .. len
        BY <1>4, <2>2
      <4> QED
        BY <1>1, <1>3, <4>1, PlanTyped
    <3>2. i \in 1 .. n
      BY <1>4, <2>2
    <3>3. sems[t][p] >= 1
      BY <1>2, <1>4, <3>1, <3>2 DEF MustGot
    <3>4. sems[t][p] \in Nat /\ sems'[t][p] \in Nat /\ sems'[t][p] >= sems[t][p]
      BY <1>1, EdmaAssumption DEF ETypes
    <3> QED
      BY <3>1, <3>3, <3>4
  <2> QED
    BY <2>1, <2>2
<1>6. PICK m \in 0 .. (len - 1) : m = (n + 1) % len /\ tried' = [tried EXCEPT ![t] = m]
  <2>1. (n + 1) % len \in 0 .. (len - 1)
    BY <1>4, NextTry
  <2> QED
    BY <1>1, <1>3, <1>4, <2>1 DEF Tried, ETypes
<1>7. tried' \in [Threads -> Nat] /\ tried'[t] = m /\ \A u \in Threads : u # t => tried'[u] = tried[u]
  BY <1>1, <1>3, <1>6 DEF ETypes
<1>8. PoolInv' /\ Empty(t)'
  BY <1>2, PoolKept DEF EInv, Empty
<1>9. CASE m # 0
  <2>1. UNCHANGED <<pc, res>>
    BY <1>7, <1>9 DEF Tried
  <2>2. ETypes' /\ OnlyCopy(t)
    BY <1>1, <1>7, <2>1 DEF ETypes, OnlyCopy
  <2>3. m = n + 1
    BY <1>4, <1>6, <1>9, NextTry
  <2>4. MustGot(t)'
    BY <1>3, <1>5, <1>6, <1>7, <2>3 DEF MustGot
  <2>5. Local(t)'
    BY <1>2, <1>8, <2>1, <2>2, <2>4, EmptyHolds DEF Local
  <2> QED
    BY <1>8, <2>2, <2>5, OneCopy
<1>10. CASE m = 0
  <2>1. \/ pc' = [pc EXCEPT ![t] = "up"] /\ res' = [res EXCEPT ![t] = "again"] /\ Bounce(job[t])
        \/ pc' = [pc EXCEPT ![t] = "get"] /\ UNCHANGED res
    BY <1>7, <1>10 DEF Tried
  <2>2. ETypes' /\ OnlyCopy(t)
    <3>1. pc' \in [Threads -> Labels] /\ \A u \in Threads : u # t => pc'[u] = pc[u] /\ res'[u] = res[u]
      BY <1>1, <2>1 DEF ETypes, Labels
    <3>2. ETypes'
      BY <1>1, <1>7, <2>1, <3>1 DEF ETypes
    <3> QED
      BY <1>7, <3>1, <3>2 DEF OnlyCopy
  <2>3. n + 1 = len
    <3>1. n + 1 # len => m = n + 1
      BY <1>4, <1>6, NextTry
    <3> QED
      BY <1>4, <1>10, <3>1
  <2>4. sems'[t] \in [Pools -> Nat]
    BY EdmaAssumption
  <2>5. /\ sems'[t][HostPool(job[t])] >= 1
        /\ job[t].dir = "p2p" => sems'[t]["rd"] >= 1
    BY <1>1, <1>3, <1>5, <2>3, <2>4, MustsSuffice
  <2>6. Ready(t)'
    <3>1. HostPool(job[t]) \in Pools /\ (job[t].dir = "p2p" => HostPool(job[t]) = "wr")
      BY DEF HostPool, Pools
    <3>2. sems'[t][HostPool(job[t])] \in Nat
      BY <2>4, <3>1
    <3>3. Has(t)' < PlanLen(t)'
      BY <1>8, <2>2, <2>5, <3>1, <3>2, EmptyHolds DEF PlanLen
    <3> QED
      BY <2>5, <3>3 DEF Ready
  <2>7. Bounce(job[t]) => job[t].dir # "p2p"
    BY <1>1, JobFields DEF Bounce
  <2>8. pc'[t] \in {"up", "get"} /\ (res'[t] = "again" => job'[t].dir # "p2p")
    BY <1>1, <1>2, <2>1, <2>7 DEF ETypes
  <2>9. Local(t)'
    BY <1>7, <1>8, <1>10, <2>2, <2>6, <2>8, EmptyHolds DEF Local
  <2> QED
    BY <1>8, <2>2, <2>9, OneCopy
<1> QED
  BY <1>9, <1>10

LEMMA DownKeeps ==
  ASSUME EInv, NEW t \in Threads, Down(t)
  PROVE  EInv'
<1>1. ETypes /\ job[t] \in JobType /\ Conserved
  BY DEF EInv, ETypes
<1>2. PICK p \in Pools : p = Wanted(t).pool
  <2>1. tried[t] \in Nat /\ tried[t] < Len(SemaPlan(job[t]))
    BY DEF Down, EInv, ETypes, Local, MustGot
  <2>2. tried[t] + 1 \in 1 .. Len(SemaPlan(job[t]))
    BY <1>1, <2>1, PlanTyped
  <2> QED
    BY <1>1, <2>2, PlanTyped DEF Wanted
<1>3. /\ pc[t] = "down" /\ sema[p] > 0
      /\ sema' = [sema EXCEPT ![p] = @ - 1] /\ sems' = [sems EXCEPT ![t][p] = @ + 1]
      /\ Tried(t, sems[t][p] + 1)
      /\ UNCHANGED <<used, chanVars, mix, job, held, at, flight, mapped, dst, resetVars>>
  BY <1>2 DEF Down
<1>4. PICK s \in 0 .. NumCh, k \in Nat : s = sems[t][p] /\ k = sema[p]
  BY <1>1 DEF ETypes
<1>5. PICK F, G : F = Taken(p) /\ G = Taken(p)'
  OBVIOUS
<1>6. Cardinality(F) \in Nat /\ s <= Cardinality(F) /\ s < NumCh
  <2> DEFINE f == [u \in Threads |-> sems[u][p]]
  <2>1. F = Below(f) /\ f[t] = s
    BY <1>4, <1>5 DEF Taken, Below
  <2> HIDE DEF f
  <2>2. Cardinality(F) \in Nat /\ s <= Cardinality(F)
    BY <2>1, TakenMoves
  <2>3. k + Cardinality(F) = Cardinality(WithKbuf(p)) /\ Cardinality(WithKbuf(p)) \in 0 .. NumCh
    BY <1>1, <1>4, <1>5, Semaphores DEF Conserved
  <2> QED
    BY <1>3, <1>4, <2>2, <2>3, EdmaAssumption
<1>7. /\ sems' \in [Threads -> [Pools -> 0 .. NumCh]] /\ sema' \in [Pools -> Nat]
      /\ sems'[t][p] = s + 1 /\ sema'[p] = k - 1
      /\ \A q \in Pools : q # p => sems'[t][q] = sems[t][q] /\ sema'[q] = sema[q]
      /\ \A u \in Threads : u # t => sems'[u] = sems[u]
  BY <1>1, <1>3, <1>4, <1>6, EdmaAssumption DEF ETypes
<1>8. Conserved'
  <2>1. Cardinality(G) = Cardinality(F) + 1 /\ Cardinality(G) \in Nat
    <3> DEFINE f == [u \in Threads |-> sems[u][p]]
               g == [u \in Threads |-> sems'[u][p]]
    <3>1. /\ F = Below(f) /\ f[t] = s
          /\ G = Below(g) /\ g[t] = s + 1
          /\ s + 1 \in 0 .. NumCh
      BY <1>4, <1>5, <1>6, <1>7, EdmaAssumption DEF Taken, Below
    <3>2. \A u \in Threads : u # t => g[u] = f[u]
      BY <1>7
    <3> HIDE DEF f, g
    <3>3. /\ Cardinality(F) \in Nat /\ Cardinality(G) \in Nat
          /\ Cardinality(G) = Cardinality(F) + g[t] - f[t]
      <4>1. f[t] \in 0 .. NumCh /\ g[t] \in 0 .. NumCh
        BY <3>1
      <4> QED
        BY <3>1, <3>2, <4>1, TakenMoves
    <3> QED
      BY <3>1, <3>3
  <2>2. \A q \in Pools : q # p => Taken(q)' = Taken(q)
    BY <1>7 DEF Taken
  <2>3. k + Cardinality(F) = Cardinality(WithKbuf(p))
    BY <1>1, <1>4, <1>5 DEF Conserved
  <2>4. (k - 1) + Cardinality(G) = Cardinality(WithKbuf(p))
    BY <1>6, <2>1, <2>3
  <2> SUFFICES ASSUME NEW q \in Pools
               PROVE  sema'[q] + Cardinality(Taken(q)') = Cardinality(WithKbuf(q))
    BY DEF Conserved, WithKbuf
  <2> QED
    BY <1>1, <1>5, <1>7, <2>2, <2>4 DEF Conserved
<1>9. \A q \in Pools : sems'[t][q] >= sems[t][q]
  <2>1. \A q \in Pools : sems[t][q] \in Nat
    BY <1>1, EdmaAssumption DEF ETypes
  <2> QED
    BY <1>4, <1>7, <2>1
<1>10. sems'[t][p] >= 1
  BY <1>4, <1>7
<1> QED
  BY <1>2, <1>3, <1>7, <1>8, <1>9, <1>10, TriedKeeps

LEMMA DownFailsKeeps ==
  ASSUME EInv, NEW t \in Threads, DownFails(t)
  PROVE  EInv'
<1>1. ETypes /\ pc[t] = "down" /\ Empty(t) /\ (res[t] = "again" => job[t].dir # "p2p")
  BY DEF EInv, Local, DownFails
<1>2. UNCHANGED <<poolVars, chanVars, mix, job, sems, held, at, flight, mapped, dst, resetVars>>
  BY DEF DownFails
<1>3. PoolInv' /\ Conserved'
  BY <1>2, PoolKept, CountsKept DEF EInv, poolVars, chanVars
<1>4. CASE ~Wanted(t).must
  <2>1. Tried(t, sems[t][Wanted(t).pool])
    BY <1>4 DEF DownFails
  <2>2. \A p \in Pools : sems[t][p] >= sems[t][p]
    BY <1>1, EdmaAssumption DEF ETypes
  <2>3. sems' \in [Threads -> [Pools -> 0 .. NumCh]] /\ sema' \in [Pools -> Nat]
    BY <1>1, <1>2 DEF ETypes, poolVars
  <2> QED
    BY <1>1, <1>2, <1>3, <1>4, <2>1, <2>2, <2>3, TriedKeeps DEF poolVars
<1>5. CASE Wanted(t).must
  <2>1. /\ pc' = [pc EXCEPT ![t] = "up"] /\ res' = [res EXCEPT ![t] = "err"]
        /\ tried' = [tried EXCEPT ![t] = 0]
    BY <1>5 DEF DownFails
  <2>2. /\ ETypes' /\ OnlyCopy(t) /\ pc'[t] = "up" /\ res'[t] = "err" /\ tried'[t] = 0
    BY <1>1, <1>2, <2>1 DEF ETypes, OnlyCopy, Labels, poolVars, chanVars, resetVars
  <2>3. Empty(t)'
    BY <1>1, <1>2 DEF Empty
  <2>4. Local(t)'
    BY <2>2, <2>3, EmptyHolds DEF Local
  <2> QED
    BY <1>3, <2>2, <2>4, OneCopy
<1> QED
  BY <1>4, <1>5

LEMMA GetNoneKeeps ==
  ASSUME EInv, NEW t \in Threads, GetNone(t)
  PROVE  EInv'
<1>1. ETypes /\ Local(t) /\ pc[t] = "get" /\ pc' = [pc EXCEPT ![t] = "begin"]
  BY DEF EInv, GetNone
<1>2. UNCHANGED <<poolVars, chanVars, ownVars, moveVars, resetVars>>
  BY DEF GetNone
<1>3. PoolInv' /\ Conserved'
  BY <1>2, PoolKept, CountsKept DEF EInv, poolVars, chanVars, ownVars
<1>4. ETypes' /\ OnlyCopy(t) /\ pc'[t] = "begin"
  BY <1>1, <1>2 DEF ETypes, OnlyCopy, Labels, poolVars, chanVars, ownVars, moveVars, resetVars
<1>5. Local(t)'
  <2>1. OfPools(t)' /\ Counted(t)' /\ HeldShape(t)'
    BY <1>1, <1>2 DEF Local, OfPools, Counted, HeldShape, ownVars
  <2>2. tried'[t] = 0 /\ (res'[t] = "again" => job'[t].dir # "p2p")
    BY <1>1, <1>2 DEF Local, ownVars, moveVars
  <2> QED
    BY <1>4, <2>1, <2>2 DEF Local
<1> QED
  BY <1>3, <1>4, <1>5, OneCopy

LEMMA HasTyped ==
  ASSUME ETypes, NEW t \in Threads
  PROVE  /\ Len(held[t]["wr"]) \in Nat /\ Len(held[t]["rd"]) \in Nat /\ Has(t) \in Nat
         /\ sems[t]["wr"] \in Nat /\ sems[t]["rd"] \in Nat
<1>1. \A p \in Pools : Len(held[t][p]) \in Nat /\ sems[t][p] \in Nat
  <2>1. \A p \in Pools : sems[t][p] \in Nat
    BY EdmaAssumption DEF ETypes
  <2> QED
    BY <2>1, HeldTyped
<1>2. /\ Len(held[t]["wr"]) \in Nat /\ Len(held[t]["rd"]) \in Nat
      /\ sems[t]["wr"] \in Nat /\ sems[t]["rd"] \in Nat
  BY <1>1 DEF Pools
<1>3. PICK a \in Nat, b \in Nat : a = Len(held[t]["wr"]) /\ b = Len(held[t]["rd"])
  BY <1>2
<1>4. a + b \in Nat
  OBVIOUS
<1>5. Has(t) = Len(held[t]["wr"]) + Len(held[t]["rd"])
  BY DEF Has
<1>6. Has(t) = a + b
  BY <1>3, <1>5, Zenon
<1> QED
  BY <1>2, <1>4, <1>6

(* The order of the channels follows the counts. *)
LEMMA NextOf ==
  ASSUME EInv, NEW t \in Threads, pc[t] = "get"
  PROVE  /\ Len(ChannelPlan(t)) = PlanLen(t) /\ Has(t) \in Nat /\ PlanLen(t) \in Nat
         /\ NextPool(t) = IF job[t].dir # "p2p" THEN HostPool(job[t])
                          ELSE IF Has(t) = 1 THEN "rd" ELSE "wr"
<1>1. Ready(t) /\ ETypes
  BY DEF EInv, Local
<1>2. PICK p \in Pools : p = HostPool(job[t])
  BY DEF HostPool, Pools
<1>3. PICK s \in Nat : s = sems[t][p] /\ s >= 1 /\ s - 1 \in Nat
  BY <1>1, <1>2, EdmaAssumption DEF ETypes, Ready
<1>4. PICK h \in Nat : h = Has(t)
  BY <1>1, HasTyped
<1> DEFINE more == [i \in 1 .. (s - 1) |-> p]
<1>5. more \in Seq(Pools) /\ Len(more) = s - 1 /\ \A i \in 1 .. (s - 1) : more[i] = p
  BY <1>3
<1>6. ChannelPlan(t) = (IF job[t].dir = "p2p" THEN <<"wr", "rd">> ELSE <<p>>) \o more
  BY <1>2, <1>3 DEF ChannelPlan
<1> HIDE DEF more
<1>7. CASE job[t].dir = "p2p"
  <2>1. p = "wr" /\ PlanLen(t) = 1 + s /\ h < 1 + s
    BY <1>1, <1>2, <1>3, <1>4, <1>7 DEF HostPool, PlanLen, Ready
  <2>2. <<"wr", "rd">> \in Seq(Pools) /\ ChannelPlan(t) = <<"wr", "rd">> \o more
    BY <1>6, <1>7 DEF Pools
  <2>3. /\ Len(ChannelPlan(t)) = 2 + (s - 1)
        /\ \A i \in 1 .. (2 + (s - 1)) :
             ChannelPlan(t)[i] = IF i <= 2 THEN <<"wr", "rd">>[i] ELSE more[i - 2]
    BY <1>5, <2>2, ConcatProperties
  <2>4. h + 1 \in 1 .. (2 + (s - 1)) /\ (h + 1 > 2 => (h + 1) - 2 \in 1 .. (s - 1))
    BY <1>3, <2>1
  <2>5. ChannelPlan(t)[h + 1] = IF h = 1 THEN "rd" ELSE "wr"
    <3>1. CASE h + 1 > 2
      <4>1. ChannelPlan(t)[h + 1] = more[(h + 1) - 2]
        BY <2>3, <2>4, <3>1
      <4> QED
        BY <1>5, <2>1, <2>4, <3>1, <4>1
    <3>2. CASE h + 1 <= 2
      <4>1. ChannelPlan(t)[h + 1] = <<"wr", "rd">>[h + 1] /\ h \in {0, 1}
        BY <2>3, <2>4, <3>2
      <4> QED
        BY <4>1
    <3> QED
      BY <3>1, <3>2
  <2> QED
    BY <1>3, <1>4, <1>7, <2>1, <2>3, <2>5 DEF NextPool
<1>8. CASE job[t].dir # "p2p"
  <2>1. PlanLen(t) = s /\ h < s
    BY <1>1, <1>2, <1>3, <1>4, <1>8 DEF PlanLen, Ready
  <2>2. <<p>> \in Seq(Pools) /\ ChannelPlan(t) = <<p>> \o more
    BY <1>6, <1>8
  <2>3. /\ Len(ChannelPlan(t)) = 1 + (s - 1)
        /\ \A i \in 1 .. (1 + (s - 1)) :
             ChannelPlan(t)[i] = IF i <= 1 THEN <<p>>[i] ELSE more[i - 1]
    BY <1>5, <2>2, ConcatProperties
  <2>4. h + 1 \in 1 .. (1 + (s - 1)) /\ (h + 1 > 1 => (h + 1) - 1 \in 1 .. (s - 1))
    BY <1>3, <2>1
  <2>5. ChannelPlan(t)[h + 1] = p
    <3>1. CASE h + 1 > 1
      <4>1. ChannelPlan(t)[h + 1] = more[(h + 1) - 1]
        BY <2>3, <2>4, <3>1
      <4> QED
        BY <1>5, <2>4, <3>1, <4>1
    <3>2. CASE h + 1 <= 1
      <4>1. ChannelPlan(t)[h + 1] = <<p>>[h + 1] /\ h = 0
        BY <2>3, <2>4, <3>2
      <4> QED
        BY <4>1
    <3> QED
      BY <3>1, <3>2
  <2> QED
    BY <1>2, <1>3, <1>4, <1>8, <2>1, <2>3, <2>5 DEF NextPool
<1> QED
  BY <1>7, <1>8

LEMMA GetKeeps ==
  ASSUME EInv, NEW t \in Threads, GetChannel(t)
  PROVE  EInv'
<1>1. ETypes /\ PoolInv /\ Local(t) /\ pc[t] = "get" /\ Ready(t)
  BY DEF EInv, Local, GetChannel
<1>2. PICK p \in Pools : p = NextPool(t)
  BY <1>1, NextOf DEF HostPool, Pools
<1>3. PICK c \in Ch : c = Least(FreeCh(p)) /\ c \notin used[p]
  <2>1. FreeCh(p) \in SUBSET Nat /\ FreeCh(p) # {}
    BY <1>2, EdmaAssumption DEF GetChannel, FreeCh, Ch
  <2>2. Least(FreeCh(p)) \in FreeCh(p)
    BY <2>1, LeastIsIn
  <2> QED
    BY <2>2 DEF FreeCh
<1>4. PICK x \in Channels : x = <<p, c>> /\ x[1] = p /\ x[2] = c
  <2>1. <<p, c>> \in Channels
    BY DEF Channels
  <2> QED
    BY <2>1
<1>5. /\ used' = [used EXCEPT ![p] = @ \cup {c}]
      /\ \/ pc' = [pc EXCEPT ![t] = "begin"] /\ UNCHANGED held
         \/ /\ held' = [held EXCEPT ![t][p] = Append(@, x)]
            /\ pc' = [pc EXCEPT ![t] = IF Has(t) + 1 = Len(ChannelPlan(t)) THEN "begin" ELSE "get"]
      /\ UNCHANGED <<sema, chanVars, mix, job, sems, tried, moveVars, resetVars>>
  BY <1>2, <1>3, <1>4 DEF GetChannel
<1>6. /\ used' \in [Pools -> SUBSET Ch] /\ Conserved'
      /\ \A q \in Pools : used[q] \subseteq used'[q]
      /\ c \in used'[p]
  BY <1>1, <1>5, CountsKept DEF EInv, ETypes
<1>7. tried'[t] = 0 /\ (res'[t] = "again" => job'[t].dir # "p2p")
  BY <1>1, <1>5 DEF Local, moveVars
<1>8. \A u \in Threads : Own(u) \in SUBSET Channels
  <2>1. "wr" \in Pools
    BY DEF Pools
  <2> QED
    BY <1>1, <2>1, HeldTyped
<1>9. CASE pc' = [pc EXCEPT ![t] = "begin"] /\ UNCHANGED held
  <2>1. ETypes' /\ OnlyCopy(t) /\ pc'[t] = "begin"
    BY <1>1, <1>5, <1>6, <1>9 DEF ETypes, OnlyCopy, Labels, chanVars, moveVars, resetVars
  <2>2. PoolInv'
    <3>1. \A u \in Threads : Own(u)' = Own(u)
      BY <1>9 DEF Own
    <3>2. \A u \in Threads : \A y \in Own(u) : y[1] \in Pools
      BY <1>8 DEF Channels
    <3> QED
      BY <1>1, <1>5, <1>6, <3>1, <3>2 DEF PoolInv, BitsSet, Disjoint, LockHeld, chanVars
  <2>3. OfPools(t)' /\ Counted(t)' /\ HeldShape(t)'
    BY <1>1, <1>5, <1>9 DEF Local, OfPools, Counted, HeldShape
  <2>4. Local(t)'
    BY <1>7, <2>1, <2>3 DEF Local
  <2> QED
    BY <1>6, <2>1, <2>2, <2>4, OneCopy
<1>10. CASE /\ held' = [held EXCEPT ![t][p] = Append(@, x)]
            /\ pc' = [pc EXCEPT ![t] = IF Has(t) + 1 = Len(ChannelPlan(t)) THEN "begin" ELSE "get"]
  <2>1. /\ held[t][p] \in Seq(Channels) /\ held'[t][p] = Append(held[t][p], x)
        /\ \A q \in Pools : q # p => held'[t][q] = held[t][q]
        /\ \A u \in Threads : u # t => held'[u] = held[u]
    BY <1>1, <1>10 DEF ETypes
  <2>2. PICK l \in Nat : l = Len(held[t][p])
    BY <2>1, LenProperties
  <2>3. /\ held'[t][p] \in Seq(Channels) /\ Len(held'[t][p]) = l + 1 /\ held'[t][p][l + 1] = x
        /\ \A i \in 1 .. l : held'[t][p][i] = held[t][p][i]
    BY <2>1, <2>2, AppendProperties
  <2>4. held' \in [Threads -> [Pools -> Seq(Channels)]]
    BY <1>1, <1>10, <2>1, <2>3 DEF ETypes
  <2>5. pc' \in [Threads -> Labels] /\ pc'[t] \in {"begin", "get"} /\ \A u \in Threads : u # t => pc'[u] = pc[u]
    BY <1>1, <1>10 DEF ETypes, Labels
  <2>6. ETypes' /\ OnlyCopy(t)
    BY <1>1, <1>5, <1>6, <2>1, <2>4, <2>5 DEF ETypes, OnlyCopy, chanVars, moveVars, resetVars
  <2>7. Own(t)' = Own(t) \cup {x} /\ \A u \in Threads : u # t => Own(u)' = Own(u)
    <3>1. Elems(held'[t][p]) = Elems(held[t][p]) \cup {x}
      <4>1. \A i \in 1 .. (l + 1) : i \in 1 .. l \/ i = l + 1
        OBVIOUS
      <4> QED
        BY <2>2, <2>3, <4>1, SMTT(30) DEF Elems
    <3>2. \A q \in Pools : q # p => Elems(held'[t][q]) = Elems(held[t][q])
      BY <2>1 DEF Elems
    <3> QED
      BY <2>1, <3>1, <3>2 DEF Own, Pools
  <2>8. PoolInv'
    <3>1. \A u \in Threads : x \notin Own(u)
      BY <1>1, <1>3, <1>4 DEF PoolInv, BitsSet
    <3>2. \A u \in Threads : \A y \in Own(u) : y[1] \in Pools
      BY <1>8 DEF Channels
    <3>3. BitsSet'
      BY <1>1, <1>4, <1>6, <2>7, <3>2 DEF PoolInv, BitsSet
    <3>4. Disjoint'
      BY <1>1, <2>7, <3>1 DEF PoolInv, Disjoint
    <3>5. LockHeld'
      BY <1>1, <1>5, <2>7 DEF PoolInv, LockHeld, chanVars
    <3> QED
      BY <3>3, <3>4, <3>5 DEF PoolInv
  <2>9. OfPools(t)'
    <3>1. \A i \in 1 .. (l + 1) : i \in 1 .. l \/ i = l + 1
      OBVIOUS
    <3>2. \A i \in 1 .. Len(held'[t][p]) : held'[t][p][i][1] = p
      BY <1>1, <1>4, <2>2, <2>3, <3>1 DEF Local, OfPools
    <3>3. ASSUME NEW q \in Pools, q # p PROVE \A i \in 1 .. Len(held'[t][q]) : held'[t][q][i][1] = q
      BY <1>1, <2>1, <3>3 DEF Local, OfPools
    <3> QED
      BY <3>2, <3>3 DEF OfPools
  <2>10. /\ Counted(t)' /\ HeldShape(t)' /\ Has(t)' = Has(t) + 1
    <3>1. PICK a \in Nat, b \in Nat : a = Len(held[t]["wr"]) /\ b = Len(held[t]["rd"])
      BY <1>1, HasTyped
    <3>2. PICK v \in Nat, w \in Nat : v = sems[t]["wr"] /\ w = sems[t]["rd"]
      BY <1>1, HasTyped
    <3>3. a <= v /\ b <= w
      BY <1>1, <3>1, <3>2 DEF Local, Counted, Pools
    <3>4. Has(t) = Len(held[t]["wr"]) + Len(held[t]["rd"])
      BY DEF Has
    <3>5. Has(t) = a + b
      BY <3>1, <3>4, Zenon
    <3>6. Has(t)' = Len(held'[t]["wr"]) + Len(held'[t]["rd"])
      BY DEF Has
    <3>7. /\ NextPool(t) = IF job[t].dir # "p2p" THEN HostPool(job[t])
                           ELSE IF a + b = 1 THEN "rd" ELSE "wr"
          /\ a + b < PlanLen(t)
      BY <1>1, <3>5, NextOf DEF Ready
    <3>8. HeldShape(t)
      BY <1>1 DEF Local
    <3>9. CASE p = "wr"
      <4>1. Len(held'[t]["wr"]) = a + 1 /\ Len(held'[t]["rd"]) = b
        BY <2>1, <2>2, <2>3, <3>1, <3>9 DEF Pools
      <4>2. a + 1 <= v
        <5>1. CASE job[t].dir = "p2p"
          <6>1. a + b < 1 + v /\ a + b # 1 /\ ((b = 0 /\ a <= 1) \/ (b = 1 /\ a >= 1))
            BY <1>2, <3>1, <3>2, <3>7, <3>8, <3>9, <5>1 DEF PlanLen, HeldShape
          <6>2. v >= 1
            BY <1>1, <3>2, <5>1 DEF Ready, HostPool
          <6> QED
            BY <6>1, <6>2
        <5>2. CASE job[t].dir # "p2p"
          <6>1. a + b < v
            BY <1>2, <3>2, <3>7, <3>9, <5>2 DEF PlanLen
          <6> QED
            BY <6>1
        <5> QED
          BY <5>1, <5>2
      <4>3. HeldShape(t)'
        <5>1. CASE job[t].dir = "p2p"
          <6>1. a + b # 1 /\ ((b = 0 /\ a <= 1) \/ (b = 1 /\ a >= 1))
            BY <1>2, <3>1, <3>7, <3>8, <3>9, <5>1 DEF HeldShape
          <6> QED
            BY <1>5, <4>1, <5>1, <6>1 DEF HeldShape
        <5>2. CASE job[t].dir # "p2p"
          BY <1>2, <1>5, <2>1, <3>7, <3>8, <5>2 DEF HeldShape
        <5> QED
          BY <5>1, <5>2
      <4>4. Counted(t)'
        BY <1>5, <3>2, <3>3, <4>1, <4>2 DEF Counted, Pools
      <4>5. Has(t)' = (a + 1) + b
        BY <3>6, <4>1, Zenon
      <4> QED
        BY <3>5, <4>3, <4>4, <4>5
    <3>10. CASE p = "rd"
      <4>1. Len(held'[t]["rd"]) = b + 1 /\ Len(held'[t]["wr"]) = a
        BY <2>1, <2>2, <2>3, <3>1, <3>10 DEF Pools
      <4>2. b + 1 <= w
        <5>1. CASE job[t].dir = "p2p"
          <6>1. a + b = 1 /\ ((b = 0 /\ a <= 1) \/ (b = 1 /\ a >= 1))
            BY <1>2, <3>1, <3>7, <3>8, <3>10, <5>1 DEF HeldShape
          <6>2. w >= 1
            BY <1>1, <3>2, <5>1 DEF Ready
          <6> QED
            BY <6>1, <6>2
        <5>2. CASE job[t].dir # "p2p"
          <6>1. a + b < w
            BY <1>2, <3>2, <3>7, <3>10, <5>2 DEF PlanLen
          <6> QED
            BY <6>1
        <5> QED
          BY <5>1, <5>2
      <4>3. HeldShape(t)'
        <5>1. CASE job[t].dir = "p2p"
          <6>1. a + b = 1 /\ ((b = 0 /\ a <= 1) \/ (b = 1 /\ a >= 1))
            BY <1>2, <3>1, <3>7, <3>8, <3>10, <5>1 DEF HeldShape
          <6> QED
            BY <1>5, <4>1, <5>1, <6>1 DEF HeldShape
        <5>2. CASE job[t].dir # "p2p"
          BY <1>2, <1>5, <2>1, <3>7, <3>8, <5>2 DEF HeldShape
        <5> QED
          BY <5>1, <5>2
      <4>4. Counted(t)'
        BY <1>5, <3>2, <3>3, <4>1, <4>2 DEF Counted, Pools
      <4>5. Has(t)' = a + (b + 1)
        BY <3>6, <4>1, Zenon
      <4> QED
        BY <3>5, <4>3, <4>4, <4>5
    <3> QED
      BY <3>9, <3>10 DEF Pools
  <2>11. pc'[t] = "get" => Ready(t)'
    <3>1. /\ PlanLen(t)' = PlanLen(t) /\ Len(ChannelPlan(t)) = PlanLen(t)
          /\ Has(t) \in Nat /\ PlanLen(t) \in Nat
      BY <1>1, <1>5, NextOf DEF PlanLen
    <3>2. pc'[t] = "get" => Has(t) + 1 # PlanLen(t)
      BY <1>1, <1>10, <3>1 DEF ETypes
    <3> QED
      BY <1>1, <1>5, <2>10, <3>1, <3>2 DEF Ready
  <2>12. Local(t)'
    BY <1>7, <2>5, <2>9, <2>10, <2>11 DEF Local
  <2> QED
    BY <1>6, <2>6, <2>8, <2>12, OneCopy
<1> QED
  BY <1>5, <1>9, <1>10

(* A surplus goes back. *)
LEMMA SurplusReturned ==
  ASSUME EInv, NEW t \in Threads, NEW got \in 0 .. NumCh, NEW p \in Pools, got <= sems[t][p],
         sema' = [sema EXCEPT ![p] = @ + sems[t][p] - got], sems' = [sems EXCEPT ![t][p] = got]
  PROVE  /\ sema' \in [Pools -> Nat] /\ sems' \in [Threads -> [Pools -> 0 .. NumCh]]
         /\ sems'[t][p] = got /\ \A q \in Pools : q # p => sems'[t][q] = sems[t][q]
         /\ \A u \in Threads : u # t => sems'[u] = sems[u]
         /\ Conserved'
<1>1. ETypes /\ Conserved
  BY DEF EInv
<1>2. PICK s \in 0 .. NumCh, k \in Nat : s = sems[t][p] /\ k = sema[p]
  BY <1>1 DEF ETypes
<1>3. s \in Nat /\ got \in Nat /\ (k + s) - got \in Nat
  BY <1>2, EdmaAssumption
<1>4. /\ sema' \in [Pools -> Nat] /\ sema'[p] = (k + s) - got
      /\ \A q \in Pools : q # p => sema'[q] = sema[q]
  <2>1. sema \in [Pools -> Nat]
    BY <1>1 DEF ETypes
  <2>2. PICK v : v = sema[p] + sems[t][p] - got
    OBVIOUS
  <2>3. sema' = [sema EXCEPT ![p] = v]
    BY <2>2
  <2>4. v = (k + s) - got /\ v \in Nat
    BY <1>2, <1>3, <2>2
  <2> QED
    BY <2>1, <2>3, <2>4
<1>5. /\ sems' \in [Threads -> [Pools -> 0 .. NumCh]]
      /\ sems'[t][p] = got /\ \A q \in Pools : q # p => sems'[t][q] = sems[t][q]
      /\ \A u \in Threads : u # t => sems'[u] = sems[u]
  BY <1>1 DEF ETypes
<1>6. PICK F, G : F = Taken(p) /\ G = Taken(p)'
  OBVIOUS
<1>7. /\ Cardinality(F) \in Nat /\ Cardinality(G) \in Nat
      /\ Cardinality(G) = Cardinality(F) + got - s
  <2> DEFINE f == [u \in Threads |-> sems[u][p]]
             g == [u \in Threads |-> sems'[u][p]]
  <2>1. /\ F = Below(f) /\ f[t] = s
        /\ G = Below(g) /\ g[t] = got
    BY <1>2, <1>5, <1>6 DEF Taken, Below
  <2>2. \A u \in Threads : u # t => g[u] = f[u]
    BY <1>5
  <2> HIDE DEF f, g
  <2>3. f[t] \in 0 .. NumCh /\ g[t] \in 0 .. NumCh
    BY <2>1
  <2>4. /\ Cardinality(F) \in Nat /\ Cardinality(G) \in Nat
        /\ Cardinality(G) = Cardinality(F) + g[t] - f[t]
    BY <2>1, <2>2, <2>3, TakenMoves
  <2> QED
    BY <2>1, <2>4
<1>8. Conserved'
  <2>1. \A q \in Pools : q # p => Taken(q)' = Taken(q)
    BY <1>5 DEF Taken
  <2>2. k + Cardinality(F) = Cardinality(WithKbuf(p))
    BY <1>1, <1>2, <1>6 DEF Conserved
  <2>3. ((k + s) - got) + Cardinality(G) = Cardinality(WithKbuf(p))
    BY <1>3, <1>7, <2>2
  <2> SUFFICES ASSUME NEW q \in Pools
               PROVE  sema'[q] + Cardinality(Taken(q)') = Cardinality(WithKbuf(q))
    BY DEF Conserved, WithKbuf
  <2> QED
    BY <1>1, <1>4, <1>6, <2>1, <2>3 DEF Conserved
<1> QED
  BY <1>4, <1>5, <1>8

LEMMA HasEquips ==
  ASSUME ETypes, NEW t \in Threads, HeldShape(t), Has(t) # 0, Piped(job[t]) => Has(t) >= 2
  PROVE  Equipped(t)
<1>1. PICK a \in Nat, b \in Nat : a = Len(held[t]["wr"]) /\ b = Len(held[t]["rd"])
  BY HasTyped
<1>2. Has(t) = Len(held[t]["wr"]) + Len(held[t]["rd"])
  BY DEF Has
<1>3. Has(t) = a + b
  BY <1>1, <1>2, Zenon
<1>4. job[t] \in JobType /\ (Bounce(job[t]) => job[t].dir # "p2p")
  BY JobFields DEF ETypes, Bounce
<1>5. CASE job[t].dir = "p2p"
  <2>1. a + b >= 2 /\ ((b = 0 /\ a <= 1) \/ (b = 1 /\ a >= 1))
    BY <1>1, <1>3, <1>5 DEF HeldShape, Piped
  <2>2. a >= 1 /\ b >= 1
    BY <2>1
  <2> QED
    BY <1>1, <1>4, <1>5, <2>2 DEF Equipped, HostPool
<1>6. CASE job[t].dir # "p2p"
  <2>1. a + b # 0 /\ (Bounce(job[t]) => a + b >= 2)
    BY <1>3 DEF Piped
  <2>2. CASE HostPool(job[t]) = "wr"
    <3>1. held[t]["rd"] = <<>>
      BY <1>6, <2>2 DEF HeldShape, Pools
    <3>2. b = 0
      BY <1>1, <3>1
    <3>3. a >= 1 /\ (Bounce(job[t]) => a >= 2)
      BY <2>1, <3>2
    <3> QED
      BY <1>1, <1>6, <2>2, <3>3 DEF Equipped
  <2>3. CASE HostPool(job[t]) = "rd"
    <3>1. held[t]["wr"] = <<>>
      BY <1>6, <2>3 DEF HeldShape, Pools
    <3>2. a = 0
      BY <1>1, <3>1
    <3>3. b >= 1 /\ (Bounce(job[t]) => b >= 2)
      BY <2>1, <3>2
    <3> QED
      BY <1>1, <1>6, <2>3, <3>3 DEF Equipped
  <2> QED
    BY <2>2, <2>3 DEF HostPool
<1> QED
  BY <1>5, <1>6

LEMMA BeginKeeps ==
  ASSUME EInv, NEW t \in Threads, Begin(t)
  PROVE  EInv'
<1>1. ETypes /\ PoolInv /\ Local(t) /\ pc[t] = "begin"
  BY DEF EInv, Begin
<1>2. /\ at' = [at EXCEPT ![t] = Least(Steps(t))]
      /\ UNCHANGED <<used, chanVars, mix, job, tried, held, flight, mapped, dst, resetVars>>
  BY DEF Begin
<1>3. job[t] \in JobType /\ (Bounce(job[t]) => job[t].dir # "p2p") /\ Has(t) \in Nat
  BY <1>1, JobFields, HasTyped DEF ETypes, Bounce
<1>4. UNCHANGED <<sema, sems>> \/ ReturnSurplus(t)
  BY DEF Begin
<1>5. \/ GiveUp(t, "err")
      \/ Bounce(job[t]) /\ GiveUp(t, "again")
      \/ /\ \E l \in {"lock", "run"} : pc' = [pc EXCEPT ![t] = l]
         /\ UNCHANGED res /\ Has(t) # 0 /\ (Piped(job[t]) => Has(t) >= 2)
  BY <1>3 DEF Begin, Piped
<1>6. /\ sema' \in [Pools -> Nat] /\ sems' \in [Threads -> [Pools -> 0 .. NumCh]] /\ Conserved'
      /\ \A u \in Threads : u # t => sems'[u] = sems[u]
      /\ Counted(t)'
  <2>1. CASE UNCHANGED <<sema, sems>>
    BY <1>1, <1>2, <2>1, CountsKept DEF EInv, ETypes, Local, Counted
  <2>2. CASE ReturnSurplus(t)
    <3>1. PICK p \in Pools : p = HostPool(job[t])
      BY DEF HostPool, Pools
    <3>2. Len(held[t][p]) \in Nat /\ Len(held[t][p]) <= sems[t][p] /\ sems[t][p] \in 0 .. NumCh
      BY <1>1, HeldTyped DEF ETypes, Local, Counted
    <3>3. PICK got \in 0 .. NumCh : got = Len(held[t][p]) /\ got <= sems[t][p]
      BY <3>2, EdmaAssumption
    <3>4. sema' = [sema EXCEPT ![p] = @ + sems[t][p] - got] /\ sems' = [sems EXCEPT ![t][p] = got]
      BY <2>2, <3>1, <3>3 DEF ReturnSurplus
    <3>5. /\ sema' \in [Pools -> Nat] /\ sems' \in [Threads -> [Pools -> 0 .. NumCh]]
          /\ sems'[t][p] = got /\ \A q \in Pools : q # p => sems'[t][q] = sems[t][q]
          /\ \A u \in Threads : u # t => sems'[u] = sems[u]
          /\ Conserved'
      BY <3>3, <3>4, SurplusReturned, ZenonT(60)
    <3>6. got <= got
      BY EdmaAssumption
    <3>7. Counted(t)'
      BY <1>1, <1>2, <3>3, <3>5, <3>6 DEF Local, Counted
    <3> QED
      BY <3>5, <3>7
  <2> QED
    BY <1>4, <2>1, <2>2
<1>7. Least(Steps(t)) \in Steps(t) /\ Least(Steps(t)) \in Nat
  BY <1>1, StepsTyped, LeastIsIn
<1>8. /\ at' \in [Threads -> Nat] /\ at'[t] \in Steps(t) /\ \A u \in Threads : u # t => at'[u] = at[u]
  BY <1>1, <1>2, <1>7 DEF ETypes
<1>9. /\ pc' \in [Threads -> Labels] /\ pc'[t] \in {"put", "lock", "run"}
      /\ res' \in [Threads -> {"ok", "err", "again"}]
      /\ \A u \in Threads : u # t => pc'[u] = pc[u] /\ res'[u] = res[u]
      /\ res'[t] = "again" => job[t].dir # "p2p"
      /\ pc'[t] # "put" => Has(t) # 0 /\ (Piped(job[t]) => Has(t) >= 2)
  <2>1. /\ res \in [Threads -> {"ok", "err", "again"}] /\ pc \in [Threads -> Labels]
        /\ res[t] = "again" => job[t].dir # "p2p"
    BY <1>1 DEF ETypes, Local
  <2>2. CASE GiveUp(t, "err")
    BY <2>1, <2>2 DEF GiveUp, Labels
  <2>3. CASE Bounce(job[t]) /\ GiveUp(t, "again")
    BY <1>3, <2>1, <2>3 DEF GiveUp, Labels
  <2>4. CASE /\ \E l \in {"lock", "run"} : pc' = [pc EXCEPT ![t] = l]
             /\ UNCHANGED res /\ Has(t) # 0 /\ (Piped(job[t]) => Has(t) >= 2)
    <3>1. PICK l \in {"lock", "run"} : pc' = [pc EXCEPT ![t] = l]
      BY <2>4
    <3>2. pc' \in [Threads -> Labels] /\ pc'[t] = l /\ \A u \in Threads : u # t => pc'[u] = pc[u]
      BY <2>1, <3>1 DEF Labels
    <3> QED
      BY <2>1, <2>4, <3>2
  <2> QED
    BY <1>5, <2>2, <2>3, <2>4
<1>10. ETypes' /\ OnlyCopy(t)
  BY <1>1, <1>2, <1>6, <1>8, <1>9 DEF ETypes, OnlyCopy, chanVars, resetVars
<1>11. PoolInv'
  BY <1>1, <1>2, PoolKept DEF chanVars
<1>12. Local(t)'
  <2>1. OfPools(t)' /\ HeldShape(t)'
    BY <1>1, <1>2 DEF Local, OfPools, HeldShape
  <2>2. pc'[t] # "put" => Equipped(t)'
    <3>1. pc'[t] # "put" => Equipped(t)
      BY <1>1, <1>9, HasEquips DEF Local
    <3> QED
      BY <1>2, <3>1 DEF Equipped
  <2>3. Steps(t)' = Steps(t)
    BY <1>2 DEF Steps, ScriptOf, Has
  <2>4. tried'[t] = 0 /\ job'[t] = job[t]
    BY <1>1, <1>2 DEF Local
  <2> QED
    BY <1>6, <1>8, <1>9, <2>1, <2>2, <2>3, <2>4 DEF Local
<1> QED
  BY <1>6, <1>10, <1>11, <1>12, OneCopy

LEMMA LockKeeps ==
  ASSUME EInv, NEW t \in Threads, LockPipe(t)
  PROVE  EInv'
<1>1. ETypes /\ Local(t) /\ pc[t] = "lock" /\ PoolInv
  BY DEF EInv, LockPipe
<1>2. /\ lock' = [x \in Channels |-> IF x \in Own(t) THEN t ELSE lock[x]]
      /\ pc' = [pc EXCEPT ![t] = "run"]
      /\ UNCHANGED <<poolVars, enable, kbuf, engine, ownVars, moveVars, resetVars>>
  BY DEF LockPipe
<1>3. /\ lock' \in [Channels -> Threads \cup {Nothing}]
      /\ \A u \in Threads : \A x \in Channels : lock'[x] = u => lock[x] = u \/ x \in Own(u)
  BY <1>1, <1>2 DEF ETypes
<1>4. ETypes' /\ OnlyCopy(t) /\ pc'[t] = "run"
  BY <1>1, <1>2, <1>3 DEF ETypes, OnlyCopy, Labels, poolVars, ownVars, moveVars, resetVars
<1>5. PoolInv' /\ Conserved'
  BY <1>2, <1>3, PoolKept, CountsKept DEF EInv, poolVars, ownVars
<1>6. Local(t)'
  <2> USE DEF ownVars, moveVars
  <2>1. OfPools(t)' /\ Counted(t)' /\ HeldShape(t)' /\ Equipped(t)'
    BY <1>1, <1>2 DEF Local, OfPools, Counted, HeldShape, Equipped
  <2>2. Steps(t)' = Steps(t)
    BY <1>2 DEF Steps, ScriptOf, Has
  <2>3. at'[t] \in Steps(t)' /\ tried'[t] = 0 /\ (res'[t] = "again" => job'[t].dir # "p2p")
    BY <1>1, <1>2, <2>2 DEF Local
  <2> QED
    BY <1>4, <2>1, <2>3 DEF Local
<1> QED
  BY <1>4, <1>5, <1>6, OneCopy

-----------------------------------------------------------------------------
(* The steps that give back. *)

LEMMA PutKeeps ==
  ASSUME EInv, NEW t \in Threads, Put(t)
  PROVE  EInv'
<1>1. ETypes /\ Local(t) /\ PoolInv /\ pc[t] = "put"
  BY DEF EInv, Put
<1>2. /\ lock' = Unlocked(t) /\ mapped' = [mapped EXCEPT ![t] = {}]
      /\ used' = [p \in Pools |-> used[p] \ {c \in Ch : <<p, c>> \in Own(t)}]
      /\ held' = [held EXCEPT ![t] = NoCh] /\ at' = [at EXCEPT ![t] = 1]
      /\ pc' = [pc EXCEPT ![t] = "up"]
      /\ UNCHANGED <<sema, enable, engine, mix, job, sems, tried, flight, res, resetVars>>
  BY DEF Put
<1>3. NoCh \in [Pools -> Seq(Channels)] /\ \A p \in Pools : NoCh[p] = <<>>
  BY EmptySeq DEF NoCh
<1>4. lock' \in [Channels -> Threads \cup {Nothing}] /\ lock'
        = [x \in Channels |-> IF lock[x] = t THEN Nothing ELSE lock[x]]
  BY <1>1, <1>2 DEF ETypes, Unlocked
<1>5. held' \in [Threads -> [Pools -> Seq(Channels)]] /\ used' \in [Pools -> SUBSET Ch]
  BY <1>1, <1>2, <1>3 DEF ETypes
<1>6. ETypes' /\ OnlyCopy(t) /\ pc'[t] = "up"
  BY <1>1, <1>2, <1>4, <1>5 DEF ETypes, OnlyCopy, Labels, resetVars
<1>7. Empty(t)'
  BY <1>1, <1>2, <1>3 DEF ETypes, Empty
<1>8. Own(t)' = {} /\ \A u \in Threads : u # t => Own(u)' = Own(u)
  <2>1. \A p \in Pools : Len(held'[t][p]) = 0
    BY <1>7 DEF Empty
  <2>2. Own(t)' = {}
    BY <2>1 DEF Own, Elems, Pools
  <2> QED
    BY <1>1, <1>2, <2>2 DEF ETypes, Own
<1>9. PoolInv'
  <2>1. BitsSet'
    <3> SUFFICES ASSUME NEW u \in Threads, NEW x \in Own(u), u # t
                 PROVE  x[2] \in used'[x[1]]
      BY <1>8 DEF BitsSet
    <3>1. x \in Channels /\ x \notin Own(t) /\ x[2] \in used[x[1]]
      <4>1. "wr" \in Pools
        BY DEF Pools
      <4> QED
        BY <1>1, <4>1, HeldTyped DEF PoolInv, BitsSet, Disjoint
    <3>2. x = <<x[1], x[2]>> /\ x[1] \in Pools
      BY <3>1 DEF Channels
    <3> QED
      BY <1>2, <3>1, <3>2
  <2>2. Disjoint'
    BY <1>1, <1>8 DEF PoolInv, Disjoint
  <2>3. LockHeld'
    BY <1>1, <1>4, <1>8, EdmaAssumption DEF PoolInv, LockHeld
  <2> QED
    BY <2>1, <2>2, <2>3 DEF PoolInv
<1>10. Conserved'
  BY <1>2, CountsKept DEF EInv
<1>11. Local(t)'
  <2>1. tried'[t] = 0 /\ (res'[t] = "again" => job'[t].dir # "p2p")
    BY <1>1, <1>2 DEF Local
  <2> QED
    BY <1>6, <1>7, <2>1, EmptyHolds DEF Local
<1> QED
  BY <1>6, <1>9, <1>10, <1>11, OneCopy

LEMMA UpKeeps ==
  ASSUME EInv, NEW t \in Threads, Up(t)
  PROVE  EInv'
<1>1. ETypes /\ Local(t) /\ Empty(t) /\ tried[t] = 0 /\ pc[t] = "up"
  BY DEF EInv, Local, Up
<1>2. /\ sema' = [p \in Pools |-> sema[p] + sems[t][p]] /\ sems' = [sems EXCEPT ![t] = None]
      /\ UNCHANGED <<used, chanVars, mix, tried, held, at, flight, mapped, dst, resetVars>>
  BY DEF Up
<1>3. None \in [Pools -> 0 .. NumCh] /\ \A p \in Pools : None[p] = 0
  BY EdmaAssumption DEF None
<1>4. /\ sems' \in [Threads -> [Pools -> 0 .. NumCh]] /\ \A p \in Pools : sems'[t][p] = 0
      /\ \A u \in Threads : u # t => sems'[u] = sems[u]
  BY <1>1, <1>2, <1>3 DEF ETypes
<1>5. \A p \in Pools : sema[p] \in Nat /\ sems[t][p] \in Nat /\ sems[t][p] \in 0 .. NumCh
  BY <1>1, EdmaAssumption DEF ETypes
<1>6. sema' \in [Pools -> Nat]
  BY <1>2, <1>5
<1>7. Conserved'
  <2> SUFFICES ASSUME NEW p \in Pools
               PROVE  sema'[p] + Cardinality(Taken(p)') = Cardinality(WithKbuf(p))
    BY DEF Conserved, WithKbuf
  <2>1. PICK F, G : F = Taken(p) /\ G = Taken(p)'
    OBVIOUS
  <2>2. PICK k \in Nat, s \in Nat : k = sema[p] /\ s = sems[t][p] /\ s \in 0 .. NumCh
    BY <1>5
  <2> DEFINE f == [u \in Threads |-> sems[u][p]]
             g == [u \in Threads |-> sems'[u][p]]
  <2>3. /\ F = Below(f) /\ f[t] = s
        /\ G = Below(g) /\ g[t] = 0
    BY <1>4, <2>1, <2>2 DEF Taken, Below
  <2>4. \A u \in Threads : u # t => g[u] = f[u]
    BY <1>4
  <2> HIDE DEF f, g
  <2>5. f[t] \in 0 .. NumCh /\ g[t] \in 0 .. NumCh
    BY <2>2, <2>3, EdmaAssumption
  <2>6. /\ Cardinality(F) \in Nat /\ Cardinality(G) \in Nat
        /\ Cardinality(G) = Cardinality(F) + g[t] - f[t]
    BY <2>3, <2>4, <2>5, TakenMoves, ZenonT(60)
  <2>7. k + Cardinality(F) = Cardinality(WithKbuf(p)) /\ sema'[p] = k + s
    BY <1>2, <2>1, <2>2 DEF EInv, Conserved
  <2>8. (k + s) + Cardinality(G) = Cardinality(WithKbuf(p))
    BY <2>2, <2>3, <2>6, <2>7
  <2> QED
    BY <2>1, <2>7, <2>8
<1>8. PoolInv' /\ Empty(t)'
  BY <1>1, <1>2, PoolKept DEF EInv, chanVars, Empty
<1>9. CASE /\ res[t] = "again"
           /\ \E path \in OtherPaths(job[t]) : job' = [job EXCEPT ![t].path = path]
           /\ res' = [res EXCEPT ![t] = "ok"] /\ pc' = [pc EXCEPT ![t] = "down"]
  <2>1. PICK path \in OtherPaths(job[t]) : job' = [job EXCEPT ![t].path = path]
    BY <1>9
  <2>2. job[t] \in JobType /\ job[t].dir # "p2p"
    BY <1>1, <1>9 DEF ETypes, Local
  <2>3. [job[t] EXCEPT !.path = path] \in JobType
    BY <2>2, EdmaAssumption DEF OtherPaths, JobType
  <2>4. job' \in [Threads -> JobType] /\ \A u \in Threads : u # t => job'[u] = job[u]
    BY <1>1, <2>1, <2>3 DEF ETypes
  <2>5. ETypes' /\ OnlyCopy(t) /\ pc'[t] = "down" /\ res'[t] = "ok"
    BY <1>1, <1>2, <1>4, <1>6, <1>9, <2>4 DEF ETypes, OnlyCopy, Labels, chanVars, resetVars
  <2>6. MustGot(t)'
    <3>1. PICK len \in 1 .. 3 : len = Len(SemaPlan(job'[t]))
      BY <2>4, PlanTyped
    <3>2. 0 < len /\ tried'[t] = 0
      BY <1>1, <1>2
    <3> QED
      BY <3>1, <3>2 DEF MustGot
  <2>7. Local(t)'
    BY <1>8, <2>5, <2>6, EmptyHolds DEF Local
  <2> QED
    BY <1>7, <1>8, <2>5, <2>7, OneCopy
<1>10. CASE res[t] # "again" /\ pc' = [pc EXCEPT ![t] = "ret"] /\ UNCHANGED <<job, res>>
  <2>1. ETypes' /\ OnlyCopy(t) /\ pc'[t] = "ret" /\ res'[t] # "again" /\ tried'[t] = 0
    BY <1>1, <1>2, <1>4, <1>6, <1>10 DEF ETypes, OnlyCopy, Labels, chanVars, resetVars
  <2>2. Local(t)'
    BY <1>8, <2>1, EmptyHolds DEF Local
  <2> QED
    BY <1>7, <1>8, <2>1, <2>2, OneCopy
<1> QED
  BY <1>9, <1>10 DEF Up

LEMMA ReturnKeeps ==
  ASSUME EInv, NEW t \in Threads, Return(t)
  PROVE  EInv'
<1>1. ETypes /\ Local(t) /\ Empty(t) /\ tried[t] = 0
  BY DEF EInv, Local, Return
<1>2. /\ pc' = [pc EXCEPT ![t] = "idle"] /\ job' = [job EXCEPT ![t] = NoJob]
      /\ res' = [res EXCEPT ![t] = "ok"]
      /\ UNCHANGED <<poolVars, chanVars, mix, sems, tried, held, at, flight, mapped, resetVars>>
  BY DEF Return
<1>3. NoJob \in JobType
  BY EdmaAssumption DEF NoJob, JobType
<1>4. ETypes' /\ OnlyCopy(t) /\ pc'[t] = "idle" /\ res'[t] = "ok" /\ tried'[t] = 0
  BY <1>1, <1>2, <1>3 DEF ETypes, OnlyCopy, Labels, poolVars, chanVars, resetVars
<1>5. PoolInv' /\ Conserved' /\ Empty(t)'
  BY <1>1, <1>2, PoolKept, CountsKept DEF EInv, poolVars, chanVars, Empty
<1>6. Local(t)'
  BY <1>4, <1>5, EmptyHolds DEF Local
<1> QED
  BY <1>4, <1>5, <1>6, OneCopy

-----------------------------------------------------------------------------
(* The engines and the reset. *)

LEMMA ChannelStepKeeps ==
  ASSUME EInv, UNCHANGED <<poolVars, lock, pc, ownVars, at, flight, mapped, res>>, ETypes'
  PROVE  EInv'
<1>1. PoolInv' /\ Conserved'
  BY PoolKept, CountsKept DEF EInv, poolVars, ownVars
<1>2. \A u \in Threads : Local(u)'
  BY LocalKept DEF EInv, ownVars
<1> QED
  BY <1>1, <1>2 DEF EInv

LEMMA EngineKeeps ==
  ASSUME EInv, NEW x \in Channels, EngineStep(x)
  PROVE  EInv'
<1>1. UNCHANGED <<poolVars, enable, lock, pc, ownVars, at, flight, mapped, res, resetVars>>
  BY DEF EngineStep, EngineDone, EngineFails, moveVars
<1>2. \E e \in {"idle", "done", "abort"} : engine' = [engine EXCEPT ![x] = e]
  BY DEF EngineStep, EngineDone, EngineFails
<1>3. ETypes'
  BY <1>1, <1>2 DEF EInv, ETypes, poolVars, ownVars, resetVars
<1> QED
  BY <1>1, <1>3, ChannelStepKeeps

LEMMA ResetKeeps ==
  ASSUME EInv, ResetBegin \/ ResetStep
  PROVE  EInv'
<1>1. ETypes /\ 1 \in 1 .. (2 * NumCh)
  BY EdmaAssumption DEF EInv
<1>2. UNCHANGED <<poolVars, lock, pc, ownVars, moveVars>>
  BY DEF ResetBegin, ResetStep, ResetDisable, ResetChip, ResetEnd, chanVars
<1>3. CASE ResetBegin
  BY <1>1, <1>2, <1>3, ChannelStepKeeps
     DEF ResetBegin, ETypes, poolVars, chanVars, ownVars, moveVars
<1>4. CASE ResetDisable
  <2>1. enable' \in [Channels -> BOOLEAN]
    BY <1>1, <1>4 DEF ResetDisable, ETypes
  <2>2. resetAt' \in 1 .. (2 * NumCh)
    BY <1>1, <1>4, EdmaAssumption DEF ResetDisable, ETypes
  <2> QED
    BY <1>1, <1>2, <1>4, <2>1, <2>2, ChannelStepKeeps
       DEF ResetDisable, ETypes, poolVars, ownVars, moveVars
<1>5. CASE ResetChip
  BY <1>1, <1>2, <1>5, ChannelStepKeeps DEF ResetChip, ETypes, poolVars, ownVars, moveVars
<1>6. CASE ResetEnd
  BY <1>1, <1>2, <1>6, ChannelStepKeeps DEF ResetEnd, ETypes, poolVars, ownVars, moveVars
<1> QED
  BY <1>3, <1>4, <1>5, <1>6 DEF ResetStep

-----------------------------------------------------------------------------
LEMMA Inductive ==
  ASSUME EInv, [Next]_edmaVars
  PROVE  EInv'
<1>1. ASSUME NEW t \in Threads, Call(t) \/ Acquire(t) \/ Move(t) \/ Release(t) PROVE EInv'
  <2>1. CASE Acquire(t)
    BY <2>1, DownKeeps, DownFailsKeeps, GetNoneKeeps, GetKeeps, BeginKeeps, LockKeeps DEF Acquire
  <2>2. CASE Release(t)
    BY <2>2, PutKeeps, UpKeeps, ReturnKeeps DEF Release
  <2> QED
    BY <1>1, <2>1, <2>2, CallKeeps, MoveStepKeeps
<1>2. CASE UNCHANGED edmaVars
  <2>1. ETypes'
    BY <1>2 DEF EInv, ETypes, edmaVars, poolVars, chanVars, ownVars, moveVars, resetVars
  <2> QED
    BY <1>2, <2>1, ChannelStepKeeps DEF edmaVars, chanVars, moveVars
<1> QED
  BY <1>1, <1>2, EngineKeeps, ResetKeeps DEF Next

LEMMA Invariant == Spec => []EInv
<1>1. Init => EInv
  BY EInit
<1>2. EInv /\ [Next]_edmaVars => EInv'
  BY Inductive
<1> QED
  BY <1>1, <1>2, PTL DEF Spec

(* Every variable keeps its type, and neither semaphore of a power domain  *)
(* ever exceeds its channels, whatever ways copies take and fail on.       *)
THEOREM EdmaTypes == Spec => []EdmaTypeOK
<1>1. ASSUME EInv PROVE EdmaTypeOK
  <2>1. ETypes /\ Conserved
    BY <1>1 DEF EInv
  <2>2. sema \in [Pools -> 0 .. NumCh]
    <3> SUFFICES ASSUME NEW p \in Pools PROVE sema[p] \in 0 .. NumCh
      BY <2>1 DEF ETypes
    <3>1. IsFiniteSet(Taken(p))
      <4>1. IsFiniteSet(Threads \X Ch)
        BY PairsFinite
      <4>2. Taken(p) \in SUBSET (Threads \X Ch)
        BY DEF Taken
      <4> QED
        BY <4>1, <4>2, FS_Subset
    <3>2. Cardinality(Taken(p)) \in Nat
      BY <3>1, FS_CardinalityType
    <3>3. sema[p] \in Nat /\ sema[p] + Cardinality(Taken(p)) = Cardinality(WithKbuf(p))
      BY <2>1 DEF ETypes, Conserved
    <3> QED
      BY <3>2, <3>3, Semaphores, EdmaAssumption
  <2>3. \A t \in Threads : Own(t) \subseteq Channels
    <3>1. "wr" \in Pools
      BY DEF Pools
    <3> QED
      BY <2>1, <3>1, HeldTyped
  <2> QED
    BY <2>1, <2>2, <2>3 DEF ETypes, EdmaTypeOK
<1> QED
  BY <1>1, Invariant, PTL

(* A channel has one user: two copies never hold the same channel, the bit *)
(* of a held one stays set, and nobody else takes its lock, however many   *)
(* copies of whatever paths meet, and through resets.                      *)
THEOREM OneUser == Spec => []ChannelsExclusive
<1>1. ASSUME EInv PROVE ChannelsExclusive
  <2> SUFFICES ASSUME NEW t \in Threads, NEW x \in Own(t)
               PROVE  /\ x[2] \in used[x[1]] /\ lock[x] \in {t, Nothing}
                      /\ \A u \in Threads \ {t} : x \notin Own(u)
    BY DEF ChannelsExclusive
  <2>1. ETypes /\ BitsSet /\ Disjoint /\ LockHeld
    BY <1>1 DEF EInv, PoolInv
  <2>2. x \in Channels
    <3>1. "wr" \in Pools
      BY DEF Pools
    <3> QED
      BY <2>1, <3>1, HeldTyped
  <2>3. lock[x] \in Threads \cup {Nothing}
    BY <2>1, <2>2 DEF ETypes
  <2>4. \A u \in Threads \ {t} : x \notin Own(u) /\ lock[x] # u
    BY <2>1, <2>2 DEF Disjoint, LockHeld
  <2> QED
    BY <2>1, <2>3, <2>4 DEF BitsSet
<1> QED
  BY <1>1, Invariant, PTL

(* No count of a semaphore is lost or made up on any way out of a copy,    *)
(* and no copy holds more channels of a pool than counts.                  *)
THEOREM NoCountLost == Spec => []CountsConserved
<1>1. ASSUME EInv PROVE CountsConserved
  <2>1. \A t \in Threads : Counted(t)
    BY <1>1 DEF EInv, Local
  <2> QED
    BY <1>1, <2>1 DEF EInv, Conserved, Counted, CountsConserved
<1> QED
  BY <1>1, Invariant, PTL

-----------------------------------------------------------------------------
(***************************************************************************)
(* The data of the copies over PCIe, for any numbers of threads, channels  *)
(* and chunks, any mix of paths, and resets at any moment: a copy that     *)
(* reports success has moved every chunk, and outside a reset no engine    *)
(* works for nobody.                                                       *)
(*                                                                         *)
(* Where each step of a path stands in its script is a linear function of  *)
(* the chunk (Place, ScriptPlaces).  The invariant follows the next step q *)
(* of a copy: what is in flight, mapped or in a buffer is what lies        *)
(* between the two places that begin and end it (Moves).  It survives the  *)
(* steps of pipelines because the chunks that need a buffer at the same    *)
(* time are neighbours (NeighboursOnly) and two buffers that take turns    *)
(* keep neighbours apart (BuffersApart), and the steps of other copies and *)
(* of engines because nobody shares a channel (Disjoint, EnginesApart).    *)
(***************************************************************************)
(* The pools of a copy, and the operations of its path. *)
Uses(j, p) == j.dir # "p2p" => p = HostPool(j)

Ops(j) ==
  CASE Direct(j)      -> {"map", "start", "wait", "unmap"}
    [] j.dir = "p2p"  -> {"start", "wait"}
    [] ~Direct(j) /\ j.dir = "d2h" -> {"start", "wait", "out"}
    [] ~Direct(j) /\ j.dir = "h2d" -> {"fill", "start", "wait"}

(* Where the script of a path has the step op of chunk c. *)
PeerPlace(twin, op, p, c) ==
  IF p = "wr" THEN IF op = "wait" THEN 4 * c + 1 ELSE IF twin THEN 4 * c - 1 ELSE 4 * c
              ELSE IF op = "start" THEN 4 * c + 2 ELSE IF twin THEN 4 * c + 4 ELSE 4 * c + 3

Place(j, twin, op, p, c) ==
  CASE Direct(j) ->
         IF op = "map" THEN 4 * c - 3 ELSE IF op = "start" THEN 4 * c - 2
         ELSE IF op = "wait" THEN 4 * c - 1 ELSE 4 * c
    [] j.path = "serial" /\ j.dir = "d2h" ->
         IF op = "start" THEN 3 * c - 2 ELSE IF op = "wait" THEN 3 * c - 1 ELSE 3 * c
    [] j.path = "serial" /\ j.dir = "h2d" ->
         IF op = "fill" THEN 3 * c - 2 ELSE IF op = "start" THEN 3 * c - 1 ELSE 3 * c
    [] j.path = "single" ->
         IF op = "start" THEN 3 * c - 1 ELSE IF op = "wait" THEN 3 * c + 1 ELSE 3 * c + 3
    [] j.path = "conc" ->
         IF op = "start" THEN 3 * c - 2 ELSE IF op = "wait" THEN 3 * c + 2 ELSE 3 * c + 3
    [] j.path = "overlap" ->
         IF op = "fill" THEN 3 * c - 2 ELSE IF op = "start" THEN 3 * c ELSE 3 * c + 2
    [] j.dir = "p2p" -> PeerPlace(twin, op, p, c)

LEMMA NextOther ==
  ASSUME NEW n \in Nat, n >= 2, NEW a \in Nat
  PROVE  a % n # (a + 1) % n
<1>1. PICK d \in Int, e \in Int, r \in Int, s \in Int :
        /\ d = a \div n /\ e = (a + 1) \div n /\ r = a % n /\ s = (a + 1) % n
        /\ a = n * d + r /\ a + 1 = n * e + s
  OBVIOUS
<1> QED
  <2> SUFFICES ASSUME r = s PROVE FALSE
    BY <1>1
  <2>1. n * (e - d) = 1
    BY <1>1
  <2>2. CASE e - d >= 1
    BY <2>1, <2>2
  <2>3. CASE e - d <= 0
    BY <2>1, <2>3
  <2> QED
    BY <2>2, <2>3

LEMMA Dividing ==
  ASSUME NEW n \in Nat, n = 3 \/ n = 4, NEW a \in Nat
  PROVE  \E d \in Nat, r \in 0 .. (n - 1) : d = a \div n /\ r = a % n /\ a = n * d + r
<1>1. CASE n = 3
  BY <1>1
<1>2. CASE n = 4
  BY <1>2
<1> QED
  BY <1>1, <1>2

(* Step m of turn i, when turns have len steps. *)
Spot(len, i, m) == len * (i - 1) + m

(* Every step of a turn is where Place says. *)
LEMMA TurnPlaces ==
  ASSUME NEW j \in JobType, NEW twin \in BOOLEAN, NEW i \in Nat, NEW s,
         NEW len \in Nat, NEW m \in Nat
  PROVE  len = Len(Turn(j, twin, 1)) /\ m \in 1 .. len /\ s = Turn(j, twin, i)[m]
         =>
         /\ s.op \in Ops(j) /\ Uses(j, s.pool) /\ s.pool \in Pools
         /\ s = Step(s.op, s.pool, s.chunk)
         /\ Place(j, twin, s.op, s.pool, s.chunk) = Spot(len, i, m)
<1>a. SUFFICES ASSUME len = Len(Turn(j, twin, 1)), m \in 1 .. len, s = Turn(j, twin, i)[m]
      PROVE  /\ s.op \in Ops(j) /\ Uses(j, s.pool) /\ s.pool \in Pools
             /\ s = Step(s.op, s.pool, s.chunk)
             /\ Place(j, twin, s.op, s.pool, s.chunk) = Spot(len, i, m)
  OBVIOUS
<1> DEFINE Found(op, p, c) == /\ op \in Ops(j) /\ p \in Pools /\ Uses(j, p)
                              /\ s = Step(op, p, c)
                              /\ Place(j, twin, op, p, c) = Spot(len, i, m)
<1>b. SUFFICES \E op, p, c : Found(op, p, c)
  <2>1. \A op, p, c : Step(op, p, c).op = op /\ Step(op, p, c).pool = p /\ Step(op, p, c).chunk = c
    BY DEF Step
  <2>2. PICK op, p, c : Found(op, p, c)
    BY <1>b
  <2>3. s.op = op /\ s.pool = p /\ s.chunk = c
    BY <2>1, <2>2
  <2> QED
    BY <2>2, <2>3, Zenon
<1>1. CASE Direct(j)
  <2>0. PICK h \in Pools : h = HostPool(j) /\ Uses(j, h)
    BY <1>1, JobFields DEF HostPool, Pools, Uses, Direct
  <2>1. Turn(j, twin, i) = DirectTurn(h, i) /\ Turn(j, twin, 1) = DirectTurn(h, 1)
    BY <1>1, <2>0, JobFields DEF Turn, Direct
  <2>2. len = 4 /\ (m = 1 \/ m = 2 \/ m = 3 \/ m = 4)
    <3>1. Len(DirectTurn(h, 1)) = 4
      BY DEF DirectTurn
    <3>2. len = 4
      BY <1>a, <2>1, <3>1, Zenon
    <3>3. m \in 1 .. 4
      BY <1>a, <3>2, Zenon
    <3> QED
      BY <3>2, <3>3
  <2>3. {"map", "start", "unmap", "wait"} \subseteq Ops(j)
    BY <1>1, JobFields DEF Ops, Uses, Pools, HostPool, Direct
  <2>4. \A op, p : \A c \in Int : Place(j, twin, op, p, c)
                 = IF op = "map" THEN 4 * c - 3 ELSE IF op = "start" THEN 4 * c - 2
                         ELSE IF op = "wait" THEN 4 * c - 1 ELSE 4 * c
    BY <1>1, JobFields DEF Place, Direct
  <2>5. CASE m = 1
    <3>1. s = Step("map", h, i)
      BY <1>1, <1>a, <2>1, <2>5 DEF DirectTurn, Map
    <3>2. Place(j, twin, "map", h, i) = Spot(len, i, m)
      BY <2>2, <2>4, <2>5 DEF Spot
    <3>3. Found("map", h, i)
      BY <2>0, <2>3, <3>1, <3>2
    <3> QED
      BY <3>3
  <2>6. CASE m = 2
    <3>1. s = Step("start", h, i)
      BY <1>1, <1>a, <2>1, <2>6 DEF DirectTurn, Start
    <3>2. Place(j, twin, "start", h, i) = Spot(len, i, m)
      BY <2>2, <2>4, <2>6 DEF Spot
    <3>3. Found("start", h, i)
      BY <2>0, <2>3, <3>1, <3>2
    <3> QED
      BY <3>3
  <2>7. CASE m = 3
    <3>1. s = Step("wait", h, i)
      BY <1>1, <1>a, <2>1, <2>7 DEF DirectTurn, Wait
    <3>2. Place(j, twin, "wait", h, i) = Spot(len, i, m)
      BY <2>2, <2>4, <2>7 DEF Spot
    <3>3. Found("wait", h, i)
      BY <2>0, <2>3, <3>1, <3>2
    <3> QED
      BY <3>3
  <2>8. CASE m = 4
    <3>1. s = Step("unmap", h, i)
      BY <1>1, <1>a, <2>1, <2>8 DEF DirectTurn, Unmap
    <3>2. Place(j, twin, "unmap", h, i) = Spot(len, i, m)
      BY <2>2, <2>4, <2>8 DEF Spot
    <3>3. Found("unmap", h, i)
      BY <2>0, <2>3, <3>1, <3>2
    <3> QED
      BY <3>3
  <2> QED
    BY <2>2, <2>5, <2>6, <2>7, <2>8
<1>2. CASE j.path = "serial" /\ j.dir = "d2h"
  <2>1. Turn(j, twin, i) = SerialOutTurn(i) /\ Turn(j, twin, 1) = SerialOutTurn(1)
    BY <1>2, JobFields DEF Turn, Direct
  <2>2. len = 3 /\ (m = 1 \/ m = 2 \/ m = 3)
    <3>1. Len(SerialOutTurn(1)) = 3
      BY DEF SerialOutTurn
    <3>2. len = 3
      BY <1>a, <2>1, <3>1, Zenon
    <3>3. m \in 1 .. 3
      BY <1>a, <3>2, Zenon
    <3> QED
      BY <3>2, <3>3
  <2>3. /\ {"out", "start", "wait"} \subseteq Ops(j)
        /\ "wr" \in Pools /\ Uses(j, "wr")
    BY <1>2, JobFields DEF Ops, Uses, Pools, HostPool, Direct
  <2>4. \A op, p : \A c \in Int : Place(j, twin, op, p, c)
                 = IF op = "start" THEN 3 * c - 2 ELSE IF op = "wait" THEN 3 * c - 1 ELSE 3 * c
    BY <1>2, JobFields DEF Place, Direct
  <2>5. CASE m = 1
    <3>1. s = Step("start", "wr", i)
      BY <1>2, <1>a, <2>1, <2>5 DEF SerialOutTurn, Start
    <3>2. Place(j, twin, "start", "wr", i) = Spot(len, i, m)
      BY <2>2, <2>4, <2>5 DEF Spot
    <3>3. Found("start", "wr", i)
      BY <2>3, <3>1, <3>2
    <3> QED
      BY <3>3
  <2>6. CASE m = 2
    <3>1. s = Step("wait", "wr", i)
      BY <1>2, <1>a, <2>1, <2>6 DEF SerialOutTurn, Wait
    <3>2. Place(j, twin, "wait", "wr", i) = Spot(len, i, m)
      BY <2>2, <2>4, <2>6 DEF Spot
    <3>3. Found("wait", "wr", i)
      BY <2>3, <3>1, <3>2
    <3> QED
      BY <3>3
  <2>7. CASE m = 3
    <3>1. s = Step("out", "wr", i)
      BY <1>2, <1>a, <2>1, <2>7 DEF SerialOutTurn, Out
    <3>2. Place(j, twin, "out", "wr", i) = Spot(len, i, m)
      BY <2>2, <2>4, <2>7 DEF Spot
    <3>3. Found("out", "wr", i)
      BY <2>3, <3>1, <3>2
    <3> QED
      BY <3>3
  <2> QED
    BY <2>2, <2>5, <2>6, <2>7
<1>3. CASE j.path = "serial" /\ j.dir = "h2d"
  <2>1. Turn(j, twin, i) = SerialInTurn(i) /\ Turn(j, twin, 1) = SerialInTurn(1)
    BY <1>3, JobFields DEF Turn, Direct
  <2>2. len = 3 /\ (m = 1 \/ m = 2 \/ m = 3)
    <3>1. Len(SerialInTurn(1)) = 3
      BY DEF SerialInTurn
    <3>2. len = 3
      BY <1>a, <2>1, <3>1, Zenon
    <3>3. m \in 1 .. 3
      BY <1>a, <3>2, Zenon
    <3> QED
      BY <3>2, <3>3
  <2>3. /\ {"fill", "start", "wait"} \subseteq Ops(j)
        /\ "rd" \in Pools /\ Uses(j, "rd")
    BY <1>3, JobFields DEF Ops, Uses, Pools, HostPool, Direct
  <2>4. \A op, p : \A c \in Int : Place(j, twin, op, p, c)
                 = IF op = "fill" THEN 3 * c - 2 ELSE IF op = "start" THEN 3 * c - 1 ELSE 3 * c
    BY <1>3, JobFields DEF Place, Direct
  <2>5. CASE m = 1
    <3>1. s = Step("fill", "rd", i)
      BY <1>3, <1>a, <2>1, <2>5 DEF SerialInTurn, FillBuf
    <3>2. Place(j, twin, "fill", "rd", i) = Spot(len, i, m)
      BY <2>2, <2>4, <2>5 DEF Spot
    <3>3. Found("fill", "rd", i)
      BY <2>3, <3>1, <3>2
    <3> QED
      BY <3>3
  <2>6. CASE m = 2
    <3>1. s = Step("start", "rd", i)
      BY <1>3, <1>a, <2>1, <2>6 DEF SerialInTurn, Start
    <3>2. Place(j, twin, "start", "rd", i) = Spot(len, i, m)
      BY <2>2, <2>4, <2>6 DEF Spot
    <3>3. Found("start", "rd", i)
      BY <2>3, <3>1, <3>2
    <3> QED
      BY <3>3
  <2>7. CASE m = 3
    <3>1. s = Step("wait", "rd", i)
      BY <1>3, <1>a, <2>1, <2>7 DEF SerialInTurn, Wait
    <3>2. Place(j, twin, "wait", "rd", i) = Spot(len, i, m)
      BY <2>2, <2>4, <2>7 DEF Spot
    <3>3. Found("wait", "rd", i)
      BY <2>3, <3>1, <3>2
    <3> QED
      BY <3>3
  <2> QED
    BY <2>2, <2>5, <2>6, <2>7
<1>4. CASE j.path = "single"
  <2>1. Turn(j, twin, i) = SingleIssueTurn(i) /\ Turn(j, twin, 1) = SingleIssueTurn(1)
    BY <1>4, JobFields DEF Turn, Direct
  <2>2. len = 3 /\ (m = 1 \/ m = 2 \/ m = 3)
    <3>1. Len(SingleIssueTurn(1)) = 3
      BY DEF SingleIssueTurn
    <3>2. len = 3
      BY <1>a, <2>1, <3>1, Zenon
    <3>3. m \in 1 .. 3
      BY <1>a, <3>2, Zenon
    <3> QED
      BY <3>2, <3>3
  <2>3. /\ {"out", "start", "wait"} \subseteq Ops(j)
        /\ "wr" \in Pools /\ Uses(j, "wr")
    BY <1>4, JobFields DEF Ops, Uses, Pools, HostPool, Direct
  <2>4. \A op, p : \A c \in Int : Place(j, twin, op, p, c)
                 = IF op = "start" THEN 3 * c - 1 ELSE IF op = "wait" THEN 3 * c + 1 ELSE 3 * c + 3
    BY <1>4, JobFields DEF Place, Direct
  <2>5. CASE m = 1
    <3>1. s = Step("wait", "wr", i - 1)
      BY <1>4, <1>a, <2>1, <2>5 DEF SingleIssueTurn, Wait
    <3>2. Place(j, twin, "wait", "wr", i - 1) = Spot(len, i, m)
      BY <2>2, <2>4, <2>5 DEF Spot
    <3>3. Found("wait", "wr", i - 1)
      BY <2>3, <3>1, <3>2
    <3> QED
      BY <3>3
  <2>6. CASE m = 2
    <3>1. s = Step("start", "wr", i)
      BY <1>4, <1>a, <2>1, <2>6 DEF SingleIssueTurn, Start
    <3>2. Place(j, twin, "start", "wr", i) = Spot(len, i, m)
      BY <2>2, <2>4, <2>6 DEF Spot
    <3>3. Found("start", "wr", i)
      BY <2>3, <3>1, <3>2
    <3> QED
      BY <3>3
  <2>7. CASE m = 3
    <3>1. s = Step("out", "wr", i - 1)
      BY <1>4, <1>a, <2>1, <2>7 DEF SingleIssueTurn, Out
    <3>2. Place(j, twin, "out", "wr", i - 1) = Spot(len, i, m)
      BY <2>2, <2>4, <2>7 DEF Spot
    <3>3. Found("out", "wr", i - 1)
      BY <2>3, <3>1, <3>2
    <3> QED
      BY <3>3
  <2> QED
    BY <2>2, <2>5, <2>6, <2>7
<1>5. CASE j.path = "conc"
  <2>1. Turn(j, twin, i) = ConcurrentTurn(i) /\ Turn(j, twin, 1) = ConcurrentTurn(1)
    BY <1>5, JobFields DEF Turn, Direct
  <2>2. len = 3 /\ (m = 1 \/ m = 2 \/ m = 3)
    <3>1. Len(ConcurrentTurn(1)) = 3
      BY DEF ConcurrentTurn
    <3>2. len = 3
      BY <1>a, <2>1, <3>1, Zenon
    <3>3. m \in 1 .. 3
      BY <1>a, <3>2, Zenon
    <3> QED
      BY <3>2, <3>3
  <2>3. /\ {"out", "start", "wait"} \subseteq Ops(j)
        /\ "wr" \in Pools /\ Uses(j, "wr")
    BY <1>5, JobFields DEF Ops, Uses, Pools, HostPool, Direct
  <2>4. \A op, p : \A c \in Int : Place(j, twin, op, p, c)
                 = IF op = "start" THEN 3 * c - 2 ELSE IF op = "wait" THEN 3 * c + 2 ELSE 3 * c + 3
    BY <1>5, JobFields DEF Place, Direct
  <2>5. CASE m = 1
    <3>1. s = Step("start", "wr", i)
      BY <1>5, <1>a, <2>1, <2>5 DEF ConcurrentTurn, Start
    <3>2. Place(j, twin, "start", "wr", i) = Spot(len, i, m)
      BY <2>2, <2>4, <2>5 DEF Spot
    <3>3. Found("start", "wr", i)
      BY <2>3, <3>1, <3>2
    <3> QED
      BY <3>3
  <2>6. CASE m = 2
    <3>1. s = Step("wait", "wr", i - 1)
      BY <1>5, <1>a, <2>1, <2>6 DEF ConcurrentTurn, Wait
    <3>2. Place(j, twin, "wait", "wr", i - 1) = Spot(len, i, m)
      BY <2>2, <2>4, <2>6 DEF Spot
    <3>3. Found("wait", "wr", i - 1)
      BY <2>3, <3>1, <3>2
    <3> QED
      BY <3>3
  <2>7. CASE m = 3
    <3>1. s = Step("out", "wr", i - 1)
      BY <1>5, <1>a, <2>1, <2>7 DEF ConcurrentTurn, Out
    <3>2. Place(j, twin, "out", "wr", i - 1) = Spot(len, i, m)
      BY <2>2, <2>4, <2>7 DEF Spot
    <3>3. Found("out", "wr", i - 1)
      BY <2>3, <3>1, <3>2
    <3> QED
      BY <3>3
  <2> QED
    BY <2>2, <2>5, <2>6, <2>7
<1>6. CASE j.path = "overlap"
  <2>1. Turn(j, twin, i) = OverlapTurn(i) /\ Turn(j, twin, 1) = OverlapTurn(1)
    BY <1>6, JobFields DEF Turn, Direct
  <2>2. len = 3 /\ (m = 1 \/ m = 2 \/ m = 3)
    <3>1. Len(OverlapTurn(1)) = 3
      BY DEF OverlapTurn
    <3>2. len = 3
      BY <1>a, <2>1, <3>1, Zenon
    <3>3. m \in 1 .. 3
      BY <1>a, <3>2, Zenon
    <3> QED
      BY <3>2, <3>3
  <2>3. /\ {"fill", "start", "wait"} \subseteq Ops(j)
        /\ "rd" \in Pools /\ Uses(j, "rd")
    BY <1>6, JobFields DEF Ops, Uses, Pools, HostPool, Direct
  <2>4. \A op, p : \A c \in Int : Place(j, twin, op, p, c)
                 = IF op = "fill" THEN 3 * c - 2 ELSE IF op = "start" THEN 3 * c ELSE 3 * c + 2
    BY <1>6, JobFields DEF Place, Direct
  <2>5. CASE m = 1
    <3>1. s = Step("fill", "rd", i)
      BY <1>6, <1>a, <2>1, <2>5 DEF OverlapTurn, FillBuf
    <3>2. Place(j, twin, "fill", "rd", i) = Spot(len, i, m)
      BY <2>2, <2>4, <2>5 DEF Spot
    <3>3. Found("fill", "rd", i)
      BY <2>3, <3>1, <3>2
    <3> QED
      BY <3>3
  <2>6. CASE m = 2
    <3>1. s = Step("wait", "rd", i - 1)
      BY <1>6, <1>a, <2>1, <2>6 DEF OverlapTurn, Wait
    <3>2. Place(j, twin, "wait", "rd", i - 1) = Spot(len, i, m)
      BY <2>2, <2>4, <2>6 DEF Spot
    <3>3. Found("wait", "rd", i - 1)
      BY <2>3, <3>1, <3>2
    <3> QED
      BY <3>3
  <2>7. CASE m = 3
    <3>1. s = Step("start", "rd", i)
      BY <1>6, <1>a, <2>1, <2>7 DEF OverlapTurn, Start
    <3>2. Place(j, twin, "start", "rd", i) = Spot(len, i, m)
      BY <2>2, <2>4, <2>7 DEF Spot
    <3>3. Found("start", "rd", i)
      BY <2>3, <3>1, <3>2
    <3> QED
      BY <3>3
  <2> QED
    BY <2>2, <2>5, <2>6, <2>7
<1>7. CASE j.path \in {"srcfirst", "dstfirst"} /\ twin = TRUE
  <2>1. Turn(j, twin, i) = PeerTurn(twin, i) /\ Turn(j, twin, 1) = PeerTurn(twin, 1)
    BY <1>7, JobFields DEF Turn, Direct
  <2>2. len = 4 /\ (m = 1 \/ m = 2 \/ m = 3 \/ m = 4)
    <3>1. Len(PeerTurn(twin, 1)) = 4
      BY DEF PeerTurn
    <3>2. len = 4
      BY <1>a, <2>1, <3>1, Zenon
    <3>3. m \in 1 .. 4
      BY <1>a, <3>2, Zenon
    <3> QED
      BY <3>2, <3>3
  <2>3. /\ {"start", "wait"} \subseteq Ops(j)
        /\ "rd" \in Pools /\ Uses(j, "rd") /\ "wr" \in Pools /\ Uses(j, "wr")
    BY <1>7, JobFields DEF Ops, Uses, Pools, HostPool, Direct
  <2>4. \A op, p : \A c \in Int : Place(j, twin, op, p, c)
                 = IF p = "wr" THEN IF op = "wait" THEN 4 * c + 1 ELSE 4 * c - 1
                                     ELSE IF op = "start" THEN 4 * c + 2 ELSE 4 * c + 4
    BY <1>7, JobFields DEF Place, Direct, PeerPlace
  <2>5. CASE m = 1
    <3>1. s = Step("wait", "wr", i - 1)
      BY <1>7, <1>a, <2>1, <2>5 DEF PeerTurn, Wait
    <3>2. Place(j, twin, "wait", "wr", i - 1) = Spot(len, i, m)
      BY <2>2, <2>4, <2>5 DEF Spot
    <3>3. Found("wait", "wr", i - 1)
      BY <2>3, <3>1, <3>2
    <3> QED
      BY <3>3
  <2>6. CASE m = 2
    <3>1. s = Step("start", "rd", i - 1)
      BY <1>7, <1>a, <2>1, <2>6 DEF PeerTurn, Start
    <3>2. Place(j, twin, "start", "rd", i - 1) = Spot(len, i, m)
      BY <2>2, <2>4, <2>6 DEF Spot
    <3>3. Found("start", "rd", i - 1)
      BY <2>3, <3>1, <3>2
    <3> QED
      BY <3>3
  <2>7. CASE m = 3
    <3>1. s = Step("start", "wr", i)
      BY <1>7, <1>a, <2>1, <2>7 DEF PeerTurn, Start
    <3>2. Place(j, twin, "start", "wr", i) = Spot(len, i, m)
      BY <2>2, <2>4, <2>7 DEF Spot
    <3>3. Found("start", "wr", i)
      BY <2>3, <3>1, <3>2
    <3> QED
      BY <3>3
  <2>8. CASE m = 4
    <3>1. s = Step("wait", "rd", i - 1)
      BY <1>7, <1>a, <2>1, <2>8 DEF PeerTurn, Wait
    <3>2. Place(j, twin, "wait", "rd", i - 1) = Spot(len, i, m)
      BY <2>2, <2>4, <2>8 DEF Spot
    <3>3. Found("wait", "rd", i - 1)
      BY <2>3, <3>1, <3>2
    <3> QED
      BY <3>3
  <2> QED
    BY <2>2, <2>5, <2>6, <2>7, <2>8
<1>8. CASE j.path \in {"srcfirst", "dstfirst"} /\ twin = FALSE
  <2>1. Turn(j, twin, i) = PeerTurn(twin, i) /\ Turn(j, twin, 1) = PeerTurn(twin, 1)
    BY <1>8, JobFields DEF Turn, Direct
  <2>2. len = 4 /\ (m = 1 \/ m = 2 \/ m = 3 \/ m = 4)
    <3>1. Len(PeerTurn(twin, 1)) = 4
      BY DEF PeerTurn
    <3>2. len = 4
      BY <1>a, <2>1, <3>1, Zenon
    <3>3. m \in 1 .. 4
      BY <1>a, <3>2, Zenon
    <3> QED
      BY <3>2, <3>3
  <2>3. /\ {"start", "wait"} \subseteq Ops(j)
        /\ "rd" \in Pools /\ Uses(j, "rd") /\ "wr" \in Pools /\ Uses(j, "wr")
    BY <1>8, JobFields DEF Ops, Uses, Pools, HostPool, Direct
  <2>4. \A op, p : \A c \in Int : Place(j, twin, op, p, c)
                 = IF p = "wr" THEN IF op = "wait" THEN 4 * c + 1 ELSE 4 * c 
                                     ELSE IF op = "start" THEN 4 * c + 2 ELSE 4 * c + 3
    BY <1>8, JobFields DEF Place, Direct, PeerPlace
  <2>5. CASE m = 1
    <3>1. s = Step("wait", "wr", i - 1)
      BY <1>8, <1>a, <2>1, <2>5 DEF PeerTurn, Wait
    <3>2. Place(j, twin, "wait", "wr", i - 1) = Spot(len, i, m)
      BY <2>2, <2>4, <2>5 DEF Spot
    <3>3. Found("wait", "wr", i - 1)
      BY <2>3, <3>1, <3>2
    <3> QED
      BY <3>3
  <2>6. CASE m = 2
    <3>1. s = Step("start", "rd", i - 1)
      BY <1>8, <1>a, <2>1, <2>6 DEF PeerTurn, Start
    <3>2. Place(j, twin, "start", "rd", i - 1) = Spot(len, i, m)
      BY <2>2, <2>4, <2>6 DEF Spot
    <3>3. Found("start", "rd", i - 1)
      BY <2>3, <3>1, <3>2
    <3> QED
      BY <3>3
  <2>7. CASE m = 3
    <3>1. s = Step("wait", "rd", i - 1)
      BY <1>8, <1>a, <2>1, <2>7 DEF PeerTurn, Wait
    <3>2. Place(j, twin, "wait", "rd", i - 1) = Spot(len, i, m)
      BY <2>2, <2>4, <2>7 DEF Spot
    <3>3. Found("wait", "rd", i - 1)
      BY <2>3, <3>1, <3>2
    <3> QED
      BY <3>3
  <2>8. CASE m = 4
    <3>1. s = Step("start", "wr", i)
      BY <1>8, <1>a, <2>1, <2>8 DEF PeerTurn, Start
    <3>2. Place(j, twin, "start", "wr", i) = Spot(len, i, m)
      BY <2>2, <2>4, <2>8 DEF Spot
    <3>3. Found("start", "wr", i)
      BY <2>3, <3>1, <3>2
    <3> QED
      BY <3>3
  <2> QED
    BY <2>2, <2>5, <2>6, <2>7, <2>8
<1> QED
  BY JobFields, <1>1, <1>2, <1>3, <1>4, <1>5, <1>6, <1>7, <1>8 DEF Direct

(* And every operation on a chunk is a step of its turn or of the next.    *)
LEMMA PlaceTurns ==
  ASSUME NEW j \in JobType, NEW twin \in BOOLEAN, NEW c \in Nat,
         NEW op \in Ops(j), NEW p \in Pools, Uses(j, p)
  PROVE  \E i \in {c, c + 1} : \E m \in 1 .. Len(Turn(j, twin, 1)) :
           Turn(j, twin, i)[m] = Step(op, p, c)
<1> USE JobFields DEF Turn, Step, Map, Unmap, Start, Wait, FillBuf, Out, HostPool, Pools, Direct,
                      Uses, Ops
<1>1. CASE Direct(j)
  BY <1>1 DEF DirectTurn
<1>2. CASE j.path = "serial" /\ j.dir = "d2h"
  BY <1>2 DEF SerialOutTurn
<1>3. CASE j.path = "serial" /\ j.dir = "h2d"
  BY <1>3 DEF SerialInTurn
<1>4. CASE j.path = "single"
  BY <1>4 DEF SingleIssueTurn
<1>5. CASE j.path = "conc"
  BY <1>5 DEF ConcurrentTurn
<1>6. CASE j.path = "overlap"
  BY <1>6 DEF OverlapTurn
<1>7. CASE j.path \in {"srcfirst", "dstfirst"}
  BY <1>7 DEF PeerTurn
<1> QED
  BY <1>1, <1>2, <1>3, <1>4, <1>5, <1>6, <1>7

(* So a script has every step of its chunks once, where Place says. *)
LEMMA ScriptPlaces ==
  ASSUME NEW j \in JobType, NEW twin \in BOOLEAN, NEW S, S = Script[j][twin]
  PROVE  /\ \A k \in DOMAIN S :
              /\ S[k].op \in Ops(j) /\ Uses(j, S[k].pool) /\ S[k].pool \in Pools
              /\ S[k] = Step(S[k].op, S[k].pool, S[k].chunk)
              /\ k = Place(j, twin, S[k].op, S[k].pool, S[k].chunk)
         /\ \A op \in Ops(j), p \in Pools, c \in 1 .. j.n : Uses(j, p) =>
              /\ Place(j, twin, op, p, c) \in DOMAIN S
              /\ S[Place(j, twin, op, p, c)] = Step(op, p, c)
<1>1. PICK len \in {3, 4} : len = Len(Turn(j, twin, 1))
  BY TurnTyped
<1>2. PICK n \in Nat : n = j.n
  BY JobFields
<1>3. S = [k \in 1 .. (len * (n + 1)) |-> Turn(j, twin, ((k - 1) \div len) + 1)[((k - 1) % len) + 1]]
  <2>1. Script[j][twin] = Turns(j, twin)
    BY DEF Script
  <2> QED
    BY <1>1, <1>2, <2>1 DEF Turns
<1>4. ASSUME NEW k \in DOMAIN S
      PROVE  /\ S[k].op \in Ops(j) /\ Uses(j, S[k].pool) /\ S[k].pool \in Pools
             /\ S[k] = Step(S[k].op, S[k].pool, S[k].chunk)
             /\ k = Place(j, twin, S[k].op, S[k].pool, S[k].chunk)
  <2>1. PICK q \in Nat : k = q + 1
    <3>1. len * (n + 1) \in Nat
      OBVIOUS
    <3>2. k \in 1 .. (len * (n + 1))
      BY <1>3
    <3>3. k - 1 \in Nat /\ k = (k - 1) + 1
      BY <3>1, <3>2
    <3> QED
      BY <3>3
  <2>2. PICK d \in Nat, r \in 0 .. (len - 1) : d = q \div len /\ r = q % len /\ q = len * d + r
    <3>1. len \in Nat /\ (len = 3 \/ len = 4)
      OBVIOUS
    <3> QED
      BY <3>1, Dividing
  <2>3. S[k] = Turn(j, twin, d + 1)[r + 1]
    <3>1. k - 1 = q /\ k \in 1 .. (len * (n + 1))
      BY <1>3, <2>1
    <3>2. S[k] = Turn(j, twin, ((k - 1) \div len) + 1)[((k - 1) % len) + 1]
      BY <1>3, <3>1
    <3> QED
      BY <2>2, <3>1, <3>2
  <2>4. PICK i \in Nat, m \in 1 .. len : i = d + 1 /\ m = r + 1 /\ len * (i - 1) + m = k
    <3>1. d + 1 \in Nat /\ r + 1 \in 1 .. len
      BY <2>2
    <3>2. len * ((d + 1) - 1) + (r + 1) = k
      BY <2>1, <2>2
    <3> QED
      BY <3>1, <3>2
  <2>5. S[k] = Turn(j, twin, i)[m]
    BY <2>3, <2>4
  <2>6. len \in Nat /\ m \in Nat /\ m \in 1 .. len
    BY <2>4
  <2>7. /\ S[k].op \in Ops(j) /\ Uses(j, S[k].pool) /\ S[k].pool \in Pools
        /\ S[k] = Step(S[k].op, S[k].pool, S[k].chunk)
        /\ Place(j, twin, S[k].op, S[k].pool, S[k].chunk) = Spot(len, i, m)
    BY <1>1, <2>5, <2>6, TurnPlaces
  <2>8. Spot(len, i, m) = k
    BY <2>4 DEF Spot
  <2> QED
    BY <2>7, <2>8, Zenon
<1>5. ASSUME NEW op \in Ops(j), NEW p \in Pools, NEW c \in 1 .. j.n, Uses(j, p)
      PROVE  /\ Place(j, twin, op, p, c) \in DOMAIN S
             /\ S[Place(j, twin, op, p, c)] = Step(op, p, c)
  <2>1. PICK d \in Nat : c = d + 1 /\ d < n
    <3>1. c - 1 \in Nat /\ c = (c - 1) + 1 /\ c - 1 < n
      BY <1>2
    <3> QED
      BY <3>1
  <2>2. PICK i \in {d + 1, d + 2}, m \in 1 .. len : Turn(j, twin, i)[m] = Step(op, p, c)
    <3>1. c \in Nat /\ c + 1 = d + 2
      BY <2>1
    <3> QED
      BY <1>1, <1>5, <2>1, <3>1, PlaceTurns
  <2>3. Place(j, twin, op, p, c) = len * (i - 1) + m
    <3>1. Step(op, p, c).op = op /\ Step(op, p, c).pool = p /\ Step(op, p, c).chunk = c
      BY DEF Step
    <3>2. i \in Nat /\ len \in Nat /\ m \in Nat /\ m \in 1 .. len
      BY <2>2
    <3>3. Place(j, twin, Step(op, p, c).op, Step(op, p, c).pool, Step(op, p, c).chunk)
            = Spot(len, i, m)
      BY <1>1, <2>2, <3>2, TurnPlaces
    <3> QED
      BY <3>1, <3>3 DEF Spot
  <2>4. PICK e \in Nat, r \in 0 .. (len - 1) : e = i - 1 /\ e <= n /\ r = m - 1
    <3>1. i - 1 \in Nat /\ i - 1 <= n /\ m - 1 \in 0 .. (len - 1)
      BY <2>1, <2>2
    <3> QED
      BY <3>1
  <2>5. PICK k \in Nat : k = len * e + m /\ k = Place(j, twin, op, p, c)
    BY <2>3, <2>4
  <2>6. k \in 1 .. (len * (n + 1)) /\ (k - 1) \div len = e /\ (k - 1) % len = r
    <3>1. CASE len = 3
      BY <2>4, <2>5, <3>1
    <3>2. CASE len = 4
      BY <2>4, <2>5, <3>2
    <3> QED
      BY <3>1, <3>2
  <2>7. S[k] = Turn(j, twin, e + 1)[r + 1] /\ e + 1 = i /\ r + 1 = m
    BY <1>3, <2>4, <2>6
  <2> QED
    BY <1>3, <2>2, <2>5, <2>6, <2>7
<1> QED
  BY <1>4, <1>5

-----------------------------------------------------------------------------
(* The buffer of a chunk is in use after the first of these steps of it,   *)
(* holds its data after the second, and is no longer needed after the      *)
(* third; a direct transfer has no buffer.                                 *)
FirstPlace(j, twin, c) ==
  IF HostPool(j) = "wr" THEN Place(j, twin, "start", "wr", c) ELSE Place(j, twin, "fill", "rd", c)
FullPlace(j, twin, c) ==
  IF HostPool(j) = "wr" THEN Place(j, twin, "wait", "wr", c) ELSE Place(j, twin, "fill", "rd", c)
EmptyPlace(j, twin, c) ==
  CASE Direct(j) -> Place(j, twin, "wait", HostPool(j), c)
    [] ~Direct(j) /\ j.dir = "d2h" -> Place(j, twin, "out", "wr", c)
    [] ~Direct(j) /\ j.dir # "d2h" -> Place(j, twin, "wait", "rd", c)

(* A transfer is in flight, a page mapped, a buffer needed between two     *)
(* steps: with the next one at q, the former is done, the latter is not.   *)
Between(q, a, b) == a < q /\ q <= b

LEMMA StartsFirst ==
  ASSUME NEW j \in JobType, NEW twin \in BOOLEAN, NEW c \in Nat, NEW p \in Pools, Uses(j, p)
  PROVE  /\ Place(j, twin, "start", p, c) \in Int /\ Place(j, twin, "wait", p, c) \in Int
         /\ Place(j, twin, "start", p, c) < Place(j, twin, "wait", p, c)
         /\ Direct(j) => /\ Place(j, twin, "map", p, c) \in Int /\ Place(j, twin, "unmap", p, c) \in Int
                         /\ Place(j, twin, "map", p, c) < Place(j, twin, "start", p, c)
                         /\ Place(j, twin, "wait", p, c) < Place(j, twin, "unmap", p, c)
         /\ ~Direct(j) =>
              /\ FirstPlace(j, twin, c) \in Int /\ FullPlace(j, twin, c) \in Int
              /\ EmptyPlace(j, twin, c) \in Int
              /\ FirstPlace(j, twin, c) <= Place(j, twin, "start", p, c)
              /\ Place(j, twin, "wait", p, c) <= EmptyPlace(j, twin, c)
              /\ FirstPlace(j, twin, c) <= FullPlace(j, twin, c)
              /\ FullPlace(j, twin, c) < EmptyPlace(j, twin, c)
              /\ p = "rd" => FullPlace(j, twin, c) < Place(j, twin, "start", p, c)
<1> USE JobFields DEF HostPool, Pools, Direct, Uses, Place, FirstPlace, FullPlace, EmptyPlace
<1>1. CASE Direct(j)
  BY <1>1
<1>2. CASE j.path = "serial" /\ j.dir = "d2h"
  BY <1>2
<1>3. CASE j.path = "serial" /\ j.dir = "h2d"
  BY <1>3
<1>4. CASE j.path = "single"
  BY <1>4
<1>5. CASE j.path = "conc"
  BY <1>5
<1>6. CASE j.path = "overlap"
  BY <1>6
<1>7. CASE j.path \in {"srcfirst", "dstfirst"}
  <2>1. p \in {"wr", "rd"} /\ ~Direct(j)
    BY <1>7
  <2>2. /\ FirstPlace(j, twin, c) = IF twin THEN 4 * c - 1 ELSE 4 * c
        /\ FullPlace(j, twin, c) = 4 * c + 1
        /\ EmptyPlace(j, twin, c) = IF twin THEN 4 * c + 4 ELSE 4 * c + 3
    BY <1>7 DEF PeerPlace
  <2>3. /\ Place(j, twin, "start", "wr", c) = IF twin THEN 4 * c - 1 ELSE 4 * c
        /\ Place(j, twin, "wait", "wr", c) = 4 * c + 1
        /\ Place(j, twin, "start", "rd", c) = 4 * c + 2
        /\ Place(j, twin, "wait", "rd", c) = IF twin THEN 4 * c + 4 ELSE 4 * c + 3
    BY <1>7 DEF PeerPlace
  <2> HIDE JobFields DEF HostPool, Pools, Direct, Uses, Place, FirstPlace, FullPlace, EmptyPlace
  <2> QED
    BY <2>1, <2>2, <2>3
<1> QED
  BY <1>1, <1>2, <1>3, <1>4, <1>5, <1>6, <1>7

(* The buffers of two chunks are needed at the same time by a pipeline     *)
(* only, or with a second staging buffer, and by neighbours only.          *)
LEMMA NeighboursOnly ==
  ASSUME NEW j \in JobType, NEW twin \in BOOLEAN, NEW c \in Nat, NEW d \in Nat, NEW q \in Int,
         ~Direct(j), c # d,
         Between(q, FirstPlace(j, twin, c), EmptyPlace(j, twin, c)),
         FirstPlace(j, twin, d) <= q /\ q <= EmptyPlace(j, twin, d)
  PROVE  (c = d + 1 \/ d = c + 1) /\ (Bounce(j) \/ (j.dir = "p2p" /\ twin))
<1> DEFINE first(e) == FirstPlace(j, twin, e)
           empty(e) == EmptyPlace(j, twin, e)
<1>1. c \in Int /\ d \in Int /\ first(c) < q /\ q <= empty(c) /\ first(d) <= q /\ q <= empty(d)
  BY DEF Between
<1>2. CASE j.path = "serial" /\ j.dir = "d2h"
  <2>1. \A e \in {c, d} : first(e) = 3 * e - 2 /\ empty(e) = 3 * e
    BY <1>2, JobFields DEF HostPool, Direct, Place, FirstPlace, EmptyPlace
  <2> HIDE DEF first, empty
  <2> QED
    BY <1>1, <2>1
<1>3. CASE j.path = "serial" /\ j.dir = "h2d"
  <2>1. \A e \in {c, d} : first(e) = 3 * e - 2 /\ empty(e) = 3 * e
    BY <1>3, JobFields DEF HostPool, Direct, Place, FirstPlace, EmptyPlace
  <2> HIDE DEF first, empty
  <2> QED
    BY <1>1, <2>1
<1>4. CASE j.path = "single"
  <2>1. \A e \in {c, d} : first(e) = 3 * e - 1 /\ empty(e) = 3 * e + 3
    BY <1>4, JobFields DEF HostPool, Direct, Place, FirstPlace, EmptyPlace
  <2>2. Bounce(j)
    BY <1>4 DEF Bounce
  <2> HIDE DEF first, empty
  <2> QED
    BY <1>1, <2>1, <2>2
<1>5. CASE j.path = "conc"
  <2>1. \A e \in {c, d} : first(e) = 3 * e - 2 /\ empty(e) = 3 * e + 3
    BY <1>5, JobFields DEF HostPool, Direct, Place, FirstPlace, EmptyPlace
  <2>2. Bounce(j)
    BY <1>5 DEF Bounce
  <2> HIDE DEF first, empty
  <2> QED
    BY <1>1, <2>1, <2>2
<1>6. CASE j.path = "overlap"
  <2>1. \A e \in {c, d} : first(e) = 3 * e - 2 /\ empty(e) = 3 * e + 2
    BY <1>6, JobFields DEF HostPool, Direct, Place, FirstPlace, EmptyPlace
  <2>2. Bounce(j)
    BY <1>6 DEF Bounce
  <2> HIDE DEF first, empty
  <2> QED
    BY <1>1, <2>1, <2>2
<1>7. CASE j.path \in {"srcfirst", "dstfirst"}
  <2>1. /\ j.dir = "p2p"
        /\ \A e \in {c, d} : IF twin THEN first(e) = 4 * e - 1 /\ empty(e) = 4 * e + 4
                                      ELSE first(e) = 4 * e /\ empty(e) = 4 * e + 3
    <3>1. j.dir = "p2p" /\ HostPool(j) = "wr"
      BY <1>7, JobFields DEF HostPool
    <3>2. \A op, p, e : Place(j, twin, op, p, e) = PeerPlace(twin, op, p, e)
      BY <1>7, <3>1 DEF Place, Direct
    <3>3. ASSUME NEW e \in {c, d}
          PROVE  /\ first(e) = PeerPlace(twin, "start", "wr", e)
                 /\ empty(e) = PeerPlace(twin, "wait", "rd", e)
      <4>1. first(e) = Place(j, twin, "start", "wr", e)
        BY <3>1 DEF FirstPlace
      <4>2. empty(e) = Place(j, twin, "wait", "rd", e)
        BY <3>1 DEF EmptyPlace
      <4> HIDE DEF first, empty
      <4> QED
        BY <3>2, <4>1, <4>2
    <3> HIDE DEF first, empty
    <3> QED
      BY <3>1, <3>3 DEF PeerPlace
  <2> HIDE DEF first, empty
  <2> QED
    BY <1>1, <2>1
<1> QED
  BY <1>2, <1>3, <1>4, <1>5, <1>6, <1>7, JobFields DEF Direct

(* A channel of its own for every transfer in flight: two of a direct or a *)
(* peer to peer copy are never in flight together in one pool.             *)
LEMMA OneInFlight ==
  ASSUME NEW j \in JobType, NEW twin \in BOOLEAN, NEW c \in Nat, NEW d \in Nat, NEW q \in Int,
         NEW p \in Pools, Uses(j, p), Direct(j) \/ j.dir = "p2p", c # d,
         Between(q, Place(j, twin, "start", p, c), Place(j, twin, "wait", p, c)),
         Place(j, twin, "start", p, d) <= q /\ q <= Place(j, twin, "wait", p, d)
  PROVE  FALSE
<1> USE JobFields DEF HostPool, Pools, Direct, Uses, Place, Between
<1>1. CASE Direct(j)
  BY <1>1
<1>7. CASE j.path \in {"srcfirst", "dstfirst"}
  BY <1>7 DEF PeerPlace
<1> QED
  BY <1>1, <1>7

-----------------------------------------------------------------------------
(* The steps of a copy. *)

Chunks(t) == 1 .. job[t].n
Twin(t)   == Has(t) = 3

PlaceOf(t, op, p, c) == Place(job[t], Twin(t), op, p, c)
FirstOf(t, c) == FirstPlace(job[t], Twin(t), c)
FullOf(t, c)  == FullPlace(job[t], Twin(t), c)
EmptyOf(t, c) == EmptyPlace(job[t], Twin(t), c)

LEMMA JobTyped ==
  ASSUME ETypes, NEW t \in Threads
  PROVE  /\ job[t] \in JobType /\ Twin(t) \in BOOLEAN
         /\ Chunks(t) \in SUBSET (1 .. MaxChunks) /\ Chunks(t) \in SUBSET Nat
<1>1. job[t] \in JobType
  BY DEF ETypes
<1>2. job[t].n \in Nat /\ job[t].n <= MaxChunks /\ MaxChunks \in Nat
  BY <1>1, JobFields, EdmaAssumption
<1> QED
  BY <1>1, <1>2 DEF Twin, Chunks

LEMMA StepsPlaced ==
  ASSUME ETypes, NEW t \in Threads
  PROVE  /\ \A k \in Steps(t) :
              /\ ScriptOf(t)[k].op \in Ops(job[t]) /\ Uses(job[t], ScriptOf(t)[k].pool)
              /\ ScriptOf(t)[k].pool \in Pools /\ ScriptOf(t)[k].chunk \in Chunks(t)
              /\ k = PlaceOf(t, ScriptOf(t)[k].op, ScriptOf(t)[k].pool, ScriptOf(t)[k].chunk)
         /\ \A op \in Ops(job[t]), p \in Pools, c \in Chunks(t) : Uses(job[t], p) =>
              /\ PlaceOf(t, op, p, c) \in Steps(t)
              /\ ScriptOf(t)[PlaceOf(t, op, p, c)] = Step(op, p, c)
<1>1. PICK j \in JobType, w \in BOOLEAN : j = job[t] /\ w = Twin(t)
  BY JobTyped
<1>2. PICK S : S = Script[j][w]
  OBVIOUS
<1>3. ScriptOf(t) = S /\ Steps(t) = {k \in DOMAIN S : S[k].chunk \in 1 .. j.n} /\ Chunks(t) = 1 .. j.n
  BY <1>1, <1>2 DEF ScriptOf, Steps, Twin, Chunks
<1>4. \A op, p, c : PlaceOf(t, op, p, c) = Place(j, w, op, p, c) /\ Step(op, p, c).chunk = c
  BY <1>1 DEF PlaceOf, Step
<1>5. \A k \in DOMAIN S :
              /\ S[k].op \in Ops(j) /\ Uses(j, S[k].pool) /\ S[k].pool \in Pools
              /\ k = Place(j, w, S[k].op, S[k].pool, S[k].chunk)
  BY <1>2, ScriptPlaces
<1>6. \A op \in Ops(j), p \in Pools, c \in 1 .. j.n : Uses(j, p) =>
              /\ Place(j, w, op, p, c) \in DOMAIN S
              /\ S[Place(j, w, op, p, c)] = Step(op, p, c)
  BY <1>2, ScriptPlaces
<1> QED
  BY <1>1, <1>3, <1>4, <1>5, <1>6

(* The step a copy is at. *)
LEMMA Here ==
  ASSUME ETypes, NEW t \in Threads, at[t] \in Steps(t)
  PROVE  /\ Cur(t).op \in Ops(job[t]) /\ Uses(job[t], Cur(t).pool)
         /\ Cur(t).pool \in Pools /\ Cur(t).chunk \in Chunks(t)
         /\ \A op \in Ops(job[t]), p \in Pools, c \in Chunks(t) : Uses(job[t], p) =>
              /\ PlaceOf(t, op, p, c) \in Steps(t) /\ PlaceOf(t, op, p, c) \in Nat
              /\ PlaceOf(t, op, p, c) = at[t]
                   <=> op = Cur(t).op /\ p = Cur(t).pool /\ c = Cur(t).chunk
<1>1. /\ Cur(t).op \in Ops(job[t]) /\ Uses(job[t], Cur(t).pool)
      /\ Cur(t).pool \in Pools /\ Cur(t).chunk \in Chunks(t)
      /\ at[t] = PlaceOf(t, Cur(t).op, Cur(t).pool, Cur(t).chunk)
  BY StepsPlaced DEF Cur
<1>2. ASSUME NEW op \in Ops(job[t]), NEW p \in Pools, NEW c \in Chunks(t), Uses(job[t], p)
      PROVE  /\ PlaceOf(t, op, p, c) \in Steps(t) /\ PlaceOf(t, op, p, c) \in Nat
             /\ PlaceOf(t, op, p, c) = at[t]
                  <=> op = Cur(t).op /\ p = Cur(t).pool /\ c = Cur(t).chunk
  <2>1. PlaceOf(t, op, p, c) \in Steps(t) /\ ScriptOf(t)[PlaceOf(t, op, p, c)] = Step(op, p, c)
    BY <1>2, StepsPlaced
  <2>2. PlaceOf(t, op, p, c) = at[t] => Cur(t) = Step(op, p, c)
    BY <2>1 DEF Cur
  <2>3. PlaceOf(t, op, p, c) \in Nat
    BY <2>1, StepsTyped
  <2> QED
    BY <1>1, <2>1, <2>2, <2>3 DEF Step
<1> QED
  BY <1>1, <1>2

(* The step it goes on to: those up to here are behind it, and if nothing  *)
(* is left they all are.                                                   *)
LEMMA GoesOn ==
  ASSUME ETypes, NEW t \in Threads, at[t] \in Steps(t), Advance(t)
  PROVE  \E q \in Nat :
           /\ \A k \in Steps(t) : k < q <=> k <= at[t]
           /\ \/ pc'[t] = "run" /\ at'[t] = q /\ q \in Steps(t)
              \/ pc'[t] = "put" /\ \A k \in Steps(t) : k < q
<1>0. pc \in [Threads -> Labels] /\ at \in [Threads -> Nat]
  BY DEF ETypes
<1>1. PICK S \in SUBSET Nat, n \in Nat : S = Steps(t) /\ n = at[t]
  BY <1>0, StepsTyped
<1>2. PICK left \in SUBSET S : left = {k \in S : k > n}
  OBVIOUS
<1>3. CASE left = {}
  <2>1. pc'[t] = "put"
    BY <1>0, <1>1, <1>2, <1>3 DEF Advance
  <2>2. \A k \in S : k < n + 1 /\ k <= n
    BY <1>2, <1>3
  <2>3. n + 1 \in Nat
    OBVIOUS
  <2> QED
    BY <1>1, <2>1, <2>2, <2>3
<1>4. CASE left # {}
  <2>1. pc'[t] = "run" /\ at'[t] = Least(left)
    BY <1>0, <1>1, <1>2, <1>4 DEF Advance
  <2>2. left \in SUBSET Nat
    BY <1>1, <1>2
  <2>3. PICK q \in left : q = Least(left) /\ \A k \in left : q <= k
    BY <1>4, <2>2, LeastIsIn
  <2>4. \A k \in S : k < q <=> k <= n
    BY <1>2, <2>3
  <2> QED
    BY <1>1, <2>1, <2>2, <2>3, <2>4
<1> QED
  BY <1>3, <1>4

-----------------------------------------------------------------------------
(* The buffers and engines of a copy. *)

NoDup(t) == \A p \in Pools : \A i, k \in 1 .. Len(held[t][p]) : held[t][p][i] = held[t][p][k] => i = k

LEMMA BufferIn ==
  ASSUME ETypes, NEW t \in Threads, OfPools(t), Equipped(t), NEW c \in Chunks(t)
  PROVE  /\ Direct(job[t]) => BufOf(t, c) = Nothing
         /\ ~Direct(job[t]) =>
              /\ BufOf(t, c) \in Own(t) /\ BufOf(t, c) \in Channels /\ BufOf(t, c) # Nothing
              /\ BufOf(t, c)[1] = HostPool(job[t])
<1>1. CASE Direct(job[t])
  BY <1>1 DEF BufOf
<1>2. CASE ~Direct(job[t])
  <2>1. PICK h \in Pools : h = HostPool(job[t])
    BY DEF HostPool, Pools
  <2>2. PICK l \in Nat : l = Len(held[t][h])
    BY HeldTyped
  <2>3. PICK n \in Nat : n # 0 /\ n <= l /\ n = IF job[t].path = "conc" THEN 2 ELSE Len(held[t][h])
    BY <2>1, <2>2 DEF Equipped, Bounce
  <2>4. PICK a \in Nat : a = c - 1
    BY JobTyped DEF Chunks
  <2>5. PICK k \in 1 .. n : k = (a % n) + 1
    BY <2>3, Taking
  <2>6. k \in 1 .. l
    BY <2>3
  <2>7. BufOf(t, c) = held[t][h][k]
    BY <1>2, <2>1, <2>3, <2>4, <2>5 DEF BufOf
  <2>8. held[t][h][k] \in Own(t) /\ held[t][h][k] \in Channels /\ held[t][h][k][1] = h
    BY <2>2, <2>6, HeldTyped DEF OfPools
  <2> QED
    BY <1>2, <2>1, <2>7, <2>8, EdmaAssumption
<1> QED
  BY <1>1, <1>2

LEMMA EngineIn ==
  ASSUME ETypes, NEW t \in Threads, OfPools(t), Equipped(t), NEW c \in Chunks(t),
         NEW p \in Pools, Uses(job[t], p)
  PROVE  /\ EngineOf(t, p, c) \in Own(t) /\ EngineOf(t, p, c) \in Channels
         /\ EngineOf(t, p, c)[1] = p
<1>1. job[t].dir # "p2p" => p = HostPool(job[t])
  BY DEF Uses
<1>2. CASE job[t].dir = "p2p" \/ Direct(job[t])
  <2>1. Len(held[t][p]) \in Nat /\ Len(held[t][p]) >= 1
    <3>1. Len(held[t][p]) \in Nat
      BY HeldTyped
    <3>2. CASE job[t].dir = "p2p"
      BY <3>1, <3>2 DEF Equipped, HostPool, Pools
    <3>3. CASE job[t].dir # "p2p"
      BY <1>1, <3>1, <3>3 DEF Equipped
    <3> QED
      BY <3>2, <3>3
  <2>2. 1 \in 1 .. Len(held[t][p])
    BY <2>1
  <2>3. held[t][p][1] \in Own(t) /\ held[t][p][1] \in Channels /\ held[t][p][1][1] = p
    BY <2>2, HeldTyped DEF OfPools
  <2>4. EngineOf(t, p, c) = held[t][p][1]
    BY <1>2 DEF EngineOf
  <2> QED
    BY <2>3, <2>4
<1>3. CASE ~(job[t].dir = "p2p" \/ Direct(job[t]))
  BY <1>1, <1>3, BufferIn DEF EngineOf
<1> QED
  BY <1>2, <1>3

(* The buffers of two chunks differ while both are needed. *)
LEMMA BuffersApart ==
  ASSUME ETypes, NEW t \in Threads, NoDup(t), HeldShape(t), Equipped(t),
         ~Direct(job[t]), NEW c \in Chunks(t), NEW d \in Chunks(t), c # d, NEW q \in Nat,
         Between(q, FirstOf(t, c), EmptyOf(t, c)), FirstOf(t, d) <= q /\ q <= EmptyOf(t, d)
  PROVE  BufOf(t, c) # BufOf(t, d)
<1>1. PICK j \in JobType, w \in BOOLEAN : j = job[t] /\ w = Twin(t)
  BY JobTyped
<1>2. c \in Nat /\ d \in Nat /\ c >= 1 /\ d >= 1 /\ q \in Int
  BY JobTyped DEF Chunks
<1>3. (c = d + 1 \/ d = c + 1) /\ (Bounce(j) \/ (j.dir = "p2p" /\ w))
  BY <1>1, <1>2, NeighboursOnly DEF FirstOf, EmptyOf
<1>4. PICK h \in Pools : h = HostPool(j)
  BY DEF HostPool, Pools
<1>5. PICK l \in Nat : l = Len(held[t][h])
  BY HeldTyped
<1>6. l >= 2
  <2>1. CASE Bounce(j)
    BY <1>1, <1>4, <1>5, <2>1 DEF Equipped
  <2>2. CASE j.dir = "p2p" /\ w
    <3>1. h = "wr" /\ Len(held[t]["rd"]) \in Nat
      BY <1>4, <2>2, HeldTyped DEF HostPool, Pools
    <3>2. PICK r \in Nat : r = Len(held[t]["rd"])
      BY <3>1
    <3>3. l + r = 3
      BY <1>1, <1>5, <2>2, <3>1, <3>2 DEF Twin, Has
    <3>4. (r = 0 /\ l <= 1) \/ r = 1
      BY <1>1, <1>5, <2>2, <3>1, <3>2 DEF HeldShape
    <3> QED
      BY <3>3, <3>4
  <2> QED
    BY <1>3, <2>1, <2>2
<1>7. PICK n \in Nat : n >= 2 /\ n <= l /\ n = IF j.path = "conc" THEN 2 ELSE l
  BY <1>6
<1>8. PICK a \in Nat, b \in Nat : a = c - 1 /\ b = d - 1
  BY <1>2
<1>9. a % n # b % n
  <2>1. a = b + 1 \/ b = a + 1
    BY <1>2, <1>3, <1>8
  <2> QED
    BY <1>7, <2>1, NextOther
<1>10. PICK k \in 1 .. n, m \in 1 .. n : k = (a % n) + 1 /\ m = (b % n) + 1
  BY <1>7, Taking
<1>11. k # m
  <2>1. a % n \in Int /\ b % n \in Int
    BY <1>7
  <2> QED
    BY <1>9, <1>10, <2>1
<1>12. k \in 1 .. l /\ m \in 1 .. l
  BY <1>7
<1>13. BufOf(t, c) = held[t][h][k] /\ BufOf(t, d) = held[t][h][m]
  BY <1>1, <1>4, <1>5, <1>7, <1>8, <1>10 DEF BufOf
<1> QED
  BY <1>5, <1>11, <1>12, <1>13 DEF NoDup

(* And so do the engines of two transfers of a pool. *)
LEMMA EnginesApart ==
  ASSUME ETypes, NEW t \in Threads, NoDup(t), HeldShape(t), Equipped(t),
         NEW c \in Chunks(t), NEW d \in Chunks(t), c # d, NEW q \in Nat,
         NEW p \in Pools, Uses(job[t], p),
         Between(q, PlaceOf(t, "start", p, c), PlaceOf(t, "wait", p, c)),
         PlaceOf(t, "start", p, d) <= q /\ q <= PlaceOf(t, "wait", p, d)
  PROVE  EngineOf(t, p, c) # EngineOf(t, p, d)
<1>1. PICK j \in JobType, w \in BOOLEAN : j = job[t] /\ w = Twin(t)
  BY JobTyped
<1>2. c \in Nat /\ d \in Nat /\ q \in Int
  BY JobTyped
<1>3. CASE Direct(j) \/ j.dir = "p2p"
  BY <1>1, <1>2, <1>3, OneInFlight DEF PlaceOf
<1>4. CASE ~(Direct(j) \/ j.dir = "p2p")
  <2>1. /\ FirstPlace(j, w, c) \in Int /\ FirstPlace(j, w, d) \in Int
        /\ EmptyPlace(j, w, c) \in Int /\ EmptyPlace(j, w, d) \in Int
        /\ Place(j, w, "start", p, c) \in Int /\ Place(j, w, "wait", p, c) \in Int
        /\ Place(j, w, "start", p, d) \in Int /\ Place(j, w, "wait", p, d) \in Int
        /\ FirstPlace(j, w, c) <= Place(j, w, "start", p, c)
        /\ FirstPlace(j, w, d) <= Place(j, w, "start", p, d)
        /\ Place(j, w, "wait", p, c) <= EmptyPlace(j, w, c)
        /\ Place(j, w, "wait", p, d) <= EmptyPlace(j, w, d)
    BY <1>1, <1>2, <1>4, StartsFirst
  <2>2. Between(q, FirstOf(t, c), EmptyOf(t, c)) /\ FirstOf(t, d) <= q /\ q <= EmptyOf(t, d)
    BY <1>1, <1>2, <2>1 DEF Between, FirstOf, EmptyOf, PlaceOf
  <2>3. BufOf(t, c) # BufOf(t, d)
    BY <1>1, <1>4, <2>2, BuffersApart
  <2> QED
    BY <1>1, <1>4, <2>3 DEF EngineOf
<1> QED
  BY <1>3, <1>4

-----------------------------------------------------------------------------
(* The inductive invariant. *)

Values == (Threads \cup {Nothing}) \X (0 .. MaxChunks)

DTypes == kbuf \in [Channels -> Values] /\ dst \in [Threads -> [1 .. MaxChunks -> Values]]

(* With the next step of the copy at q: what is in flight, which pages are *)
(* mapped, and where the data is.                                          *)
Flights(t, q) ==
  \A p \in Pools, c \in Chunks(t) : Uses(job[t], p) =>
    (<<p, c>> \in flight[t] <=> Between(q, PlaceOf(t, "start", p, c), PlaceOf(t, "wait", p, c)))

PagesMapped(t, q) ==
  Direct(job[t]) => \A p \in Pools, c \in Chunks(t) : Uses(job[t], p) =>
    (Between(q, PlaceOf(t, "map", p, c), PlaceOf(t, "unmap", p, c)) => c \in mapped[t])

Delivered(t, q) == \A c \in Chunks(t) : EmptyOf(t, c) < q => dst[t][c] = <<t, c>>

Buffered(t, q) ==
  ~Direct(job[t]) => \A c \in Chunks(t) :
    Between(q, FullOf(t, c), EmptyOf(t, c)) => kbuf[BufOf(t, c)] = <<t, c>>

HasArrived(t, f) ==
  IF f[1] = "wr" /\ ~Direct(job[t]) THEN kbuf[BufOf(t, f[2])] = <<t, f[2]>>
                                    ELSE dst[t][f[2]] = <<t, f[2]>>

Arrived(t) ==
  \A f \in flight[t] : engine[EngineOf(t, f[1], f[2])] = "done" => HasArrived(t, f)

Moves(t, q) == Flights(t, q) /\ PagesMapped(t, q) /\ Delivered(t, q) /\ Buffered(t, q) /\ Arrived(t)

(* What is in flight is on a channel of the copy, and from or to a page    *)
(* that is mapped.                                                         *)
Flown(t) ==
  \A f \in flight[t] : /\ Uses(job[t], f[1]) /\ f[2] \in Chunks(t)
                       /\ Direct(job[t]) => f[2] \in mapped[t]

Complete(t) == \A c \in Chunks(t) : dst[t][c] = <<t, c>>

Moving(t) == pc[t] \in {"lock", "run", "poll"} /\ res[t] = "ok"

Sound(t) ==
  /\ NoDup(t)
  /\ \A x \in NoKbuf : x \notin Own(t)
  /\ pc[t] \in {"down", "get", "begin", "lock", "run"} => res[t] = "ok"
  /\ pc[t] = "drain" => res[t] = "err"
  /\ pc[t] = "poll" => IF res[t] = "ok" THEN at[t] \in Steps(t) /\ Cur(t).op = "wait"
                                        ELSE res[t] = "err" /\ flight[t] # {}
  /\ pc[t] \notin {"run", "poll", "drain"} => flight[t] = {}
  /\ Flown(t)
  /\ Moving(t) => Moves(t, at[t])
  /\ pc[t] \in {"put", "up", "ret"} /\ res[t] = "ok" => Complete(t)

(* The reset: its flag, the channels it has disabled, and the engines it   *)
(* has stopped.  A channel without a buffer is never free.                 *)
ResetState ==
  /\ inReset <=> resetPc # "no"
  /\ resetPc = "end" => \A x \in Channels : engine[x] # "busy"
  /\ ~inReset => \A x \in Channels \ NoKbuf : enable[x]
  /\ \A x \in NoKbuf : x[2] \in used[x[1]]

Attended == ~inReset => \A x \in Channels : engine[x] = "busy" => Waiting(x) # {}

DInv == EInv /\ DTypes /\ ResetState /\ Attended /\ \A t \in Threads : Sound(t)

LEMMA DInit == Init => DInv
<1> SUFFICES ASSUME Init PROVE DInv
  OBVIOUS
<1>1. EInv
  BY EInit
<1>2. DTypes
  <2>1. Junk \in Values
    BY EdmaAssumption DEF Junk, Values
  <2> QED
    BY <2>1 DEF Init, DTypes, NoData
<1>3. ResetState /\ Attended
  <2>1. ASSUME NEW x \in NoKbuf PROVE x[2] \in used[x[1]]
    <3>1. x \in Pools \X Ch /\ x = <<x[1], x[2]>>
      BY EdmaAssumption DEF Channels
    <3> QED
      BY <3>1 DEF Init
  <2>2. /\ ~inReset /\ resetPc = "no" /\ \A x \in Channels : engine[x] = "idle"
        /\ \A x \in Channels \ NoKbuf : enable[x]
    BY DEF Init
  <2> QED
    BY <2>1, <2>2 DEF ResetState, Attended
<1>4. ASSUME NEW t \in Threads PROVE Sound(t)
  <2>1. \A p \in Pools : held[t][p] = <<>> /\ Len(held[t][p]) = 0
    BY DEF Init, NoCh
  <2>2. NoDup(t) /\ Own(t) = {}
    BY <2>1 DEF NoDup, Own, Elems, Pools
  <2>3. pc[t] = "idle" /\ flight[t] = {} /\ res[t] = "ok"
    BY DEF Init
  <2> QED
    BY <2>2, <2>3 DEF Sound, Flown, Moving
<1> QED
  BY <1>1, <1>2, <1>3, <1>4 DEF DInv

-----------------------------------------------------------------------------
(* What steps leave alone. *)

LEMMA SameShape ==
  ASSUME NEW u, job'[u] = job[u], held'[u] = held[u]
  PROVE  /\ Own(u)' = Own(u) /\ Has(u)' = Has(u) /\ Chunks(u)' = Chunks(u) /\ Steps(u)' = Steps(u)
         /\ Twin(u)' = Twin(u) /\ ScriptOf(u)' = ScriptOf(u)
         /\ \A c : /\ BufOf(u, c)' = BufOf(u, c) /\ FullOf(u, c)' = FullOf(u, c)
                   /\ EmptyOf(u, c)' = EmptyOf(u, c) /\ FirstOf(u, c)' = FirstOf(u, c)
         /\ \A op, p, c : PlaceOf(u, op, p, c)' = PlaceOf(u, op, p, c)
         /\ \A p, c : EngineOf(u, p, c)' = EngineOf(u, p, c)
<1>1. /\ Own(u)' = Own(u) /\ Has(u)' = Has(u) /\ Chunks(u)' = Chunks(u) /\ Steps(u)' = Steps(u)
      /\ Twin(u)' = Twin(u) /\ ScriptOf(u)' = ScriptOf(u)
  BY DEF Own, Has, Chunks, Steps, ScriptOf, Twin
<1>2. \A c : /\ BufOf(u, c)' = BufOf(u, c) /\ FullOf(u, c)' = FullOf(u, c)
             /\ EmptyOf(u, c)' = EmptyOf(u, c) /\ FirstOf(u, c)' = FirstOf(u, c)
  BY <1>1 DEF BufOf, FullOf, EmptyOf, FirstOf
<1>3. \A op, p, c : PlaceOf(u, op, p, c)' = PlaceOf(u, op, p, c)
  BY <1>1 DEF PlaceOf
<1>4. \A p, c : EngineOf(u, p, c)' = EngineOf(u, p, c)
  BY <1>2 DEF EngineOf
<1> QED
  BY <1>1, <1>2, <1>3, <1>4

(* Where a copy is with nothing of it changed. *)
LEMMA MovesKept ==
  ASSUME NEW t, NEW q, Moves(t, q),
         job'[t] = job[t], held'[t] = held[t], flight'[t] = flight[t], mapped'[t] = mapped[t],
         UNCHANGED <<kbuf, engine, dst>>
  PROVE  Moves(t, q)'
<1>1. /\ Chunks(t)' = Chunks(t)
      /\ \A c : BufOf(t, c)' = BufOf(t, c) /\ FullOf(t, c)' = FullOf(t, c) /\ EmptyOf(t, c)' = EmptyOf(t, c)
      /\ \A op, p, c : PlaceOf(t, op, p, c)' = PlaceOf(t, op, p, c)
      /\ \A p, c : EngineOf(t, p, c)' = EngineOf(t, p, c)
  BY SameShape
<1>2. Arrived(t)'
  BY <1>1 DEF Moves, Arrived, HasArrived
<1>3. Flights(t, q)' /\ PagesMapped(t, q)' /\ Delivered(t, q)' /\ Buffered(t, q)'
  BY <1>1 DEF Moves, Flights, PagesMapped, Delivered, Buffered
<1> QED
  BY <1>2, <1>3 DEF Moves

(* A copy none of whose variables, buffers and engines change. *)
LEMMA Untouched ==
  ASSUME ETypes, NEW u \in Threads, Local(u), Sound(u),
         pc'[u] = pc[u], job'[u] = job[u], held'[u] = held[u], at'[u] = at[u], res'[u] = res[u],
         flight'[u] = flight[u], mapped'[u] = mapped[u], dst'[u] = dst[u],
         \A x \in Own(u) : kbuf'[x] = kbuf[x] /\ engine'[x] = engine[x]
  PROVE  Sound(u)'
<1>1. /\ Own(u)' = Own(u) /\ Chunks(u)' = Chunks(u) /\ Steps(u)' = Steps(u) /\ Cur(u)' = Cur(u)
  BY SameShape DEF Cur
<1>2. \A c : /\ BufOf(u, c)' = BufOf(u, c) /\ FullOf(u, c)' = FullOf(u, c)
             /\ EmptyOf(u, c)' = EmptyOf(u, c)
  BY SameShape
<1>3. \A op, p, c : PlaceOf(u, op, p, c)' = PlaceOf(u, op, p, c)
  BY SameShape
<1>4. \A p, c : EngineOf(u, p, c)' = EngineOf(u, p, c)
  BY SameShape
<1>5. Flown(u)' /\ (Complete(u) => Complete(u)') /\ NoDup(u)'
  BY <1>1 DEF Sound, Flown, Complete, NoDup
<1>6. ASSUME Moving(u) PROVE Moves(u, at[u])'
  <2>1. OfPools(u) /\ Equipped(u) /\ Moves(u, at[u])
    BY <1>6 DEF Sound, Local, Moving
  <2>2. ~Direct(job[u]) => \A c \in Chunks(u) : kbuf'[BufOf(u, c)] = kbuf[BufOf(u, c)]
    BY <2>1, BufferIn
  <2>3. \A f \in flight[u] : /\ f[2] \in Chunks(u)
                             /\ engine'[EngineOf(u, f[1], f[2])] = engine[EngineOf(u, f[1], f[2])]
    <3> SUFFICES ASSUME NEW f \in flight[u]
                 PROVE  /\ f[2] \in Chunks(u)
                        /\ engine'[EngineOf(u, f[1], f[2])] = engine[EngineOf(u, f[1], f[2])]
      OBVIOUS
    <3>1. Uses(job[u], f[1]) /\ f[2] \in Chunks(u)
      BY DEF Sound, Flown
    <3>2. f[1] \in Pools
      BY DEF ETypes
    <3> QED
      BY <2>1, <3>1, <3>2, EngineIn
  <2>4. Flights(u, at[u])' /\ PagesMapped(u, at[u])' /\ Delivered(u, at[u])'
    BY <1>1, <1>2, <1>3, <2>1 DEF Moves, Flights, PagesMapped, Delivered
  <2>5. Buffered(u, at[u])'
    BY <1>1, <1>2, <2>1, <2>2 DEF Moves, Buffered
  <2>6. Arrived(u)'
    <3> SUFFICES ASSUME NEW f \in flight[u], engine'[EngineOf(u, f[1], f[2])] = "done"
                 PROVE  HasArrived(u, f)'
      BY <1>4 DEF Arrived
    <3>1. HasArrived(u, f) /\ f[2] \in Chunks(u)
      BY <2>1, <2>3 DEF Moves, Arrived
    <3>2. ~Direct(job[u]) => kbuf'[BufOf(u, f[2])'] = kbuf[BufOf(u, f[2])]
      BY <1>2, <2>2, <3>1
    <3> QED
      BY <3>1, <3>2 DEF HasArrived
  <2> QED
    BY <2>4, <2>5, <2>6 DEF Moves
<1>7. Moving(u)' <=> Moving(u)
  BY DEF Moving
<1> QED
  BY <1>1, <1>5, <1>6, <1>7 DEF Sound

(* Who waits for a channel. *)
LEMMA WaitingKept ==
  ASSUME NEW x, Waiting(x) # {},
         \A u \in Threads : \A c \in 1 .. MaxChunks :
           <<x[1], c>> \in flight[u] /\ EngineOf(u, x[1], c) = x =>
             <<x[1], c>> \in flight'[u] /\ job'[u] = job[u] /\ held'[u] = held[u]
  PROVE  Waiting(x)' # {}
<1>1. PICK f \in Threads \X (1 .. MaxChunks) :
        <<x[1], f[2]>> \in flight[f[1]] /\ EngineOf(f[1], x[1], f[2]) = x
  BY DEF Waiting
<1>2. /\ <<x[1], f[2]>> \in flight'[f[1]] /\ job'[f[1]] = job[f[1]] /\ held'[f[1]] = held[f[1]]
  BY <1>1
<1>3. EngineOf(f[1], x[1], f[2])' = EngineOf(f[1], x[1], f[2])
  BY <1>2 DEF EngineOf, BufOf
<1> QED
  BY <1>1, <1>2, <1>3 DEF Waiting

(* A step of one copy, on its own channels. *)
Apart(t) ==
  /\ \A u \in Threads : u # t =>
       /\ pc'[u] = pc[u] /\ job'[u] = job[u] /\ held'[u] = held[u] /\ at'[u] = at[u]
       /\ res'[u] = res[u] /\ flight'[u] = flight[u] /\ mapped'[u] = mapped[u] /\ dst'[u] = dst[u]
  /\ \A x \in Channels : x \notin Own(t) => kbuf'[x] = kbuf[x] /\ engine'[x] = engine[x]

LEMMA OneMover ==
  ASSUME DInv, EInv', NEW t \in Threads, Apart(t), DTypes', ResetState', Attended', Sound(t)'
  PROVE  DInv'
<1>1. ASSUME NEW u \in Threads, u # t PROVE Sound(u)'
  <2>1. ETypes /\ Disjoint /\ Local(u) /\ Sound(u)
    BY DEF DInv, EInv, PoolInv
  <2>2. Own(u) \in SUBSET Channels
    <3>1. "wr" \in Pools
      BY DEF Pools
    <3> QED
      BY <2>1, <3>1, HeldTyped
  <2>3. \A x \in Own(u) : x \in Channels /\ x \notin Own(t)
    BY <1>1, <2>1, <2>2 DEF Disjoint
  <2> QED
    BY <1>1, <2>1, <2>3, Untouched DEF Apart
<1> QED
  BY <1>1 DEF DInv

(* A copy that has nothing in flight before and after. *)
LEMMA QuietAttended ==
  ASSUME DInv, NEW t \in Threads, Apart(t), flight[t] = {}, flight'[t] = {},
         UNCHANGED <<inReset>>, \A x \in Channels : engine'[x] = engine[x]
  PROVE  Attended'
<1> SUFFICES ASSUME ~inReset, NEW x \in Channels, engine[x] = "busy"
             PROVE  Waiting(x)' # {}
  BY DEF Attended
<1>1. Waiting(x) # {}
  BY DEF DInv, Attended
<1> QED
  BY <1>1, WaitingKept DEF Apart

-----------------------------------------------------------------------------
(* What is known of a copy that is under way. *)

LEMMA UnderWay ==
  ASSUME DInv, NEW t \in Threads, Moving(t)
  PROVE  /\ ETypes /\ OfPools(t) /\ HeldShape(t) /\ Equipped(t) /\ NoDup(t)
         /\ Moves(t, at[t]) /\ Flown(t) /\ at[t] \in Steps(t) /\ at[t] \in Nat
         /\ Steps(t) \in SUBSET Nat /\ flight[t] \in SUBSET (Pools \X (1 .. MaxChunks))
<1>1. ETypes /\ Local(t) /\ Sound(t)
  BY DEF DInv, EInv
<1>2. at[t] \in Steps(t)
  BY <1>1 DEF Local, Sound, Moving
<1>3. at[t] \in Nat /\ Steps(t) \in SUBSET Nat /\ flight[t] \in SUBSET (Pools \X (1 .. MaxChunks))
  BY <1>1, StepsTyped DEF ETypes
<1> QED
  BY <1>1, <1>2, <1>3 DEF Local, Sound, Moving

(* The steps that matter to the data are steps of the script. *)
LEMMA Milestones ==
  ASSUME ETypes, NEW t \in Threads, at[t] \in Steps(t), NEW c \in Chunks(t)
  PROVE  /\ EmptyOf(t, c) \in Steps(t)
         /\ EmptyOf(t, c) = at[t] <=>
              /\ Cur(t).chunk = c
              /\ IF Direct(job[t]) THEN Cur(t).op = "wait"
                 ELSE IF job[t].dir = "d2h" THEN Cur(t).op = "out"
                 ELSE Cur(t).op = "wait" /\ Cur(t).pool = "rd"
         /\ ~Direct(job[t]) =>
              /\ FullOf(t, c) \in Steps(t) /\ FirstOf(t, c) \in Steps(t)
              /\ FullOf(t, c) = at[t] <=>
                   /\ Cur(t).chunk = c
                   /\ IF HostPool(job[t]) = "wr" THEN Cur(t).op = "wait" /\ Cur(t).pool = "wr"
                                                 ELSE Cur(t).op = "fill"
              /\ FirstOf(t, c) = at[t] <=>
                   /\ Cur(t).chunk = c
                   /\ IF HostPool(job[t]) = "wr" THEN Cur(t).op = "start" /\ Cur(t).pool = "wr"
                                                 ELSE Cur(t).op = "fill"
<1>1. PICK j \in JobType : j = job[t]
  BY JobTyped
<1>2. "wr" \in Pools /\ "rd" \in Pools /\ HostPool(j) \in Pools /\ Uses(j, HostPool(j))
  BY DEF HostPool, Pools, Uses
<1>3. ASSUME NEW op \in Ops(j), NEW p \in Pools, Uses(j, p)
      PROVE  /\ PlaceOf(t, op, p, c) \in Steps(t)
             /\ PlaceOf(t, op, p, c) = at[t] <=> op = Cur(t).op /\ p = Cur(t).pool /\ c = Cur(t).chunk
  BY <1>1, <1>3, Here
<1>4. Uses(j, Cur(t).pool)
  BY <1>1, Here
<1>5. CASE Direct(j)
  <2>1. "wait" \in Ops(j) /\ j.dir # "p2p"
    BY <1>5, JobFields DEF Ops, Direct
  <2>2. EmptyOf(t, c) = PlaceOf(t, "wait", HostPool(j), c) /\ Cur(t).pool = HostPool(j)
    BY <1>1, <1>4, <1>5, <2>1 DEF EmptyOf, EmptyPlace, PlaceOf, Uses
  <2> QED
    BY <1>1, <1>2, <1>3, <1>5, <2>1, <2>2
<1>6. CASE ~Direct(j) /\ j.dir = "d2h"
  <2>1. {"start", "wait", "out"} \subseteq Ops(j) /\ HostPool(j) = "wr" /\ Uses(j, "wr")
    BY <1>6 DEF Ops, HostPool, Uses
  <2>2. /\ EmptyOf(t, c) = PlaceOf(t, "out", "wr", c) /\ FullOf(t, c) = PlaceOf(t, "wait", "wr", c)
        /\ FirstOf(t, c) = PlaceOf(t, "start", "wr", c)
        /\ Cur(t).pool = "wr"
    BY <1>1, <1>4, <1>6, <2>1
       DEF EmptyOf, EmptyPlace, FullOf, FullPlace, FirstOf, FirstPlace, PlaceOf, Uses
  <2> QED
    BY <1>1, <1>2, <1>3, <1>6, <2>1, <2>2
<1>7. CASE ~Direct(j) /\ j.dir = "h2d"
  <2>1. {"start", "wait", "fill"} \subseteq Ops(j) /\ HostPool(j) = "rd" /\ Uses(j, "rd")
    BY <1>7 DEF Ops, HostPool, Uses
  <2>2. /\ EmptyOf(t, c) = PlaceOf(t, "wait", "rd", c) /\ FullOf(t, c) = PlaceOf(t, "fill", "rd", c)
        /\ FirstOf(t, c) = PlaceOf(t, "fill", "rd", c)
        /\ Cur(t).pool = "rd"
    BY <1>1, <1>4, <1>7, <2>1
       DEF EmptyOf, EmptyPlace, FullOf, FullPlace, FirstOf, FirstPlace, PlaceOf, Uses
  <2> QED
    BY <1>1, <1>2, <1>3, <1>7, <2>1, <2>2
<1>8. CASE ~Direct(j) /\ j.dir = "p2p"
  <2>1. {"start", "wait"} \subseteq Ops(j) /\ HostPool(j) = "wr" /\ Uses(j, "wr") /\ Uses(j, "rd")
    BY <1>8 DEF Ops, HostPool, Uses
  <2>2. /\ EmptyOf(t, c) = PlaceOf(t, "wait", "rd", c) /\ FullOf(t, c) = PlaceOf(t, "wait", "wr", c)
        /\ FirstOf(t, c) = PlaceOf(t, "start", "wr", c)
    BY <1>1, <1>8, <2>1 DEF EmptyOf, EmptyPlace, FullOf, FullPlace, FirstOf, FirstPlace, PlaceOf
  <2> QED
    BY <1>1, <1>2, <1>3, <1>8, <2>1, <2>2
<1> QED
  BY <1>1, <1>5, <1>6, <1>7, <1>8, JobFields

(* The order of the steps of a chunk. *)
LEMMA InOrder ==
  ASSUME ETypes, NEW t \in Threads, NEW c \in Chunks(t), NEW p \in Pools, Uses(job[t], p)
  PROVE  /\ PlaceOf(t, "start", p, c) \in Steps(t) /\ PlaceOf(t, "wait", p, c) \in Steps(t)
         /\ PlaceOf(t, "start", p, c) < PlaceOf(t, "wait", p, c)
         /\ Direct(job[t]) => /\ PlaceOf(t, "map", p, c) \in Steps(t) /\ PlaceOf(t, "unmap", p, c) \in Steps(t)
                              /\ PlaceOf(t, "map", p, c) < PlaceOf(t, "start", p, c)
                              /\ PlaceOf(t, "wait", p, c) < PlaceOf(t, "unmap", p, c)
         /\ ~Direct(job[t]) =>
              /\ FirstOf(t, c) <= PlaceOf(t, "start", p, c)
              /\ PlaceOf(t, "wait", p, c) <= EmptyOf(t, c)
              /\ FirstOf(t, c) <= FullOf(t, c) /\ FullOf(t, c) < EmptyOf(t, c)
              /\ p = "rd" => FullOf(t, c) < PlaceOf(t, "start", p, c)
<1>1. PICK j \in JobType, w \in BOOLEAN : j = job[t] /\ w = Twin(t)
  BY JobTyped
<1>2. c \in Nat
  BY JobTyped
<1>3. "start" \in Ops(j) /\ "wait" \in Ops(j) /\ (Direct(j) => "map" \in Ops(j) /\ "unmap" \in Ops(j))
  <2>1. CASE Direct(j)
    <3>1. j.dir # "p2p"
      BY <2>1, JobFields DEF Direct
    <3> QED
      BY <2>1, <3>1 DEF Ops
  <2>2. CASE ~Direct(j)
    BY <2>2, JobFields DEF Ops
  <2> QED
    BY <2>1, <2>2
<1>4. \A op \in Ops(j) : PlaceOf(t, op, p, c) \in Steps(t)
  BY <1>1, StepsPlaced
<1>5. /\ Place(j, w, "start", p, c) < Place(j, w, "wait", p, c)
      /\ Direct(j) => /\ Place(j, w, "map", p, c) < Place(j, w, "start", p, c)
                      /\ Place(j, w, "wait", p, c) < Place(j, w, "unmap", p, c)
      /\ ~Direct(j) =>
              /\ FirstPlace(j, w, c) <= Place(j, w, "start", p, c)
              /\ Place(j, w, "wait", p, c) <= EmptyPlace(j, w, c)
              /\ FirstPlace(j, w, c) <= FullPlace(j, w, c)
              /\ FullPlace(j, w, c) < EmptyPlace(j, w, c)
              /\ p = "rd" => FullPlace(j, w, c) < Place(j, w, "start", p, c)
  BY <1>1, <1>2, StartsFirst
<1> QED
  BY <1>1, <1>3, <1>4, <1>5 DEF PlaceOf, FirstOf, FullOf, EmptyOf

-----------------------------------------------------------------------------
(* The steps that move data on: each leaves the data where the next step,  *)
(* at q, expects it.                                                       *)

Behind(t, q) == \A k \in Steps(t) : k < q <=> k <= at[t]

(* What is between two steps once the copy has gone on to q. *)
LEMMA Onward ==
  ASSUME DInv, NEW t \in Threads, Moving(t), NEW q \in Nat, Behind(t, q),
         NEW a \in Steps(t), NEW b \in Steps(t), a <= b
  PROVE  Between(q, a, b) <=> (Between(at[t], a, b) \/ a = at[t]) /\ b # at[t]
<1>1. PICK S \in SUBSET Nat, n \in Nat : S = Steps(t) /\ n = at[t]
  BY UnderWay
<1>2. a \in S /\ b \in S /\ \A k \in S : k < q <=> k <= n
  BY <1>1 DEF Behind
<1> QED
  BY <1>1, <1>2 DEF Between

(* A start puts a transfer in flight, its wait takes it off.               *)
LEMMA FlightsMove ==
  ASSUME DInv, NEW t \in Threads, Moving(t), NEW q \in Nat, Behind(t, q),
         job'[t] = job[t], held'[t] = held[t],
         \A p \in Pools, c \in Chunks(t) :
           LET here == p = Cur(t).pool /\ c = Cur(t).chunk
           IN  <<p, c>> \in flight'[t]
                 <=> \/ here /\ Cur(t).op = "start"
                     \/ <<p, c>> \in flight[t] /\ ~(here /\ Cur(t).op = "wait")
  PROVE  Flights(t, q)'
<1> SUFFICES ASSUME NEW p \in Pools, NEW c \in Chunks(t), Uses(job[t], p)
             PROVE  <<p, c>> \in flight'[t] <=>
                      Between(q, PlaceOf(t, "start", p, c), PlaceOf(t, "wait", p, c))
  BY SameShape DEF Flights
<1>1. PICK a \in Steps(t), b \in Steps(t) :
        a = PlaceOf(t, "start", p, c) /\ b = PlaceOf(t, "wait", p, c) /\ a < b
  BY UnderWay, InOrder
<1>2. Between(q, a, b) <=> (Between(at[t], a, b) \/ a = at[t]) /\ b # at[t]
  <2>1. a <= b
    BY <1>1, UnderWay
  <2> QED
    BY <2>1, Onward
<1>3. {"start", "wait"} \subseteq Ops(job[t])
  BY JobTyped, JobFields, UnderWay DEF Ops, Direct
<1>4. /\ a = at[t] <=> p = Cur(t).pool /\ c = Cur(t).chunk /\ Cur(t).op = "start"
      /\ b = at[t] <=> p = Cur(t).pool /\ c = Cur(t).chunk /\ Cur(t).op = "wait"
  BY <1>1, <1>3, UnderWay, Here
<1>5. <<p, c>> \in flight[t] <=> Between(at[t], a, b)
  BY <1>1, UnderWay DEF Moves, Flights
<1> QED
  BY <1>1, <1>2, <1>4, <1>5

(* The page of a chunk is mapped from its map to its unmap.                *)
LEMMA PagesMove ==
  ASSUME DInv, NEW t \in Threads, Moving(t), NEW q \in Nat, Behind(t, q),
         job'[t] = job[t], held'[t] = held[t],
         \A c \in Chunks(t) :
           (\/ c = Cur(t).chunk /\ Cur(t).op = "map"
            \/ c \in mapped[t] /\ ~(c = Cur(t).chunk /\ Cur(t).op = "unmap")) => c \in mapped'[t]
  PROVE  PagesMapped(t, q)'
<1> SUFFICES ASSUME Direct(job[t]), NEW p \in Pools, NEW c \in Chunks(t), Uses(job[t], p),
                    Between(q, PlaceOf(t, "map", p, c), PlaceOf(t, "unmap", p, c))
             PROVE  c \in mapped'[t]
  BY SameShape DEF PagesMapped
<1>1. PICK a \in Steps(t), b \in Steps(t) :
        a = PlaceOf(t, "map", p, c) /\ b = PlaceOf(t, "unmap", p, c) /\ a <= b
  <2>1. Steps(t) \in SUBSET Nat
    BY UnderWay
  <2> QED
    BY <2>1, UnderWay, InOrder
<1>2. (Between(at[t], a, b) \/ a = at[t]) /\ b # at[t]
  BY <1>1, Onward
<1>3. {"map", "unmap"} \subseteq Ops(job[t])
  BY JobTyped, JobFields, UnderWay DEF Ops, Direct
<1>4. /\ a = at[t] <=> p = Cur(t).pool /\ c = Cur(t).chunk /\ Cur(t).op = "map"
      /\ b = at[t] <=> p = Cur(t).pool /\ c = Cur(t).chunk /\ Cur(t).op = "unmap"
  BY <1>1, <1>3, UnderWay, Here
<1>5. p = Cur(t).pool
  <2>1. Uses(job[t], Cur(t).pool) /\ job[t].dir # "p2p"
    BY JobTyped, JobFields, UnderWay, Here DEF Direct
  <2> QED
    BY <2>1 DEF Uses
<1>6. Between(at[t], a, b) => c \in mapped[t]
  BY <1>1, UnderWay DEF Moves, PagesMapped
<1> QED
  BY <1>2, <1>4, <1>5, <1>6

(* A chunk is delivered by its last step. *)
LEMMA DeliveredMove ==
  ASSUME DInv, NEW t \in Threads, Moving(t), NEW q \in Nat, Behind(t, q),
         job'[t] = job[t], held'[t] = held[t],
         \A c \in Chunks(t) : \/ dst'[t][c] = <<t, c>>
                              \/ EmptyOf(t, c) # at[t] /\ dst'[t][c] = dst[t][c]
  PROVE  Delivered(t, q)'
<1> SUFFICES ASSUME NEW c \in Chunks(t), EmptyOf(t, c) < q, EmptyOf(t, c) # at[t],
                    dst'[t][c] = dst[t][c]
             PROVE  dst[t][c] = <<t, c>>
  BY SameShape DEF Delivered
<1>1. EmptyOf(t, c) \in Steps(t)
  BY UnderWay, Milestones
<1>2. EmptyOf(t, c) <= at[t]
  BY <1>1 DEF Behind
<1>3. EmptyOf(t, c) < at[t]
  BY <1>1, <1>2, UnderWay
<1> QED
  BY <1>3, UnderWay DEF Moves, Delivered

(* What a buffer holds it keeps, until it has been emptied. *)
LEMMA BufferedMove ==
  ASSUME DInv, NEW t \in Threads, Moving(t), NEW q \in Nat, Behind(t, q),
         job'[t] = job[t], held'[t] = held[t],
         ~Direct(job[t]) => \A c \in Chunks(t) :
           (\/ FullOf(t, c) = at[t]
            \/ Between(at[t], FullOf(t, c), EmptyOf(t, c)) /\ kbuf[BufOf(t, c)] = <<t, c>>)
           => kbuf'[BufOf(t, c)] = <<t, c>>
  PROVE  Buffered(t, q)'
<1> SUFFICES ASSUME ~Direct(job[t]), NEW c \in Chunks(t), Between(q, FullOf(t, c), EmptyOf(t, c))
             PROVE  kbuf'[BufOf(t, c)] = <<t, c>>
  BY SameShape DEF Buffered
<1>1. PICK a \in Steps(t), b \in Steps(t) : a = FullOf(t, c) /\ b = EmptyOf(t, c)
  BY UnderWay, Milestones
<1>2. a <= b
  <2>1. PICK p \in Pools : p = HostPool(job[t]) /\ Uses(job[t], p)
    BY DEF HostPool, Pools, Uses
  <2>2. a < b
    BY <1>1, <2>1, UnderWay, InOrder
  <2> QED
    BY <2>2, UnderWay
<1>3. Between(at[t], a, b) \/ a = at[t]
  BY <1>1, <1>2, Onward
<1> QED
  BY <1>1, <1>3, UnderWay DEF Moves, Buffered

(* A copy that goes on is as it should be, and one that has gone all the   *)
(* way has nothing in flight and has delivered every chunk.                *)
LEMMA AdvanceSound ==
  ASSUME DInv, NEW t \in Threads, Moving(t), pc[t] # "lock", Advance(t),
         job'[t] = job[t], held'[t] = held[t], res'[t] = res[t],
         flight'[t] \in SUBSET (Pools \X (1 .. MaxChunks)), Flown(t)', Arrived(t)',
         \A q \in Nat : Behind(t, q) =>
           Flights(t, q)' /\ PagesMapped(t, q)' /\ Delivered(t, q)' /\ Buffered(t, q)'
  PROVE  Sound(t)'
<1>1. PICK q \in Nat :
        /\ Behind(t, q)
        /\ \/ pc'[t] = "run" /\ at'[t] = q /\ q \in Steps(t)
           \/ pc'[t] = "put" /\ \A k \in Steps(t) : k < q
  BY UnderWay, GoesOn DEF Behind
<1>2. Flights(t, q)' /\ PagesMapped(t, q)' /\ Delivered(t, q)' /\ Buffered(t, q)' /\ res'[t] = "ok"
  BY <1>1 DEF Moving
<1>3. NoDup(t)' /\ \A x \in NoKbuf : x \notin Own(t)'
  <2>1. NoDup(t) /\ \A x \in NoKbuf : x \notin Own(t)
    BY DEF DInv, Sound
  <2> QED
    BY <2>1, SameShape DEF NoDup
<1>4. CASE pc'[t] = "run" /\ at'[t] = q /\ q \in Steps(t)
  <2>1. Moves(t, at[t])'
    BY <1>2, <1>4 DEF Moves, Flights, PagesMapped, Delivered, Buffered
  <2> QED
    BY <1>2, <1>3, <1>4, <2>1 DEF Sound
<1>5. CASE pc'[t] = "put" /\ \A k \in Steps(t) : k < q
  <2>1. flight'[t] = {}
    <3> SUFFICES ASSUME NEW f \in flight'[t] PROVE FALSE
      OBVIOUS
    <3>1. PICK p \in Pools, c \in 1 .. MaxChunks : f = <<p, c>>
      OBVIOUS
    <3>2. Uses(job[t], p) /\ c \in Chunks(t)
      BY <3>1, SameShape DEF Flown
    <3>3. Between(q, PlaceOf(t, "start", p, c), PlaceOf(t, "wait", p, c))
      BY <1>2, <3>1, <3>2, SameShape DEF Flights
    <3>4. PlaceOf(t, "wait", p, c) \in Steps(t)
      BY <3>2, UnderWay, InOrder
    <3> QED
      BY <1>5, <3>3, <3>4, UnderWay DEF Between
  <2>2. Complete(t)'
    <3> SUFFICES ASSUME NEW c \in Chunks(t) PROVE dst'[t][c] = <<t, c>>
      BY SameShape DEF Complete
    <3>1. EmptyOf(t, c) < q
      BY <1>5, UnderWay, Milestones
    <3> QED
      BY <1>2, <3>1, SameShape DEF Delivered
  <2> QED
    BY <1>2, <1>3, <1>5, <2>1, <2>2 DEF Sound, Moving
<1> QED
  BY <1>1, <1>4, <1>5

(* A copy that has failed waits for what it leaves in flight. *)
LEMMA FailSound ==
  ASSUME DInv, NEW t \in Threads, NEW left \in SUBSET flight[t], Fail(t, left),
         job'[t] = job[t], held'[t] = held[t], mapped'[t] = mapped[t]
  PROVE  Sound(t)'
<1>1. /\ pc'[t] = IF left = {} THEN "put" ELSE "drain"
      /\ res'[t] = "err" /\ flight'[t] = left
  BY DEF DInv, EInv, ETypes, Fail
<1>2. NoDup(t)' /\ \A x \in NoKbuf : x \notin Own(t)'
  <2>1. NoDup(t) /\ \A x \in NoKbuf : x \notin Own(t)
    BY DEF DInv, Sound
  <2> QED
    BY <2>1, SameShape DEF NoDup
<1>3. Flown(t)'
  BY <1>1, SameShape DEF DInv, Sound, Flown
<1> QED
  BY <1>1, <1>2, <1>3 DEF Sound, Moving

(* A copy that is not under way. *)
LEMMA QuietSound ==
  ASSUME NEW t, NoDup(t)', \A x \in NoKbuf : x \notin Own(t)', flight'[t] = {},
         pc'[t] \in {"idle", "down", "get", "begin", "put", "up", "ret"},
         pc'[t] \in {"down", "get", "begin"} => res'[t] = "ok",
         pc'[t] \in {"put", "up", "ret"} /\ res'[t] = "ok" => Complete(t)'
  PROVE  Sound(t)'
BY DEF Sound, Flown, Moving

-----------------------------------------------------------------------------
(* The engines and the reset, while copies move their data. *)

LEMMA ResetKept ==
  ASSUME ResetState, UNCHANGED <<inReset, resetPc, enable>>,
         \A x \in NoKbuf : x[2] \in used[x[1]] => x[2] \in used'[x[1]],
         \A x \in Channels : engine'[x] = "busy" => engine[x] = "busy" \/ ~inReset
  PROVE  ResetState'
BY DEF ResetState

LEMMA AttendedMove ==
  ASSUME DInv, NEW t \in Threads, Apart(t), inReset' = inReset,
         job'[t] = job[t], held'[t] = held[t],
         \A y \in Channels : engine'[y] = "busy" /\ ~inReset =>
           \/ /\ engine[y] = "busy"
              /\ \A c \in 1 .. MaxChunks :
                   <<y[1], c>> \in flight[t] /\ EngineOf(t, y[1], c) = y => <<y[1], c>> \in flight'[t]
           \/ \E c \in 1 .. MaxChunks : <<y[1], c>> \in flight'[t] /\ EngineOf(t, y[1], c) = y
  PROVE  Attended'
<1> SUFFICES ASSUME ~inReset, NEW y \in Channels, engine'[y] = "busy" PROVE Waiting(y)' # {}
  BY DEF Attended
<1>1. CASE /\ engine[y] = "busy"
           /\ \A c \in 1 .. MaxChunks :
                <<y[1], c>> \in flight[t] /\ EngineOf(t, y[1], c) = y => <<y[1], c>> \in flight'[t]
  <2>1. Waiting(y) # {}
    BY <1>1 DEF DInv, Attended
  <2> QED
    BY <1>1, <2>1, WaitingKept DEF Apart
<1>2. ASSUME NEW c \in 1 .. MaxChunks, <<y[1], c>> \in flight'[t] /\ EngineOf(t, y[1], c) = y
      PROVE  Waiting(y)' # {}
  <2>1. EngineOf(t, y[1], c)' = y
    BY <1>2, SameShape
  <2>2. <<t, c>> \in Threads \X (1 .. MaxChunks) /\ <<t, c>>[1] = t /\ <<t, c>>[2] = c
    OBVIOUS
  <2>3. <<t, c>> \in Waiting(y)'
    BY <1>2, <2>1, <2>2 DEF Waiting
  <2> QED
    BY <2>3
<1> QED
  BY <1>1, <1>2

(* Only a reset refuses a channel that a copy has. *)
LEMMA RefusedInReset ==
  ASSUME DInv, NEW t \in Threads, NEW x \in Own(t), x \in Channels, Refused(x)
  PROVE  inReset
BY DEF DInv, ResetState, Sound, Refused

(* A transfer the copy has in flight is on a channel of its own. *)
LEMMA InFlight ==
  ASSUME DInv, NEW t \in Threads, NEW f \in flight[t]
  PROVE  /\ f \in Pools \X (1 .. MaxChunks) /\ f = <<f[1], f[2]>>
         /\ Uses(job[t], f[1]) /\ f[1] \in Pools /\ f[2] \in Chunks(t)
         /\ EngineOf(t, f[1], f[2]) \in Own(t) /\ EngineOf(t, f[1], f[2]) \in Channels
         /\ EngineOf(t, f[1], f[2])[1] = f[1]
<1>1. ETypes /\ Local(t) /\ Sound(t)
  BY DEF DInv, EInv
<1>2. f \in Pools \X (1 .. MaxChunks)
  BY <1>1 DEF ETypes
<1>3. Uses(job[t], f[1]) /\ f[2] \in Chunks(t) /\ f[1] \in Pools
  BY <1>1, <1>2 DEF Sound, Flown
<1>4. Equipped(t) /\ OfPools(t)
  BY <1>1 DEF Sound, Local
<1> QED
  BY <1>1, <1>2, <1>3, <1>4, EngineIn

-----------------------------------------------------------------------------
(* The steps that move data. *)

(* What all of them leave alone. *)
LEMMA MoveFrames ==
  ASSUME DInv, NEW t \in Threads, Move(t)
  PROVE  UNCHANGED <<inReset, resetPc, enable, used, job, held, mix, sems, tried>>
BY DEF Move, StartEngine, WaitEngine, Poll, Drain, Fill, CopyOut, MapPage, UnmapPage,
       poolVars, chanVars, ownVars, resetVars

(* Variables of one copy. *)
LEMMA AdvanceFrame ==
  ASSUME DInv, NEW t \in Threads, Advance(t)
  PROVE  \A u \in Threads : u # t => pc'[u] = pc[u] /\ at'[u] = at[u]
BY AdvanceGoes DEF DInv, EInv

LEMMA FailFrame ==
  ASSUME DInv, NEW t \in Threads, NEW left, Fail(t, left)
  PROVE  \A u \in Threads : u # t =>
           pc'[u] = pc[u] /\ at'[u] = at[u] /\ res'[u] = res[u] /\ flight'[u] = flight[u]
BY DEF DInv, EInv, ETypes, Fail

(* A step that fails, in a reset or with nothing it stops waiting for. *)
LEMMA FailKeeps ==
  ASSUME DInv, EInv', NEW t \in Threads, NEW left \in SUBSET flight[t], Fail(t, left),
         inReset \/ left = flight[t],
         UNCHANGED <<kbuf, engine, mapped, dst, inReset, resetPc, enable, used, job, held>>
  PROVE  DInv'
<1>1. Apart(t) /\ flight'[t] = left
  <2>1. flight'[t] = left
    BY DEF DInv, EInv, ETypes, Fail
  <2> QED
    BY <2>1, FailFrame DEF Apart
<1>2. Sound(t)'
  BY FailSound
<1>3. DTypes' /\ ResetState'
  BY ResetKept DEF DInv, DTypes
<1>4. Attended'
  <2>1. CASE inReset
    BY <2>1 DEF Attended
  <2>2. CASE left = flight[t]
    BY <1>1, <2>2, AttendedMove
  <2> QED
    BY <2>1, <2>2
<1> QED
  BY <1>1, <1>2, <1>3, <1>4, OneMover

LEMMA StartGoes ==
  ASSUME DInv, EInv', NEW t \in Threads, StartEngine(t)
  PROVE  DInv'
<1>1. PICK p, c, x, b : /\ p = Cur(t).pool /\ c = Cur(t).chunk
                        /\ x = EngineOf(t, p, c) /\ b = BufOf(t, c)
  OBVIOUS
<1>2. /\ pc[t] = "run" /\ Cur(t).op = "start" /\ UNCHANGED <<enable, mapped, dst>>
      /\ UNCHANGED <<inReset, resetPc, enable, used, job, held>>
      /\ \/ Refused(x) /\ Fail(t, flight[t]) /\ UNCHANGED <<kbuf, engine>>
         \/ /\ ~Refused(x)
            /\ engine' = [engine EXCEPT ![x] = "busy"]
            /\ kbuf' = IF p = "wr" /\ b # Nothing THEN [kbuf EXCEPT ![b] = Junk] ELSE kbuf
            /\ flight' = [flight EXCEPT ![t] = @ \cup {<<p, c>>}]
            /\ Advance(t) /\ UNCHANGED res
  BY <1>1, MoveFrames DEF Move, StartEngine, Doing
<1>3. Moving(t) /\ ETypes /\ DTypes
  BY <1>2 DEF DInv, EInv, Sound, Moving
<1>4. /\ p \in Pools /\ Uses(job[t], p) /\ c \in Chunks(t) /\ c \in 1 .. MaxChunks
  BY <1>1, <1>3, UnderWay, Here, JobTyped
<1>5. /\ x \in Own(t) /\ x \in Channels /\ x[1] = p
      /\ Direct(job[t]) => b = Nothing
      /\ ~Direct(job[t]) => b \in Own(t) /\ b \in Channels /\ b # Nothing
  BY <1>1, <1>3, <1>4, UnderWay, EngineIn, BufferIn
<1>6. CASE Refused(x) /\ Fail(t, flight[t]) /\ UNCHANGED <<kbuf, engine>>
  BY <1>2, <1>6, FailKeeps
<1>7. CASE /\ ~Refused(x)
           /\ engine' = [engine EXCEPT ![x] = "busy"]
           /\ kbuf' = IF p = "wr" /\ b # Nothing THEN [kbuf EXCEPT ![b] = Junk] ELSE kbuf
           /\ flight' = [flight EXCEPT ![t] = @ \cup {<<p, c>>}]
           /\ Advance(t) /\ UNCHANGED res
  <2>1. /\ engine'[x] = "busy" /\ \A y \in Channels : y # x => engine'[y] = engine[y]
        /\ flight'[t] = flight[t] \cup {<<p, c>>} /\ \A u \in Threads : u # t => flight'[u] = flight[u]
    BY <1>3, <1>5, <1>7 DEF ETypes
  <2>2. \A y \in Channels : kbuf'[y] = IF p = "wr" /\ y = b THEN Junk ELSE kbuf[y]
    BY <1>3, <1>5, <1>7, EdmaAssumption DEF DTypes
  <2>3. DTypes'
    <3>1. Junk \in Values
      BY EdmaAssumption DEF Junk, Values
    <3> QED
      BY <1>2, <1>3, <1>7, <3>1 DEF DTypes
  <2>4. Apart(t)
    <3>1. \A y \in Channels : y \notin Own(t) => kbuf'[y] = kbuf[y] /\ engine'[y] = engine[y]
      <4>1. b \in Channels => b \in Own(t)
        BY <1>5, EdmaAssumption
      <4> QED
        BY <1>5, <2>1, <2>2, <4>1
    <3> QED
      BY <1>2, <1>7, <2>1, <3>1, AdvanceFrame DEF Apart
  <2>5. ResetState'
    <3>1. ~inReset
      BY <1>7 DEF Refused
    <3> QED
      BY <1>2, <3>1, ResetKept DEF DInv
  <2>6. Attended'
    <3>1. <<x[1], c>> \in flight'[t] /\ EngineOf(t, x[1], c) = x
      BY <1>1, <1>5, <2>1
    <3>2. \A y \in Channels : y # x => engine'[y] = engine[y] /\ flight[t] \subseteq flight'[t]
      BY <2>1
    <3> QED
      BY <1>2, <1>4, <2>4, <3>1, <3>2, AttendedMove
  <2>7. flight'[t] \in SUBSET (Pools \X (1 .. MaxChunks))
    BY <1>3, <1>4, <2>1, UnderWay
  <2>8. Flown(t)'
    <3>1. Direct(job[t]) => c \in mapped[t]
      <4> SUFFICES ASSUME Direct(job[t]) PROVE c \in mapped[t]
        OBVIOUS
      <4>1. PICK m \in Steps(t), s \in Steps(t), n \in Steps(t) :
              /\ m = PlaceOf(t, "map", p, c) /\ s = PlaceOf(t, "start", p, c)
              /\ n = PlaceOf(t, "unmap", p, c) /\ m < s /\ s < n
        <5>1. Steps(t) \in SUBSET Nat
          BY <1>3, UnderWay
        <5>2. /\ PlaceOf(t, "wait", p, c) \in Nat
              /\ PlaceOf(t, "start", p, c) < PlaceOf(t, "wait", p, c)
              /\ PlaceOf(t, "wait", p, c) < PlaceOf(t, "unmap", p, c)
              /\ PlaceOf(t, "start", p, c) \in Nat /\ PlaceOf(t, "unmap", p, c) \in Nat
          BY <1>3, <1>4, <5>1, InOrder
        <5>3. PlaceOf(t, "start", p, c) < PlaceOf(t, "unmap", p, c)
          BY <5>2
        <5> QED
          BY <1>3, <1>4, <5>3, InOrder
      <4>2. s = at[t]
        <5>1. "start" \in Ops(job[t])
          BY <1>2, <1>3, UnderWay, Here
        <5> QED
          BY <1>1, <1>2, <1>3, <1>4, <4>1, <5>1, UnderWay, Here
      <4>3. Between(at[t], m, n)
        <5>1. m \in Nat /\ n \in Nat /\ s \in Nat
          BY <1>3, UnderWay
        <5> QED
          BY <4>1, <4>2, <5>1 DEF Between
      <4> QED
        BY <1>3, <1>4, <4>1, <4>3, UnderWay DEF Moves, PagesMapped
    <3> QED
      BY <1>2, <1>3, <1>4, <2>1, <3>1, UnderWay, SameShape DEF Flown
  <2>9. ASSUME NEW d \in Chunks(t), d # c, ~Direct(job[t]), p = "wr",
               Between(at[t], FirstOf(t, d), EmptyOf(t, d))
        PROVE  BufOf(t, d) # b
    <3>1. FirstOf(t, c) = at[t]
      <4>1. HostPool(job[t]) = "wr"
        BY <1>4, <2>9 DEF Uses, HostPool
      <4> QED
        BY <1>1, <1>2, <1>3, <1>4, <2>9, <4>1, UnderWay, Milestones
    <3>2. FirstOf(t, c) <= at[t] /\ at[t] <= EmptyOf(t, c)
      <4>1. FirstOf(t, c) <= FullOf(t, c) /\ FullOf(t, c) < EmptyOf(t, c)
        BY <1>3, <1>4, <2>9, UnderWay, InOrder
      <4>2. {FirstOf(t, c), FullOf(t, c), EmptyOf(t, c)} \subseteq Nat
        BY <1>3, <1>4, <2>9, UnderWay, Milestones
      <4> QED
        BY <3>1, <4>1, <4>2
    <3> QED
      BY <1>1, <1>3, <1>4, <2>9, <3>2, UnderWay, BuffersApart
  <2>10. Arrived(t)'
    <3>0. \A e, d : EngineOf(t, e, d)' = EngineOf(t, e, d)
      BY <1>2, SameShape
    <3> SUFFICES ASSUME NEW f \in flight'[t], engine'[EngineOf(t, f[1], f[2])] = "done"
                 PROVE  HasArrived(t, f)'
      BY <3>0 DEF Arrived
    <3>1. f # <<p, c>>
      BY <1>1, <2>1
    <3>2. f \in flight[t]
      BY <2>1, <3>1
    <3>3. EngineOf(t, f[1], f[2]) # x /\ engine[EngineOf(t, f[1], f[2])] = "done"
      BY <2>1, <3>2, InFlight
    <3>4. HasArrived(t, f)
      BY <1>3, <3>2, <3>3, UnderWay DEF Moves, Arrived
    <3>5. f[1] = "wr" /\ ~Direct(job[t]) => kbuf'[BufOf(t, f[2])] = kbuf[BufOf(t, f[2])]
      <4> SUFFICES ASSUME f[1] = "wr", ~Direct(job[t]), p = "wr"
                   PROVE  kbuf'[BufOf(t, f[2])] = kbuf[BufOf(t, f[2])]
        BY <1>3, <2>2, <3>2, InFlight, UnderWay, BufferIn
      <4>1. f[2] \in Chunks(t) /\ f[2] # c /\ Uses(job[t], "wr") /\ <<"wr", f[2]>> \in flight[t] /\ "wr" \in Pools
        BY <3>1, <3>2, InFlight
      <4>2. Between(at[t], PlaceOf(t, "start", "wr", f[2]), PlaceOf(t, "wait", "wr", f[2]))
        BY <1>3, <4>1, UnderWay DEF Moves, Flights
      <4>3. Between(at[t], FirstOf(t, f[2]), EmptyOf(t, f[2]))
        <5>1. /\ FirstOf(t, f[2]) \in Nat /\ EmptyOf(t, f[2]) \in Nat
              /\ PlaceOf(t, "start", "wr", f[2]) \in Nat /\ PlaceOf(t, "wait", "wr", f[2]) \in Nat
          BY <1>3, <4>1, UnderWay, Milestones, InOrder
        <5>2. /\ FirstOf(t, f[2]) <= PlaceOf(t, "start", "wr", f[2])
              /\ PlaceOf(t, "wait", "wr", f[2]) <= EmptyOf(t, f[2])
          BY <1>3, <4>1, UnderWay, InOrder
        <5> QED
          BY <1>3, <4>2, <5>1, <5>2, UnderWay DEF Between
      <4>4. BufOf(t, f[2]) # b /\ BufOf(t, f[2]) \in Channels
        BY <1>3, <2>9, <4>1, <4>3, UnderWay, BufferIn
      <4> QED
        BY <2>2, <4>4
    <3> QED
      BY <1>2, <3>4, <3>5, SameShape DEF HasArrived
  <2>11. ASSUME NEW q \in Nat, Behind(t, q)
         PROVE  Flights(t, q)' /\ PagesMapped(t, q)' /\ Delivered(t, q)' /\ Buffered(t, q)'
    <3>1. Flights(t, q)'
      BY <1>1, <1>2, <1>3, <2>1, <2>11, FlightsMove
    <3>2. PagesMapped(t, q)'
      BY <1>2, <1>3, <2>11, PagesMove
    <3>3. Delivered(t, q)'
      <4>1. \A d \in Chunks(t) : EmptyOf(t, d) # at[t]
        BY <1>2, <1>3, UnderWay, Milestones
      <4> QED
        BY <1>2, <1>3, <2>11, <4>1, DeliveredMove
    <3>4. Buffered(t, q)'
      <4> SUFFICES ASSUME ~Direct(job[t]), NEW d \in Chunks(t),
                          FullOf(t, d) # at[t] => /\ Between(at[t], FullOf(t, d), EmptyOf(t, d))
                                                  /\ kbuf[BufOf(t, d)] = <<t, d>>
                   PROVE  kbuf'[BufOf(t, d)] = <<t, d>>
        BY <1>2, <1>3, <2>11, BufferedMove
      <4>1. FullOf(t, d) # at[t]
        BY <1>2, <1>3, UnderWay, Milestones
      <4>2. /\ FirstOf(t, d) \in Nat /\ FullOf(t, d) \in Nat /\ EmptyOf(t, d) \in Nat /\ at[t] \in Nat
        BY <1>3, UnderWay, Milestones
      <4>3. FirstOf(t, d) <= FullOf(t, d)
        BY <1>3, <1>4, UnderWay, InOrder
      <4>4. Between(at[t], FirstOf(t, d), EmptyOf(t, d))
        BY <4>1, <4>2, <4>3 DEF Between
      <4>5. BufOf(t, d) \in Channels
        BY <1>3, UnderWay, BufferIn
      <4>6. p = "wr" => BufOf(t, d) # b
        <5> SUFFICES ASSUME p = "wr" PROVE d # c
          BY <2>9, <4>4
        <5>1. HostPool(job[t]) = "wr"
          BY <1>4 DEF Uses, HostPool
        <5>2. FirstOf(t, c) = at[t]
          BY <1>1, <1>2, <1>3, <1>4, <5>1, UnderWay, Milestones
        <5> QED
          BY <4>2, <4>4, <5>2 DEF Between
      <4> QED
        BY <2>2, <4>1, <4>5, <4>6
    <3> QED
      BY <3>1, <3>2, <3>3, <3>4
  <2>12. Sound(t)'
    BY <1>2, <1>3, <1>7, <2>7, <2>8, <2>10, <2>11, AdvanceSound
  <2> QED
    BY <2>3, <2>4, <2>5, <2>6, <2>12, OneMover
<1> QED
  BY <1>2, <1>6, <1>7

(* A copy that polls what it has in flight. *)
LEMMA PollsOn ==
  ASSUME DInv, EInv', NEW t \in Threads, pc[t] \in {"run", "drain"}, pc' = [pc EXCEPT ![t] = "poll"],
         pc[t] = "run" => Cur(t).op = "wait",
         pc[t] = "drain" => flight[t] # {},
         UNCHANGED <<at, res, flight, kbuf, engine, mapped, dst, inReset, resetPc, enable, used, job, held>>
  PROVE  DInv'
<1>1. ETypes /\ Local(t) /\ Sound(t) /\ pc'[t] = "poll"
  BY DEF DInv, EInv, ETypes
<1>2. Apart(t)
  BY <1>1 DEF Apart, ETypes
<1>3. DTypes' /\ ResetState'
  BY ResetKept DEF DInv, DTypes
<1>4. Attended'
  BY <1>2, AttendedMove
<1>5. Sound(t)'
  <2>1. /\ Own(t)' = Own(t) /\ Chunks(t)' = Chunks(t) /\ Steps(t)' = Steps(t) /\ Cur(t)' = Cur(t)
    BY SameShape DEF Cur
  <2>2. NoDup(t)' /\ Flown(t)' /\ \A x \in NoKbuf : x \notin Own(t)'
    BY <1>1, <2>1 DEF Sound, NoDup, Flown
  <2>3. CASE pc[t] = "run"
    <3>1. Moving(t) /\ Moves(t, at[t]) /\ res[t] = "ok" /\ at[t] \in Steps(t)
      BY <1>1, <2>3 DEF Sound, Moving, Local
    <3>2. PICK q : q = at[t]
      OBVIOUS
    <3>3. Moves(t, q)' /\ at'[t] = q
      BY <3>1, <3>2, MovesKept
    <3>4. Moves(t, at[t])'
      BY <3>3 DEF Moves, Flights, PagesMapped, Delivered, Buffered
    <3> QED
      BY <1>1, <2>1, <2>2, <2>3, <3>1, <3>4 DEF Sound
  <2>4. CASE pc[t] = "drain"
    <3>1. res[t] = "err"
      BY <1>1, <2>4 DEF Sound
    <3> QED
      BY <1>1, <2>2, <2>4, <3>1 DEF Sound, Moving
  <2> QED
    BY <2>3, <2>4
<1> QED
  BY <1>2, <1>3, <1>4, <1>5, OneMover

LEMMA WaitGoes ==
  ASSUME DInv, EInv', NEW t \in Threads, WaitEngine(t)
  PROVE  DInv'
<1>1. PICK p, c, x : p = Cur(t).pool /\ c = Cur(t).chunk /\ x = EngineOf(t, p, c)
  OBVIOUS
<1>2. /\ pc[t] = "run" /\ Cur(t).op = "wait"
      /\ UNCHANGED <<kbuf, engine, mapped, dst, inReset, resetPc, enable, used, job, held>>
      /\ \/ Refused(x) /\ Fail(t, flight[t] \ {<<p, c>>})
         \/ pc' = [pc EXCEPT ![t] = "poll"] /\ UNCHANGED <<at, res, flight>>
  BY <1>1, MoveFrames DEF Move, WaitEngine, Doing
<1>3. Moving(t) /\ ETypes
  BY <1>2 DEF DInv, EInv, Sound, Moving
<1>4. p \in Pools /\ Uses(job[t], p) /\ c \in Chunks(t)
  BY <1>1, <1>3, UnderWay, Here
<1>5. x \in Own(t) /\ x \in Channels
  BY <1>1, <1>3, <1>4, UnderWay, EngineIn
<1>6. CASE Refused(x) /\ Fail(t, flight[t] \ {<<p, c>>})
  BY <1>2, <1>5, <1>6, RefusedInReset, FailKeeps
<1>7. CASE pc' = [pc EXCEPT ![t] = "poll"] /\ UNCHANGED <<at, res, flight>>
  BY <1>2, <1>7, PollsOn
<1> QED
  BY <1>2, <1>6, <1>7

LEMMA DrainGoes ==
  ASSUME DInv, EInv', NEW t \in Threads, Drain(t)
  PROVE  DInv'
<1>1. PICK f \in flight[t] :
        \/ Refused(EngineOf(t, f[1], f[2])) /\ Fail(t, flight[t] \ {f})
        \/ pc' = [pc EXCEPT ![t] = "poll"] /\ UNCHANGED <<flight, res, at>>
  BY DEF Drain
<1>2. /\ pc[t] = "drain"
      /\ UNCHANGED <<kbuf, engine, mapped, dst, inReset, resetPc, enable, used, job, held>>
  BY DEF Drain, poolVars, chanVars, ownVars, resetVars
<1>3. CASE Refused(EngineOf(t, f[1], f[2])) /\ Fail(t, flight[t] \ {f})
  <2>1. inReset
    BY <1>3, InFlight, RefusedInReset
  <2> QED
    BY <1>2, <1>3, <2>1, FailKeeps
<1>4. CASE pc' = [pc EXCEPT ![t] = "poll"] /\ UNCHANGED <<flight, res, at>>
  BY <1>2, <1>4, PollsOn
<1> QED
  BY <1>1, <1>3, <1>4

(* What is polled for is in flight: an engine that is done has moved it.   *)
LEMMA PollGoes ==
  ASSUME DInv, EInv', NEW t \in Threads, Poll(t)
  PROVE  DInv'
<1>1. PICK f, x : f = Awaited(t) /\ x = EngineOf(t, f[1], f[2])
  OBVIOUS
<1>2. /\ pc[t] = "poll" /\ engine' = [engine EXCEPT ![x] = "idle"]
      /\ UNCHANGED <<kbuf, mapped, dst, inReset, resetPc, enable, used, job, held>>
      /\ \/ /\ res[t] = "ok" /\ engine[x] = "done"
            /\ flight' = [flight EXCEPT ![t] = @ \ {f}]
            /\ Advance(t) /\ UNCHANGED res
         \/ Fail(t, flight[t] \ {f})
  BY <1>1, MoveFrames DEF Move, Poll
<1>3. ETypes /\ Local(t) /\ Sound(t)
  BY DEF DInv, EInv
<1>4. ASSUME res[t] = "ok"
      PROVE  /\ Moving(t) /\ Cur(t).op = "wait" /\ f = <<Cur(t).pool, Cur(t).chunk>>
             /\ f[1] = Cur(t).pool /\ f[2] = Cur(t).chunk /\ f \in flight[t]
  <2>1. Moving(t) /\ Cur(t).op = "wait" /\ f = <<Cur(t).pool, Cur(t).chunk>>
    BY <1>1, <1>2, <1>3, <1>4 DEF Sound, Moving, Awaited
  <2>2. PICK p, c : p = Cur(t).pool /\ c = Cur(t).chunk
    OBVIOUS
  <2>3. p \in Pools /\ Uses(job[t], p) /\ c \in Chunks(t) /\ "wait" \in Ops(job[t])
    BY <2>1, <2>2, UnderWay, Here
  <2>4. PICK a \in Nat, b \in Nat :
          a = PlaceOf(t, "start", p, c) /\ b = PlaceOf(t, "wait", p, c) /\ a < b
    <3>1. Steps(t) \in SUBSET Nat
      BY <2>1, UnderWay
    <3> QED
      BY <1>3, <2>3, <3>1, InOrder
  <2>5. b = at[t]
    BY <2>1, <2>2, <2>3, <2>4, UnderWay, Here
  <2>6. <<p, c>> \in flight[t]
    BY <2>1, <2>3, <2>4, <2>5, UnderWay DEF Moves, Flights, Between
  <2> QED
    BY <2>1, <2>2, <2>6
<1>5. f \in flight[t]
  <2>1. res[t] = "ok" \/ (res[t] = "err" /\ flight[t] # {})
    BY <1>2, <1>3 DEF Sound
  <2>2. CASE res[t] = "err" /\ flight[t] # {}
    BY <1>1, <2>2 DEF Awaited
  <2> QED
    BY <1>4, <2>1, <2>2
<1>6. x \in Own(t) /\ x \in Channels
  BY <1>1, <1>5, InFlight
<1>7. engine'[x] = "idle" /\ \A y \in Channels : y # x => engine'[y] = engine[y]
  BY <1>2, <1>3, <1>6 DEF ETypes
<1>8. flight'[t] = flight[t] \ {f} /\ \A u \in Threads : u # t => flight'[u] = flight[u]
  <2>1. CASE flight' = [flight EXCEPT ![t] = @ \ {f}]
    BY <1>3, <2>1 DEF ETypes
  <2>2. CASE Fail(t, flight[t] \ {f})
    BY <1>3, <2>2 DEF ETypes, Fail
  <2> QED
    BY <1>2, <2>1, <2>2
<1>9. Apart(t)
  BY <1>2, <1>6, <1>7, <1>8, AdvanceFrame, FailFrame DEF Apart
<1>10. DTypes' /\ ResetState'
  BY <1>2, <1>7, ResetKept DEF DInv, DTypes
<1>11. Attended'
  <2>1. \A y \in Channels : engine'[y] = "busy" =>
          /\ engine[y] = "busy"
          /\ \A c \in 1 .. MaxChunks :
               <<y[1], c>> \in flight[t] /\ EngineOf(t, y[1], c) = y => <<y[1], c>> \in flight'[t]
    BY <1>1, <1>7, <1>8
  <2> QED
    BY <1>2, <1>9, <2>1, AttendedMove
<1>12. CASE Fail(t, flight[t] \ {f})
  <2>1. Sound(t)'
    BY <1>2, <1>12, FailSound
  <2> QED
    BY <1>9, <1>10, <1>11, <2>1, OneMover
<1>13. CASE res[t] = "ok" /\ engine[x] = "done" /\ Advance(t) /\ UNCHANGED res
  <2>1. Moving(t) /\ Cur(t).op = "wait" /\ f = <<Cur(t).pool, Cur(t).chunk>>
    BY <1>4, <1>13
  <2>2. f[1] = Cur(t).pool /\ f[2] = Cur(t).chunk /\ HasArrived(t, f)
    BY <1>1, <1>4, <1>5, <1>13, UnderWay DEF Moves, Arrived
  <2>3. flight'[t] \in SUBSET (Pools \X (1 .. MaxChunks))
    BY <1>8, <2>1, UnderWay
  <2>4. Flown(t)'
    BY <1>2, <1>8, <2>1, UnderWay, SameShape DEF Flown
  <2>5. Arrived(t)'
    <3>0. \A e, d : EngineOf(t, e, d)' = EngineOf(t, e, d)
      BY <1>2, SameShape
    <3> SUFFICES ASSUME NEW g \in flight'[t], engine'[EngineOf(t, g[1], g[2])] = "done"
                 PROVE  HasArrived(t, g)'
      BY <3>0 DEF Arrived
    <3>1. g \in flight[t]
      BY <1>8
    <3>2. engine[EngineOf(t, g[1], g[2])] = "done"
      BY <1>7, <3>1, InFlight
    <3>3. HasArrived(t, g)
      BY <2>1, <3>1, <3>2, UnderWay DEF Moves, Arrived
    <3> QED
      BY <1>2, <3>3, SameShape DEF HasArrived
  <2>6. ASSUME NEW q \in Nat, Behind(t, q)
        PROVE  Flights(t, q)' /\ PagesMapped(t, q)' /\ Delivered(t, q)' /\ Buffered(t, q)'
    <3>1. Flights(t, q)'
      BY <1>2, <1>8, <2>1, <2>6, FlightsMove
    <3>2. PagesMapped(t, q)'
      BY <1>2, <2>1, <2>6, PagesMove
    <3>3. Delivered(t, q)'
      <4>1. \A c \in Chunks(t) : EmptyOf(t, c) = at[t] => dst[t][c] = <<t, c>>
        <5> SUFFICES ASSUME NEW c \in Chunks(t), EmptyOf(t, c) = at[t] PROVE dst[t][c] = <<t, c>>
          OBVIOUS
        <5>1. c = f[2] /\ (Direct(job[t]) \/ f[1] = "rd")
          BY <2>1, <2>2, UnderWay, Milestones
        <5> QED
          BY <2>2, <5>1 DEF HasArrived
      <4> QED
        BY <1>2, <2>1, <2>6, <4>1, DeliveredMove
    <3>4. Buffered(t, q)'
      <4>1. ~Direct(job[t]) => \A c \in Chunks(t) : FullOf(t, c) = at[t] => kbuf[BufOf(t, c)] = <<t, c>>
        <5> SUFFICES ASSUME ~Direct(job[t]), NEW c \in Chunks(t), FullOf(t, c) = at[t]
                     PROVE  kbuf[BufOf(t, c)] = <<t, c>>
          OBVIOUS
        <5>1. c = f[2] /\ f[1] = "wr"
          BY <2>1, <2>2, UnderWay, Milestones
        <5> QED
          BY <2>2, <5>1 DEF HasArrived
      <4> QED
        BY <1>2, <2>1, <2>6, <4>1, BufferedMove
    <3> QED
      BY <3>1, <3>2, <3>3, <3>4
  <2>7. pc[t] # "lock"
    BY <1>2
  <2>8. Sound(t)'
    BY <1>2, <1>13, <2>1, <2>3, <2>4, <2>5, <2>6, <2>7, AdvanceSound
  <2> QED
    BY <1>9, <1>10, <1>11, <2>8, OneMover
<1> QED
  BY <1>2, <1>12, <1>13

(* A buffer is filled that is not needed for another chunk. *)
LEMMA FillGoes ==
  ASSUME DInv, EInv', NEW t \in Threads, Fill(t)
  PROVE  DInv'
<1>1. PICK c, b : c = Cur(t).chunk /\ b = BufOf(t, c)
  OBVIOUS
<1>2. /\ pc[t] = "run" /\ Cur(t).op = "fill"
      /\ UNCHANGED <<engine, mapped, dst, inReset, resetPc, enable, used, job, held>>
      /\ \/ /\ kbuf' = [kbuf EXCEPT ![b] = <<t, c>>]
            /\ Advance(t) /\ UNCHANGED <<res, flight>>
         \/ Fail(t, flight[t]) /\ UNCHANGED kbuf
  BY <1>1, MoveFrames DEF Move, Fill, Doing
<1>3. Moving(t) /\ ETypes /\ DTypes
  BY <1>2 DEF DInv, EInv, Sound, Moving
<1>4. c \in Chunks(t) /\ c \in 1 .. MaxChunks /\ "fill" \in Ops(job[t]) /\ Uses(job[t], Cur(t).pool)
  BY <1>1, <1>2, <1>3, UnderWay, Here, JobTyped
<1>5. ~Direct(job[t]) /\ job[t].dir = "h2d" /\ HostPool(job[t]) = "rd" /\ "rd" \in Pools /\ Uses(job[t], "rd")
  BY <1>4, JobTyped, JobFields, <1>3, UnderWay DEF Ops, HostPool, Pools, Uses
<1>6. b \in Own(t) /\ b \in Channels
  BY <1>1, <1>3, <1>4, <1>5, UnderWay, BufferIn
<1>7. CASE Fail(t, flight[t]) /\ UNCHANGED kbuf
  BY <1>2, <1>7, FailKeeps
<1>8. CASE kbuf' = [kbuf EXCEPT ![b] = <<t, c>>] /\ Advance(t) /\ UNCHANGED <<res, flight>>
  <2>1. kbuf'[b] = <<t, c>> /\ \A y \in Channels : y # b => kbuf'[y] = kbuf[y]
    BY <1>3, <1>6, <1>8 DEF DTypes
  <2>2. DTypes' /\ ResetState'
    <3>1. <<t, c>> \in Values
      BY <1>4, EdmaAssumption DEF Values
    <3>2. DTypes'
      BY <1>2, <1>3, <1>8, <3>1 DEF DTypes
    <3> QED
      BY <1>2, <3>2, ResetKept DEF DInv
  <2>3. Apart(t)
    BY <1>2, <1>6, <1>8, <2>1, AdvanceFrame DEF Apart
  <2>4. Attended'
    BY <1>2, <1>8, <2>3, AttendedMove
  <2>5. flight'[t] \in SUBSET (Pools \X (1 .. MaxChunks)) /\ Flown(t)'
    BY <1>2, <1>3, <1>8, UnderWay, SameShape DEF Flown
  <2>6. Arrived(t)'
    <3>0. \A e, d : EngineOf(t, e, d)' = EngineOf(t, e, d)
      BY <1>2, SameShape
    <3> SUFFICES ASSUME NEW f \in flight[t], engine[EngineOf(t, f[1], f[2])] = "done"
                 PROVE  HasArrived(t, f)'
      BY <1>2, <1>8, <3>0 DEF Arrived
    <3>1. HasArrived(t, f)
      BY <1>3, UnderWay DEF Moves, Arrived
    <3>2. f[1] = "rd"
      BY <1>5, InFlight DEF Uses
    <3> QED
      BY <1>2, <3>1, <3>2 DEF HasArrived
  <2>7. FirstOf(t, c) <= at[t] /\ at[t] <= EmptyOf(t, c) /\ FullOf(t, c) = at[t]
    <3>1. FirstOf(t, c) = at[t] /\ FullOf(t, c) = at[t]
      BY <1>1, <1>2, <1>3, <1>4, <1>5, UnderWay, Milestones
    <3>2. FullOf(t, c) < EmptyOf(t, c) /\ EmptyOf(t, c) \in Nat /\ at[t] \in Nat
      BY <1>3, <1>4, <1>5, UnderWay, InOrder, Milestones
    <3> QED
      BY <3>1, <3>2
  <2>8. ASSUME NEW q \in Nat, Behind(t, q)
        PROVE  Flights(t, q)' /\ PagesMapped(t, q)' /\ Delivered(t, q)' /\ Buffered(t, q)'
    <3>1. Flights(t, q)'
      BY <1>2, <1>3, <1>8, <2>8, FlightsMove
    <3>2. PagesMapped(t, q)'
      BY <1>2, <1>3, <2>8, PagesMove
    <3>3. Delivered(t, q)'
      <4>1. \A d \in Chunks(t) : EmptyOf(t, d) # at[t]
        BY <1>2, <1>3, UnderWay, Milestones
      <4> QED
        BY <1>2, <1>3, <2>8, <4>1, DeliveredMove
    <3>4. Buffered(t, q)'
      <4> SUFFICES ASSUME NEW d \in Chunks(t),
                          FullOf(t, d) # at[t] => /\ Between(at[t], FullOf(t, d), EmptyOf(t, d))
                                                  /\ kbuf[BufOf(t, d)] = <<t, d>>
                   PROVE  kbuf'[BufOf(t, d)] = <<t, d>>
        BY <1>2, <1>3, <2>8, BufferedMove
      <4>1. CASE d = c
        BY <1>1, <2>1, <4>1
      <4>2. CASE d # c
        <5>1. FullOf(t, d) # at[t]
          BY <1>1, <1>2, <1>3, <1>5, <4>2, UnderWay, Milestones
        <5>2. Between(at[t], FirstOf(t, d), EmptyOf(t, d))
          <6>1. /\ FirstOf(t, d) \in Nat /\ FullOf(t, d) \in Nat /\ EmptyOf(t, d) \in Nat /\ at[t] \in Nat
            BY <1>3, <1>5, UnderWay, Milestones
          <6>2. FirstOf(t, d) <= FullOf(t, d)
            BY <1>3, <1>5, UnderWay, InOrder
          <6> QED
            BY <5>1, <6>1, <6>2 DEF Between
        <5>3. BufOf(t, d) # b
          BY <1>1, <1>3, <1>4, <1>5, <2>7, <4>2, <5>2, UnderWay, BuffersApart
        <5>4. BufOf(t, d) \in Channels
          BY <1>3, <1>5, UnderWay, BufferIn
        <5> QED
          BY <2>1, <5>1, <5>3, <5>4
      <4> QED
        BY <4>1, <4>2
    <3> QED
      BY <3>1, <3>2, <3>3, <3>4
  <2>9. pc[t] # "lock"
    BY <1>2
  <2>10. Sound(t)'
    BY <1>2, <1>3, <1>8, <2>5, <2>6, <2>8, <2>9, AdvanceSound
  <2> QED
    BY <2>2, <2>3, <2>4, <2>10, OneMover
<1> QED
  BY <1>2, <1>7, <1>8

(* A buffer is emptied that holds the chunk. *)
LEMMA CopyOutGoes ==
  ASSUME DInv, EInv', NEW t \in Threads, CopyOut(t)
  PROVE  DInv'
<1>1. PICK c, b : c = Cur(t).chunk /\ b = BufOf(t, c)
  OBVIOUS
<1>2. /\ pc[t] = "run" /\ Cur(t).op = "out"
      /\ UNCHANGED <<kbuf, engine, mapped, inReset, resetPc, enable, used, job, held>>
      /\ \/ /\ dst' = [dst EXCEPT ![t][c] = kbuf[b]]
            /\ Advance(t) /\ UNCHANGED <<res, flight>>
         \/ Fail(t, flight[t]) /\ UNCHANGED dst
  BY <1>1, MoveFrames DEF Move, CopyOut, Doing, chanVars
<1>3. Moving(t) /\ ETypes /\ DTypes
  BY <1>2 DEF DInv, EInv, Sound, Moving
<1>4. c \in Chunks(t) /\ c \in 1 .. MaxChunks /\ "out" \in Ops(job[t])
  BY <1>1, <1>2, <1>3, UnderWay, Here, JobTyped
<1>5. ~Direct(job[t]) /\ job[t].dir = "d2h" /\ "wr" \in Pools /\ Uses(job[t], "wr")
  BY <1>4, JobTyped, JobFields, <1>3, UnderWay DEF Ops, HostPool, Pools, Uses
<1>6. b \in Own(t) /\ b \in Channels
  BY <1>1, <1>3, <1>4, <1>5, UnderWay, BufferIn
<1>7. CASE Fail(t, flight[t]) /\ UNCHANGED dst
  BY <1>2, <1>7, FailKeeps
<1>8. CASE dst' = [dst EXCEPT ![t][c] = kbuf[b]] /\ Advance(t) /\ UNCHANGED <<res, flight>>
  <2>1. /\ dst'[t][c] = kbuf[b] /\ \A d \in 1 .. MaxChunks : d # c => dst'[t][d] = dst[t][d]
        /\ \A u \in Threads : u # t => dst'[u] = dst[u]
    BY <1>3, <1>4, <1>8 DEF DTypes
  <2>2. DTypes' /\ ResetState'
    <3>1. kbuf[b] \in Values
      BY <1>3, <1>6 DEF DTypes
    <3>2. DTypes'
      BY <1>2, <1>3, <1>8, <3>1 DEF DTypes
    <3> QED
      BY <1>2, <3>2, ResetKept DEF DInv
  <2>3. Apart(t)
    BY <1>2, <1>8, <2>1, AdvanceFrame DEF Apart
  <2>4. Attended'
    BY <1>2, <1>8, <2>3, AttendedMove
  <2>5. flight'[t] \in SUBSET (Pools \X (1 .. MaxChunks)) /\ Flown(t)'
    BY <1>2, <1>3, <1>8, UnderWay, SameShape DEF Flown
  <2>6. Arrived(t)'
    <3>0. \A e, d : EngineOf(t, e, d)' = EngineOf(t, e, d)
      BY <1>2, SameShape
    <3> SUFFICES ASSUME NEW f \in flight[t], engine[EngineOf(t, f[1], f[2])] = "done"
                 PROVE  HasArrived(t, f)'
      BY <1>2, <1>8, <3>0 DEF Arrived
    <3>1. HasArrived(t, f)
      BY <1>3, UnderWay DEF Moves, Arrived
    <3>2. f[1] = "wr"
      BY <1>5, InFlight DEF Uses, HostPool
    <3> QED
      BY <1>2, <1>5, <3>1, <3>2, SameShape DEF HasArrived
  <2>7. kbuf[b] = <<t, c>>
    <3>1. EmptyOf(t, c) = at[t]
      BY <1>1, <1>2, <1>3, <1>4, <1>5, UnderWay, Milestones
    <3>2. FullOf(t, c) < EmptyOf(t, c) /\ EmptyOf(t, c) \in Nat
      BY <1>3, <1>4, <1>5, UnderWay, InOrder, Milestones
    <3>3. Between(at[t], FullOf(t, c), EmptyOf(t, c))
      BY <3>1, <3>2 DEF Between
    <3> QED
      BY <1>1, <1>3, <1>4, <1>5, <3>3, UnderWay DEF Moves, Buffered
  <2>8. ASSUME NEW q \in Nat, Behind(t, q)
        PROVE  Flights(t, q)' /\ PagesMapped(t, q)' /\ Delivered(t, q)' /\ Buffered(t, q)'
    <3>1. Flights(t, q)'
      BY <1>2, <1>3, <1>8, <2>8, FlightsMove
    <3>2. PagesMapped(t, q)'
      BY <1>2, <1>3, <2>8, PagesMove
    <3>3. Delivered(t, q)'
      <4>1. ASSUME NEW d \in Chunks(t), d # c
            PROVE  EmptyOf(t, d) # at[t] /\ dst'[t][d] = dst[t][d]
        <5>1. d \in 1 .. MaxChunks
          BY <1>3, JobTyped
        <5>2. EmptyOf(t, d) # at[t]
          BY <1>1, <1>2, <1>3, <4>1, UnderWay, Milestones
        <5> QED
          BY <2>1, <4>1, <5>1, <5>2
      <4>2. dst'[t][c] = <<t, c>>
        BY <2>1, <2>7
      <4> QED
        BY <1>2, <1>3, <2>8, <4>1, <4>2, DeliveredMove
    <3>4. Buffered(t, q)'
      <4>1. \A d \in Chunks(t) : FullOf(t, d) # at[t]
        BY <1>2, <1>3, <1>5, UnderWay, Milestones
      <4> QED
        BY <1>2, <1>3, <2>8, <4>1, BufferedMove
    <3> QED
      BY <3>1, <3>2, <3>3, <3>4
  <2>9. pc[t] # "lock"
    BY <1>2
  <2>10. Sound(t)'
    BY <1>2, <1>3, <1>8, <2>5, <2>6, <2>8, <2>9, AdvanceSound
  <2> QED
    BY <2>2, <2>3, <2>4, <2>10, OneMover
<1> QED
  BY <1>2, <1>7, <1>8

(* A direct transfer is over before its page is unmapped and the next one  *)
(* is mapped.                                                              *)
LEMMA NothingFlies ==
  ASSUME DInv, NEW t \in Threads, Moving(t), Cur(t).op \in {"map", "unmap"}
  PROVE  Direct(job[t]) /\ flight[t] = {}
<1>1. PICK j \in JobType, w \in BOOLEAN : j = job[t] /\ w = Twin(t)
  BY UnderWay, JobTyped
<1>2. Cur(t).op \in Ops(j) /\ Uses(j, Cur(t).pool) /\ Cur(t).pool \in Pools /\ Cur(t).chunk \in Chunks(t)
  BY <1>1, UnderWay, Here
<1>3. Direct(j) /\ j.dir # "p2p"
  BY <1>1, <1>2, JobFields DEF Ops, Direct
<1>4. ASSUME NEW f \in flight[t] PROVE FALSE
  <2>1. PICK p \in Pools, c \in Chunks(t) : f = <<p, c>> /\ Uses(j, p)
    BY <1>1, InFlight
  <2>2. PICK d \in Nat : d = Cur(t).chunk
    BY <1>2, UnderWay, JobTyped
  <2>3. PICK e \in Nat : e = c
    BY UnderWay, JobTyped
  <2>4. at[t] = PlaceOf(t, Cur(t).op, Cur(t).pool, d)
    BY <1>1, <1>2, <2>2, UnderWay, Here
  <2>5. at[t] = 4 * d - 3 \/ at[t] = 4 * d
    <3>1. \A op \in {"map", "unmap"}, r \in Pools : Place(j, w, op, r, d) = IF op = "map" THEN 4 * d - 3 ELSE 4 * d
      BY <1>3, JobFields DEF Place, Direct
    <3> QED
      BY <1>1, <1>2, <2>4, <3>1 DEF PlaceOf
  <2>6. Between(at[t], PlaceOf(t, "start", p, e), PlaceOf(t, "wait", p, e))
    BY <1>1, <2>1, <2>3, UnderWay DEF Moves, Flights
  <2>7. PlaceOf(t, "start", p, e) = 4 * e - 2 /\ PlaceOf(t, "wait", p, e) = 4 * e - 1
    <3>1. Place(j, w, "start", p, e) = 4 * e - 2 /\ Place(j, w, "wait", p, e) = 4 * e - 1
      BY <1>3, JobFields DEF Place, Direct
    <3> QED
      BY <1>1, <3>1 DEF PlaceOf
  <2>8. 4 * e - 2 < at[t] /\ at[t] <= 4 * e - 1
    BY <2>6, <2>7 DEF Between
  <2> QED
    BY <2>5, <2>8
<1> QED
  BY <1>1, <1>3, <1>4

(* A copy that has nothing in flight and goes on. *)
LEMMA PageSound ==
  ASSUME DInv, EInv', NEW t \in Threads, Moving(t), pc[t] # "lock", Cur(t).op \in {"map", "unmap"},
         Advance(t),
         UNCHANGED <<kbuf, engine, flight, res, dst, inReset, resetPc, enable, used, job, held>>,
         \A u \in Threads : u # t => mapped'[u] = mapped[u],
         \A c \in Chunks(t) :
           (\/ c = Cur(t).chunk /\ Cur(t).op = "map"
            \/ c \in mapped[t] /\ ~(c = Cur(t).chunk /\ Cur(t).op = "unmap")) => c \in mapped'[t]
  PROVE  DInv'
<1>1. Direct(job[t]) /\ flight[t] = {} /\ flight'[t] = {}
  BY NothingFlies
<1>2. Apart(t)
  BY AdvanceFrame DEF Apart
<1>3. DTypes' /\ ResetState'
  BY ResetKept DEF DInv, DTypes
<1>4. Attended'
  BY <1>2, AttendedMove
<1>5. Flown(t)' /\ Arrived(t)' /\ flight'[t] \in SUBSET (Pools \X (1 .. MaxChunks))
  BY <1>1 DEF Flown, Arrived
<1>6. ASSUME NEW q \in Nat, Behind(t, q)
      PROVE  Flights(t, q)' /\ PagesMapped(t, q)' /\ Delivered(t, q)' /\ Buffered(t, q)'
  <2>1. Flights(t, q)'
    BY <1>1, <1>6, FlightsMove
  <2>2. PagesMapped(t, q)'
    BY <1>6, PagesMove
  <2>3. Delivered(t, q)'
    <3>1. \A c \in Chunks(t) : EmptyOf(t, c) # at[t]
      BY UnderWay, Milestones
    <3> QED
      BY <1>6, <3>1, DeliveredMove
  <2>4. Buffered(t, q)'
    BY <1>1, <1>6, BufferedMove
  <2> QED
    BY <2>1, <2>2, <2>3, <2>4
<1>7. Sound(t)'
  BY <1>5, <1>6, AdvanceSound
<1> QED
  BY <1>2, <1>3, <1>4, <1>7, OneMover

LEMMA MapGoes ==
  ASSUME DInv, EInv', NEW t \in Threads, MapPage(t)
  PROVE  DInv'
<1>1. PICK c : c = Cur(t).chunk
  OBVIOUS
<1>2. /\ pc[t] = "run" /\ Cur(t).op = "map"
      /\ UNCHANGED <<kbuf, engine, dst, inReset, resetPc, enable, used, job, held>>
      /\ \/ /\ mapped' = [mapped EXCEPT ![t] = @ \cup {c}]
            /\ Advance(t) /\ UNCHANGED <<res, flight>>
         \/ Fail(t, {}) /\ UNCHANGED mapped
         \/ GiveUp(t, "again") /\ UNCHANGED <<at, mapped, flight>>
  BY <1>1, MoveFrames DEF Move, MapPage, Doing, chanVars
<1>3. Moving(t) /\ ETypes /\ Sound(t)
  BY <1>2 DEF DInv, EInv, Sound, Moving
<1>4. Direct(job[t]) /\ flight[t] = {}
  BY <1>2, <1>3, NothingFlies
<1>5. CASE mapped' = [mapped EXCEPT ![t] = @ \cup {c}] /\ Advance(t) /\ UNCHANGED <<res, flight>>
  <2>1. mapped'[t] = mapped[t] \cup {c} /\ \A u \in Threads : u # t => mapped'[u] = mapped[u]
    BY <1>3, <1>5 DEF ETypes
  <2> QED
    BY <1>1, <1>2, <1>3, <1>5, <2>1, PageSound
<1>6. CASE Fail(t, {}) /\ UNCHANGED mapped
  BY <1>2, <1>4, <1>6, FailKeeps
<1>7. CASE GiveUp(t, "again") /\ UNCHANGED <<at, mapped, flight>>
  <2>1. /\ pc'[t] = "put" /\ res'[t] = "again"
        /\ \A u \in Threads : u # t => pc'[u] = pc[u] /\ res'[u] = res[u]
    BY <1>3, <1>7 DEF GiveUp, ETypes
  <2>2. Apart(t)
    BY <1>2, <1>7, <2>1 DEF Apart
  <2>3. DTypes' /\ ResetState'
    BY <1>2, ResetKept DEF DInv, DTypes
  <2>4. Attended'
    BY <1>2, <1>7, <2>2, AttendedMove
  <2>5. NoDup(t)' /\ \A x \in NoKbuf : x \notin Own(t)'
    BY <1>2, <1>3, SameShape DEF Sound, NoDup
  <2>6. Sound(t)'
    BY <1>4, <1>7, <2>1, <2>5, QuietSound
  <2> QED
    BY <2>2, <2>3, <2>4, <2>6, OneMover
<1> QED
  BY <1>2, <1>5, <1>6, <1>7

LEMMA UnmapGoes ==
  ASSUME DInv, EInv', NEW t \in Threads, UnmapPage(t)
  PROVE  DInv'
<1>1. PICK c : c = Cur(t).chunk
  OBVIOUS
<1>2. /\ pc[t] = "run" /\ Cur(t).op = "unmap"
      /\ UNCHANGED <<kbuf, engine, dst, res, flight, inReset, resetPc, enable, used, job, held>>
      /\ mapped' = [mapped EXCEPT ![t] = @ \ {c}] /\ Advance(t)
  BY <1>1, MoveFrames DEF Move, UnmapPage, Doing, chanVars
<1>3. Moving(t) /\ ETypes
  BY <1>2 DEF DInv, EInv, Sound, Moving
<1>4. mapped'[t] = mapped[t] \ {c} /\ \A u \in Threads : u # t => mapped'[u] = mapped[u]
  BY <1>2, <1>3 DEF ETypes
<1> QED
  BY <1>1, <1>2, <1>3, <1>4, PageSound

LEMMA MoveGoes ==
  ASSUME DInv, EInv', NEW t \in Threads, Move(t)
  PROVE  DInv'
BY StartGoes, WaitGoes, PollGoes, DrainGoes, FillGoes, CopyOutGoes, MapGoes, UnmapGoes DEF Move

-----------------------------------------------------------------------------
(* The steps of a copy that has nothing in flight. *)

LEMMA QuietGoes ==
  ASSUME DInv, EInv', NEW t \in Threads, pc[t] \notin {"run", "poll", "drain"},
         UNCHANGED <<flight, engine, enable, inReset, resetPc>>,
         \A u \in Threads : u # t =>
           /\ pc'[u] = pc[u] /\ job'[u] = job[u] /\ held'[u] = held[u] /\ at'[u] = at[u]
           /\ res'[u] = res[u] /\ mapped'[u] = mapped[u] /\ dst'[u] = dst[u],
         \A x \in Channels : x \notin Own(t) => kbuf'[x] = kbuf[x],
         \A x \in NoKbuf : x[2] \in used[x[1]] => x[2] \in used'[x[1]],
         DTypes', Sound(t)'
  PROVE  DInv'
<1>1. Apart(t) /\ flight[t] = {} /\ flight'[t] = {}
  BY DEF Apart, DInv, Sound
<1>2. ResetState' /\ Attended'
  BY <1>1, ResetKept, QuietAttended DEF DInv
<1> QED
  BY <1>1, <1>2, OneMover

(* A copy that keeps its channels. *)
LEMMA ChannelsKept ==
  ASSUME DInv, NEW t \in Threads, held'[t] = held[t]
  PROVE  NoDup(t)' /\ \A x \in NoKbuf : x \notin Own(t)'
<1>1. NoDup(t) /\ \A x \in NoKbuf : x \notin Own(t)
  BY DEF DInv, Sound
<1> QED
  BY <1>1 DEF NoDup, Own

(* One that gives them all back. *)
LEMMA ChannelsGone ==
  ASSUME NEW t \in Threads, held'[t] = NoCh
  PROVE  NoDup(t)' /\ \A x \in NoKbuf : x \notin Own(t)'
<1>1. \A p \in Pools : held'[t][p] = <<>> /\ Len(held'[t][p]) = 0
  BY DEF NoCh
<1>2. NoDup(t)' /\ Own(t)' = {}
  BY <1>1 DEF NoDup, Own, Elems, Pools
<1> QED
  BY <1>2

(* Where nothing has been moved yet. *)
LEMMA CallGoes ==
  ASSUME DInv, EInv', NEW t \in Threads, Call(t)
  PROVE  DInv'
<1>1. PICK j : /\ pc[t] = "idle" /\ pc' = [pc EXCEPT ![t] = "down"] /\ job' = [job EXCEPT ![t] = j]
               /\ UNCHANGED <<poolVars, chanVars, mix, sems, tried, held, moveVars, resetVars>>
  BY DEF Call
<1>2. UNCHANGED <<flight, engine, enable, inReset, resetPc, held, at, res, mapped, dst, kbuf, used>>
  BY <1>1 DEF poolVars, chanVars, moveVars, resetVars
<1>3. ETypes /\ res[t] = "ok"
  BY <1>1 DEF DInv, EInv, Local
<1>4. pc'[t] = "down" /\ \A u \in Threads : u # t => pc'[u] = pc[u] /\ job'[u] = job[u]
  BY <1>1, <1>3 DEF ETypes
<1>5. flight'[t] = {}
  BY <1>1, <1>2 DEF DInv, Sound
<1>6. Sound(t)'
  BY <1>2, <1>3, <1>4, <1>5, ChannelsKept, QuietSound
<1>7. DTypes'
  BY <1>2 DEF DInv, DTypes
<1> QED
  BY <1>1, <1>2, <1>4, <1>6, <1>7, QuietGoes

(* The semaphores. *)
LEMMA TryGoes ==
  ASSUME DInv, EInv', NEW t \in Threads, pc[t] = "down",
         UNCHANGED <<used, chanVars, mix, job, held, at, flight, mapped, dst, resetVars>>,
         \/ UNCHANGED <<pc, res>>
         \/ pc' = [pc EXCEPT ![t] = "get"] /\ UNCHANGED res
         \/ \E r \in {"err", "again"} : pc' = [pc EXCEPT ![t] = "up"] /\ res' = [res EXCEPT ![t] = r]
  PROVE  DInv'
<1>1. UNCHANGED <<flight, engine, enable, inReset, resetPc, held, at, job, mapped, dst, kbuf, used>>
  BY DEF chanVars, resetVars
<1>2. ETypes /\ res[t] = "ok" /\ flight[t] = {}
  BY DEF DInv, EInv, Sound
<1>3. /\ \A u \in Threads : u # t => pc'[u] = pc[u] /\ res'[u] = res[u]
      /\ \/ pc'[t] \in {"down", "get"} /\ res'[t] = "ok"
         \/ pc'[t] = "up" /\ res'[t] \in {"err", "again"}
  BY <1>2 DEF ETypes
<1>4. Sound(t)'
  BY <1>1, <1>2, <1>3, ChannelsKept, QuietSound
<1>5. DTypes'
  BY <1>1 DEF DInv, DTypes
<1> QED
  BY <1>1, <1>3, <1>4, <1>5, QuietGoes

LEMMA DownGoes ==
  ASSUME DInv, EInv', NEW t \in Threads, Down(t) \/ DownFails(t)
  PROVE  DInv'
<1>1. ASSUME NEW count, Tried(t, count)
      PROVE  \/ UNCHANGED <<pc, res>>
             \/ pc' = [pc EXCEPT ![t] = "get"] /\ UNCHANGED res
             \/ \E r \in {"err", "again"} : pc' = [pc EXCEPT ![t] = "up"] /\ res' = [res EXCEPT ![t] = r]
  BY <1>1 DEF Tried
<1>2. CASE Down(t)
  BY <1>1, <1>2, TryGoes DEF Down
<1>3. CASE DownFails(t)
  <2>1. /\ pc[t] = "down"
        /\ UNCHANGED <<used, chanVars, mix, job, held, at, flight, mapped, dst, resetVars>>
    BY <1>3 DEF DownFails, poolVars
  <2>2. \/ Tried(t, sems[t][Wanted(t).pool])
        \/ pc' = [pc EXCEPT ![t] = "up"] /\ res' = [res EXCEPT ![t] = "err"]
    BY <1>3 DEF DownFails
  <2> QED
    BY <1>1, <2>1, <2>2, TryGoes
<1> QED
  BY <1>2, <1>3

LEMMA GetNoneGoes ==
  ASSUME DInv, EInv', NEW t \in Threads, GetNone(t)
  PROVE  DInv'
<1>1. /\ pc[t] = "get" /\ pc' = [pc EXCEPT ![t] = "begin"]
      /\ UNCHANGED <<flight, engine, enable, inReset, resetPc, held, at, job, res, mapped, dst, kbuf, used>>
  BY DEF GetNone, poolVars, chanVars, ownVars, moveVars, resetVars
<1>2. ETypes /\ res[t] = "ok" /\ flight[t] = {}
  BY <1>1 DEF DInv, EInv, Sound
<1>3. pc'[t] = "begin" /\ \A u \in Threads : u # t => pc'[u] = pc[u]
  BY <1>1, <1>2 DEF ETypes
<1>4. Sound(t)'
  BY <1>1, <1>2, <1>3, ChannelsKept, QuietSound
<1>5. DTypes'
  BY <1>1 DEF DInv, DTypes
<1> QED
  BY <1>1, <1>3, <1>4, <1>5, QuietGoes

(* A channel that is got is none the copy has already, nor one without a   *)
(* buffer: their bits are set.                                             *)
LEMMA GetGoes ==
  ASSUME DInv, EInv', NEW t \in Threads, GetChannel(t)
  PROVE  DInv'
<1>1. ETypes /\ BitsSet /\ EInv /\ pc[t] = "get" /\ res[t] = "ok" /\ flight[t] = {}
  BY DEF DInv, EInv, PoolInv, Sound, GetChannel
<1>2. PICK p \in Pools : p = NextPool(t)
  BY <1>1, NextOf DEF HostPool, Pools
<1>3. PICK c \in Ch : c = Least(FreeCh(p)) /\ c \notin used[p]
  <2>1. FreeCh(p) \in SUBSET Nat /\ FreeCh(p) # {}
    BY <1>2, EdmaAssumption DEF GetChannel, FreeCh, Ch
  <2>2. Least(FreeCh(p)) \in FreeCh(p)
    BY <2>1, LeastIsIn
  <2> QED
    BY <2>2 DEF FreeCh
<1>4. PICK x \in Channels : x = <<p, c>> /\ x[1] = p /\ x[2] = c
  <2>1. <<p, c>> \in Channels
    BY DEF Channels
  <2> QED
    BY <2>1
<1>5. /\ used' = [used EXCEPT ![p] = @ \cup {c}]
      /\ \/ pc' = [pc EXCEPT ![t] = "begin"] /\ UNCHANGED held
         \/ /\ held' = [held EXCEPT ![t][p] = Append(@, x)]
            /\ \E l \in {"begin", "get"} : pc' = [pc EXCEPT ![t] = l]
      /\ UNCHANGED <<flight, engine, enable, inReset, resetPc, at, job, res, mapped, dst, kbuf>>
  BY <1>2, <1>3, <1>4 DEF GetChannel, chanVars, moveVars, resetVars
<1>6. /\ pc'[t] \in {"begin", "get"} /\ \A u \in Threads : u # t => pc'[u] = pc[u] /\ held'[u] = held[u]
      /\ \A q \in Pools : used[q] \subseteq used'[q]
  BY <1>1, <1>5 DEF ETypes
<1>7. \A y \in NoKbuf : y[2] \in used[y[1]] /\ y[1] \in Pools
  BY EdmaAssumption DEF DInv, ResetState, Channels
<1>8. x \notin NoKbuf /\ x \notin Own(t)
  BY <1>1, <1>3, <1>4, <1>7 DEF BitsSet
<1>9. NoDup(t)' /\ \A y \in NoKbuf : y \notin Own(t)'
  <2>1. CASE UNCHANGED held
    BY <2>1, ChannelsKept
  <2>2. CASE held' = [held EXCEPT ![t][p] = Append(@, x)]
    <3>1. /\ held[t][p] \in Seq(Channels) /\ held'[t][p] = Append(held[t][p], x)
          /\ \A q \in Pools : q # p => held'[t][q] = held[t][q]
      BY <1>1, <2>2 DEF ETypes
    <3>2. PICK l \in Nat : l = Len(held[t][p])
      BY <3>1, LenProperties
    <3>3. /\ Len(held'[t][p]) = l + 1 /\ held'[t][p][l + 1] = x
          /\ \A i \in 1 .. l : held'[t][p][i] = held[t][p][i]
      BY <3>1, <3>2, AppendProperties
    <3>4. \A i \in 1 .. (l + 1) : i \in 1 .. l \/ i = l + 1
      OBVIOUS
    <3>5. \A i \in 1 .. l : held[t][p][i] \in Own(t)
      BY <1>1, <3>2, HeldTyped
    <3>6. NoDup(t)
      BY DEF DInv, Sound
    <3>7. NoDup(t)'
      <4>1. ASSUME NEW i \in 1 .. (l + 1), NEW k \in 1 .. (l + 1), held'[t][p][i] = held'[t][p][k]
            PROVE  i = k
        <5>1. CASE i \in 1 .. l /\ k \in 1 .. l
          BY <3>2, <3>3, <3>6, <4>1, <5>1 DEF NoDup
        <5>2. CASE i \in 1 .. l /\ k = l + 1
          BY <1>8, <3>3, <3>5, <4>1, <5>2
        <5>3. CASE i = l + 1 /\ k \in 1 .. l
          BY <1>8, <3>3, <3>5, <4>1, <5>3
        <5> QED
          BY <3>4, <5>1, <5>2, <5>3
      <4>2. ASSUME NEW q \in Pools, q # p
            PROVE  \A i, k \in 1 .. Len(held'[t][q]) : held'[t][q][i] = held'[t][q][k] => i = k
        BY <3>1, <3>6, <4>2 DEF NoDup
      <4>3. \A i, k \in 1 .. Len(held'[t][p]) : held'[t][p][i] = held'[t][p][k] => i = k
        BY <3>3, <4>1
      <4> QED
        BY <4>2, <4>3 DEF NoDup
    <3>8. Own(t)' \subseteq Own(t) \cup {x}
      <4>1. Elems(held'[t][p]) \subseteq Own(t) \cup {x}
        BY <3>3, <3>4, <3>5 DEF Elems
      <4>2. \A q \in Pools : q # p => Elems(held'[t][q]) \subseteq Own(t)
        BY <3>1 DEF Elems, Own, Pools
      <4> QED
        BY <4>1, <4>2 DEF Own, Pools
    <3>9. \A y \in NoKbuf : y \notin Own(t)
      BY DEF DInv, Sound
    <3> QED
      BY <1>8, <3>7, <3>8, <3>9
  <2> QED
    BY <1>5, <2>1, <2>2
<1>10. Sound(t)'
  BY <1>1, <1>5, <1>6, <1>9, QuietSound
<1>11. DTypes'
  BY <1>5 DEF DInv, DTypes
<1> QED
  BY <1>1, <1>5, <1>6, <1>7, <1>10, <1>11, QuietGoes

LEMMA EndsAreSteps ==
  ASSUME ETypes, NEW t \in Threads, NEW c \in Chunks(t)
  PROVE  EmptyOf(t, c) \in Steps(t) /\ (~Direct(job[t]) => FullOf(t, c) \in Steps(t))
<1>1. PICK j \in JobType : j = job[t]
  BY JobTyped
<1>2. "wr" \in Pools /\ "rd" \in Pools /\ HostPool(j) \in Pools /\ Uses(j, HostPool(j))
  BY DEF HostPool, Pools, Uses
<1>3. \A op \in Ops(j), p \in Pools : Uses(j, p) => PlaceOf(t, op, p, c) \in Steps(t)
  BY <1>1, StepsPlaced
<1>4. CASE Direct(j)
  <2>1. "wait" \in Ops(j)
    BY <1>4, JobFields DEF Ops, Direct
  <2>2. EmptyOf(t, c) = PlaceOf(t, "wait", HostPool(j), c)
    BY <1>1, <1>4 DEF EmptyOf, EmptyPlace, PlaceOf
  <2> QED
    BY <1>1, <1>2, <1>3, <1>4, <2>1, <2>2
<1>5. CASE ~Direct(j) /\ j.dir = "d2h"
  <2>1. {"wait", "out"} \subseteq Ops(j) /\ Uses(j, "wr")
    BY <1>5 DEF Ops, HostPool, Uses
  <2>2. EmptyOf(t, c) = PlaceOf(t, "out", "wr", c) /\ FullOf(t, c) = PlaceOf(t, "wait", "wr", c)
    BY <1>1, <1>5 DEF EmptyOf, EmptyPlace, FullOf, FullPlace, PlaceOf, HostPool
  <2> QED
    BY <1>1, <1>2, <1>3, <2>1, <2>2
<1>6. CASE ~Direct(j) /\ j.dir = "h2d"
  <2>1. {"wait", "fill"} \subseteq Ops(j) /\ Uses(j, "rd")
    BY <1>6 DEF Ops, HostPool, Uses
  <2>2. EmptyOf(t, c) = PlaceOf(t, "wait", "rd", c) /\ FullOf(t, c) = PlaceOf(t, "fill", "rd", c)
    BY <1>1, <1>6 DEF EmptyOf, EmptyPlace, FullOf, FullPlace, PlaceOf, HostPool
  <2> QED
    BY <1>1, <1>2, <1>3, <2>1, <2>2
<1>7. CASE ~Direct(j) /\ j.dir = "p2p"
  <2>1. "wait" \in Ops(j) /\ Uses(j, "wr") /\ Uses(j, "rd")
    BY <1>7 DEF Ops, Uses
  <2>2. EmptyOf(t, c) = PlaceOf(t, "wait", "rd", c) /\ FullOf(t, c) = PlaceOf(t, "wait", "wr", c)
    BY <1>1, <1>7 DEF EmptyOf, EmptyPlace, FullOf, FullPlace, PlaceOf, HostPool
  <2> QED
    BY <1>1, <1>2, <1>3, <2>1, <2>2
<1> QED
  BY <1>1, <1>4, <1>5, <1>6, <1>7, JobFields

(* A copy begins with its first step: nothing lies before it. *)
LEMMA NothingYet ==
  ASSUME ETypes, NEW t \in Threads, NEW q \in Nat, \A k \in Steps(t) : q <= k, flight[t] = {}
  PROVE  Moves(t, q)
<1>1. Steps(t) \in SUBSET Nat /\ \A a \in Steps(t) : \A b : ~Between(q, a, b)
  BY StepsTyped DEF Between
<1>2. Flights(t, q)
  BY <1>1, InOrder DEF Flights
<1>3. PagesMapped(t, q)
  BY <1>1, InOrder DEF PagesMapped
<1>4. Delivered(t, q)
  <2> SUFFICES ASSUME NEW c \in Chunks(t) PROVE ~(EmptyOf(t, c) < q)
    BY DEF Delivered
  <2>1. PICK e \in Nat : e = EmptyOf(t, c) /\ q <= e
    BY <1>1, EndsAreSteps
  <2> QED
    BY <2>1
<1>5. Buffered(t, q)
  BY <1>1, EndsAreSteps DEF Buffered
<1>6. Arrived(t)
  BY DEF Arrived
<1> QED
  BY <1>2, <1>3, <1>4, <1>5, <1>6 DEF Moves

LEMMA BeginGoes ==
  ASSUME DInv, EInv', NEW t \in Threads, Begin(t)
  PROVE  DInv'
<1>1. /\ pc[t] = "begin" /\ at' = [at EXCEPT ![t] = Least(Steps(t))]
      /\ UNCHANGED <<used, chanVars, mix, job, tried, held, flight, mapped, dst, resetVars>>
      /\ \/ \E r \in {"err", "again"} : GiveUp(t, r)
         \/ (\E l \in {"lock", "run"} : pc' = [pc EXCEPT ![t] = l]) /\ UNCHANGED res
  BY DEF Begin
<1>2. UNCHANGED <<flight, engine, enable, inReset, resetPc, held, job, mapped, dst, kbuf, used>>
  BY <1>1 DEF chanVars, resetVars
<1>3. ETypes /\ res[t] = "ok" /\ flight[t] = {}
  BY <1>1 DEF DInv, EInv, Sound
<1>4. /\ \A u \in Threads : u # t => pc'[u] = pc[u] /\ res'[u] = res[u] /\ at'[u] = at[u]
      /\ \/ pc'[t] = "put" /\ res'[t] \in {"err", "again"}
         \/ pc'[t] \in {"lock", "run"} /\ res'[t] = "ok"
  BY <1>1, <1>3 DEF ETypes, GiveUp
<1>5. NoDup(t)' /\ \A x \in NoKbuf : x \notin Own(t)'
  BY <1>2, ChannelsKept
<1>6. ASSUME pc'[t] = "put" /\ res'[t] \in {"err", "again"} PROVE Sound(t)'
  BY <1>2, <1>3, <1>5, <1>6, QuietSound
<1>7. ASSUME pc'[t] \in {"lock", "run"} /\ res'[t] = "ok" PROVE Sound(t)'
  <2>1. PICK q \in Nat : q = at'[t] /\ \A k \in Steps(t) : q <= k
    <3>1. Steps(t) \in SUBSET Nat /\ Steps(t) # {}
      BY <1>3, StepsTyped
    <3>2. Least(Steps(t)) \in Nat /\ \A k \in Steps(t) : Least(Steps(t)) <= k
      BY <3>1, LeastIsIn
    <3>3. at'[t] = Least(Steps(t))
      BY <1>1, <1>3 DEF ETypes
    <3> QED
      BY <3>2, <3>3
  <2>2. Moves(t, q)'
    BY <1>2, <1>3, <2>1, NothingYet, MovesKept
  <2>3. Moves(t, at[t])'
    BY <2>1, <2>2 DEF Moves, Flights, PagesMapped, Delivered, Buffered
  <2>4. flight'[t] = {} /\ Flown(t)'
    BY <1>2, <1>3 DEF Flown
  <2> QED
    BY <1>5, <1>7, <2>3, <2>4 DEF Sound
<1>8. DTypes'
  BY <1>2 DEF DInv, DTypes
<1> QED
  BY <1>1, <1>2, <1>4, <1>6, <1>7, <1>8, QuietGoes

LEMMA LockGoes ==
  ASSUME DInv, EInv', NEW t \in Threads, LockPipe(t)
  PROVE  DInv'
<1>1. /\ pc[t] = "lock" /\ pc' = [pc EXCEPT ![t] = "run"]
      /\ UNCHANGED <<flight, engine, enable, inReset, resetPc, held, job, at, res, mapped, dst, kbuf, used>>
  BY DEF LockPipe, poolVars, ownVars, moveVars, resetVars
<1>2. ETypes /\ res[t] = "ok" /\ flight[t] = {}
  BY <1>1 DEF DInv, EInv, Sound
<1>3. pc'[t] = "run" /\ \A u \in Threads : u # t => pc'[u] = pc[u]
  BY <1>1, <1>2 DEF ETypes
<1>4. NoDup(t)' /\ \A x \in NoKbuf : x \notin Own(t)'
  BY <1>1, ChannelsKept
<1>5. Moves(t, at[t])'
  <2>1. Moves(t, at[t])
    BY <1>1, <1>2, UnderWay DEF Moving
  <2>2. PICK q : q = at[t]
    OBVIOUS
  <2>3. Moves(t, q)' /\ at'[t] = q
    BY <1>1, <2>1, <2>2, MovesKept
  <2> QED
    BY <2>3 DEF Moves, Flights, PagesMapped, Delivered, Buffered
<1>6. Sound(t)'
  <2>1. Flown(t)'
    BY <1>1, <1>2 DEF Flown
  <2> QED
    BY <1>1, <1>2, <1>3, <1>4, <1>5, <2>1 DEF Sound
<1>7. DTypes'
  BY <1>1 DEF DInv, DTypes
<1> QED
  BY <1>1, <1>3, <1>6, <1>7, QuietGoes

LEMMA PutGoes ==
  ASSUME DInv, EInv', NEW t \in Threads, Put(t)
  PROVE  DInv'
<1>1. /\ pc[t] = "put" /\ pc' = [pc EXCEPT ![t] = "up"] /\ mapped' = [mapped EXCEPT ![t] = {}]
      /\ used' = [p \in Pools |-> used[p] \ {c \in Ch : <<p, c>> \in Own(t)}]
      /\ kbuf' = [x \in Channels |-> IF x \in Own(t) THEN Junk ELSE kbuf[x]]
      /\ dst' = IF res[t] = "ok" THEN dst ELSE [dst EXCEPT ![t] = NoData]
      /\ held' = [held EXCEPT ![t] = NoCh] /\ at' = [at EXCEPT ![t] = 1]
      /\ UNCHANGED <<enable, engine, job, flight, res, inReset, resetPc>>
  BY DEF Put, resetVars
<1>2. ETypes /\ DTypes /\ Sound(t)
  BY DEF DInv, EInv
<1>3. Junk \in Values /\ NoData \in [1 .. MaxChunks -> Values]
  BY EdmaAssumption DEF Junk, Values, NoData
<1>4. /\ pc'[t] = "up" /\ held'[t] = NoCh
      /\ \A u \in Threads : u # t =>
           /\ pc'[u] = pc[u] /\ held'[u] = held[u] /\ at'[u] = at[u]
           /\ mapped'[u] = mapped[u] /\ dst'[u] = dst[u]
  BY <1>1, <1>2 DEF ETypes, DTypes
<1>5. DTypes'
  BY <1>1, <1>2, <1>3 DEF DTypes
<1>6. \A x \in NoKbuf : x[2] \in used[x[1]] => x[2] \in used'[x[1]]
  <2> SUFFICES ASSUME NEW x \in NoKbuf, x[2] \in used[x[1]] PROVE x[2] \in used'[x[1]]
    OBVIOUS
  <2>1. x[1] \in Pools /\ x[2] \in Ch /\ x = <<x[1], x[2]>>
    BY EdmaAssumption DEF Channels
  <2>2. x \notin Own(t)
    BY <1>2 DEF Sound
  <2> QED
    BY <1>1, <2>1, <2>2
<1>7. flight'[t] = {}
  BY <1>1, <1>2 DEF Sound
<1>8. res'[t] = "ok" => Complete(t)'
  BY <1>1, <1>2 DEF Sound, Complete, Chunks
<1>9. NoDup(t)' /\ \A x \in NoKbuf : x \notin Own(t)'
  BY <1>4, ChannelsGone
<1>10. Sound(t)'
  BY <1>4, <1>7, <1>8, <1>9, QuietSound
<1> QED
  BY <1>1, <1>4, <1>5, <1>6, <1>10, QuietGoes

LEMMA UpGoes ==
  ASSUME DInv, EInv', NEW t \in Threads, Up(t)
  PROVE  DInv'
<1>1. /\ pc[t] = "up"
      /\ UNCHANGED <<used, chanVars, mix, tried, held, at, flight, mapped, dst, resetVars>>
      /\ \/ /\ \E j : job' = [job EXCEPT ![t] = j]
            /\ res' = [res EXCEPT ![t] = "ok"] /\ pc' = [pc EXCEPT ![t] = "down"]
         \/ pc' = [pc EXCEPT ![t] = "ret"] /\ UNCHANGED <<job, res>>
  <2>1. \A path : \E j : [job EXCEPT ![t].path = path] = [job EXCEPT ![t] = j]
    OBVIOUS
  <2> QED
    BY <2>1 DEF Up
<1>2. UNCHANGED <<flight, engine, enable, inReset, resetPc, held, at, mapped, dst, kbuf, used>>
  BY <1>1 DEF chanVars, resetVars
<1>3. ETypes /\ Sound(t) /\ flight[t] = {}
  BY <1>1 DEF DInv, EInv, Sound
<1>4. /\ \A u \in Threads : u # t => pc'[u] = pc[u] /\ res'[u] = res[u] /\ job'[u] = job[u]
      /\ \/ pc'[t] = "down" /\ res'[t] = "ok"
         \/ pc'[t] = "ret" /\ res'[t] = res[t] /\ job'[t] = job[t]
  BY <1>1, <1>3 DEF ETypes
<1>5. NoDup(t)' /\ \A x \in NoKbuf : x \notin Own(t)'
  BY <1>2, ChannelsKept
<1>6. pc'[t] = "ret" /\ res'[t] = "ok" => Complete(t)'
  BY <1>1, <1>2, <1>3, <1>4 DEF Sound, Complete, Chunks
<1>7. Sound(t)'
  BY <1>2, <1>3, <1>4, <1>5, <1>6, QuietSound
<1>8. DTypes'
  BY <1>2 DEF DInv, DTypes
<1> QED
  BY <1>1, <1>2, <1>4, <1>7, <1>8, QuietGoes

LEMMA ReturnGoes ==
  ASSUME DInv, EInv', NEW t \in Threads, Return(t)
  PROVE  DInv'
<1>1. /\ pc[t] = "ret" /\ pc' = [pc EXCEPT ![t] = "idle"] /\ job' = [job EXCEPT ![t] = NoJob]
      /\ res' = [res EXCEPT ![t] = "ok"] /\ dst' = [dst EXCEPT ![t] = NoData]
      /\ UNCHANGED <<flight, engine, enable, inReset, resetPc, held, at, mapped, kbuf, used>>
  BY DEF Return, poolVars, chanVars, resetVars
<1>2. ETypes /\ DTypes /\ flight[t] = {}
  BY <1>1 DEF DInv, EInv, Sound
<1>3. /\ pc'[t] = "idle"
      /\ \A u \in Threads : u # t =>
           pc'[u] = pc[u] /\ job'[u] = job[u] /\ res'[u] = res[u] /\ dst'[u] = dst[u]
  BY <1>1, <1>2 DEF ETypes, DTypes
<1>4. NoDup(t)' /\ \A x \in NoKbuf : x \notin Own(t)'
  BY <1>1, ChannelsKept
<1>5. Sound(t)'
  BY <1>1, <1>2, <1>3, <1>4, QuietSound
<1>6. DTypes'
  <2>1. NoData \in [1 .. MaxChunks -> Values]
    BY EdmaAssumption DEF Junk, Values, NoData
  <2> QED
    BY <1>1, <1>2, <2>1 DEF DTypes
<1> QED
  BY <1>1, <1>3, <1>5, <1>6, QuietGoes

-----------------------------------------------------------------------------
(* The engines and the reset. *)

(* Engines stop, or nothing happens to them: what they had done stays so.  *)
LEMMA EnginesStop ==
  ASSUME DInv, EInv', UNCHANGED <<used, kbuf, pc, job, held, at, res, flight, mapped, dst>>,
         \A y \in Channels : engine'[y] = "done" => engine[y] = "done",
         ResetState', Attended'
  PROVE  DInv'
<1>1. ASSUME NEW u \in Threads PROVE Sound(u)'
  <2>1. Sound(u)
    BY DEF DInv
  <2>2. /\ Own(u)' = Own(u) /\ Chunks(u)' = Chunks(u) /\ Steps(u)' = Steps(u) /\ Cur(u)' = Cur(u)
        /\ \A c : BufOf(u, c)' = BufOf(u, c) /\ FullOf(u, c)' = FullOf(u, c) /\ EmptyOf(u, c)' = EmptyOf(u, c)
        /\ \A op, p, c : PlaceOf(u, op, p, c)' = PlaceOf(u, op, p, c)
        /\ \A p, c : EngineOf(u, p, c)' = EngineOf(u, p, c)
    BY SameShape DEF Cur
  <2>3. NoDup(u)' /\ Flown(u)' /\ (Complete(u) => Complete(u)')
    BY <2>1, <2>2 DEF Sound, NoDup, Flown, Complete
  <2>4. ASSUME Moving(u) PROVE Moves(u, at[u])'
    <3>1. Moves(u, at[u])
      BY <2>1, <2>4 DEF Sound
    <3>2. Arrived(u)'
      <4> SUFFICES ASSUME NEW f \in flight[u], engine'[EngineOf(u, f[1], f[2])] = "done"
                   PROVE  HasArrived(u, f)'
        BY <2>2 DEF Arrived
      <4>1. engine[EngineOf(u, f[1], f[2])] = "done"
        BY InFlight
      <4> QED
        BY <2>2, <3>1, <4>1 DEF Moves, Arrived, HasArrived
    <3> QED
      BY <2>2, <3>1, <3>2 DEF Moves, Flights, PagesMapped, Delivered, Buffered
  <2> QED
    BY <2>1, <2>2, <2>3, <2>4 DEF Sound, Moving
<1>2. DTypes'
  BY DEF DInv, DTypes
<1> QED
  BY <1>1, <1>2 DEF DInv

(* The data of a transfer arrives where its copy expects it, and overwrites *)
(* nothing the copy still needs.                                            *)
LEMMA ArrivalSound ==
  ASSUME DInv, NEW t \in Threads, NEW c \in 1 .. MaxChunks, NEW x \in Channels,
         <<x[1], c>> \in flight[t], EngineOf(t, x[1], c) = x,
         engine' = [engine EXCEPT ![x] = "done"],
         IF x[1] = "wr" /\ BufOf(t, c) # Nothing
         THEN kbuf' = [kbuf EXCEPT ![BufOf(t, c)] = <<t, c>>] /\ UNCHANGED dst
         ELSE /\ dst' = [dst EXCEPT ![t][c] = IF BufOf(t, c) = Nothing THEN <<t, c>> ELSE kbuf[BufOf(t, c)]]
              /\ UNCHANGED kbuf,
         UNCHANGED <<pc, job, held, at, res, flight, mapped>>
  PROVE  Apart(t) /\ DTypes' /\ Sound(t)'
<1>1. ETypes /\ DTypes /\ Sound(t) /\ Local(t)
  BY DEF DInv, EInv
<1>2. PICK p, b : p = x[1] /\ b = BufOf(t, c)
  OBVIOUS
<1>3. PICK f \in flight[t] : f = <<p, c>> /\ f[1] = p /\ f[2] = c
  BY <1>2
<1>4. /\ p \in Pools /\ Uses(job[t], p) /\ c \in Chunks(t) /\ x \in Own(t)
      /\ pc[t] \in {"run", "poll", "drain"} /\ OfPools(t) /\ Equipped(t)
  <2>1. pc[t] \in {"run", "poll", "drain"}
    BY <1>1 DEF Sound
  <2> QED
    BY <1>1, <1>2, <1>3, <2>1, InFlight DEF Local
<1>5. /\ Direct(job[t]) <=> b = Nothing
      /\ ~Direct(job[t]) => b \in Own(t) /\ b \in Channels
  BY <1>1, <1>2, <1>4, BufferIn
<1>6. <<t, c>> \in Values /\ (~Direct(job[t]) => kbuf[b] \in Values)
  BY <1>1, <1>5, EdmaAssumption DEF Values, DTypes
<1>7. engine'[x] = "done" /\ \A y \in Channels : y # x => engine'[y] = engine[y]
  BY <1>1 DEF ETypes
<1>8. /\ \A y \in Channels : kbuf'[y] = IF p = "wr" /\ ~Direct(job[t]) /\ y = b THEN <<t, c>> ELSE kbuf[y]
      /\ \A u \in Threads : u # t => dst'[u] = dst[u]
      /\ \A d \in 1 .. MaxChunks : d # c => dst'[t][d] = dst[t][d]
      /\ dst'[t][c] = IF p = "wr" /\ ~Direct(job[t]) THEN dst[t][c]
                      ELSE IF Direct(job[t]) THEN <<t, c>> ELSE kbuf[b]
  <2>1. CASE p = "wr" /\ ~Direct(job[t])
    BY <1>1, <1>2, <1>5, <2>1 DEF DTypes
  <2>2. CASE ~(p = "wr" /\ ~Direct(job[t]))
    <3>1. dst \in [Threads -> [1 .. MaxChunks -> Values]]
      BY <1>1 DEF DTypes
    <3>2. PICK v : v = IF Direct(job[t]) THEN <<t, c>> ELSE kbuf[b]
      OBVIOUS
    <3>3. dst' = [dst EXCEPT ![t][c] = v] /\ UNCHANGED kbuf
      BY <1>2, <1>5, <2>2, <3>2
    <3>4. /\ dst'[t][c] = v /\ \A u \in Threads : u # t => dst'[u] = dst[u]
          /\ \A d \in 1 .. MaxChunks : d # c => dst'[t][d] = dst[t][d]
      BY <3>1, <3>3
    <3> QED
      BY <2>2, <3>2, <3>3, <3>4
  <2> QED
    BY <2>1, <2>2
<1>9. DTypes'
  <2>1. CASE p = "wr" /\ ~Direct(job[t])
    BY <1>1, <1>2, <1>5, <1>6, <2>1 DEF DTypes
  <2>2. CASE ~(p = "wr" /\ ~Direct(job[t]))
    <3>1. PICK v \in Values : v = IF b = Nothing THEN <<t, c>> ELSE kbuf[b]
      BY <1>5, <1>6
    <3>2. dst' = [dst EXCEPT ![t][c] = v] /\ UNCHANGED kbuf
      BY <1>2, <1>5, <2>2, <3>1
    <3> QED
      BY <1>1, <3>2 DEF DTypes
  <2> QED
    BY <2>1, <2>2
<1>10. Apart(t)
  <2>1. \A y \in Channels : y \notin Own(t) => kbuf'[y] = kbuf[y] /\ engine'[y] = engine[y]
    BY <1>4, <1>5, <1>7, <1>8
  <2> QED
    BY <1>8, <2>1 DEF Apart
<1>11. /\ Own(t)' = Own(t) /\ Chunks(t)' = Chunks(t) /\ Steps(t)' = Steps(t) /\ Cur(t)' = Cur(t)
       /\ \A e : BufOf(t, e)' = BufOf(t, e) /\ FullOf(t, e)' = FullOf(t, e) /\ EmptyOf(t, e)' = EmptyOf(t, e)
       /\ \A op, r, e : PlaceOf(t, op, r, e)' = PlaceOf(t, op, r, e)
       /\ \A r, e : EngineOf(t, r, e)' = EngineOf(t, r, e)
  BY SameShape DEF Cur
<1>12. ASSUME Moving(t) PROVE Moves(t, at[t])'
  <2>1. Between(at[t], PlaceOf(t, "start", p, c), PlaceOf(t, "wait", p, c))
    BY <1>3, <1>4, <1>12, UnderWay DEF Moves, Flights
  <2>2. ASSUME ~Direct(job[t]), NEW r \in Pools, NEW e \in Chunks(t), Uses(job[t], r),
               Between(at[t], PlaceOf(t, "start", r, e), PlaceOf(t, "wait", r, e))
        PROVE  /\ Between(at[t], FirstOf(t, e), EmptyOf(t, e))
               /\ FirstOf(t, e) <= at[t] /\ at[t] <= EmptyOf(t, e)
               /\ r = "rd" => Between(at[t], FullOf(t, e), EmptyOf(t, e))
    <3>1. /\ FirstOf(t, e) \in Nat /\ FullOf(t, e) \in Nat /\ EmptyOf(t, e) \in Nat /\ at[t] \in Nat
          /\ PlaceOf(t, "start", r, e) \in Nat /\ PlaceOf(t, "wait", r, e) \in Nat
      BY <1>12, <2>2, UnderWay, Milestones, InOrder
    <3>2. /\ FirstOf(t, e) <= PlaceOf(t, "start", r, e)
          /\ PlaceOf(t, "wait", r, e) <= EmptyOf(t, e)
          /\ r = "rd" => FullOf(t, e) < PlaceOf(t, "start", r, e)
      BY <1>12, <2>2, UnderWay, InOrder
    <3> QED
      BY <2>2, <3>1, <3>2 DEF Between
  <2>3. ASSUME NEW e \in Chunks(t), e # c, ~Direct(job[t]), Between(at[t], FirstOf(t, e), EmptyOf(t, e))
        PROVE  BufOf(t, e) # b
    <3>1. FirstOf(t, c) <= at[t] /\ at[t] <= EmptyOf(t, c)
      BY <1>4, <2>1, <2>2, <2>3
    <3> QED
      BY <1>2, <1>4, <1>12, <2>3, <3>1, UnderWay, BuffersApart
  <2>4. ~(p = "wr" /\ ~Direct(job[t])) => dst'[t][c] = <<t, c>>
    <3>1. CASE Direct(job[t])
      BY <1>8, <3>1
    <3>2. CASE ~Direct(job[t]) /\ p = "rd"
      <4>1. Between(at[t], FullOf(t, c), EmptyOf(t, c))
        BY <1>4, <2>1, <2>2, <3>2
      <4> QED
        BY <1>2, <1>4, <1>8, <1>12, <3>2, <4>1, UnderWay DEF Moves, Buffered
    <3> QED
      BY <1>4, <3>1, <3>2 DEF Pools
  <2>5. \A e \in Chunks(t) : dst'[t][e] = dst[t][e] \/ dst'[t][e] = <<t, e>>
    <3> SUFFICES ASSUME NEW e \in Chunks(t) PROVE dst'[t][e] = dst[t][e] \/ dst'[t][e] = <<t, e>>
      OBVIOUS
    <3>1. e \in 1 .. MaxChunks
      BY <1>1, JobTyped
    <3> QED
      BY <1>8, <2>4, <3>1
  <2>6. Delivered(t, at[t])'
    BY <1>11, <1>12, <2>5, UnderWay DEF Moves, Delivered
  <2>7. ASSUME NEW e \in Chunks(t), ~Direct(job[t]), Between(at[t], FirstOf(t, e), EmptyOf(t, e)),
               kbuf[BufOf(t, e)] = <<t, e>>
        PROVE  kbuf'[BufOf(t, e)] = <<t, e>>
    <3>1. BufOf(t, e) \in Channels
      BY <1>1, <1>4, <2>7, BufferIn
    <3>2. CASE e = c
      BY <1>2, <1>8, <2>7, <3>1, <3>2
    <3>3. CASE e # c
      BY <1>8, <2>3, <2>7, <3>1, <3>3
    <3> QED
      BY <3>2, <3>3
  <2>8. Buffered(t, at[t])'
    <3> SUFFICES ASSUME ~Direct(job[t]), NEW e \in Chunks(t), Between(at[t], FullOf(t, e), EmptyOf(t, e))
                 PROVE  kbuf'[BufOf(t, e)] = <<t, e>>
      BY <1>11 DEF Buffered
    <3>1. kbuf[BufOf(t, e)] = <<t, e>>
      BY <1>12, UnderWay DEF Moves, Buffered
    <3>2. Between(at[t], FirstOf(t, e), EmptyOf(t, e))
      <4>1. FirstOf(t, e) \in Nat /\ FullOf(t, e) \in Nat /\ at[t] \in Nat
        BY <1>12, UnderWay, Milestones
      <4>2. FirstOf(t, e) <= FullOf(t, e)
        BY <1>4, <1>12, UnderWay, InOrder
      <4> QED
        BY <4>1, <4>2 DEF Between
    <3> QED
      BY <2>7, <3>1, <3>2
  <2>9. Arrived(t)'
    <3> SUFFICES ASSUME NEW g \in flight[t], engine'[EngineOf(t, g[1], g[2])] = "done"
                 PROVE  HasArrived(t, g)'
      BY <1>11 DEF Arrived
    <3>1. PICK r \in Pools, e \in Chunks(t) : g = <<r, e>> /\ g[1] = r /\ g[2] = e /\ Uses(job[t], r)
      BY InFlight
    <3>2. Between(at[t], PlaceOf(t, "start", r, e), PlaceOf(t, "wait", r, e))
      BY <1>12, <3>1, UnderWay DEF Moves, Flights
    <3>3. CASE r = p /\ e = c
      <4>1. CASE p = "wr" /\ ~Direct(job[t])
        <5>1. kbuf'[b] = <<t, c>>
          BY <1>5, <1>8, <4>1
        <5> QED
          BY <1>2, <1>11, <3>1, <3>3, <4>1, <5>1 DEF HasArrived
      <4>2. CASE ~(p = "wr" /\ ~Direct(job[t]))
        BY <2>4, <3>1, <3>3, <4>2 DEF HasArrived
      <4> QED
        BY <4>1, <4>2
    <3>4. CASE ~(r = p /\ e = c)
      <4>1. EngineOf(t, r, e) # x
        <5>1. CASE r # p
          BY <1>2, <3>1, <5>1, InFlight
        <5>2. CASE r = p
          <6>1. e # c
            BY <3>4, <5>2
          <6>2. PlaceOf(t, "start", p, c) <= at[t] /\ at[t] <= PlaceOf(t, "wait", p, c)
            <7>1. PlaceOf(t, "start", p, c) \in Nat /\ at[t] \in Nat
              BY <1>4, <1>12, UnderWay, InOrder
            <7> QED
              BY <2>1, <7>1 DEF Between
          <6>3. EngineOf(t, p, e) # EngineOf(t, p, c)
            BY <1>4, <1>12, <3>2, <5>2, <6>1, <6>2, UnderWay, EnginesApart
          <6> QED
            BY <1>2, <5>2, <6>3
        <5> QED
          BY <5>1, <5>2
      <4>2. engine[EngineOf(t, r, e)] = "done"
        BY <1>7, <3>1, <4>1, InFlight
      <4>3. HasArrived(t, g)
        BY <1>12, <3>1, <4>2, UnderWay DEF Moves, Arrived
      <4>4. CASE r = "wr" /\ ~Direct(job[t])
        <5>1. kbuf[BufOf(t, e)] = <<t, e>>
          BY <3>1, <4>3, <4>4 DEF HasArrived
        <5>2. Between(at[t], FirstOf(t, e), EmptyOf(t, e))
          BY <2>2, <3>1, <3>2, <4>4
        <5>3. kbuf'[BufOf(t, e)] = <<t, e>>
          BY <2>7, <4>4, <5>1, <5>2
        <5> QED
          BY <1>11, <3>1, <4>4, <5>3 DEF HasArrived
      <4>5. CASE ~(r = "wr" /\ ~Direct(job[t]))
        <5>1. dst[t][e] = <<t, e>>
          BY <3>1, <4>3, <4>5 DEF HasArrived
        <5>2. dst'[t][e] = <<t, e>>
          BY <2>5, <5>1
        <5> QED
          BY <3>1, <4>5, <5>2 DEF HasArrived
      <4> QED
        BY <4>4, <4>5
    <3> QED
      BY <3>3, <3>4
  <2>10. Flights(t, at[t])' /\ PagesMapped(t, at[t])'
    BY <1>11, <1>12, UnderWay DEF Moves, Flights, PagesMapped
  <2> QED
    BY <2>6, <2>8, <2>9, <2>10 DEF Moves
<1>13. Sound(t)'
  <2>1. NoDup(t)' /\ Flown(t)' /\ \A y \in NoKbuf : y \notin Own(t)'
    BY <1>1, <1>11 DEF Sound, NoDup, Flown
  <2>2. Moving(t)' <=> Moving(t)
    BY DEF Moving
  <2> QED
    BY <1>1, <1>4, <1>11, <1>12, <2>1, <2>2 DEF Sound
<1> QED
  BY <1>9, <1>10, <1>13

LEMMA WaitingSame ==
  ASSUME UNCHANGED <<job, held, flight>>, NEW x
  PROVE  Waiting(x)' = Waiting(x)
<1>1. \A u : \A c : EngineOf(u, x[1], c)' = EngineOf(u, x[1], c)
  BY SameShape
<1> QED
  BY <1>1 DEF Waiting

LEMMA EngineGoes ==
  ASSUME DInv, EInv', NEW x \in Channels, EngineStep(x)
  PROVE  DInv'
<1>1. /\ engine[x] = "busy"
      /\ UNCHANGED <<enable, used, pc, job, held, at, res, flight, mapped, inReset, resetPc>>
  BY DEF EngineStep, EngineDone, EngineFails, poolVars, ownVars, moveVars, resetVars
<1>2. ETypes
  BY DEF DInv, EInv
<1>3. ASSUME NEW e \in {"idle", "done", "abort"}, engine' = [engine EXCEPT ![x] = e]
      PROVE  /\ ResetState' /\ Attended'
             /\ engine'[x] = e /\ \A y \in Channels : y # x => engine'[y] = engine[y]
  <2>1. engine'[x] = e /\ \A y \in Channels : y # x => engine'[y] = engine[y]
    BY <1>2, <1>3 DEF ETypes
  <2>2. ResetState'
    BY <1>1, <2>1, ResetKept DEF DInv
  <2>3. Attended'
    BY <1>1, <2>1, WaitingSame DEF DInv, Attended
  <2> QED
    BY <2>1, <2>2, <2>3
<1>4. CASE \E e \in {"idle", "abort"} : engine' = [engine EXCEPT ![x] = e] /\ UNCHANGED <<kbuf, dst>>
  <2>1. /\ ResetState' /\ Attended'
        /\ \A y \in Channels : engine'[y] = "done" => engine[y] = "done"
    BY <1>3, <1>4
  <2> QED
    BY <1>1, <1>4, <2>1, EnginesStop
<1>5. CASE \E f \in Waiting(x) :
             /\ engine' = [engine EXCEPT ![x] = "done"]
             /\ IF x[1] = "wr" /\ BufOf(f[1], f[2]) # Nothing
                THEN kbuf' = [kbuf EXCEPT ![BufOf(f[1], f[2])] = f] /\ UNCHANGED dst
                ELSE /\ dst' = [dst EXCEPT ![f[1]][f[2]] = IF BufOf(f[1], f[2]) = Nothing THEN f
                                                            ELSE kbuf[BufOf(f[1], f[2])]]
                     /\ UNCHANGED kbuf
  <2>1. PICK f \in Waiting(x) :
             /\ engine' = [engine EXCEPT ![x] = "done"]
             /\ IF x[1] = "wr" /\ BufOf(f[1], f[2]) # Nothing
                THEN kbuf' = [kbuf EXCEPT ![BufOf(f[1], f[2])] = f] /\ UNCHANGED dst
                ELSE /\ dst' = [dst EXCEPT ![f[1]][f[2]] = IF BufOf(f[1], f[2]) = Nothing THEN f
                                                            ELSE kbuf[BufOf(f[1], f[2])]]
                     /\ UNCHANGED kbuf
    BY <1>5
  <2>2. PICK t \in Threads, c \in 1 .. MaxChunks :
          /\ f = <<t, c>> /\ f[1] = t /\ f[2] = c
          /\ <<x[1], c>> \in flight[t] /\ EngineOf(t, x[1], c) = x
    BY DEF Waiting
  <2>3. Apart(t) /\ DTypes' /\ Sound(t)'
    BY <1>1, <2>1, <2>2, ArrivalSound
  <2>4. ResetState' /\ Attended'
    BY <1>3, <2>1
  <2> QED
    BY <2>2, <2>3, <2>4, OneMover
<1> QED
  BY <1>4, <1>5 DEF EngineStep, EngineDone, EngineFails, moveVars

LEMMA ResetGoes ==
  ASSUME DInv, EInv', ResetBegin \/ ResetStep
  PROVE  DInv'
<1>1. UNCHANGED <<used, kbuf, pc, job, held, at, res, flight, mapped, dst>>
  BY DEF ResetBegin, ResetStep, ResetDisable, ResetChip, ResetEnd, poolVars, chanVars, ownVars, moveVars
<1>2. ResetState /\ Attended /\ ETypes
  BY DEF DInv, EInv
<1>3. \A y \in Channels : engine'[y] = "done" => engine[y] = "done"
  BY DEF ResetBegin, ResetStep, ResetDisable, ResetChip, ResetEnd, chanVars
<1>4. ResetState' /\ Attended'
  <2>1. CASE ResetBegin
    BY <1>1, <1>2, <2>1 DEF ResetBegin, chanVars, ResetState, Attended
  <2>2. CASE ResetDisable
    BY <1>1, <1>2, <2>2 DEF ResetDisable, ResetState, Attended
  <2>3. CASE ResetChip
    BY <1>1, <1>2, <2>3 DEF ResetChip, ResetState, Attended
  <2>4. CASE ResetEnd
    BY <1>1, <1>2, <2>4 DEF ResetEnd, ResetState, Attended
  <2> QED
    BY <2>1, <2>2, <2>3, <2>4 DEF ResetStep
<1> QED
  BY <1>1, <1>3, <1>4, EnginesStop

-----------------------------------------------------------------------------
LEMMA DInductive ==
  ASSUME DInv, EInv', [Next]_edmaVars
  PROVE  DInv'
<1>1. ASSUME NEW t \in Threads, Call(t) \/ Acquire(t) \/ Move(t) \/ Release(t) PROVE DInv'
  <2>1. CASE Acquire(t)
    BY <2>1, DownGoes, GetNoneGoes, GetGoes, BeginGoes, LockGoes DEF Acquire
  <2>2. CASE Release(t)
    BY <2>2, PutGoes, UpGoes, ReturnGoes DEF Release
  <2> QED
    BY <1>1, <2>1, <2>2, CallGoes, MoveGoes
<1>2. CASE UNCHANGED edmaVars
  <2>1. UNCHANGED <<used, enable, kbuf, engine, pc, job, held, at, res, flight, mapped, dst, inReset, resetPc>>
    BY <1>2 DEF edmaVars, poolVars, chanVars, ownVars, moveVars, resetVars
  <2>2. ResetState' /\ Attended'
    BY <2>1, WaitingSame DEF DInv, ResetState, Attended
  <2> QED
    BY <2>1, <2>2, EnginesStop
<1> QED
  BY <1>1, <1>2, EngineGoes, ResetGoes DEF Next

LEMMA DInvariant == Spec => []DInv
<1>1. Init => DInv
  BY DInit
<1>2. DInv /\ EInv' /\ [Next]_edmaVars => DInv'
  BY DInductive
<1> QED
  BY <1>1, <1>2, Invariant, PTL DEF Spec

(* A copy that reports success has put every chunk where it belongs,       *)
(* whatever path it took, whichever copies used its channels before it and *)
(* whenever a reset cut in.                                                *)
THEOREM SuccessMeansCopied == Spec => []CopyOkMeansCopied
<1>1. DInv => CopyOkMeansCopied
  BY DEF DInv, Sound, Complete, Chunks, CopyOkMeansCopied
<1> QED
  BY <1>1, DInvariant, PTL

(* Outside a reset an engine works for a copy that waits for it, and       *)
(* without a bounce buffer only from or to a page that is still mapped.    *)
THEOREM NothingStrays == Spec => []NoStrayTransfer
<1>1. DInv => NoStrayTransfer
  <2> SUFFICES ASSUME DInv, ~inReset, NEW x \in Channels, engine[x] = "busy"
               PROVE  \E f \in Waiting(x) : BufOf(f[1], f[2]) = Nothing => f[2] \in mapped[f[1]]
    BY DEF NoStrayTransfer
  <2>1. PICK f \in Waiting(x) : TRUE
    BY DEF DInv, Attended
  <2>2. PICK t \in Threads, c \in 1 .. MaxChunks :
          f[1] = t /\ f[2] = c /\ <<x[1], c>> \in flight[t]
    BY DEF Waiting
  <2>3. Sound(t) /\ Local(t) /\ ETypes
    BY DEF DInv, EInv
  <2>4. c \in Chunks(t) /\ (Direct(job[t]) => c \in mapped[t])
    BY <2>2, <2>3 DEF Sound, Flown
  <2>5. OfPools(t) /\ Equipped(t)
    BY <2>2, <2>3 DEF Sound, Local
  <2>6. BufOf(t, c) = Nothing => Direct(job[t])
    BY <2>3, <2>4, <2>5, BufferIn
  <2> QED
    BY <2>2, <2>4, <2>6
<1> QED
  BY <1>1, DInvariant, PTL
=============================================================================
