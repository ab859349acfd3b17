------------------------------- MODULE XpuEdma -------------------------------
(***************************************************************************)
(* Copies over PCIe of a K200 power domain: the pools of EDMA channels     *)
(* (one of write channels, device to host, and one of read channels), the  *)
(* copies that take channels from them and move their data chunk by chunk, *)
(* straight, through a bounce buffer or through a pipeline of them, and    *)
(* the soft reset that disables the channels under the copies.             *)
(*                                                                         *)
(* What a copy does once it has its channels is a list of steps (Script),  *)
(* one list per path of xpu_dma.c.  Data is a copy and a chunk number; a   *)
(* buffer is Junk while the engine writes to it.  A peer to peer copy uses *)
(* the write pool of its source and the read pool of its destination, the  *)
(* two pools here: one the other way uses the other two of the board.      *)
(*                                                                         *)
(* Outside a pipeline a lock is taken with the step that follows it and    *)
(* given back with the one before: nobody but the reset waits for the lock *)
(* of a channel that somebody else has taken.                              *)
(***************************************************************************)
EXTENDS Integers, Sequences, FiniteSets

CONSTANTS
  Threads,   \* threads of processes inside a copy ioctl
  NumCh,     \* KL1_EDMA_CHANNEL_NUM_ONE_PD
  NoKbuf,    \* the channels dma_setup found no bounce buffer for
  Mixes,     \* bound: the copies that may meet, a set of copies for each thread
  MaxChunks, \* bound: the chunks of a copy
  Nothing

Pools    == {"wr", "rd"}
Ch       == 1 .. NumCh
Channels == Pools \X Ch
Junk     == <<Nothing, 0>>

(* A copy: its direction, the path xpu_dma.c sends it on, its chunks. *)
JobType ==
  {j \in [dir : {"d2h", "h2d", "p2p"},
          path : {"direct", "pin", "serial", "single", "conc", "overlap", "srcfirst", "dstfirst"},
          n : 1 .. MaxChunks] :
     /\ j.path \in {"single", "conc"} => j.dir = "d2h" /\ j.n > 1
     /\ j.path = "overlap" => j.dir = "h2d" /\ j.n > 1
     /\ j.path \in {"srcfirst", "dstfirst"} <=> j.dir = "p2p"}

ASSUME EdmaAssumption ==
  /\ NumCh \in Nat \ {0}
  /\ NoKbuf \subseteq Channels
  /\ \A p \in Pools : \E c \in Ch : <<p, c>> \notin NoKbuf
  /\ Mixes \subseteq [Threads -> SUBSET JobType]
  /\ MaxChunks \in Nat \ {0}
  /\ IsFiniteSet(Threads) /\ Nothing \notin Threads \cup Channels

VARIABLES
  sema,     \* wrch_sema, rdch_sema
  used,     \* wrch_bitmap, rdch_bitmap: the channels taken
  enable,   \* edma->enable
  lock,     \* the holder of edma->lock
  kbuf,     \* what edma->kbuf holds
  engine,   \* idle, busy, or the outcome its status shows: done, abort
  mix,      \* the member of Mixes that is looked at
  pc,       \* the next step of each copy
  job,      \* the copy and the path it is on
  sems,     \* the semaphore counts it holds
  tried,    \* the semaphores it has tried
  held,     \* its channels of each pool, in the order it got them
  at,       \* its step, a position of its script
  flight,   \* the transfers it started and has not waited for
  mapped,   \* the chunks of its own pages mapped for the engine
  res,      \* ok, err, or again on another path
  dst,      \* the chunks at the destination
  inReset,  \* xdev->in_reset
  resetPc, resetAt  \* the next step of the reset thread and its channel

poolVars  == <<sema, used>>
chanVars  == <<enable, lock, kbuf, engine>>
ownVars   == <<mix, job, sems, tried, held>>
moveVars  == <<at, flight, mapped, dst, res>>
resetVars == <<inReset, resetPc, resetAt>>
edmaVars  == <<poolVars, chanVars, pc, ownVars, moveVars, resetVars>>

NoJob  == [dir |-> "d2h", path |-> "serial", n |-> 1]
None   == [p \in Pools |-> 0]
NoCh   == [p \in Pools |-> <<>>]
NoData == [c \in 1 .. MaxChunks |-> Junk]

Least(S) == CHOOSE x \in S : \A y \in S : x <= y
Elems(s) == {s[i] : i \in 1 .. Len(s)}

(* The pool whose engines move data from or to the host. *)
HostPool(j) == IF j.dir = "h2d" THEN "rd" ELSE "wr"

Direct(j) == j.path \in {"direct", "pin"}
Bounce(j) == j.path \in {"single", "conc", "overlap"}
Piped(j)  == Bounce(j) \/ j.dir = "p2p"

-----------------------------------------------------------------------------
(* The steps of a path *)

Step(op, p, c) == [op |-> op, pool |-> p, chunk |-> c]
Map(p, c)   == Step("map", p, c)
Unmap(p, c) == Step("unmap", p, c)
Start(p, c) == Step("start", p, c)
Wait(p, c)  == Step("wait", p, c)
FillBuf(c)  == Step("fill", "rd", c)
Out(c)      == Step("out", "wr", c)

(* Turn i of the loop of each path, for chunk i and what is left to do for *)
(* the one before.                                                         *)
DirectTurn(p, i)   == <<Map(p, i), Start(p, i), Wait(p, i), Unmap(p, i)>>
SerialOutTurn(i)   == <<Start("wr", i), Wait("wr", i), Out(i)>>
SerialInTurn(i)    == <<FillBuf(i), Start("rd", i), Wait("rd", i)>>
SingleIssueTurn(i) == <<Wait("wr", i - 1), Start("wr", i), Out(i - 1)>>
ConcurrentTurn(i)  == <<Start("wr", i), Wait("wr", i - 1), Out(i - 1)>>
OverlapTurn(i)     == <<FillBuf(i), Wait("rd", i - 1), Start("rd", i)>>

(* Mutant: the only staging buffer is filled before it is empty. *)
PeerTurnHasty(twin, i) == <<Wait("wr", i - 1), Start("rd", i - 1), Start("wr", i), Wait("rd", i - 1)>>

(* A peer to peer copy overlaps with a second staging buffer (twin) only. *)
PeerTurn(twin, i) ==
  IF twin
  THEN <<Wait("wr", i - 1), Start("rd", i - 1), Start("wr", i), Wait("rd", i - 1)>>
  ELSE <<Wait("wr", i - 1), Start("rd", i - 1), Wait("rd", i - 1), Start("wr", i)>>

Turn(j, twin, i) ==
  CASE Direct(j)           -> DirectTurn(HostPool(j), i)
    [] j.path = "serial"   -> IF j.dir = "d2h" THEN SerialOutTurn(i) ELSE SerialInTurn(i)
    [] j.path = "single"   -> SingleIssueTurn(i)
    [] j.path = "conc"     -> ConcurrentTurn(i)
    [] j.path = "overlap"  -> OverlapTurn(i)
    [] j.dir = "p2p"       -> PeerTurn(twin, i)

(* The turns of a copy, one more than it has chunks. *)
Turns(j, twin) ==
  LET len == Len(Turn(j, twin, 1))
  IN  [k \in 1 .. (len * (j.n + 1)) |->
         Turn(j, twin, ((k - 1) \div len) + 1)[((k - 1) % len) + 1]]

Script == [j \in JobType |-> [twin \in BOOLEAN |-> Turns(j, twin)]]

(* The channels a copy has. *)
Own(t) == Elems(held[t]["wr"]) \cup Elems(held[t]["rd"])
Has(t) == Len(held[t]["wr"]) + Len(held[t]["rd"])

(* Its steps are those that are about a chunk that exists. *)
ScriptOf(t) == Script[job[t]][Has(t) = 3]
Steps(t)    == {k \in DOMAIN ScriptOf(t) : ScriptOf(t)[k].chunk \in 1 .. job[t].n}
Cur(t)      == ScriptOf(t)[at[t]]
Doing(t, op) == pc[t] = "run" /\ Cur(t).op = op

Advance(t) ==
  LET left == {k \in Steps(t) : k > at[t]}
  IN  IF left = {}
      THEN pc' = [pc EXCEPT ![t] = "put"] /\ at' = [at EXCEPT ![t] = 1]
      ELSE pc' = [pc EXCEPT ![t] = "run"] /\ at' = [at EXCEPT ![t] = Least(left)]

-----------------------------------------------------------------------------
(* Semaphores and channels *)

Call(t) ==
  /\ pc[t] = "idle"
  /\ \E j \in mix[t] : job' = [job EXCEPT ![t] = j]
  /\ pc' = [pc EXCEPT ![t] = "down"]
  /\ UNCHANGED <<poolVars, chanVars, mix, sems, tried, held, moveVars, resetVars>>

(* The semaphores of a path: down_timeout or down_trylock. *)
Must(p) == [pool |-> p, must |-> TRUE]
May(p)  == [pool |-> p, must |-> FALSE]

SemaPlan(j) ==
  CASE j.path \in {"single", "conc"} -> <<Must("wr"), May("wr"), May("wr")>>
    [] j.path = "overlap"            -> <<Must("rd"), May("rd")>>
    [] j.path = "srcfirst"           -> <<Must("wr"), May("wr"), Must("rd")>>
    [] j.path = "dstfirst"           -> <<Must("rd"), Must("wr"), May("wr")>>
    [] OTHER                         -> <<Must(HostPool(j))>>

Wanted(t)  == SemaPlan(job[t])[tried[t] + 1]

(* A third count is tried for only if the second was got. *)
Tries(t) ==
  sems[t][Wanted(t).pool] =
    Cardinality({i \in 1 .. tried[t] : SemaPlan(job[t])[i].pool = Wanted(t).pool})

(* A bounce pipeline needs two channels. *)
Tried(t, count) ==
  /\ tried' = [tried EXCEPT ![t] = (@ + 1) % Len(SemaPlan(job[t]))]
  /\ IF tried'[t] # 0
     THEN UNCHANGED <<pc, res>>
     ELSE IF Bounce(job[t]) /\ count < 2
     THEN pc' = [pc EXCEPT ![t] = "up"] /\ res' = [res EXCEPT ![t] = "again"]
     ELSE pc' = [pc EXCEPT ![t] = "get"] /\ UNCHANGED res

Down(t) ==
  /\ pc[t] = "down"
  /\ Tries(t)
  /\ sema[Wanted(t).pool] > 0
  /\ sema' = [sema EXCEPT ![Wanted(t).pool] = @ - 1]
  /\ sems' = [sems EXCEPT ![t][Wanted(t).pool] = @ + 1]
  /\ Tried(t, sems[t][Wanted(t).pool] + 1)
  /\ UNCHANGED <<used, chanVars, mix, job, held, at, flight, mapped, dst, resetVars>>

(* The try fails, or the wait times out. *)
DownFails(t) ==
  /\ pc[t] = "down"
  /\ Tries(t) => sema[Wanted(t).pool] = 0
  /\ IF Wanted(t).must
     THEN /\ pc' = [pc EXCEPT ![t] = "up"]
          /\ res' = [res EXCEPT ![t] = "err"]
          /\ tried' = [tried EXCEPT ![t] = 0]
     ELSE Tried(t, sems[t][Wanted(t).pool])
  /\ UNCHANGED <<poolVars, chanVars, mix, job, sems, held, at, flight, mapped, dst, resetVars>>

(* The channels a copy takes, one by one. *)
ChannelPlan(t) ==
  LET p == HostPool(job[t])
      more == [i \in 1 .. (sems[t][p] - 1) |-> p]
  IN  (IF job[t].dir = "p2p" THEN <<"wr", "rd">> ELSE <<p>>) \o more

NextPool(t) == ChannelPlan(t)[Has(t) + 1]

(* Mutant: the bits are not looked at. *)
FreeChAny(p) == Ch

(* find_first_zero_bit finds the first of these, if any. *)
FreeCh(p) == Ch \ used[p]
Usable(x) == enable[x] /\ x \notin NoKbuf

(* get_channel finds none. *)
GetNone(t) ==
  /\ pc[t] = "get"
  /\ FreeCh(NextPool(t)) = {}
  /\ pc' = [pc EXCEPT ![t] = "begin"]
  /\ UNCHANGED <<poolVars, chanVars, ownVars, moveVars, resetVars>>

(* get_channel.  The device to host pipeline gives up at a channel that is *)
(* disabled, and keeps its bit.                                            *)
GetChannel(t) ==
  LET p == NextPool(t)
      x == <<p, Least(FreeCh(p))>>
      last == Has(t) + 1 = Len(ChannelPlan(t))
  IN  /\ pc[t] = "get"
      /\ FreeCh(p) # {}
      /\ used' = [used EXCEPT ![p] = @ \cup {x[2]}]
      /\ IF job[t].path \in {"single", "conc"} /\ ~Usable(x)
         THEN pc' = [pc EXCEPT ![t] = "begin"] /\ UNCHANGED held
         ELSE /\ held' = [held EXCEPT ![t][p] = Append(@, x)]
              /\ pc' = [pc EXCEPT ![t] = IF last THEN "begin" ELSE "get"]
      /\ UNCHANGED <<sema, chanVars, mix, job, sems, tried, moveVars, resetVars>>

GiveUp(t, r) ==
  /\ pc' = [pc EXCEPT ![t] = "put"]
  /\ res' = [res EXCEPT ![t] = r]

(* Mutant: they do not. *)
ReturnSurplusLost(t) ==
  /\ sems' = [sems EXCEPT ![t][HostPool(job[t])] = Len(held[t][HostPool(job[t])])]
  /\ UNCHANGED sema

(* The counts for which no channel was got go back. *)
ReturnSurplus(t) ==
  LET p == HostPool(job[t])
      got == Len(held[t][p])
  IN  /\ sema' = [sema EXCEPT ![p] = @ + sems[t][p] - got]
      /\ sems' = [sems EXCEPT ![t][p] = got]

(* Does the copy have what its path needs? *)
Begin(t) ==
  /\ pc[t] = "begin"
  /\ \/ /\ Bounce(job[t])
        /\ IF Has(t) < 2 \/ \E x \in Own(t) : job[t].path = "overlap" /\ ~Usable(x)
           THEN GiveUp(t, "again") /\ UNCHANGED <<sema, sems>>
           ELSE ReturnSurplus(t) /\ pc' = [pc EXCEPT ![t] = "lock"] /\ UNCHANGED res
     \/ /\ job[t].dir = "p2p"
        /\ IF Has(t) < 2
           THEN GiveUp(t, "err") /\ UNCHANGED <<sema, sems>>
           ELSE /\ ReturnSurplus(t)
                /\ IF enable[held[t]["wr"][1]] /\ enable[held[t]["rd"][1]]
                   THEN pc' = [pc EXCEPT ![t] = "lock"] /\ UNCHANGED res
                   ELSE GiveUp(t, "err")
     \/ /\ ~Piped(job[t])
        /\ IF Has(t) = 0
           THEN GiveUp(t, "err")
           ELSE pc' = [pc EXCEPT ![t] = "run"] /\ UNCHANGED res
        /\ UNCHANGED <<sema, sems>>
  /\ at' = [at EXCEPT ![t] = Least(Steps(t))]
  /\ UNCHANGED <<used, chanVars, mix, job, tried, held, flight, mapped, dst, resetVars>>

(* kl1_edma_lock_n.  The reset never holds two locks: the locks of a       *)
(* pipeline are taken at once.                                             *)
LockPipe(t) ==
  /\ pc[t] = "lock"
  /\ \A x \in Own(t) : lock[x] = Nothing
  /\ lock' = [x \in Channels |-> IF x \in Own(t) THEN t ELSE lock[x]]
  /\ pc' = [pc EXCEPT ![t] = "run"]
  /\ UNCHANGED <<poolVars, enable, kbuf, engine, ownVars, moveVars, resetVars>>

-----------------------------------------------------------------------------
(* Moving the data *)

(* Mutant: it is not. *)
FailAtOnce(t, left) ==
  /\ pc' = [pc EXCEPT ![t] = "put"]
  /\ res' = [res EXCEPT ![t] = "err"]
  /\ at' = [at EXCEPT ![t] = 1]
  /\ flight' = [flight EXCEPT ![t] = {}]

(* What is in flight is waited for first. *)
Fail(t, left) ==
  /\ pc' = [pc EXCEPT ![t] = IF left = {} THEN "put" ELSE "drain"]
  /\ res' = [res EXCEPT ![t] = "err"]
  /\ at' = [at EXCEPT ![t] = 1]
  /\ flight' = [flight EXCEPT ![t] = left]

(* The buffer of a chunk: two or three take turns. *)
BufOf(t, c) ==
  LET b == held[t][HostPool(job[t])]
      turns == IF job[t].path = "conc" THEN 2 ELSE Len(b)
  IN  IF Direct(job[t]) THEN Nothing ELSE b[((c - 1) % turns) + 1]

(* The channel whose engine moves it. *)
EngineOf(t, p, c) ==
  IF job[t].dir = "p2p" \/ Direct(job[t]) THEN held[t][p][1] ELSE BufOf(t, c)

(* edma_precheck *)
Refused(x) == inReset \/ ~enable[x]

(* xpuhw_edma_read_start, xpuhw_edma_write_start: the status is cleared    *)
(* and the doorbell rung.  Without a pipeline the lock is held from here   *)
(* to the end of the wait.                                                 *)
StartEngine(t) ==
  LET s == Cur(t)
      x == EngineOf(t, s.pool, s.chunk)
      b == BufOf(t, s.chunk)
  IN  /\ Doing(t, "start")
      /\ lock[x] \in {t, Nothing}
      /\ IF Refused(x)
         THEN Fail(t, flight[t]) /\ UNCHANGED <<lock, kbuf, engine>>
         ELSE /\ lock' = [lock EXCEPT ![x] = t]
              /\ engine' = [engine EXCEPT ![x] = "busy"]
              /\ kbuf' = IF s.pool = "wr" /\ b # Nothing THEN [kbuf EXCEPT ![b] = Junk] ELSE kbuf
              /\ flight' = [flight EXCEPT ![t] = @ \cup {<<s.pool, s.chunk>>}]
              /\ Advance(t) /\ UNCHANGED res
      /\ UNCHANGED <<poolVars, enable, ownVars, mapped, dst, resetVars>>

UnlockUnlessPiped(t, x) == lock' = IF Piped(job[t]) THEN lock ELSE [lock EXCEPT ![x] = Nothing]

(* xpuhw_edma_read_wait, xpuhw_edma_write_wait: refused at once, or polled. *)
WaitEngine(t) ==
  LET s == Cur(t)
      x == EngineOf(t, s.pool, s.chunk)
  IN  /\ Doing(t, "wait")
      /\ IF Refused(x)
         THEN Fail(t, flight[t] \ {<<s.pool, s.chunk>>}) /\ UnlockUnlessPiped(t, x)
         ELSE pc' = [pc EXCEPT ![t] = "poll"] /\ UNCHANGED <<at, res, flight, lock>>
      /\ UNCHANGED <<poolVars, enable, kbuf, engine, ownVars, mapped, dst, resetVars>>

(* After an error what is in flight is waited for, the outcome discarded. *)
Drain(t) ==
  /\ pc[t] = "drain"
  /\ \E f \in flight[t] :
       IF Refused(EngineOf(t, f[1], f[2]))
       THEN Fail(t, flight[t] \ {f})
       ELSE pc' = [pc EXCEPT ![t] = "poll"] /\ UNCHANGED <<flight, res, at>>
  /\ UNCHANGED <<poolVars, chanVars, ownVars, mapped, dst, resetVars>>

(* What is polled for: the transfer of the step, or the one drained. *)
Awaited(t) ==
  IF res[t] = "err" THEN CHOOSE f \in flight[t] : TRUE ELSE <<Cur(t).pool, Cur(t).chunk>>

(* xpuhw_edma_poll_wait until the engine is done, aborts or 20 s are over. *)
Over(x) == engine[x] # "busy"

(* Then the status is cleared. *)
Poll(t) ==
  LET f == Awaited(t)
      x == EngineOf(t, f[1], f[2])
  IN  /\ pc[t] = "poll"
      /\ Over(x)
      /\ engine' = [engine EXCEPT ![x] = "idle"]
      /\ UnlockUnlessPiped(t, x)
      /\ IF res[t] = "ok" /\ engine[x] = "done"
         THEN /\ flight' = [flight EXCEPT ![t] = @ \ {f}]
              /\ Advance(t) /\ UNCHANGED res
         ELSE Fail(t, flight[t] \ {f})
      /\ UNCHANGED <<poolVars, enable, kbuf, ownVars, mapped, dst, resetVars>>

(* copy_from_user into the bounce buffer *)
Fill(t) ==
  /\ Doing(t, "fill")
  /\ \/ /\ kbuf' = [kbuf EXCEPT ![BufOf(t, Cur(t).chunk)] = <<t, Cur(t).chunk>>]
        /\ Advance(t) /\ UNCHANGED <<res, flight>>
     \/ Fail(t, flight[t]) /\ UNCHANGED kbuf
  /\ UNCHANGED <<poolVars, enable, lock, engine, ownVars, mapped, dst, resetVars>>

(* copy_to_user out of it *)
CopyOut(t) ==
  /\ Doing(t, "out")
  /\ \/ /\ dst' = [dst EXCEPT ![t][Cur(t).chunk] = kbuf[BufOf(t, Cur(t).chunk)]]
        /\ Advance(t) /\ UNCHANGED <<res, flight>>
     \/ Fail(t, flight[t]) /\ UNCHANGED dst
  /\ UNCHANGED <<poolVars, chanVars, ownVars, mapped, resetVars>>

(* A page of the process is looked up or pinned, and mapped.  Pages that   *)
(* cannot be pinned are left to the bounce buffers.                        *)
MapPage(t) ==
  /\ Doing(t, "map")
  /\ \/ /\ mapped' = [mapped EXCEPT ![t] = @ \cup {Cur(t).chunk}]
        /\ Advance(t) /\ UNCHANGED <<res, flight>>
     \/ Fail(t, {}) /\ UNCHANGED mapped
     \/ job[t].path = "pin" /\ GiveUp(t, "again") /\ UNCHANGED <<at, mapped, flight>>
  /\ UNCHANGED <<poolVars, chanVars, ownVars, dst, resetVars>>

UnmapPage(t) ==
  /\ Doing(t, "unmap")
  /\ mapped' = [mapped EXCEPT ![t] = @ \ {Cur(t).chunk}]
  /\ Advance(t)
  /\ UNCHANGED <<poolVars, chanVars, ownVars, flight, dst, res, resetVars>>

-----------------------------------------------------------------------------
(* Giving back *)

(* kl1_edma_unlock_n *)
Unlocked(t) == [x \in Channels |-> IF lock[x] = t THEN Nothing ELSE lock[x]]

(* The page of a failed chunk is unmapped, the locks of a pipeline are     *)
(* given back, put_channel is called for every channel.  What its buffer   *)
(* holds is nothing the next copy may use.                                 *)
Put(t) ==
  /\ pc[t] = "put"
  /\ mapped' = [mapped EXCEPT ![t] = {}]
  /\ lock' = Unlocked(t)
  /\ used' = [p \in Pools |-> used[p] \ {c \in Ch : <<p, c>> \in Own(t)}]
  /\ kbuf' = [x \in Channels |-> IF x \in Own(t) THEN Junk ELSE kbuf[x]]
  /\ dst' = IF res[t] = "ok" THEN dst ELSE [dst EXCEPT ![t] = NoData]
  /\ held' = [held EXCEPT ![t] = NoCh]
  /\ at' = [at EXCEPT ![t] = 1]
  /\ pc' = [pc EXCEPT ![t] = "up"]
  /\ UNCHANGED <<sema, enable, engine, mix, job, sems, tried, flight, res, resetVars>>

(* Mutants: a single chunk goes to a pipeline, a pipeline tries itself again. *)
OtherPathsPiped(j) ==
  IF j.path = "pin" THEN IF j.dir = "d2h" THEN {"single", "conc"} ELSE {"overlap"} ELSE {"serial"}
OtherPathsSame(j) ==
  IF j.path = "pin" /\ j.n = 1 THEN {"serial"}
  ELSE IF j.path = "pin" THEN IF j.dir = "d2h" THEN {"single", "conc"} ELSE {"overlap"}
  ELSE {j.path}

(* Where a copy that could not go its way goes on, from the first chunk. *)
OtherPaths(j) ==
  IF j.path = "pin" /\ j.n > 1
  THEN IF j.dir = "d2h" THEN {"single", "conc"} ELSE {"overlap"}
  ELSE {"serial"}

(* up of every semaphore *)
Up(t) ==
  /\ pc[t] = "up"
  /\ sema' = [p \in Pools |-> sema[p] + sems[t][p]]
  /\ sems' = [sems EXCEPT ![t] = None]
  /\ \/ /\ res[t] = "again"
        /\ \E path \in OtherPaths(job[t]) : job' = [job EXCEPT ![t].path = path]
        /\ res' = [res EXCEPT ![t] = "ok"]
        /\ pc' = [pc EXCEPT ![t] = "down"]
     \/ /\ res[t] # "again"
        /\ pc' = [pc EXCEPT ![t] = "ret"]
        /\ UNCHANGED <<job, res>>
  /\ UNCHANGED <<used, chanVars, mix, tried, held, at, flight, mapped, dst, resetVars>>

Return(t) ==
  /\ pc[t] = "ret"
  /\ pc' = [pc EXCEPT ![t] = "idle"]
  /\ job' = [job EXCEPT ![t] = NoJob]
  /\ res' = [res EXCEPT ![t] = "ok"]
  /\ dst' = [dst EXCEPT ![t] = NoData]
  /\ UNCHANGED <<poolVars, chanVars, mix, sems, tried, held, at, flight, mapped, resetVars>>

-----------------------------------------------------------------------------
(* The engines *)

(* The copies that wait for a transfer on channel x. *)
Waiting(x) ==
  {f \in Threads \X (1 .. MaxChunks) :
     <<x[1], f[2]>> \in flight[f[1]] /\ EngineOf(f[1], x[1], f[2]) = x}

(* The data arrives; a page of a process holds the data of its chunk.  A   *)
(* transfer nobody waits for changes nothing anybody may still look at.    *)
EngineDone(x) ==
  /\ engine[x] = "busy"
  /\ \/ /\ Waiting(x) = {}
        /\ engine' = [engine EXCEPT ![x] = "idle"]
        /\ UNCHANGED <<kbuf, dst>>
     \/ \E f \in Waiting(x) :
          LET t == f[1]
              b == BufOf(t, f[2])
          IN  /\ engine' = [engine EXCEPT ![x] = "done"]
              /\ IF x[1] = "wr" /\ b # Nothing
                 THEN kbuf' = [kbuf EXCEPT ![b] = f] /\ UNCHANGED dst
                 ELSE /\ dst' = [dst EXCEPT ![t][f[2]] = IF b = Nothing THEN f ELSE kbuf[b]]
                      /\ UNCHANGED kbuf
  /\ UNCHANGED <<poolVars, enable, lock, pc, ownVars, at, flight, mapped, res, resetVars>>

(* It aborts, or takes longer than the wait for it. *)
EngineFails(x) ==
  /\ engine[x] = "busy" /\ Waiting(x) # {}
  /\ engine' = [engine EXCEPT ![x] = "abort"]
  /\ UNCHANGED <<poolVars, enable, lock, kbuf, pc, ownVars, moveVars, resetVars>>

-----------------------------------------------------------------------------
(* The soft reset *)

(* The read and the write channels take turns. *)
Visited == <<IF resetAt % 2 = 1 THEN "rd" ELSE "wr", (resetAt + 1) \div 2>>

ResetBegin ==
  /\ resetPc = "no"
  /\ inReset' = TRUE
  /\ resetPc' = "disable"
  /\ UNCHANGED <<poolVars, chanVars, pc, ownVars, moveVars, resetAt>>

(* lock_pcie_edma waits for whoever holds the lock of a channel. *)
ResetDisable ==
  /\ resetPc = "disable"
  /\ lock[Visited] = Nothing
  /\ enable' = [enable EXCEPT ![Visited] = FALSE]
  /\ IF resetAt < 2 * NumCh
     THEN resetAt' = resetAt + 1 /\ UNCHANGED resetPc
     ELSE resetAt' = 1 /\ resetPc' = "chip"
  /\ UNCHANGED <<poolVars, lock, kbuf, engine, pc, ownVars, moveVars, inReset>>

(* The firmware resets the chip, which ends every transfer. *)
ResetChip ==
  /\ resetPc = "chip"
  /\ engine' = [x \in Channels |-> "idle"]
  /\ resetPc' = "end"
  /\ UNCHANGED <<poolVars, enable, lock, kbuf, pc, ownVars, moveVars, inReset, resetAt>>

(* unlock_pcie_edma, without a lock; nothing starts before in_reset falls. *)
ResetEnd ==
  /\ resetPc = "end"
  /\ enable' = [x \in Channels |-> TRUE]
  /\ inReset' = FALSE
  /\ resetPc' = "no"
  /\ UNCHANGED <<poolVars, lock, kbuf, engine, pc, ownVars, moveVars, resetAt>>

-----------------------------------------------------------------------------
(* dma_setup *)
Init ==
  /\ mix \in Mixes
  /\ sema = [p \in Pools |-> Cardinality({c \in Ch : <<p, c>> \notin NoKbuf})]
  /\ used = [p \in Pools |-> {c \in Ch : <<p, c>> \in NoKbuf}]
  /\ enable = [x \in Channels |-> x \notin NoKbuf]
  /\ lock = [x \in Channels |-> Nothing]
  /\ kbuf = [x \in Channels |-> Junk]
  /\ engine = [x \in Channels |-> "idle"]
  /\ pc = [t \in Threads |-> "idle"]
  /\ job = [t \in Threads |-> NoJob]
  /\ sems = [t \in Threads |-> None]
  /\ tried = [t \in Threads |-> 0]
  /\ held = [t \in Threads |-> NoCh]
  /\ at = [t \in Threads |-> 1]
  /\ flight = [t \in Threads |-> {}]
  /\ mapped = [t \in Threads |-> {}]
  /\ res = [t \in Threads |-> "ok"]
  /\ dst = [t \in Threads |-> NoData]
  /\ inReset = FALSE /\ resetPc = "no" /\ resetAt = 1

Acquire(t) ==
  Down(t) \/ DownFails(t) \/ GetNone(t) \/ GetChannel(t) \/ Begin(t) \/ LockPipe(t)

Move(t) ==
  \/ StartEngine(t) \/ WaitEngine(t) \/ Poll(t) \/ Drain(t)
  \/ Fill(t) \/ CopyOut(t) \/ MapPage(t) \/ UnmapPage(t)

Release(t) == Put(t) \/ Up(t) \/ Return(t)

EngineStep(x) == EngineDone(x) \/ EngineFails(x)
ResetStep == ResetDisable \/ ResetChip \/ ResetEnd

Next ==
  \/ \E t \in Threads : Call(t) \/ Acquire(t) \/ Move(t) \/ Release(t)
  \/ \E x \in Channels : EngineStep(x)
  \/ ResetBegin \/ ResetStep

(* Threads run, a transfer ends one way or another, and the lock of a      *)
(* channel is handed over to the reset that waits for it.  A reset need    *)
(* not get beyond that: the firmware may not answer.                       *)
Fairness ==
  /\ \A t \in Threads : WF_edmaVars(Acquire(t) \/ Move(t) \/ Release(t))
  /\ \A x \in Channels : WF_edmaVars(EngineStep(x))
  /\ SF_edmaVars(ResetDisable)

Spec == Init /\ [][Next]_edmaVars /\ Fairness

-----------------------------------------------------------------------------
(* Properties *)

(* Every variable has its type; no semaphore ever exceeds its channels. *)
EdmaTypeOK ==
  /\ sema \in [Pools -> 0 .. NumCh]
  /\ used \in [Pools -> SUBSET Ch]
  /\ enable \in [Channels -> BOOLEAN]
  /\ lock \in [Channels -> Threads \cup {Nothing}]
  /\ engine \in [Channels -> {"idle", "busy", "done", "abort"}]
  /\ job \in [Threads -> JobType]
  /\ sems \in [Threads -> [Pools -> 0 .. NumCh]]
  /\ \A t \in Threads : Own(t) \subseteq Channels /\ mapped[t] \subseteq 1 .. MaxChunks
  /\ \A t \in Threads : flight[t] \subseteq Pools \X (1 .. MaxChunks)
  /\ res \in [Threads -> {"ok", "err", "again"}]
  /\ inReset \in BOOLEAN /\ resetPc \in {"no", "disable", "chip", "end"}
  /\ resetAt \in 1 .. (2 * NumCh)

(* A channel has one user, although a semaphore, a bitmap and a lock per   *)
(* channel are three mechanisms: two copies never hold the same one, the   *)
(* bit of a held channel stays set, nobody else has its lock.              *)
ChannelsExclusive ==
  \A t \in Threads : \A x \in Own(t) :
    /\ x[2] \in used[x[1]]
    /\ lock[x] \in {t, Nothing}
    /\ \A u \in Threads \ {t} : x \notin Own(u)

WithKbuf(p) == {c \in Ch : <<p, c>> \notin NoKbuf}

(* The counts of pool p that copies hold. *)
Taken(p) == {x \in Threads \X Ch : x[2] <= sems[x[1]][p]}

(* No count of a semaphore is lost or made up on any of the ways out of a  *)
(* copy (a try that failed, a surplus given back, a fall-back, a reset),   *)
(* and nobody holds more channels of a pool than counts.                   *)
CountsConserved ==
  \A p \in Pools :
    /\ sema[p] + Cardinality(Taken(p)) = Cardinality(WithKbuf(p))
    /\ \A t \in Threads : Len(held[t][p]) <= sems[t][p]

(* A copy that reports success has moved every chunk, although buffers are *)
(* refilled while their neighbours are in transfer, another copy uses the  *)
(* same channels before and after, and a reset may cut in anywhere.        *)
CopyOkMeansCopied ==
  \A t \in Threads :
    pc[t] = "ret" /\ res[t] = "ok" => \A c \in 1 .. job[t].n : dst[t][c] = <<t, c>>

(* Outside a reset no engine works for nobody: whatever error ends a copy, *)
(* it has waited for what it started, so that nothing is written to a      *)
(* buffer of the next copy or to a page that is no longer mapped.          *)
NoStrayTransfer ==
  ~inReset => \A x \in Channels : engine[x] = "busy" =>
    \E f \in Waiting(x) : BufOf(f[1], f[2]) = Nothing => f[2] \in mapped[f[1]]

(* A copy comes back, with success or an error, whatever it waits for.     *)
CopyReturns == \A t \in Threads : pc[t] = "down" ~> pc[t] = "idle"
=============================================================================
