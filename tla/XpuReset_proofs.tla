--------------------------- MODULE XpuReset_proofs ---------------------------
(***************************************************************************)
(* Safety of the soft reset for every number of sessions, queues and       *)
(* hardware slots: whatever the launch path does meanwhile, the hardware   *)
(* is quiet after its reset, counts and lists agree when the device comes  *)
(* back, no session loses a task without an error, and nothing a queued    *)
(* task points to is freed.                                                *)
(*                                                                         *)
(* A reset breaks what the launch path relies on and must put it back.     *)
(* RInv says which part holds in which step of the reset thread: the       *)
(* counts of a queue until its cleaning, from then on that nobody has its  *)
(* lock (so that no dispatcher is about to write), and from the two        *)
(* handshakes with the handler on that it is idle.                         *)
(***************************************************************************)
EXTENDS XpuReset, XpuTqTasks_proofs

(* Queue q has not been cleaned. *)
Before(q) == ~inReset \/ resetPc = "prepare" \/ (resetPc = "clean" /\ q >= resetQ)

LaunchPart ==
  /\ \A q \in Queues : IF Before(q) THEN InBounds(q) ELSE tqLock[q] = Nobody
  /\ ~inReset => HardwareCount /\ Mirror

ResetPcs == {"idle", "prepare", "clean", "sessions", "wait_disable", "wait_reset", "failed",
             "reinit", "restart", "release"}

RstTypes ==
  /\ devState \in {"RUNNING", "PRERESET", "POSTRESET"}
  /\ resetPc \in ResetPcs
  /\ resetQ \in Queues
  /\ resetIrq \in {"none", "prepare", "finish"}
  /\ resets \in Nat

HwEmpty   == \A q \in Queues : hwFifo[q] = <<>> /\ intrCnt[q] = 0
Zeroed(q) == cntRunning[q] = 0 /\ lastRunning[q] = 0
NotAsked  == ~fwAsked /\ resetIrq = "none"

(* The first handshake: the handler switches its interrupt off. *)
Disabling ==
  /\ devState = "PRERESET" /\ ~fwAsked
  /\ \/ resetIrq = "prepare" /\ ~disableDone
     \/ resetIrq = "none" /\ disableDone /\ IsrIdle

(* The second: the firmware resets the hardware and reports. *)
Resetting ==
  /\ IsrIdle
  /\ \/ devState = "PRERESET" /\ fwAsked /\ resetIrq = "none" /\ ~resetDone
     \/ devState = "PRERESET" /\ ~fwAsked /\ resetIrq = "finish" /\ ~resetDone /\ HwEmpty
     \/ devState = "POSTRESET" /\ ~fwAsked /\ resetIrq = "none" /\ resetDone /\ HwEmpty

(* What holds at each step of the reset thread. *)
Phase ==
  /\ inReset <=> resetPc # "idle"
  /\ resets = 0 => ~inReset
  /\ resetPc \in {"idle", "prepare"} => devState = "RUNNING" /\ NotAsked
  /\ resetPc \in {"clean", "sessions"} => devState = "PRERESET" /\ NotAsked
  /\ resetPc = "wait_disable" => Disabling
  /\ resetPc = "wait_reset" => Resetting
  /\ resetPc = "failed" => Disabling \/ Resetting
  /\ resetPc \in {"reinit", "restart"} => devState = "POSTRESET" /\ NotAsked /\ IsrIdle /\ HwEmpty
  /\ resetPc = "release" => devState = "RUNNING" /\ NotAsked /\ pc[ISR] # "finish" /\ HwEmpty
  /\ \A q \in Queues :
       (resetPc = "reinit" /\ q < resetQ) \/ resetPc \in {"restart", "release"} => Zeroed(q)

(* A session that knows of an error, or that nobody waits for. *)
Excused(s) == sErr[s] \/ sState[s] \in {"CLOSED", "DETACHED", "FREED"}

(* The sessions have been told of the reset. *)
After ==
  resetPc \in {"wait_disable", "wait_reset", "failed", "reinit", "restart", "release"}

Told ==
  \A s \in Sess :
    /\ sState[s] \in {"ERROR", "LOST"} => sErr[s]
    /\ sState[s] = "NONE" => launched[s] = 0
    /\ After => sState[s] # "NORMAL"

(* The queued tasks of s that the hardware has not completed, and the      *)
(* tasks that are neither completed nor queued.                            *)
Behind(s) == QueuedFrom(s, Done(TqOf(s)) + 1)
Debt(s)   == launched[s] - completed[s] - Behind(s)

Debts ==
  \A s \in Sess :
    /\ resets = 0 => Debt(s) = 0
    /\ ~inReset /\ ~Excused(s) => Debt(s) <= 0
    /\ resetPc = "prepare" /\ ~Excused(s) => launched[s] - completed[s] <= QueuedFor(TqOf(s), s)

(* A wait that has succeeded. *)
Waits ==
  \A s \in Sess :
    /\ pc[Thread(s)] \in {"add", "addprof"} => waitRet[s] = "none"
    /\ resets = 0 /\ waitRet[s] = "ok" => completed[s] = launched[s]

(* The inductive invariant. *)
RInv == TypeOK /\ RstTypes /\ LaunchPart /\ TaskInv /\ Phase /\ Told /\ Debts /\ Waits

-----------------------------------------------------------------------------
(* What the launch path's lemmas ask for. *)
LEMMA LaunchPartGives ==
  ASSUME TypeOK, LaunchPart
  PROVE  /\ LockedInBounds
         /\ inReset \/ Running
         /\ ~inReset => Running /\ Mirror
<1>1. LockedInBounds
  BY DEF LaunchPart, LockedInBounds
<1>2. ~inReset => Running /\ Mirror
  BY DEF LaunchPart, Running, Before
<1> QED
  BY <1>1, <1>2

(* A step of the launch path, the interrupt handler's entry included. *)
LaunchOrCause == Launching \/ IsrCause

LEMMA LaunchIsNext ==
  ASSUME LaunchOrCause
  PROVE  /\ [Next]_vars
         /\ UNCHANGED <<devState, resetPc, resetQ, fwAsked, resetIrq, disableDone, resetDone, resets>>
         /\ UNCHANGED isrIn \/ (isrIn' /\ (isrIn \/ devState = "RUNNING"))
         /\ UNCHANGED inReset
<1>1. CASE Launching
  <2>1. Next /\ UNCHANGED rstVars
    BY <1>1 DEF Launching, Next
  <2> QED
    BY <2>1, SameReset DEF rstVars
<1>2. CASE IsrCause
  <2>1. Next
    BY <1>2 DEF IsrCause, Next
  <2> QED
    BY <1>2, <2>1, SameReset DEF IsrCause
<1> QED
  BY <1>1, <1>2 DEF LaunchOrCause

(* In a reset nobody takes a queue's lock, a queue that nobody has locked  *)
(* keeps its counts, and hardware that is empty stays empty.               *)
LEMMA LockStays ==
  ASSUME TypeOK, inReset, [Next]_vars, NEW q \in Queues, tqLock[q] = Nobody
  PROVE  tqLock'[q] = Nobody
<1> USE DEF tqVars
<1>0. tqLock \in [Queues -> Ctx \cup {Nobody}]
  BY DEF TypeOK, TqTypes
<1>1. ASSUME NEW s \in Sess, UserCall(s) \/ LaunchStep(s) \/ WaitStep(s) PROVE UNCHANGED tqLock
  <2>1. CASE UserCall(s)
    BY <2>1 DEF UserCall, Open, Close, IoctlLaunch, IoctlBatchLaunch, IoctlProfLaunch, LaunchEnter,
                IoctlWait
  <2>2. CASE LaunchStep(s)
    BY <2>2 DEF LaunchStep, LaunchAdd, LaunchCount, LaunchKick
  <2>3. CASE WaitStep(s)
    BY <2>3 DEF WaitStep, WaitReturn, WaitTimeout, WaitHangup
  <2> QED
    BY <1>1, <2>1, <2>2, <2>3
<1>2. ASSUME NEW d \in Ctx, DispatchCapacity(d) \/ DispatchReload(d) \/ DispatchCompare(d) PROVE UNCHANGED tqLock
  BY <1>2 DEF DispatchCapacity, DispatchReload, DispatchCompare
<1>3. ASSUME NEW d \in Ctx, DispatchLock(d) PROVE UNCHANGED tqLock
  BY <1>3 DEF DispatchLock, MayDispatch
<1>4. ASSUME NEW d \in Ctx, DispatchPush(d) PROVE tqLock'[q] = Nobody
  <2>1. tqLock' = [tqLock EXCEPT ![DispatchTq(d)] = Nobody]
    BY <1>4 DEF DispatchPush
  <2> QED
    BY <1>0, <2>1
<1>5. ASSUME NEW r \in Queues, TaskletRun(r) \/ HwComplete(r) \/ IsrReadCount(r) PROVE UNCHANGED tqLock
  BY <1>5 DEF TaskletRun, HwComplete, IsrReadCount
<1>6. CASE Reaper \/ DeviceError \/ IsrPause \/ IsrResume \/ IsrException \/ IsrStep
  BY <1>6 DEF Reaper, ReapDetach, ReapFree, DeviceError, IsrPause, IsrResume, IsrException, IsrStep,
              IsrFinish, IsrAfter, IsrDrain, IsrPaused, IsrHang
<1>7. CASE UNCHANGED vars
  BY <1>7 DEF vars
<1> QED
  BY <1>1, <1>2, <1>3, <1>4, <1>5, <1>6, <1>7 DEF Next, Dispatch, Interrupt

LEMMA QuietStep ==
  ASSUME TypeOK, LockedInBounds, inReset, [Next]_vars, NEW q \in Queues, tqLock[q] = Nobody
  PROVE  /\ cntRunning'[q] = cntRunning[q] /\ lastRunning'[q] = lastRunning[q]
         /\ hwFifo[q] = <<>> => hwFifo'[q] = <<>>
         /\ hwFifo[q] = <<>> /\ intrCnt[q] = 0 => intrCnt'[q] = 0
<1>0. hwFifo \in [Queues -> Seq(Sess)] /\ intrCnt \in [Queues -> Nat]
  BY DEF TypeOK, HwTypes
<1>1. CASE Still
  BY <1>1 DEF Still, hwVars
<1>2. ASSUME NEW s \in Sess, LaunchAdd(s)
      PROVE  UNCHANGED <<cntRunning, lastRunning, hwFifo, intrCnt>>
  BY <1>2 DEF LaunchAdd, hwVars
<1>3. ASSUME NEW d \in Ctx, DispatchPush(d)
      PROVE  cntRunning'[q] = cntRunning[q] /\ lastRunning'[q] = lastRunning[q]
             /\ hwFifo'[q] = hwFifo[q] /\ intrCnt'[q] = intrCnt[q]
  <2>1. PICK r : r = DispatchTq(d)
    OBVIOUS
  <2>2. q # r
    BY <1>3, <2>1, Contexts DEF DispatchPush
  <2> QED
    BY <1>3, <2>1, <2>2, PushMoves
<1>4. ASSUME NEW r \in Queues, HwComplete(r) PROVE
        /\ UNCHANGED <<cntRunning, lastRunning>>
        /\ hwFifo[q] = <<>> => hwFifo'[q] = <<>> /\ intrCnt'[q] = intrCnt[q]
  BY <1>0, <1>4 DEF HwComplete, tqVars
<1>5. ASSUME NEW r \in Queues, IsrReadCount(r) PROVE
        /\ UNCHANGED <<cntRunning, lastRunning, hwFifo>>
        /\ intrCnt[q] = 0 => intrCnt'[q] = 0
  BY <1>0, <1>5 DEF IsrReadCount, tqVars
<1>6. CASE IsrFinish
  BY <1>6 DEF IsrFinish, hwVars
<1> QED
  BY <1>1, <1>2, <1>3, <1>4, <1>5, <1>6, StillOrNot

(* The handler stays idle unless it is interrupted. *)
LEMMA IsrStaysIdle ==
  ASSUME TypeOK, pc[ISR] = "idle", Launching
  PROVE  pc'[ISR] = "idle"
<1> USE DEF ctlVars
<1>0. pc \in [Ctx -> Labels] /\ \A s \in Sess : Thread(s) \in Ctx /\ Thread(s) # ISR
  BY Contexts DEF TypeOK, CtlTypes
<1>1. ASSUME NEW d, d # ISR, NEW l, Goto(d, l) PROVE pc'[ISR] = "idle"
  BY <1>0, <1>1, Contexts DEF Goto
<1>2. CASE UNCHANGED pc
  BY <1>2
<1>3. ASSUME NEW s \in Sess, UserCall(s) PROVE pc'[ISR] = "idle"
  <2>1. CASE Open(s) \/ Close(s)
    BY <1>2, <2>1 DEF Open, Close
  <2>2. ASSUME NEW n, NEW l, LaunchEnter(s, n, l) PROVE pc'[ISR] = "idle"
    BY <1>0, <1>1, <2>2 DEF LaunchEnter
  <2>3. CASE IoctlWait(s)
    BY <1>0, <1>1, <2>3 DEF IoctlWait
  <2> QED
    BY <1>3, <2>1, <2>2, <2>3 DEF UserCall, IoctlLaunch, IoctlProfLaunch, IoctlBatchLaunch
<1>4. ASSUME NEW s \in Sess, LaunchStep(s) PROVE pc'[ISR] = "idle"
  <2>1. \E l : Goto(Thread(s), l)
    BY <1>4 DEF LaunchStep, LaunchAdd, LaunchCount, LaunchKick
  <2> QED
    BY <1>0, <1>1, <2>1
<1>5. ASSUME NEW s \in Sess, WaitStep(s) PROVE pc'[ISR] = "idle"
  <2>1. \E l : Goto(Thread(s), l)
    BY <1>5 DEF WaitStep, WaitReturn, WaitTimeout, WaitHangup
  <2> QED
    BY <1>0, <1>1, <2>1
<1>6. ASSUME NEW q \in Queues, TaskletRun(q) \/ HwComplete(q) PROVE pc'[ISR] = "idle"
  <2>1. Tasklet(q) # ISR
    BY Contexts
  <2> QED
    BY <1>1, <1>2, <1>6, <2>1 DEF TaskletRun, HwComplete
<1>7. ASSUME NEW d \in Ctx, Dispatch(d) PROVE pc'[ISR] = "idle"
  <2>1. d # ISR /\ \E l : Goto(d, l)
    BY <1>7 DEF Dispatch, DispatchCapacity, DispatchReload, DispatchCompare, DispatchLock, DispatchPush
  <2> QED
    BY <1>1, <2>1
<1>8. CASE Reaper \/ DeviceError
  BY <1>2, <1>8 DEF Reaper, ReapDetach, ReapFree, DeviceError
<1>9. CASE IsrStep
  BY <1>9 DEF IsrStep, IsrFinish, IsrAfter, IsrDrain, IsrPaused, IsrHang
<1> QED
  BY <1>3, <1>4, <1>5, <1>6, <1>7, <1>8, <1>9 DEF Launching

(* With empty hardware it has no count to read. *)
LEMMA NothingToRead ==
  ASSUME TypeOK, LockedInBounds, HwEmpty, [Next]_vars, pc[ISR] # "finish"
  PROVE  pc'[ISR] # "finish"
<1>1. CASE Still
  BY <1>1 DEF Still
<1>2. ASSUME NEW s \in Sess, LaunchAdd(s) PROVE pc'[ISR] # "finish"
  BY <1>2, LaunchAppends
<1>3. ASSUME NEW d \in Ctx, DispatchPush(d) PROVE pc'[ISR] # "finish"
  <2>1. PICK r : r = DispatchTq(d)
    OBVIOUS
  <2> QED
    BY <1>3, <2>1, PushMoves
<1>4. ASSUME NEW q \in Queues, HwComplete(q) \/ IsrReadCount(q) PROVE pc'[ISR] # "finish"
  BY <1>4 DEF HwComplete, IsrReadCount, HwEmpty
<1>5. CASE IsrFinish
  BY <1>5 DEF IsrFinish
<1> QED
  BY <1>1, <1>2, <1>3, <1>4, <1>5, StillOrNot

-----------------------------------------------------------------------------
(* The launch path during a reset. *)
LEMMA LaunchPartStep ==
  ASSUME TypeOK, LaunchPart, LaunchOrCause
  PROVE  LaunchPart'
<1>1. /\ LockedInBounds /\ (inReset \/ Running) /\ (~inReset => Running /\ Mirror)
      /\ [Next]_vars /\ UNCHANGED <<inReset, resetPc, resetQ>>
  BY LaunchPartGives, LaunchIsNext
<1>2. ASSUME NEW q \in Queues PROVE IF Before(q)' THEN InBounds(q)' ELSE tqLock'[q] = Nobody
  <2>1. Before(q)' <=> Before(q)
    BY <1>1 DEF Before
  <2>2. CASE Before(q)
    BY <1>1, <2>1, <2>2, BoundsStep DEF LaunchPart
  <2>3. CASE ~Before(q)
    BY <1>1, <2>1, <2>3, LockStays DEF LaunchPart, Before
  <2> QED
    BY <2>2, <2>3
<1>3. ~inReset' => HardwareCount' /\ Mirror'
  BY <1>1, HardwareStep, MirrorStep
<1> QED
  BY <1>2, <1>3 DEF LaunchPart

LEMMA PhaseStep ==
  ASSUME TypeOK, LaunchPart, Phase, RstTypes, LaunchOrCause
  PROVE  Phase' /\ RstTypes'
<1>1. /\ LockedInBounds /\ [Next]_vars
      /\ UNCHANGED <<devState, resetPc, resetQ, fwAsked, resetIrq, disableDone, resetDone, resets>>
      /\ UNCHANGED isrIn \/ (isrIn' /\ (isrIn \/ devState = "RUNNING"))
      /\ UNCHANGED inReset
  BY LaunchPartGives, LaunchIsNext
<1>2. RstTypes'
  BY <1>1 DEF RstTypes
<1>3. ASSUME IsrIdle, devState # "RUNNING" PROVE IsrIdle'
  <2>1. CASE Launching
    BY <1>3, <2>1, IsrStaysIdle DEF IsrIdle, Launching, rstVars
  <2>2. CASE IsrCause
    BY <1>3, <2>2 DEF IsrCause, IsrIdle
  <2> QED
    BY <2>1, <2>2 DEF LaunchOrCause
<1>4. ASSUME inReset, NEW q \in Queues, ~Before(q)
      PROVE  /\ Zeroed(q) => Zeroed(q)'
             /\ hwFifo[q] = <<>> /\ intrCnt[q] = 0 => hwFifo'[q] = <<>> /\ intrCnt'[q] = 0
  <2>1. tqLock[q] = Nobody
    BY <1>4 DEF LaunchPart
  <2> QED
    BY <1>1, <1>4, <2>1, QuietStep DEF Zeroed
<1>5. ASSUME inReset, resetPc \notin {"prepare", "clean"}, HwEmpty PROVE HwEmpty'
  BY <1>4, <1>5 DEF HwEmpty, Before
<1>6. Disabling => Disabling'
  BY <1>1, <1>3 DEF Disabling
<1>7. inReset /\ resetPc \notin {"prepare", "clean"} /\ Resetting => Resetting'
  BY <1>1, <1>3, <1>5 DEF Resetting
<1>8. resetPc = "release" /\ inReset => (HwEmpty /\ pc[ISR] # "finish" => HwEmpty' /\ pc'[ISR] # "finish")
  BY <1>1, <1>5, NothingToRead
<1>9. \A q \in Queues :
        (resetPc' = "reinit" /\ q < resetQ') \/ resetPc' \in {"restart", "release"} => Zeroed(q)'
  BY <1>1, <1>4 DEF Phase, Before
<1>10. resetPc \in {"reinit", "restart"} =>
         devState' = "POSTRESET" /\ NotAsked' /\ IsrIdle' /\ HwEmpty'
  BY <1>1, <1>3, <1>5 DEF Phase, NotAsked
<1>11. Phase'
  <2>1. (inReset' <=> resetPc' # "idle") /\ (resets' = 0 => ~inReset')
    BY <1>1 DEF Phase
  <2>2. /\ resetPc' \in {"idle", "prepare"} => devState' = "RUNNING" /\ NotAsked'
        /\ resetPc' \in {"clean", "sessions"} => devState' = "PRERESET" /\ NotAsked'
    BY <1>1 DEF Phase, NotAsked
  <2>3. /\ resetPc' = "wait_disable" => Disabling'
        /\ resetPc' = "wait_reset" => Resetting'
        /\ resetPc' = "failed" => Disabling' \/ Resetting'
    BY <1>1, <1>6, <1>7 DEF Phase
  <2>4. resetPc' = "release" => devState' = "RUNNING" /\ NotAsked' /\ pc'[ISR] # "finish" /\ HwEmpty'
    BY <1>1, <1>8 DEF Phase, NotAsked
  <2> QED
    BY <1>1, <1>9, <1>10, <2>1, <2>2, <2>3, <2>4 DEF Phase
<1> QED
  BY <1>2, <1>11

-----------------------------------------------------------------------------
(* What a step does to one session. *)
LEMMA SessStep ==
  ASSUME TypeOK, [Next]_vars, NEW s \in Sess
  PROVE  \/ sState'[s] = sState[s] /\ sErr'[s] = sErr[s]
         \/ sErr'[s] /\ (sState'[s] = sState[s] \/ sState'[s] \in {"ERROR", "LOST"})
         \/ /\ sErr'[s] = sErr[s]
            /\ \/ ~inReset /\ sState[s] = "NONE" /\ sState'[s] = "NORMAL"
               \/ sState'[s] \in {"CLOSED", "DETACHED", "FREED"} /\ sState[s] # "NONE"
<1> USE DEF sessVars
<1>0. sState \in [Sess -> SessStates] /\ sErr \in [Sess -> BOOLEAN]
  BY DEF TypeOK, SessTypes
<1>1. ASSUME NEW S, MarkError(S)
      PROVE  \/ sState'[s] = sState[s] /\ sErr'[s] = sErr[s]
             \/ sErr'[s] /\ (sState'[s] = sState[s] \/ sState'[s] \in {"ERROR", "LOST"})
  BY <1>0, <1>1 DEF MarkError
<1>2. ASSUME NEW t \in Sess, Open(t) \/ Close(t) \/ ReapDetach(t) \/ ReapFree(t)
      PROVE  /\ sErr'[s] = sErr[s]
             /\ \/ sState'[s] = sState[s]
                \/ ~inReset /\ sState[s] = "NONE" /\ sState'[s] = "NORMAL"
                \/ sState'[s] \in {"CLOSED", "DETACHED", "FREED"} /\ sState[s] # "NONE"
  BY <1>0, <1>2 DEF Open, Close, ReapDetach, Reapable, ReapFree
<1>3. ASSUME NEW t \in Sess, UserCall(t) \/ LaunchStep(t) PROVE (Open(t) \/ Close(t)) \/ UNCHANGED <<sState, sErr>>
  BY <1>3 DEF UserCall, IoctlLaunch, IoctlBatchLaunch, IoctlProfLaunch, LaunchEnter, IoctlWait,
              LaunchStep, LaunchAdd, LaunchCount, LaunchKick
<1>4. ASSUME NEW t \in Sess, WaitStep(t) PROVE (\E S : MarkError(S)) \/ UNCHANGED <<sState, sErr>>
  <2>1. CASE WaitHangup(t)
    BY <2>1 DEF WaitHangup
  <2>2. CASE WaitReturn(t) \/ WaitTimeout(t)
    BY <2>2 DEF WaitReturn, WaitTimeout
  <2> QED
    BY <1>4, <2>1, <2>2 DEF WaitStep
<1>5. ASSUME NEW d \in Ctx, Dispatch(d) PROVE UNCHANGED <<sState, sErr>>
  BY <1>5 DEF Dispatch, DispatchCapacity, DispatchReload, DispatchCompare, DispatchLock, DispatchPush
<1>6. ASSUME NEW q \in Queues, TaskletRun(q) \/ HwComplete(q) \/ IsrReadCount(q)
      PROVE  UNCHANGED <<sState, sErr>>
  BY <1>6 DEF TaskletRun, HwComplete, IsrReadCount
<1>7. CASE IsrHang
  BY <1>1, <1>7 DEF IsrHang
<1>8. CASE \/ DeviceError \/ IsrPause \/ IsrResume \/ IsrException
           \/ IsrFinish \/ IsrAfter \/ IsrDrain \/ IsrPaused \/ UNCHANGED vars
  <2>1. UNCHANGED <<sState, sErr>>
    BY <1>8 DEF DeviceError, IsrPause, IsrResume, IsrException, IsrFinish, IsrAfter, IsrDrain,
                IsrPaused, vars
  <2> QED
    BY <2>1
<1> QED
  BY <1>1, <1>2, <1>3, <1>4, <1>5, <1>6, <1>7, <1>8 DEF Next, Reaper, Interrupt, IsrStep

(* Excuses are for good. *)
LEMMA StaysExcused ==
  ASSUME TypeOK, [Next]_vars, NEW s \in Sess, Excused(s)
  PROVE  Excused(s)'
<1>1. sState[s] # "NONE" \/ sErr[s]
  BY DEF Excused
<1> QED
  BY <1>1, SessStep DEF Excused

(* A task is launched by a session that is open. *)
LEMMA LaunchesOpen ==
  ASSUME TypeOK, TaskInv, [Next]_vars, NEW s \in Sess, launched'[s] # launched[s]
  PROVE  sState'[s] = sState[s] /\ sState[s] \in {"NORMAL", "ERROR"}
<1>1. CASE Still
  BY <1>1 DEF Still
<1>2. ASSUME NEW t \in Sess, LaunchAdd(t)
      PROVE  sState'[s] = sState[s] /\ sState[s] \in {"NORMAL", "ERROR"}
  <2>1. s = t /\ UNCHANGED sState /\ pc[Thread(t)] # "idle"
    <3>1. launched \in [Sess -> Nat]
      BY DEF TypeOK, SessTypes
    <3> QED
      BY <1>2, <3>1 DEF LaunchAdd
  <2> QED
    BY <2>1 DEF TaskInv, BusyIsOpen
<1>3. CASE (\E d \in Ctx : DispatchPush(d)) \/ (\E q \in Queues : HwComplete(q) \/ IsrReadCount(q)) \/ IsrFinish
  BY <1>3 DEF DispatchPush, HwComplete, IsrReadCount, IsrFinish, sessVars
<1> QED
  BY <1>1, <1>2, <1>3, StillOrNot

LEMMA ToldStep ==
  ASSUME TypeOK, TaskInv, Phase, Told, LaunchOrCause
  PROVE  Told'
<1>1. [Next]_vars /\ UNCHANGED resetPc
  BY LaunchIsNext
<1> SUFFICES ASSUME NEW s \in Sess
             PROVE  /\ sState'[s] \in {"ERROR", "LOST"} => sErr'[s]
                    /\ sState'[s] = "NONE" => launched'[s] = 0
                    /\ After' => sState'[s] # "NORMAL"
  BY DEF Told
<1>2. After' <=> After
  BY <1>1 DEF After
<1>3. After => inReset
  BY DEF After, Phase
<1>4. sState'[s] = "NONE" => sState[s] = "NONE" /\ launched'[s] = launched[s]
  BY <1>1, SessStep, LaunchesOpen
<1> QED
  BY <1>1, <1>2, <1>3, <1>4, SessStep DEF Told

-----------------------------------------------------------------------------
(* Counting what is behind. *)
LEMMA BehindType ==
  ASSUME TypeOK, NEW s \in Sess
  PROVE  /\ Behind(s) \in Nat /\ QueuedFor(TqOf(s), s) \in Nat
         /\ Behind(s) <= QueuedFor(TqOf(s), s)
         /\ Debt(s) \in Int /\ launched[s] \in Nat /\ completed[s] \in Nat
         /\ Done(TqOf(s)) \in Nat
<1>1. PICK q \in Queues : q = TqOf(s)
  BY QueueOf
<1>2. PICK lo \in Nat, len \in Nat : lo = Done(q) /\ len = Len(tasks[q])
  <2>1. tasks[q] \in Seq(Sess) /\ intrCnt[q] \in Nat /\ isrCnt \in Nat
    BY DEF TypeOK, TqTypes, HwTypes, CtlTypes
  <2>2. Done(q) \in Nat /\ Len(tasks[q]) \in Nat
    BY <2>1, LenProperties DEF Done, HeldByIsr
  <2> QED
    BY <2>2
<1>3. PICK A, B : A = TasksOf(q, s, lo + 1, len) /\ B = TasksOf(q, s, 1, len)
  OBVIOUS
<1>4. IsFiniteSet(B) /\ Cardinality(B) \in Nat /\ A \in SUBSET B
  <2>1. 1 \in Int /\ len \in Int
    OBVIOUS
  <2>2. IsFiniteSet(B) /\ Cardinality(B) \in Nat
    BY <1>3, <2>1, TasksOfFinite
  <2> QED
    BY <1>3, <2>2 DEF TasksOf
<1>5. Cardinality(A) \in Nat /\ Cardinality(A) <= Cardinality(B)
  BY <1>4, FS_Subset, FS_CardinalityType
<1>6. Behind(s) = Cardinality(A) /\ QueuedFor(TqOf(s), s) = Cardinality(B)
  BY <1>1, <1>2, <1>3 DEF Behind, QueuedFrom, QueuedFor
<1>7. launched[s] \in Nat /\ completed[s] \in Nat
  BY DEF TypeOK, SessTypes, HwTypes
<1> QED
  BY <1>1, <1>2, <1>4, <1>5, <1>6, <1>7 DEF Debt

(* What is behind after a step is a number as well. *)
LEMMA BehindPrimed ==
  ASSUME TypeOK', NEW s \in Sess
  PROVE  Behind(s)' \in Nat /\ QueuedFor(TqOf(s), s)' \in Nat
<1>1. ASSUME NEW lo \in Int PROVE Cardinality(TasksOf(TqOf(s), s, lo, Len(tasks[TqOf(s)])))' \in Nat
  <2>1. PICK len \in Nat : len = Len(tasks'[TqOf(s)])
    BY QueueOf, LenProperties DEF TypeOK, TqTypes
  <2>2. {i \in lo .. len : tasks'[TqOf(s)][i] = s} \in SUBSET (lo .. len)
    OBVIOUS
  <2>3. IsFiniteSet(lo .. len)
    BY FS_Interval
  <2>4. Cardinality({i \in lo .. len : tasks'[TqOf(s)][i] = s}) \in Nat
    BY <2>2, <2>3, FS_Subset, FS_CardinalityType
  <2> QED
    BY <2>1, <2>4 DEF TasksOf
<1>2. PICK lo \in Int : lo = Done(TqOf(s))' + 1
  <2>1. intrCnt'[TqOf(s)] \in Nat /\ isrCnt' \in Nat
    BY QueueOf DEF TypeOK, HwTypes, CtlTypes
  <2>2. Done(TqOf(s))' \in Nat
    BY <2>1 DEF Done, HeldByIsr
  <2> QED
    BY <2>2
<1>3. Behind(s)' = Cardinality(TasksOf(TqOf(s), s, lo, Len(tasks[TqOf(s)])))'
  BY <1>2 DEF Behind, QueuedFrom
<1>4. QueuedFor(TqOf(s), s)' = Cardinality(TasksOf(TqOf(s), s, 1, Len(tasks[TqOf(s)])))'
  BY DEF QueuedFor
<1> QED
  BY <1>1, <1>3, <1>4

LEMMA DropFirst ==
  ASSUME NEW q, NEW s, NEW lo \in Int, NEW hi \in Int, lo <= hi
  PROVE  Cardinality(TasksOf(q, s, lo, hi)) =
           Cardinality(TasksOf(q, s, lo + 1, hi)) + (IF tasks[q][lo] = s THEN 1 ELSE 0)
<1>1. PICK A : A = TasksOf(q, s, lo + 1, hi)
  OBVIOUS
<1>2. lo + 1 \in Int
  OBVIOUS
<1>3. IsFiniteSet(A) /\ Cardinality(A) \in Nat /\ lo \notin A
  <2>1. IsFiniteSet(A) /\ Cardinality(A) \in Nat
    BY <1>1, <1>2, TasksOfFinite
  <2> QED
    BY <1>1, <2>1 DEF TasksOf
<1>4. CASE tasks[q][lo] = s
  <2>1. TasksOf(q, s, lo, hi) = A \cup {lo}
    BY <1>1, <1>4 DEF TasksOf
  <2>2. Cardinality(A \cup {lo}) = Cardinality(A) + 1
    BY <1>3, FS_AddElement
  <2> QED
    BY <1>1, <1>4, <2>1, <2>2
<1>5. CASE tasks[q][lo] # s
  <2>1. TasksOf(q, s, lo, hi) = A
    BY <1>1, <1>5 DEF TasksOf
  <2> QED
    BY <1>1, <1>3, <1>5, <2>1
<1> QED
  BY <1>4, <1>5

(* Steps that leave a session's tasks and what is done of its queue alone. *)
LEMMA DebtFrame ==
  ASSUME NEW s \in Sess, tasks'[TqOf(s)] = tasks[TqOf(s)], Done(TqOf(s))' = Done(TqOf(s)),
         launched'[s] = launched[s], completed'[s] = completed[s]
  PROVE  Debt(s)' = Debt(s)
<1>1. Behind(s)' = Behind(s)
  BY DEF Behind, QueuedFrom, TasksOf
<1> QED
  BY <1>1 DEF Debt

(* A completion takes one off what is behind of the session at the head.   *)
LEMMA DebtComplete ==
  ASSUME Running, Mirror, TaskInv, NEW r \in Queues, HwComplete(r), NEW s \in Sess
  PROVE  Debt(s)' = Debt(s)
<1>1. /\ hwFifo \in [Queues -> Seq(Sess)] /\ intrCnt \in [Queues -> Nat] /\ completed \in [Sess -> Nat]
      /\ TypeOK /\ TqOf(s) \in Queues
  BY QueueOf DEF Running, TypeOK, HwTypes
<1>2. PICK head \in Sess : head = Head(hwFifo[r]) /\ head = hwFifo[r][1] /\ 1 \in 1 .. Len(hwFifo[r])
  BY <1>1, HeadTailProperties DEF HwComplete
<1>3. /\ completed' = [completed EXCEPT ![head] = @ + 1]
      /\ intrCnt' = [intrCnt EXCEPT ![r] = @ + 1]
      /\ UNCHANGED <<tasks, launched, pc, isrQ, isrCnt>>
  BY <1>2 DEF HwComplete, tqVars, sessVars, ctlVars
<1>4. PICK done \in Nat, len \in Nat :
        done = Done(r) /\ len = Len(tasks[r]) /\ done + 1 <= len
  <2>1. /\ Done(r) \in Nat /\ Len(hwFifo[r]) \in Nat /\ Len(tasks[r]) \in Nat
        /\ Done(r) + Len(hwFifo[r]) <= Len(tasks[r])
    BY DoneBounds
  <2> QED
    BY <1>2, <2>1
<1>5. head = tasks[r][done + 1]
  BY <1>2, <1>4 DEF Mirror
<1>6. Done(r)' = done + 1 /\ \A q \in Queues : q # r => Done(q)' = Done(q)
  <2>1. \A q \in Queues : HeldByIsr(q)' = HeldByIsr(q)
    BY <1>3 DEF HeldByIsr
  <2>2. HeldByIsr(r) \in Nat
    BY <1>1 DEF HeldByIsr, TypeOK, CtlTypes
  <2> QED
    BY <1>1, <1>3, <1>4, <2>1, <2>2 DEF Done
<1>7. TqOf(head) = r
  BY <1>4, <1>5 DEF TaskInv, OnItsQueue
<1>8. CASE TqOf(s) # r
  <2>1. s # head
    BY <1>7, <1>8
  <2> QED
    BY <1>1, <1>3, <1>6, <1>8, <2>1, DebtFrame
<1>9. CASE TqOf(s) = r
  <2>1. PICK k : k = IF tasks[r][done + 1] = s THEN 1 ELSE 0
    OBVIOUS
  <2>2. Cardinality(TasksOf(r, s, done + 1, len)) = Cardinality(TasksOf(r, s, (done + 1) + 1, len)) + k
    BY <1>4, <2>1, DropFirst
  <2>3. Behind(s) = Cardinality(TasksOf(r, s, done + 1, len))
    BY <1>4, <1>9 DEF Behind, QueuedFrom
  <2>4. Behind(s)' = Cardinality(TasksOf(r, s, (done + 1) + 1, len))
    BY <1>3, <1>4, <1>6, <1>9 DEF Behind, QueuedFrom, TasksOf
  <2>5. completed'[s] = completed[s] + k
    BY <1>1, <1>3, <1>5, <2>1
  <2>6. Behind(s) \in Nat /\ launched[s] \in Nat /\ completed[s] \in Nat /\ k \in Nat
    BY <1>1, <2>1, BehindType
  <2>7. Cardinality(TasksOf(r, s, (done + 1) + 1, len)) \in Nat
    BY <1>4, TasksOfFinite
  <2> QED
    BY <1>3, <2>2, <2>3, <2>4, <2>5, <2>6, <2>7 DEF Debt
<1> QED
  BY <1>8, <1>9

(* A launch adds to both sides. *)
LEMMA DebtLaunch ==
  ASSUME Running, NEW t \in Sess, LaunchAdd(t), NEW s \in Sess
  PROVE  Debt(s)' = Debt(s)
<1>1. TypeOK /\ pc \in [Ctx -> Labels] /\ launched \in [Sess -> Nat] /\ TqOf(s) \in Queues
  BY QueueOf DEF Running, TypeOK, CtlTypes, SessTypes
<1>2. \A q \in Queues : Done(q)' = Done(q)
  BY <1>1, LaunchAppends DEF Done, HeldByIsr
<1>3. UNCHANGED completed
  BY DEF LaunchAdd, hwVars
<1>4. CASE UNCHANGED <<tasks, launched>>
  BY <1>1, <1>2, <1>3, <1>4, DebtFrame
<1>5. CASE launched' = [launched EXCEPT ![t] = @ + batch[t]] /\ Goto(Thread(t), "count")
  <2>1. pc'[Thread(t)] = "count" /\ ~Goto(Thread(t), "idle")
    BY <1>1, <1>5, ThreadGoes
  <2>2. /\ UNCHANGED batch /\ batch[t] \in Nat
        /\ Len(tasks'[TqOf(t)]) = Len(tasks[TqOf(t)]) + batch[t]
        /\ \A i \in 1 .. Len(tasks[TqOf(t)]) : tasks'[TqOf(t)][i] = tasks[TqOf(t)][i]
        /\ \A i \in 1 .. Len(tasks'[TqOf(t)]) : i > Len(tasks[TqOf(t)]) => tasks'[TqOf(t)][i] = t
    BY <1>1, <2>1, LaunchAppends
  <2>3. PICK lo \in Nat \ {0} : lo = Done(TqOf(s)) + 1 /\ lo <= Len(tasks[TqOf(s)]) + 1
    <3>1. /\ Done(TqOf(s)) \in Nat /\ Len(hwFifo[TqOf(s)]) \in Nat /\ Len(tasks[TqOf(s)]) \in Nat
          /\ Done(TqOf(s)) + Len(hwFifo[TqOf(s)]) <= Len(tasks[TqOf(s)])
      BY <1>1, DoneBounds
    <3> QED
      BY <3>1
  <2>4. PICK k : k = IF s = t THEN batch[t] ELSE 0
    OBVIOUS
  <2>5. QueuedFrom(s, lo)' = QueuedFrom(s, lo) + k
    BY <1>1, <2>2, <2>3, <2>4, LaunchCounts
  <2>6. Behind(s)' = QueuedFrom(s, lo)' /\ Behind(s) = QueuedFrom(s, lo)
    BY <1>1, <1>2, <2>3 DEF Behind, QueuedFrom
  <2>7. launched'[s] = launched[s] + k /\ k \in Nat
    BY <1>1, <1>5, <2>2, <2>4
  <2>8. Behind(s) \in Nat /\ launched[s] \in Nat /\ completed[s] \in Nat
    BY <1>1, BehindType
  <2> QED
    BY <1>3, <2>5, <2>6, <2>7, <2>8 DEF Debt
<1> QED
  BY <1>4, <1>5 DEF LaunchAdd

(* What the handler takes off had been completed. *)
LEMMA DebtFinish ==
  ASSUME Running, IsrFinish, NEW s \in Sess
  PROVE  Debt(s)' = Debt(s)
<1>1. TqOf(s) \in Queues /\ intrCnt \in [Queues -> Nat] /\ UNCHANGED <<launched, completed>>
  BY QueueOf DEF Running, TypeOK, HwTypes, IsrFinish, hwVars
<1>2. CASE TqOf(s) # isrQ
  <2>1. tasks'[TqOf(s)] = tasks[TqOf(s)] /\ Done(TqOf(s))' = Done(TqOf(s))
    BY <1>1, <1>2, FinishDrops DEF Done
  <2> QED
    BY <1>1, <2>1, DebtFrame
<1>3. CASE TqOf(s) = isrQ
  <2>1. PICK n \in Nat, lo \in Nat \ {0} : n = isrCnt /\ lo = intrCnt[TqOf(s)] + 1
    BY <1>1, FinishDrops
  <2>2. Done(TqOf(s))' + 1 = lo /\ Done(TqOf(s)) + 1 = n + lo
    BY <1>1, <1>3, <2>1, FinishDrops DEF Done
  <2>3. QueuedFrom(s, lo)' = QueuedFrom(s, n + lo)
    BY <1>3, <2>1, FinishShifts
  <2>4. Behind(s)' = QueuedFrom(s, lo)'
    BY <2>2 DEF Behind, QueuedFrom
  <2>5. Behind(s) = QueuedFrom(s, n + lo)
    BY <2>2 DEF Behind
  <2> QED
    BY <1>1, <2>3, <2>4, <2>5 DEF Debt
<1> QED
  BY <1>2, <1>3

LEMMA DebtStep ==
  ASSUME Running, Mirror, TaskInv, [Next]_vars, NEW s \in Sess
  PROVE  Debt(s)' = Debt(s)
<1>1. /\ TypeOK /\ pc \in [Ctx -> Labels] /\ intrCnt \in [Queues -> Nat] /\ isrCnt \in Nat
      /\ TqOf(s) \in Queues /\ LockedInBounds
  BY QueueOf DEF Running, TypeOK, CtlTypes, HwTypes, LockedInBounds
<1>2. CASE Still
  <2>1. UNCHANGED <<tasks, launched, completed>> /\ Done(TqOf(s))' = Done(TqOf(s))
    BY <1>2 DEF Still, hwVars, Done, HeldByIsr
  <2> QED
    BY <2>1, DebtFrame
<1>3. ASSUME NEW d \in Ctx, DispatchPush(d) PROVE Debt(s)' = Debt(s)
  <2>1. PICK r : r = DispatchTq(d)
    OBVIOUS
  <2>2. /\ UNCHANGED <<tasks, intrCnt, completed, launched, isrQ, isrCnt>>
        /\ pc'[ISR] = "finish" <=> pc[ISR] = "finish"
    BY <1>1, <1>3, <2>1, PushMoves
  <2>3. Done(TqOf(s))' = Done(TqOf(s))
    BY <2>2 DEF Done, HeldByIsr
  <2> QED
    BY <2>2, <2>3, DebtFrame
<1>4. ASSUME NEW q \in Queues, IsrReadCount(q) PROVE Debt(s)' = Debt(s)
  <2>1. /\ pc[ISR] = "idle" /\ pc'[ISR] = "finish" /\ isrQ' = q /\ isrCnt' = intrCnt[q]
        /\ intrCnt' = [intrCnt EXCEPT ![q] = 0] /\ UNCHANGED <<tasks, launched, completed>>
    BY <1>1, <1>4, Contexts DEF IsrReadCount, Goto, tqVars, sessVars
  <2>2. Done(TqOf(s))' = Done(TqOf(s))
    BY <1>1, <2>1 DEF Done, HeldByIsr
  <2> QED
    BY <2>1, <2>2, DebtFrame
<1> QED
  BY <1>1, <1>2, <1>3, <1>4, DebtLaunch, DebtComplete, DebtFinish, StillOrNot

(* Before the queues are emptied a task that is not queued is completed.   *)
LEMMA OwedStep ==
  ASSUME TypeOK, inReset, [Next]_vars, NEW s \in Sess
  PROVE  launched'[s] - completed'[s] - QueuedFor(TqOf(s), s)'
           <= launched[s] - completed[s] - QueuedFor(TqOf(s), s)
<1>1. /\ pc \in [Ctx -> Labels] /\ launched \in [Sess -> Nat] /\ completed \in [Sess -> Nat]
      /\ TqOf(s) \in Queues /\ QueuedFor(TqOf(s), s) \in Nat
  BY QueueOf, BehindType DEF TypeOK, CtlTypes, SessTypes, HwTypes
<1>2. ASSUME UNCHANGED <<tasks, launched, completed>>
      PROVE  launched'[s] - completed'[s] - QueuedFor(TqOf(s), s)'
               <= launched[s] - completed[s] - QueuedFor(TqOf(s), s)
  <2>1. QueuedFor(TqOf(s), s)' = QueuedFor(TqOf(s), s)
    BY <1>2 DEF QueuedFor, TasksOf
  <2> QED
    BY <1>1, <1>2, <2>1
<1>3. CASE Still
  BY <1>2, <1>3 DEF Still, hwVars
<1>4. CASE (\E d \in Ctx : DispatchPush(d)) \/ (\E q \in Queues : IsrReadCount(q)) \/ IsrFinish
  <2>1. UNCHANGED <<tasks, launched, completed>>
    BY <1>4 DEF DispatchPush, IsrReadCount, IsrFinish, tqVars, hwVars, sessVars
  <2> QED
    BY <1>2, <2>1
<1>5. ASSUME NEW q \in Queues, HwComplete(q)
      PROVE  launched'[s] - completed'[s] - QueuedFor(TqOf(s), s)'
               <= launched[s] - completed[s] - QueuedFor(TqOf(s), s)
  <2>1. UNCHANGED <<tasks, launched>> /\ (completed'[s] = completed[s] \/ completed'[s] = completed[s] + 1)
    BY <1>1, <1>5 DEF HwComplete, tqVars, sessVars
  <2>2. QueuedFor(TqOf(s), s)' = QueuedFor(TqOf(s), s)
    BY <2>1 DEF QueuedFor, TasksOf
  <2> QED
    BY <1>1, <2>1, <2>2
<1>6. ASSUME NEW t \in Sess, LaunchAdd(t)
      PROVE  launched'[s] - completed'[s] - QueuedFor(TqOf(s), s)'
               <= launched[s] - completed[s] - QueuedFor(TqOf(s), s)
  <2>1. UNCHANGED completed
    BY <1>6 DEF LaunchAdd, hwVars
  <2>2. CASE UNCHANGED <<tasks, launched>>
    BY <1>2, <2>1, <2>2
  <2>3. CASE launched' = [launched EXCEPT ![t] = @ + batch[t]] /\ Goto(Thread(t), "count")
    <3>1. pc'[Thread(t)] = "count" /\ ~Goto(Thread(t), "idle")
      BY <1>1, <2>3, ThreadGoes
    <3>2. /\ UNCHANGED batch /\ batch[t] \in Nat
          /\ Len(tasks'[TqOf(t)]) = Len(tasks[TqOf(t)]) + batch[t]
          /\ \A i \in 1 .. Len(tasks[TqOf(t)]) : tasks'[TqOf(t)][i] = tasks[TqOf(t)][i]
          /\ \A i \in 1 .. Len(tasks'[TqOf(t)]) : i > Len(tasks[TqOf(t)]) => tasks'[TqOf(t)][i] = t
      BY <1>6, <3>1, LaunchAppends
    <3>3. 1 \in Nat \ {0} /\ 1 <= Len(tasks[TqOf(s)]) + 1
      BY <1>1, LenProperties DEF TypeOK, TqTypes
    <3>4. PICK k : k = IF s = t THEN batch[t] ELSE 0
      OBVIOUS
    <3>5. QueuedFrom(s, 1)' = QueuedFrom(s, 1) + k
      BY <1>6, <3>2, <3>3, <3>4, LaunchCounts
    <3>6. QueuedFor(TqOf(s), s)' = QueuedFrom(s, 1)' /\ QueuedFor(TqOf(s), s) = QueuedFrom(s, 1)
      BY DEF QueuedFor, QueuedFrom
    <3>7. launched'[s] = launched[s] + k /\ k \in Nat
      BY <1>1, <2>3, <3>2, <3>4
    <3> QED
      BY <1>1, <2>1, <3>5, <3>6, <3>7
  <2> QED
    BY <1>6, <2>2, <2>3 DEF LaunchAdd
<1> QED
  BY <1>3, <1>4, <1>5, <1>6, StillOrNot

LEMMA DebtsStep ==
  ASSUME TypeOK, LaunchPart, TaskInv, Phase, Debts, LaunchOrCause
  PROVE  Debts'
<1>1. /\ [Next]_vars /\ UNCHANGED <<resets, resetPc, inReset>>
      /\ ~inReset => Running /\ Mirror
  BY LaunchIsNext, LaunchPartGives
<1> SUFFICES ASSUME NEW s \in Sess
             PROVE  /\ resets' = 0 => Debt(s)' = 0
                    /\ ~inReset' /\ ~Excused(s)' => Debt(s)' <= 0
                    /\ resetPc' = "prepare" /\ ~Excused(s)' =>
                         launched'[s] - completed'[s] <= QueuedFor(TqOf(s), s)'
  BY DEF Debts
<1>2. ~Excused(s)' => ~Excused(s)
  BY <1>1, StaysExcused
<1>3. ~inReset => Debt(s)' = Debt(s)
  BY <1>1, DebtStep
<1>4. resets = 0 => Debt(s)' = 0
  BY <1>3 DEF Debts, Phase
<1>5. ~inReset /\ ~Excused(s)' => Debt(s)' <= 0
  BY <1>2, <1>3 DEF Debts
<1>6. ASSUME resetPc = "prepare", ~Excused(s)' PROVE launched'[s] - completed'[s] <= QueuedFor(TqOf(s), s)'
  <2>1. inReset
    BY <1>6 DEF Phase
  <2>2. launched[s] - completed[s] <= QueuedFor(TqOf(s), s)
    BY <1>2, <1>6 DEF Debts
  <2>3. launched'[s] - completed'[s] - QueuedFor(TqOf(s), s)'
           <= launched[s] - completed[s] - QueuedFor(TqOf(s), s)
    BY <1>1, <2>1, OwedStep
  <2>4. TypeOK'
    BY <1>1, LaunchPartGives, TypeStep
  <2>5. /\ launched[s] \in Nat /\ completed[s] \in Nat /\ QueuedFor(TqOf(s), s) \in Nat
    BY BehindType
  <2>6. launched'[s] \in Nat /\ completed'[s] \in Nat
    BY <2>4 DEF TypeOK, SessTypes, HwTypes
  <2>7. QueuedFor(TqOf(s), s)' \in Nat
    BY <2>4, BehindPrimed
  <2> QED
    BY <2>2, <2>3, <2>5, <2>6, <2>7
<1> QED
  BY <1>1, <1>4, <1>5, <1>6

-----------------------------------------------------------------------------
(* What a step tells the caller of a wait. *)
LEMMA WaitRetStep ==
  ASSUME TypeOK, [Next]_vars, NEW s \in Sess
  PROVE  \/ waitRet'[s] = "none"
         \/ waitRet'[s] = "error" /\ pc'[Thread(s)] = "idle"
         \/ WaitReturn(s)
         \/ waitRet'[s] = waitRet[s] /\ (pc'[Thread(s)] \in {"add", "addprof"} => pc'[Thread(s)] = pc[Thread(s)])
<1> USE DEF sessVars, ctlVars
<1>0. pc \in [Ctx -> Labels] /\ waitRet \in [Sess -> {"none", "ok", "error"}]
  BY DEF TypeOK, CtlTypes, SessTypes
<1> DEFINE Kept == waitRet'[s] = waitRet[s]
                   /\ (pc'[Thread(s)] \in {"add", "addprof"} => pc'[Thread(s)] = pc[Thread(s)])
<1>1. ASSUME UNCHANGED waitRet, NEW d, d = ISR \/ (\E q : d = Tasklet(q)), NEW l, Goto(d, l) PROVE Kept
  BY <1>0, <1>1, OthersGo
<1>2. ASSUME UNCHANGED <<waitRet, pc>> PROVE Kept
  BY <1>2
<1>3. ASSUME UNCHANGED waitRet, NEW t \in Sess, NEW l, l \notin {"add", "addprof"}, Goto(Thread(t), l) PROVE Kept
  BY <1>0, <1>3, ThreadGoes
<1>4. ASSUME NEW t \in Sess, NEW v, waitRet' = [waitRet EXCEPT ![t] = v], NEW l, Goto(Thread(t), l)
      PROVE  Kept \/ (s = t /\ waitRet'[s] = v /\ pc'[Thread(s)] = l)
  BY <1>0, <1>4, ThreadGoes
<1> HIDE DEF Kept
<1>5. ASSUME NEW t \in Sess, NEW n, NEW l, LaunchEnter(t, n, l) PROVE Kept \/ waitRet'[s] = "none"
  <2>1. waitRet' = [waitRet EXCEPT ![t] = "none"] /\ Goto(Thread(t), l)
    BY <1>5 DEF LaunchEnter
  <2> QED
    BY <1>4, <2>1
<1>6. ASSUME NEW t \in Sess, UserCall(t) PROVE Kept \/ waitRet'[s] = "none"
  <2>1. CASE Open(t) \/ Close(t)
    BY <1>2, <2>1 DEF Open, Close
  <2>2. CASE IoctlWait(t)
    <3>1. waitRet' = [waitRet EXCEPT ![t] = "none"] /\ Goto(Thread(t), "wait")
      BY <2>2 DEF IoctlWait
    <3> QED
      BY <1>4, <3>1
  <2> QED
    BY <1>5, <1>6, <2>1, <2>2 DEF UserCall, IoctlLaunch, IoctlProfLaunch, IoctlBatchLaunch
<1>7. ASSUME NEW t \in Sess, LaunchStep(t) PROVE Kept
  <2>1. UNCHANGED waitRet /\ \E l \in {"count", "idle", "kick", "capacity"} : Goto(Thread(t), l)
    BY <1>7 DEF LaunchStep, LaunchAdd, LaunchCount, LaunchKick
  <2> QED
    BY <1>3, <2>1
<1>8. ASSUME NEW t \in Sess, WaitStep(t)
      PROVE  Kept \/ (waitRet'[s] = "error" /\ pc'[Thread(s)] = "idle") \/ WaitReturn(s)
  <2>1. CASE WaitReturn(t)
    <3>1. waitRet' = [waitRet EXCEPT ![t] = WaitResult(t)] /\ Goto(Thread(t), "idle")
      BY <2>1 DEF WaitReturn
    <3> QED
      BY <1>4, <2>1, <3>1
  <2>2. CASE WaitTimeout(t)
    <3>1. UNCHANGED waitRet /\ Goto(Thread(t), "hangup")
      BY <2>2 DEF WaitTimeout
    <3> QED
      BY <1>3, <3>1
  <2>3. CASE WaitHangup(t)
    <3>1. waitRet' = [waitRet EXCEPT ![t] = "error"] /\ Goto(Thread(t), "idle")
      BY <2>3 DEF WaitHangup
    <3> QED
      BY <1>4, <3>1
  <2> QED
    BY <1>8, <2>1, <2>2, <2>3 DEF WaitStep
<1>9. ASSUME NEW q \in Queues, TaskletRun(q) \/ HwComplete(q) \/ IsrReadCount(q) PROVE Kept
  BY <1>1, <1>2, <1>9 DEF TaskletRun, HwComplete, IsrReadCount
<1>10. ASSUME NEW d \in Ctx, Dispatch(d) PROVE Kept
  <2>1. UNCHANGED waitRet /\ \E l \in {"idle", "reload", "compare", "lock", "push"} : Goto(d, l)
    BY <1>10 DEF Dispatch, DispatchCapacity, DispatchReload, DispatchCompare, DispatchLock, DispatchPush
  <2>2. (\E t \in Sess : d = Thread(t)) \/ (\E q : d = Tasklet(q)) \/ d = ISR
    BY DEF Ctx, Thread, Tasklet
  <2> QED
    BY <1>1, <1>3, <2>1, <2>2
<1>11. CASE Reaper \/ DeviceError \/ IsrResume \/ UNCHANGED vars
  BY <1>2, <1>11 DEF Reaper, ReapDetach, ReapFree, DeviceError, IsrResume, vars
<1>12. CASE IsrFinish \/ IsrAfter \/ IsrDrain \/ IsrPaused \/ IsrHang \/ IsrPause \/ IsrException
  <2>1. UNCHANGED waitRet /\ (UNCHANGED pc \/ \E l : Goto(ISR, l))
    BY <1>12 DEF IsrFinish, IsrAfter, IsrDrain, IsrPaused, IsrHang, IsrPause, IsrException
  <2>2. ASSUME UNCHANGED pc PROVE Kept
    BY <1>2, <2>1, <2>2
  <2>3. ASSUME NEW l, Goto(ISR, l) PROVE Kept
    BY <1>1, <2>1, <2>3
  <2> QED
    BY <2>1, <2>2, <2>3 DEF Kept
<1> QED
  BY <1>6, <1>7, <1>8, <1>9, <1>10, <1>11, <1>12 DEF Kept, Next, Interrupt, IsrStep

(* Tasks are launched by an adding thread only, and stay completed.        *)
LEMMA ProgressStep ==
  ASSUME TypeOK, [Next]_vars, NEW s \in Sess
  PROVE  /\ completed'[s] >= completed[s]
         /\ launched'[s] = launched[s] \/
              (pc[Thread(s)] \in {"add", "addprof"} /\ UNCHANGED waitRet)
<1>0. launched \in [Sess -> Nat] /\ completed \in [Sess -> Nat]
  BY DEF TypeOK, SessTypes, HwTypes
<1>1. CASE Still
  BY <1>0, <1>1 DEF Still, hwVars
<1>2. ASSUME NEW t \in Sess, LaunchAdd(t)
      PROVE  /\ completed'[s] >= completed[s]
             /\ launched'[s] = launched[s] \/
                  (pc[Thread(s)] \in {"add", "addprof"} /\ UNCHANGED waitRet)
  BY <1>0, <1>2 DEF LaunchAdd, hwVars
<1>3. ASSUME NEW q \in Queues, HwComplete(q) PROVE completed'[s] >= completed[s] /\ launched'[s] = launched[s]
  BY <1>0, <1>3 DEF HwComplete, sessVars
<1>4. CASE (\E d \in Ctx : DispatchPush(d)) \/ (\E q \in Queues : IsrReadCount(q)) \/ IsrFinish
  <2>1. UNCHANGED <<launched, completed>>
    BY <1>4 DEF DispatchPush, IsrReadCount, IsrFinish, sessVars, hwVars
  <2> QED
    BY <1>0, <2>1
<1> QED
  BY <1>1, <1>2, <1>3, <1>4, StillOrNot

LEMMA WaitsStep ==
  ASSUME TypeOK, LaunchPart, TaskInv, Phase, Debts, Waits, LaunchOrCause
  PROVE  Waits'
<1>1. [Next]_vars /\ UNCHANGED resets
  BY LaunchIsNext
<1> SUFFICES ASSUME NEW s \in Sess
             PROVE  /\ pc'[Thread(s)] \in {"add", "addprof"} => waitRet'[s] = "none"
                    /\ resets' = 0 /\ waitRet'[s] = "ok" => completed'[s] = launched'[s]
  BY DEF Waits
<1>2. TypeOK'
  BY <1>1, LaunchPartGives, TypeStep
<1>3. /\ launched[s] \in Nat /\ completed[s] \in Nat /\ launched'[s] \in Nat /\ completed'[s] \in Nat
  BY <1>2 DEF TypeOK, SessTypes, HwTypes
<1>4. WaitReturn(s) => pc'[Thread(s)] = "idle"
  BY Contexts DEF WaitReturn, Goto, TypeOK, CtlTypes
<1>5. pc'[Thread(s)] \in {"add", "addprof"} => waitRet'[s] = "none"
  BY <1>1, <1>4, WaitRetStep DEF Waits
<1>6. ASSUME resets = 0, waitRet'[s] = "ok" PROVE completed'[s] = launched'[s]
  <2>1. Debt(s) = 0
    BY <1>6 DEF Debts
  <2>2. Debt(s)' = 0
    <3>1. Debts'
      BY DebtsStep
    <3> QED
      BY <1>1, <1>6, <3>1 DEF Debts
  <2>3. CASE WaitReturn(s)
    <3>1. unfin[s] = 0 /\ pc[Thread(s)] = "wait" /\ UNCHANGED <<launched, completed>>
      BY <1>6, <2>3 DEF WaitReturn, WaitResult, hwVars, TypeOK, SessTypes
    <3>2. QueuedFor(TqOf(s), s) \in Nat /\ Behind(s) \in Nat /\ Behind(s) <= QueuedFor(TqOf(s), s)
      BY BehindType
    <3>3. QueuedFor(TqOf(s), s) = 0
      BY <3>1, <3>2 DEF TaskInv, UnfinCounts
    <3>4. Behind(s) = 0
      BY <3>2, <3>3
    <3> QED
      BY <1>3, <2>1, <3>1, <3>4 DEF Debt
  <2>4. CASE waitRet[s] = "ok" /\ waitRet'[s] = waitRet[s]
    <3>1. completed[s] = launched[s] /\ pc[Thread(s)] \notin {"add", "addprof"}
      BY <1>6, <2>4 DEF Waits
    <3>2. launched'[s] = launched[s] /\ completed'[s] >= completed[s]
      BY <1>1, <3>1, ProgressStep
    <3>3. Behind(s)' \in Nat
      BY <1>2, BehindPrimed
    <3> QED
      BY <1>3, <2>2, <3>1, <3>2, <3>3 DEF Debt
  <2> QED
    BY <1>1, <1>6, <2>3, <2>4, WaitRetStep
<1> QED
  BY <1>1, <1>5, <1>6

(* A step of the launch path keeps all of it. *)
LEMMA LaunchKeeps ==
  ASSUME RInv, LaunchOrCause
  PROVE  RInv'
<1>1. TypeOK /\ RstTypes /\ LaunchPart /\ TaskInv /\ Phase /\ Told /\ Debts /\ Waits
  BY DEF RInv
<1>2. LockedInBounds /\ (inReset \/ Running) /\ [Next]_vars
  BY <1>1, LaunchPartGives, LaunchIsNext
<1> QED
  BY <1>1, <1>2, TypeStep, LaunchPartStep, PhaseStep, TaskStep, ToldStep, DebtsStep, WaitsStep DEF RInv

-----------------------------------------------------------------------------
(* The reset's own steps.  Most of them leave sessions and lists alone.    *)
LEMMA ResetFrame ==
  ASSUME RInv, inReset, inReset', resetPc' # "prepare", UNCHANGED resets, After' => After,
         UNCHANGED <<tasks, unfin, batch, pc, waitRet, sState, sErr, launched>>
  PROVE  TaskInv' /\ Told' /\ Debts' /\ Waits'
<1>1. TypeOK /\ TaskInv /\ Told /\ Waits /\ resets # 0
  BY DEF RInv, Phase
<1>2. Calm
  BY <1>1 DEF Calm, TaskInv, BusyIsOpen
<1>3. TaskInv'
  BY <1>1, <1>2, CalmKeeps
<1>4. Told'
  BY <1>1 DEF Told
<1>5. Debts'
  BY <1>1 DEF Debts
<1>6. Waits'
  BY <1>1 DEF Waits
<1> QED
  BY <1>3, <1>4, <1>5, <1>6

LEMMA TypesFrame ==
  ASSUME TypeOK, UNCHANGED vars
  PROVE  TypeOK'
BY Frame DEF TypeOK, vars

LEMMA StartKeeps ==
  ASSUME RInv, ResetStart
  PROVE  RInv'
<1> USE DEF tqVars, hwVars, sessVars, ctlVars
<1>1. /\ TypeOK /\ RstTypes /\ LaunchPart /\ TaskInv /\ Phase /\ Told /\ Debts /\ Waits
      /\ ~inReset /\ inReset' /\ resetPc = "idle" /\ resetPc' = "prepare" /\ resets' = resets + 1
      /\ UNCHANGED <<xpdState, pendFlag, pauses, faults, tqVars, hwVars, sessVars, ctlVars>>
      /\ UNCHANGED <<devState, resetQ, fwAsked, resetIrq, isrIn, msiOn, disableDone, resetDone>>
  BY DEF RInv, ResetStart
<1>2. resets' \in Nat /\ resets' # 0
  BY <1>1 DEF RstTypes
<1>3. TypeOK'
  BY <1>1, Frame DEF TypeOK, PdTypes
<1>4. RstTypes'
  BY <1>1, <1>2 DEF RstTypes, ResetPcs
<1>5. LaunchPart'
  BY <1>1 DEF LaunchPart, Before, InBounds
<1>6. Phase'
  BY <1>1, <1>2 DEF Phase, NotAsked
<1>7. Calm
  BY <1>1 DEF Calm, TaskInv, BusyIsOpen
<1>8. TaskInv'
  BY <1>1, <1>7, CalmKeeps
<1>9. Told'
  BY <1>1 DEF Told, After
<1>10. Debts'
  <2> SUFFICES ASSUME NEW s \in Sess, ~Excused(s)
               PROVE  launched[s] - completed[s] <= QueuedFor(TqOf(s), s)
    BY <1>1, <1>2 DEF Debts, Excused, QueuedFor, TasksOf
  <2>1. Debt(s) <= 0
    BY <1>1 DEF Debts
  <2> QED
    BY <1>1, <2>1, BehindType DEF Debt
<1>11. Waits'
  BY <1>1, <1>2 DEF Waits
<1> QED
  BY <1>3, <1>4, <1>5, <1>6, <1>8, <1>9, <1>10, <1>11 DEF RInv

(* Steps that change nothing of the launch path. *)
LEMMA DriverKeeps ==
  ASSUME RInv, ResetPrepare \/ ResetFirmware \/ ResetTimeout \/ IsrPrepareReset \/ IsrResetFinish
  PROVE  RInv'
<1>1. TypeOK /\ RstTypes /\ LaunchPart /\ Phase /\ UNCHANGED vars /\ UNCHANGED resets
  BY DEF RInv, ResetPrepare, ResetFirmware, ResetTimeout, IsrPrepareReset, IsrResetFinish
<1>2. UNCHANGED <<inReset, tqLock, tasks, cntRunning, lastRunning, hwFifo, intrCnt, completed>>
      /\ UNCHANGED <<unfin, batch, pc, waitRet, sState, sErr, launched, isrQ, isrCnt>>
  BY <1>1 DEF vars, pdVars, tqVars, hwVars, sessVars, ctlVars
<1>3. TypeOK'
  BY <1>1, TypesFrame
<1>4. 0 \in Queues /\ \A q \in Queues : q >= 0
  BY ZeroQueue DEF Queues
<1>5. \A q \in Queues : InBounds(q)' <=> InBounds(q)
  BY <1>2 DEF InBounds
<1>6. HwEmpty' <=> HwEmpty
  BY <1>2 DEF HwEmpty
<1>7. \A q \in Queues : Zeroed(q)' <=> Zeroed(q)
  BY <1>2 DEF Zeroed
<1>8. CASE ResetPrepare
  <2>1. inReset /\ resetPc = "prepare" /\ resetPc' = "clean" /\ devState' = "PRERESET" /\ resetQ' = 0
        /\ UNCHANGED <<fwAsked, resetIrq>>
    BY <1>1, <1>8 DEF ResetPrepare, Phase
  <2>2. RstTypes'
    BY <1>1, <1>4, <1>8, <2>1 DEF RstTypes, ResetPcs, ResetPrepare
  <2>3. LaunchPart'
    BY <1>1, <1>2, <1>4, <1>5, <2>1 DEF LaunchPart, Before
  <2>4. Phase'
    BY <1>1, <1>2, <2>1 DEF Phase, NotAsked
  <2> QED
    BY <1>1, <1>2, <1>3, <2>1, <2>2, <2>3, <2>4, ResetFrame DEF RInv, After
<1>9. CASE ResetFirmware
  <2>1. /\ inReset /\ resetPc = "wait_disable" /\ resetPc' = "wait_reset" /\ disableDone
        /\ fwAsked' /\ ~resetDone' /\ UNCHANGED <<devState, resetQ, resetIrq, isrIn, disableDone>>
    BY <1>1, <1>9 DEF ResetFirmware, Phase
  <2>2. RstTypes'
    BY <1>1, <2>1 DEF RstTypes, ResetPcs
  <2>3. LaunchPart'
    BY <1>1, <1>2, <2>1 DEF LaunchPart, Before
  <2>4. Resetting'
    BY <1>1, <1>2, <2>1 DEF Phase, Disabling, Resetting, IsrIdle
  <2>5. Phase'
    BY <1>1, <1>2, <2>1, <2>4 DEF Phase
  <2> QED
    BY <1>1, <1>2, <1>3, <2>1, <2>2, <2>3, <2>5, ResetFrame DEF RInv, After
<1>10. CASE ResetTimeout
  <2>1. /\ inReset /\ resetPc \in {"wait_disable", "wait_reset"} /\ resetPc' = "failed"
        /\ UNCHANGED <<devState, resetQ, resetIrq, isrIn, disableDone, fwAsked, resetDone>>
    BY <1>1, <1>10 DEF ResetTimeout, Phase
  <2>2. RstTypes'
    BY <1>1, <2>1 DEF RstTypes, ResetPcs
  <2>3. LaunchPart'
    BY <1>1, <1>2, <2>1 DEF LaunchPart, Before
  <2>4. Disabling' \/ Resetting'
    BY <1>1, <1>2, <1>6, <2>1 DEF Phase, Disabling, Resetting, IsrIdle
  <2>5. Phase'
    BY <1>1, <1>2, <2>1, <2>4 DEF Phase
  <2> QED
    BY <1>1, <1>2, <1>3, <2>1, <2>2, <2>3, <2>5, ResetFrame DEF RInv, After
<1>11. CASE IsrPrepareReset
  <2>1. /\ IsrIdle /\ devState = "PRERESET" /\ resetIrq = "prepare" /\ resetIrq' = "none" /\ disableDone'
        /\ UNCHANGED <<devState, resetPc, resetQ, fwAsked, isrIn, resetDone>>
    BY <1>11 DEF IsrPrepareReset
  <2>2. inReset /\ resetPc \in {"wait_disable", "failed"} /\ Disabling
    BY <1>1, <2>1 DEF Phase, RstTypes, ResetPcs, NotAsked, Resetting
  <2>3. RstTypes'
    BY <1>1, <2>1 DEF RstTypes
  <2>4. LaunchPart'
    BY <1>1, <1>2, <2>1, <2>2 DEF LaunchPart, Before
  <2>5. Disabling'
    BY <1>2, <2>1, <2>2 DEF Disabling, IsrIdle
  <2>6. Phase'
    BY <1>1, <1>2, <2>1, <2>2, <2>5 DEF Phase
  <2> QED
    BY <1>1, <1>2, <1>3, <2>1, <2>2, <2>3, <2>4, <2>6, ResetFrame DEF RInv, After
<1>12. CASE IsrResetFinish
  <2>1. /\ devState = "PRERESET" /\ resetIrq = "finish" /\ resetIrq' = "none" /\ resetDone'
        /\ devState' = "POSTRESET"
        /\ UNCHANGED <<resetPc, resetQ, fwAsked, isrIn, disableDone>>
    BY <1>12 DEF IsrResetFinish
  <2>2. inReset /\ resetPc \in {"wait_reset", "failed"} /\ Resetting
    BY <1>1, <2>1 DEF Phase, RstTypes, ResetPcs, NotAsked, Disabling
  <2>3. RstTypes'
    BY <1>1, <2>1 DEF RstTypes
  <2>4. LaunchPart'
    BY <1>1, <1>2, <2>1, <2>2 DEF LaunchPart, Before
  <2>5. Resetting'
    BY <1>2, <1>6, <2>1, <2>2 DEF Resetting, IsrIdle
  <2>6. Phase'
    BY <1>1, <1>2, <2>1, <2>2, <2>5 DEF Phase
  <2> QED
    BY <1>1, <1>2, <1>3, <2>1, <2>2, <2>3, <2>4, <2>6, ResetFrame DEF RInv, After
<1> QED
  BY <1>8, <1>9, <1>10, <1>11, <1>12

LEMMA LeaveKeeps ==
  ASSUME RInv, IsrLeave \/ UNCHANGED resetVars
  PROVE  RInv'
<1>1. /\ TypeOK /\ RstTypes /\ LaunchPart /\ TaskInv /\ Phase /\ Told /\ Debts /\ Waits
      /\ UNCHANGED vars /\ UNCHANGED <<devState, resetPc, resetQ, fwAsked, resetIrq, disableDone, resetDone, resets>>
      /\ IsrIdle => IsrIdle'
  BY DEF RInv, IsrLeave, resetVars, rstVars, IsrIdle, vars, ctlVars
<1>2. UNCHANGED <<inReset, tqLock, tasks, cntRunning, lastRunning, hwFifo, intrCnt, completed>>
      /\ UNCHANGED <<unfin, batch, pc, waitRet, sState, sErr, launched, isrQ, isrCnt>>
  BY <1>1 DEF vars, pdVars, tqVars, hwVars, sessVars, ctlVars
<1>3. TypeOK' /\ RstTypes'
  BY <1>1, TypesFrame DEF RstTypes
<1>4. LaunchPart'
  BY <1>1, <1>2 DEF LaunchPart, Before, InBounds, HardwareCount, Mirror, Done, HeldByIsr
<1>5. HwEmpty' <=> HwEmpty
  BY <1>2 DEF HwEmpty
<1>6. Phase'
  <2>1. (Disabling => Disabling') /\ (Resetting => Resetting')
    BY <1>1, <1>5 DEF Disabling, Resetting
  <2>2. \A q \in Queues : Zeroed(q)' <=> Zeroed(q)
    BY <1>2 DEF Zeroed
  <2>3. NotAsked' <=> NotAsked
    BY <1>1 DEF NotAsked
  <2> QED
    BY <1>1, <1>2, <1>5, <2>1, <2>2, <2>3 DEF Phase
<1>7. Calm
  BY <1>1, <1>2 DEF Calm, TaskInv, BusyIsOpen
<1>8. TaskInv'
  BY <1>1, <1>7, CalmKeeps
<1>9. Told' /\ Waits'
  BY <1>1, <1>2 DEF Told, After, Waits
<1>10. Debts'
  <2>1. \A q \in Queues : Done(q)' = Done(q)
    BY <1>2 DEF Done, HeldByIsr
  <2>2. \A s \in Sess : Debt(s)' = Debt(s)
    BY <1>2, <2>1, QueueOf, DebtFrame
  <2>3. \A s \in Sess : Excused(s)' <=> Excused(s)
    BY <1>2 DEF Excused
  <2>4. \A s \in Sess : QueuedFor(TqOf(s), s)' = QueuedFor(TqOf(s), s)
    BY <1>2 DEF QueuedFor, TasksOf
  <2> QED
    BY <1>1, <1>2, <2>2, <2>3, <2>4 DEF Debts
<1> QED
  BY <1>3, <1>4, <1>6, <1>8, <1>9, <1>10 DEF RInv

-----------------------------------------------------------------------------
(* Emptying one queue under its lock.                                      *)
LEMMA CleanTypes ==
  ASSUME RInv, ResetCleanTq
  PROVE  TypeOK' /\ RstTypes'
<1>1. TypeOK /\ RstTypes /\ resetPc = "clean"
  BY DEF RInv, ResetCleanTq
<1>2. PICK q \in Queues, n \in Nat : q = resetQ /\ n = Len(tasks[q])
  <2>1. resetQ \in Queues /\ tasks[resetQ] \in Seq(Sess)
    BY <1>1 DEF RstTypes, TypeOK, TqTypes
  <2> QED
    BY <2>1, LenProperties
<1>3. /\ tasks' = [tasks EXCEPT ![q] = <<>>]
      /\ cntRunning' = [cntRunning EXCEPT ![q] = Minus(@, n)]
      /\ cntAll' = [cntAll EXCEPT ![q] = Minus(@, n)]
      /\ unfin' = [s \in Sess |-> unfin[s] - Retired(q, n, s)]
      /\ xtasks' = [s \in Sess |-> xtasks[s] - Retired(q, n, s)]
      /\ \/ q + 1 \in Queues /\ resetQ' = q + 1 /\ UNCHANGED resetPc
         \/ resetQ' = 0 /\ resetPc' = "sessions"
      /\ UNCHANGED <<pdVars, tqState, tqLock, lastRunning, hwVars, sState, sErr, launched,
                     waitRet, ctlVars, devState, resetIrq, resets>>
  BY <1>2 DEF ResetCleanTq
<1>4. TqTypes'
  <2>1. /\ tqState \in [Queues -> {"NORMAL", "HANGUP"}] /\ tqLock \in [Queues -> Ctx \cup {Nobody}]
        /\ tasks \in [Queues -> Seq(Sess)] /\ lastRunning \in [Queues -> Nat]
        /\ cntRunning \in [Queues -> Nat] /\ cntAll \in [Queues -> Nat]
    BY <1>1 DEF TypeOK, TqTypes
  <2>2. cntRunning[q] \in Int /\ cntAll[q] \in Int /\ n \in Int /\ <<>> \in Seq(Sess)
    BY <2>1
  <2>3. Minus(cntRunning[q], n) \in Nat /\ Minus(cntAll[q], n) \in Nat
    BY <2>2, U32Type
  <2> QED
    BY <1>3, <2>1, <2>2, <2>3 DEF TqTypes
<1>5. SessTypes'
  <2>1. \A s \in Sess : Retired(q, n, s) \in Nat
    BY RetiredType
  <2>2. unfin \in [Sess -> Int] /\ xtasks \in [Sess -> Int]
    BY <1>1 DEF TypeOK, SessTypes
  <2>3. unfin' \in [Sess -> Int] /\ xtasks' \in [Sess -> Int]
    BY <1>3, <2>1, <2>2
  <2> QED
    BY <1>1, <1>3, <2>3 DEF TypeOK, SessTypes
<1>6. RstTypes'
  BY <1>1, <1>3, ZeroQueue DEF RstTypes, ResetPcs
<1> QED
  BY <1>1, <1>3, <1>4, <1>5, <1>6, Frame DEF TypeOK

(* The unfinished counts lose what was queued. *)
LEMMA CleanTasks ==
  ASSUME RInv, ResetCleanTq
  PROVE  TaskInv'
<1>1. TypeOK /\ TaskInv
  BY DEF RInv
<1>2. PICK q \in Queues, n \in Nat : q = resetQ /\ n = Len(tasks[q])
  <2>1. resetQ \in Queues /\ tasks[resetQ] \in Seq(Sess)
    BY DEF RInv, RstTypes, TypeOK, TqTypes
  <2> QED
    BY <2>1, LenProperties
<1>3. /\ tasks' = [tasks EXCEPT ![q] = <<>>]
      /\ unfin' = [s \in Sess |-> unfin[s] - Retired(q, n, s)]
      /\ UNCHANGED <<sState, pc, batch>>
  BY <1>2 DEF ResetCleanTq, ctlVars
<1>4. tasks'[q] = <<>> /\ \A r \in Queues : r # q => tasks'[r] = tasks[r]
  BY <1>1, <1>3 DEF TypeOK, TqTypes
<1>5. ASSUME NEW r \in Queues, NEW i \in 1 .. Len(tasks'[r])
      PROVE  i \in 1 .. Len(tasks[r]) /\ tasks'[r][i] = tasks[r][i]
  BY <1>4, <1>5
<1>6. ASSUME NEW s \in Sess
      PROVE  QueuedFor(TqOf(s), s)' = QueuedFor(TqOf(s), s) - Retired(q, n, s)
  <2>1. TqOf(s) \in Queues /\ QueuedFor(TqOf(s), s) \in Nat
    BY <1>1, QueueOf, BehindType
  <2>2. CASE TqOf(s) = q
    <3>1. Retired(q, n, s) = QueuedFor(TqOf(s), s)
      BY <1>2, <2>2 DEF Retired, QueuedFor
    <3>2. TasksOf(TqOf(s), s, 1, Len(tasks[TqOf(s)]))' = {}
      BY <1>4, <2>2 DEF TasksOf
    <3>3. QueuedFor(TqOf(s), s)' = 0
      BY <3>2, FS_EmptySet DEF QueuedFor
    <3> QED
      BY <2>1, <3>1, <3>3
  <2>3. CASE TqOf(s) # q
    <3>1. TasksOf(q, s, 1, n) = {}
      BY <1>1, <1>2, <2>3 DEF TasksOf, TaskInv, OnItsQueue
    <3>2. Retired(q, n, s) = 0
      BY <3>1, FS_EmptySet DEF Retired
    <3>3. QueuedFor(TqOf(s), s)' = QueuedFor(TqOf(s), s)
      BY <1>4, <2>1, <2>3 DEF QueuedFor, TasksOf
    <3> QED
      BY <2>1, <3>2, <3>3
  <2> QED
    BY <2>2, <2>3
<1>7. UnfinCounts'
  <2> SUFFICES ASSUME NEW s \in Sess
               PROVE  unfin'[s] = QueuedFor(TqOf(s), s)'
                                    - (IF pc'[Thread(s)] = "count" THEN batch'[s] ELSE 0)
    BY DEF UnfinCounts
  <2>1. /\ QueuedFor(TqOf(s), s) \in Nat /\ Retired(q, n, s) \in Nat /\ batch[s] \in Nat
    BY <1>1, BehindType, RetiredType DEF TypeOK, CtlTypes
  <2>2. unfin[s] = QueuedFor(TqOf(s), s) - (IF pc[Thread(s)] = "count" THEN batch[s] ELSE 0)
    BY <1>1 DEF TaskInv, UnfinCounts
  <2>3. QueuedFor(TqOf(s), s)' = QueuedFor(TqOf(s), s) - Retired(q, n, s)
    BY <1>6
  <2> QED
    BY <1>3, <2>1, <2>2, <2>3
<1>8. BusyIsOpen' /\ OnItsQueue' /\ GoneUnqueued'
  BY <1>1, <1>3, <1>5 DEF TaskInv, BusyIsOpen, OnItsQueue, GoneUnqueued
<1> QED
  BY <1>7, <1>8 DEF TaskInv

LEMMA CleanKeeps ==
  ASSUME RInv, ResetCleanTq
  PROVE  RInv'
<1>1. /\ TypeOK /\ RstTypes /\ LaunchPart /\ Phase /\ Told /\ Waits
      /\ resetPc = "clean" /\ inReset /\ resets # 0 /\ devState = "PRERESET" /\ NotAsked
  BY DEF RInv, ResetCleanTq, Phase
<1>2. PICK q \in Queues : q = resetQ
  BY <1>1 DEF RstTypes
<1>3. /\ tqLock[q] = Nobody
      /\ \/ q + 1 \in Queues /\ resetQ' = q + 1 /\ resetPc' = "clean"
         \/ q + 1 \notin Queues /\ resetQ' = 0 /\ resetPc' = "sessions"
      /\ UNCHANGED <<inReset, tqLock, lastRunning, sState, sErr, launched, waitRet, pc,
                     devState, fwAsked, resetIrq, resets>>
      /\ \A r \in Queues : r # q => cntRunning'[r] = cntRunning[r] /\ tasks'[r] = tasks[r]
  BY <1>1, <1>2 DEF ResetCleanTq, LockFree, pdVars, ctlVars, TypeOK, TqTypes
<1>4. \A r \in Queues : r \in Int /\ (r >= q + 1 => r >= q /\ r # q)
  BY DEF Queues
<1>5. ASSUME q + 1 \notin Queues, NEW r \in Queues PROVE r <= q
  BY <1>5, ConstAssumption DEF Queues
<1>6. LaunchPart'
  <2>1. ASSUME NEW r \in Queues PROVE IF Before(r)' THEN InBounds(r)' ELSE tqLock'[r] = Nobody
    <3>1. CASE Before(r)'
      <4>1. resetPc' = "clean" /\ r >= q + 1
        BY <1>1, <1>3, <3>1 DEF Before
      <4>2. Before(r) /\ r # q
        BY <1>1, <1>2, <1>4, <4>1 DEF Before
      <4>3. InBounds(r)
        BY <1>1, <4>2 DEF LaunchPart
      <4> QED
        BY <1>3, <3>1, <4>2, <4>3 DEF InBounds
    <3>2. CASE ~Before(r)'
      <4>1. r <= q
        BY <1>1, <1>3, <1>4, <1>5, <3>2 DEF Before
      <4>2. r = q \/ ~Before(r)
        BY <1>1, <1>2, <1>4, <4>1 DEF Before
      <4> QED
        BY <1>1, <1>3, <3>2, <4>2 DEF LaunchPart
    <3> QED
      BY <3>1, <3>2
  <2> QED
    BY <1>1, <1>3, <2>1 DEF LaunchPart
<1>7. Phase'
  BY <1>1, <1>3 DEF Phase, NotAsked
<1>8. Told' /\ Debts' /\ Waits'
  BY <1>1, <1>3 DEF Told, After, Debts, Waits
<1> QED
  BY <1>6, <1>7, <1>8, CleanTypes, CleanTasks DEF RInv

(* The sessions are told. *)
LEMMA SessionsKeeps ==
  ASSUME RInv, ResetSessions
  PROVE  RInv'
<1>1. /\ TypeOK /\ RstTypes /\ LaunchPart /\ TaskInv /\ Phase /\ Told /\ Waits
      /\ resetPc = "sessions" /\ inReset /\ resets # 0 /\ devState = "PRERESET" /\ ~fwAsked
  BY DEF RInv, ResetSessions, Phase, NotAsked
<1>2. /\ sState' = [s \in Sess |-> IF ToldOfReset(s) THEN "ERROR" ELSE sState[s]]
      /\ sErr' = [s \in Sess |-> ToldOfReset(s) \/ sErr[s]]
      /\ ~disableDone' /\ resetIrq' = "prepare" /\ resetPc' = "wait_disable"
      /\ UNCHANGED <<pdVars, tqVars, hwVars, unfin, launched, xtasks, waitRet, ctlVars,
                     devState, resetQ, fwAsked, resets>>
  BY DEF ResetSessions
<1>3. UNCHANGED <<inReset, tqLock, tasks, cntRunning, lastRunning, pc, batch>>
  BY <1>2 DEF pdVars, tqVars, ctlVars
<1>4. SessTypes'
  <2>1. \A s \in Sess : sState'[s] \in SessStates /\ sErr'[s] \in BOOLEAN
    BY <1>1, <1>2 DEF TypeOK, SessTypes, SessStates, ToldOfReset
  <2>2. sState' \in [Sess -> SessStates] /\ sErr' \in [Sess -> BOOLEAN]
    BY <1>2, <2>1
  <2> QED
    BY <1>1, <1>2, <2>2 DEF TypeOK, SessTypes
<1>5. TypeOK' /\ RstTypes'
  BY <1>1, <1>2, <1>4, Frame DEF TypeOK, RstTypes, ResetPcs
<1>6. LaunchPart'
  BY <1>1, <1>2, <1>3 DEF LaunchPart, Before
<1>7. Phase'
  BY <1>1, <1>2, <1>3 DEF Phase, Disabling
<1>8. TaskInv'
  <2>1. Calm
    BY <1>1, <1>2, <1>3 DEF Calm, TaskInv, BusyIsOpen, Gone
  <2> QED
    BY <1>1, <2>1, CalmKeeps
<1>9. Told' /\ Debts' /\ Waits'
  BY <1>1, <1>2, <1>3 DEF Told, ToldOfReset, Debts, Waits
<1> QED
  BY <1>5, <1>6, <1>7, <1>8, <1>9 DEF RInv

(* The firmware's reset, in time or late: it finds the handler idle.       *)
LEMMA FirmwareKeeps ==
  ASSUME RInv, FirmwareReset
  PROVE  RInv'
<1>1. /\ TypeOK /\ RstTypes /\ LaunchPart /\ Phase
      /\ fwAsked
  BY DEF RInv, FirmwareReset
<1>2. inReset /\ resetPc \in {"wait_reset", "failed"} /\ Resetting
  BY <1>1 DEF Phase, NotAsked, Disabling, RstTypes, ResetPcs
<1>3. /\ hwFifo' = [q \in Queues |-> <<>>] /\ intrCnt' = [q \in Queues |-> 0]
      /\ ~fwAsked' /\ resetIrq' = "finish"
      /\ UNCHANGED <<pdVars, tqVars, completed, sessVars, ctlVars,
                     devState, resetPc, resetQ, isrIn, resetDone, resets>>
  BY DEF FirmwareReset
<1>4. UNCHANGED <<inReset, tqLock, tasks, cntRunning, lastRunning, pc, batch>>
      /\ UNCHANGED <<unfin, launched, waitRet, sState, sErr>>
  BY <1>3 DEF pdVars, tqVars, ctlVars, sessVars
<1>5. HwTypes'
  BY <1>1, <1>3 DEF TypeOK, HwTypes
<1>6. TypeOK' /\ RstTypes'
  BY <1>1, <1>3, <1>5, Frame DEF TypeOK, RstTypes
<1>7. LaunchPart'
  BY <1>1, <1>2, <1>3, <1>4 DEF LaunchPart, Before
<1>8. Resetting'
  BY <1>1, <1>2, <1>3, <1>4 DEF Resetting, HwEmpty, IsrIdle
<1>9. Phase'
  BY <1>1, <1>2, <1>3, <1>4, <1>8 DEF Phase
<1> QED
  BY <1>2, <1>3, <1>4, <1>6, <1>7, <1>9, ResetFrame DEF RInv, After

(* The driver's own state is put back: first the PD ...                    *)
LEMMA ReinitPdKeeps ==
  ASSUME RInv, ResetReinitPd
  PROVE  RInv'
<1>1. /\ TypeOK /\ RstTypes /\ LaunchPart /\ Phase
      /\ resetPc = "wait_reset" /\ resetDone /\ inReset /\ Resetting
  BY DEF RInv, ResetReinitPd, Phase
<1>2. devState = "POSTRESET" /\ NotAsked /\ IsrIdle /\ HwEmpty
  BY <1>1 DEF Resetting, NotAsked
<1>3. /\ xpdState' = "RUNNING" /\ resetQ' = 0 /\ resetPc' = "reinit"
      /\ UNCHANGED <<inReset, pendFlag, pauses, faults, tqVars, hwVars, sessVars, ctlVars,
                     devState, fwAsked, resetIrq, isrIn, resets>>
  BY DEF ResetReinitPd
<1>4. UNCHANGED <<tqLock, tasks, cntRunning, lastRunning, pc, batch, hwFifo, intrCnt>>
      /\ UNCHANGED <<unfin, launched, waitRet, sState, sErr>>
  BY <1>3 DEF tqVars, hwVars, ctlVars, sessVars
<1>5. TypeOK' /\ RstTypes'
  BY <1>1, <1>3, Frame, ZeroQueue DEF TypeOK, PdTypes, RstTypes, ResetPcs
<1>6. LaunchPart'
  BY <1>1, <1>3, <1>4 DEF LaunchPart, Before
<1>7. \A q \in Queues : ~(q < 0)
  BY DEF Queues
<1>8. NotAsked' /\ IsrIdle' /\ HwEmpty'
  BY <1>2, <1>3, <1>4 DEF NotAsked, IsrIdle, HwEmpty
<1>9. Phase'
  BY <1>1, <1>2, <1>3, <1>7, <1>8 DEF Phase
<1> QED
  BY <1>1, <1>3, <1>4, <1>5, <1>6, <1>9, ResetFrame DEF RInv, After

(* ... then each queue, to which nobody can be writing ...                 *)
LEMMA ReinitTqKeeps ==
  ASSUME RInv, ResetReinitTq
  PROVE  RInv'
<1>1. /\ TypeOK /\ RstTypes /\ LaunchPart /\ Phase /\ resetPc = "reinit" /\ inReset
      /\ devState = "POSTRESET" /\ NotAsked /\ IsrIdle /\ HwEmpty
  BY DEF RInv, ResetReinitTq, Phase
<1>2. PICK q \in Queues : q = resetQ
  BY <1>1 DEF RstTypes
<1>3. /\ tqState' = [tqState EXCEPT ![q] = "NORMAL"]
      /\ cntRunning' = [cntRunning EXCEPT ![q] = 0]
      /\ cntAll' = [cntAll EXCEPT ![q] = 0]
      /\ lastRunning' = [lastRunning EXCEPT ![q] = 0]
      /\ \/ q + 1 \in Queues /\ resetQ' = q + 1 /\ resetPc' = "reinit"
         \/ q + 1 \notin Queues /\ resetQ' = 0 /\ resetPc' = "restart"
      /\ UNCHANGED <<pdVars, tqLock, tasks, hwVars, sessVars, ctlVars,
                     devState, fwAsked, resetIrq, isrIn, resets>>
  BY <1>1, <1>2 DEF ResetReinitTq, RunningAfterReset
<1>4. UNCHANGED <<inReset, pc, batch, hwFifo, intrCnt, unfin, launched, waitRet, sState, sErr>>
  BY <1>3 DEF pdVars, hwVars, ctlVars, sessVars
<1>5. TqTypes'
  BY <1>1, <1>3 DEF TypeOK, TqTypes
<1>6. TypeOK' /\ RstTypes'
  BY <1>1, <1>3, <1>5, Frame, ZeroQueue DEF TypeOK, RstTypes, ResetPcs
<1>7. LaunchPart'
  BY <1>1, <1>3, <1>4 DEF LaunchPart, Before
<1>8. NotAsked' /\ IsrIdle' /\ HwEmpty'
  BY <1>1, <1>3, <1>4 DEF NotAsked, IsrIdle, HwEmpty
<1>9. ASSUME NEW r \in Queues, (resetPc' = "reinit" /\ r < resetQ') \/ resetPc' \in {"restart", "release"}
      PROVE  Zeroed(r)'
  <2>1. r = q \/ r < q
    BY <1>3, <1>9, ConstAssumption DEF Queues
  <2>2. Zeroed(q)'
    BY <1>1, <1>3 DEF Zeroed, TypeOK, TqTypes
  <2>3. r < q => Zeroed(r)
    BY <1>1, <1>2 DEF Phase
  <2>4. r # q /\ Zeroed(r) => Zeroed(r)'
    BY <1>1, <1>3 DEF Zeroed, TypeOK, TqTypes
  <2> QED
    BY <2>1, <2>2, <2>3, <2>4
<1>10. Phase'
  BY <1>1, <1>3, <1>4, <1>8, <1>9 DEF Phase
<1> QED
  BY <1>1, <1>3, <1>4, <1>6, <1>7, <1>10, ResetFrame DEF RInv, After

(* ... then the device. *)
LEMMA RestartKeeps ==
  ASSUME RInv, ResetRestart
  PROVE  RInv'
<1>1. /\ TypeOK /\ RstTypes /\ LaunchPart /\ Phase /\ resetPc = "restart" /\ inReset
      /\ NotAsked /\ IsrIdle /\ HwEmpty /\ \A q \in Queues : Zeroed(q)
  BY DEF RInv, ResetRestart, Phase
<1>2. /\ pendFlag' = {} /\ devState' = "RUNNING" /\ resetPc' = "release"
      /\ UNCHANGED <<xpdState, inReset, pauses, faults, tqVars, hwVars, sessVars, ctlVars,
                     resetQ, fwAsked, resetIrq, resets>>
  BY DEF ResetRestart
<1>3. UNCHANGED <<tqLock, tasks, cntRunning, lastRunning, pc, batch, hwFifo, intrCnt>>
      /\ UNCHANGED <<unfin, launched, waitRet, sState, sErr>>
  BY <1>2 DEF tqVars, hwVars, ctlVars, sessVars
<1>4. TypeOK' /\ RstTypes'
  BY <1>1, <1>2, Frame DEF TypeOK, PdTypes, RstTypes, ResetPcs
<1>5. LaunchPart'
  BY <1>1, <1>2, <1>3 DEF LaunchPart, Before
<1>6. NotAsked' /\ HwEmpty' /\ pc'[ISR] # "finish" /\ \A q \in Queues : Zeroed(q)'
  BY <1>1, <1>2, <1>3 DEF NotAsked, IsrIdle, HwEmpty, Zeroed
<1>7. Phase'
  BY <1>1, <1>2, <1>6 DEF Phase
<1> QED
  BY <1>1, <1>2, <1>3, <1>4, <1>5, <1>7, ResetFrame DEF RInv, After

(* The reset ends: every count of the launch path is right again, and a    *)
(* session without an error has not launched anything.                     *)
LEMMA ReleaseKeeps ==
  ASSUME RInv, ResetRelease
  PROVE  RInv'
<1>1. /\ TypeOK /\ RstTypes /\ TaskInv /\ Phase /\ Told /\ Waits /\ resetPc = "release"
      /\ inReset /\ devState = "RUNNING" /\ NotAsked /\ pc[ISR] # "finish" /\ HwEmpty
      /\ resets # 0 /\ \A q \in Queues : Zeroed(q)
  BY DEF RInv, ResetRelease, Phase
<1>2. /\ inReset' = FALSE /\ resetPc' = "idle"
      /\ UNCHANGED <<xpdState, pendFlag, pauses, faults, tqVars, hwVars, sessVars, ctlVars,
                     devState, resetQ, fwAsked, resetIrq, resets>>
  BY DEF ResetRelease
<1>3. UNCHANGED <<tqLock, tasks, cntRunning, lastRunning, pc, batch, hwFifo, intrCnt>>
      /\ UNCHANGED <<unfin, launched, waitRet, sState, sErr, completed, isrQ, isrCnt>>
  BY <1>2 DEF tqVars, hwVars, ctlVars, sessVars
<1>4. TypeOK' /\ RstTypes'
  BY <1>1, <1>2, Frame DEF TypeOK, PdTypes, RstTypes, ResetPcs
<1>5. ASSUME NEW q \in Queues
      PROVE  /\ InBounds(q)' /\ hwFifo'[q] = <<>>
             /\ cntRunning'[q] = HeldByIsr(q)' + intrCnt'[q] + Len(hwFifo'[q])
  <2>1. cntRunning'[q] = 0 /\ lastRunning'[q] = 0 /\ hwFifo'[q] = <<>> /\ intrCnt'[q] = 0
    BY <1>1, <1>3 DEF Zeroed, HwEmpty
  <2>2. Len(tasks'[q]) \in Nat /\ Capacity \in Nat
    BY <1>4, ConstAssumption, LenProperties DEF TypeOK, TqTypes
  <2>3. HeldByIsr(q)' = 0 /\ Len(hwFifo'[q]) = 0
    BY <1>1, <1>3, <2>1 DEF HeldByIsr
  <2> QED
    BY <2>1, <2>2, <2>3 DEF InBounds
<1>6. LaunchPart'
  <2>1. HardwareCount'
    BY <1>5 DEF HardwareCount
  <2>2. Mirror'
    BY <1>5 DEF Mirror
  <2> QED
    BY <1>2, <1>5, <2>1, <2>2 DEF LaunchPart, Before
<1>7. Phase'
  BY <1>1, <1>2 DEF Phase, NotAsked
<1>8. TaskInv'
  <2>1. Calm
    BY <1>1, <1>3 DEF Calm, TaskInv, BusyIsOpen
  <2> QED
    BY <1>1, <2>1, CalmKeeps
<1>9. Told' /\ Waits'
  BY <1>1, <1>2, <1>3 DEF Told, After, Waits
<1>10. Debts'
  <2> SUFFICES ASSUME NEW s \in Sess, ~Excused(s)' PROVE Debt(s)' <= 0
    BY <1>1, <1>2 DEF Debts
  <2>1. sState[s] = "NONE"
    BY <1>1, <1>3 DEF Excused, Told, After, TypeOK, SessTypes, SessStates
  <2>2. launched'[s] = 0
    BY <1>1, <1>3, <2>1 DEF Told
  <2>3. completed'[s] \in Nat
    BY <1>4 DEF TypeOK, HwTypes
  <2>4. Behind(s)' \in Nat
    BY <1>4, BehindPrimed
  <2> QED
    BY <2>2, <2>3, <2>4 DEF Debt
<1> QED
  BY <1>4, <1>6, <1>7, <1>8, <1>9, <1>10 DEF RInv

-----------------------------------------------------------------------------
LEMMA InitRInv == ResetInit => RInv
<1> SUFFICES ASSUME ResetInit PROVE RInv
  OBVIOUS
<1>1. Init /\ IInv /\ TaskInv
  BY InitIInv, InitTaskInv DEF ResetInit
<1>2. TypeOK /\ Running /\ HardwareCount /\ ~inReset
  BY <1>1, IInvRuns DEF IInv, SafeInv
<1>3. /\ devState = "RUNNING" /\ resetPc = "idle" /\ resetQ = 0 /\ resets = 0
      /\ ~fwAsked /\ resetIrq = "none"
  BY DEF ResetInit
<1>4. RstTypes
  BY <1>3, ZeroQueue DEF RstTypes, ResetPcs
<1>5. \A q \in Queues : hwFifo[q] = <<>> /\ tasks[q] = <<>>
  BY <1>1 DEF Init
<1>6. LaunchPart
  <2>1. Mirror
    BY <1>5 DEF Mirror
  <2> QED
    BY <1>2, <2>1 DEF LaunchPart, Before, Running
<1>7. Phase
  BY <1>2, <1>3 DEF Phase, NotAsked
<1>8. Told /\ Waits
  BY <1>1, <1>3, Contexts DEF Init, Told, After, Waits
<1>9. Debts
  <2> SUFFICES ASSUME NEW s \in Sess PROVE Debt(s) = 0
    BY <1>3 DEF Debts
  <2>1. TqOf(s) \in Queues /\ launched[s] = 0 /\ completed[s] = 0
    BY <1>1, QueueOf DEF Init
  <2>2. Done(TqOf(s)) = 0
    BY <1>1, <2>1, Contexts DEF Init, Done, HeldByIsr
  <2>3. TasksOf(TqOf(s), s, Done(TqOf(s)) + 1, Len(tasks[TqOf(s)])) = {}
    BY <1>5, <2>1, <2>2 DEF TasksOf
  <2>4. Behind(s) = 0
    BY <2>3, FS_EmptySet DEF Behind, QueuedFrom
  <2> QED
    BY <2>1, <2>4 DEF Debt
<1> QED
  BY <1>1, <1>2, <1>4, <1>6, <1>7, <1>8, <1>9 DEF RInv

LEMMA ResetInductive == ResetSpec => []RInv
<1>1. RInv /\ [ResetNext]_resetVars => RInv'
  BY LaunchKeeps, StartKeeps, DriverKeeps, CleanKeeps, SessionsKeeps, ReinitPdKeeps,
     ReinitTqKeeps, RestartKeeps, ReleaseKeeps, FirmwareKeeps, LeaveKeeps
     DEF ResetNext, LaunchOrCause, ResetStep, ResetIrqStep
<1> QED
  BY InitRInv, <1>1, PTL DEF ResetSpec

-----------------------------------------------------------------------------
(* No completion crosses a soft reset: whenever none is in progress,       *)
(* cnt_running is what the handler holds, has to read and the hardware     *)
(* has.  xpu_reinit_after_reset sets it to 0 without the queue's lock, and *)
(* ISR_xtq_on_finish subtracts a count it has read before: that this does  *)
(* not hit the tasks of the next launches rests on the handler being idle  *)
(* when the hardware is reset, and reading nothing from it until the end.  *)
THEOREM CompletionsStayInTheirReset == ResetSpec => []NoCompletionCrossesReset
<1>1. RInv => NoCompletionCrossesReset
  BY DEF RInv, LaunchPart, HardwareCount, NoCompletionCrossesReset
<1> QED
  BY <1>1, ResetInductive, PTL

(* The scheduling engine stays empty from the firmware's reset until the   *)
(* device runs again: tasklet_xtq_dispatch tests in_reset under the        *)
(* queue's lock and pushes under the same one, which lock_and_clean_tqs    *)
(* takes after in_reset is set, so no dispatcher is left that may push.    *)
THEOREM ResetIsQuiet == ResetSpec => []QuiescentAfterReset
<1>1. RInv => QuiescentAfterReset
  <2> SUFFICES ASSUME RInv, devState = "POSTRESET" PROVE HwEmpty
    BY DEF HwEmpty, QuiescentAfterReset
  <2>1. Phase /\ resetPc \in ResetPcs
    BY DEF RInv, RstTypes
  <2>2. resetPc \in {"wait_reset", "failed"} => Resetting
    BY <2>1 DEF Phase, Disabling
  <2> QED
    BY <2>1, <2>2 DEF Phase, Resetting, ResetPcs, Disabling
<1> QED
  BY <1>1, ResetInductive, PTL

(* A task that a soft reset drops is never dropped in silence: its session *)
(* has an error before the hardware is touched, is closed, or learns of it *)
(* before the reset goes on (sessions_prepare_reset), although launches    *)
(* keep appending tasks all through the reset.                             *)
THEOREM NoTaskIsLostInSilence == ResetSpec => []LostTasksAreReported
<1>1. RInv => LostTasksAreReported
  <2> SUFFICES ASSUME RInv, NEW s \in Sess, Lost(s), resetPc \notin {"clean", "sessions"}
               PROVE  Excused(s)
    BY DEF LostTasksAreReported, Excused
  <2>1. TypeOK /\ RstTypes /\ Phase /\ Told /\ Debts
    BY DEF RInv
  <2>2. /\ Behind(s) \in Nat /\ QueuedFor(TqOf(s), s) \in Nat
        /\ Behind(s) <= QueuedFor(TqOf(s), s)
        /\ launched[s] \in Nat /\ completed[s] \in Nat
    BY <2>1, BehindType
  <2>3. launched[s] - completed[s] > QueuedFor(TqOf(s), s)
    BY DEF Lost
  <2>4. CASE resetPc = "idle"
    <3>1. Excused(s) \/ Debt(s) <= 0
      BY <2>1, <2>4 DEF Phase, Debts
    <3> QED
      BY <2>2, <2>3, <3>1 DEF Debt
  <2>5. CASE resetPc = "prepare"
    BY <2>1, <2>2, <2>3, <2>5 DEF Debts
  <2>6. CASE After
    <3>1. launched[s] # 0
      BY <2>2, <2>3
    <3> QED
      BY <2>1, <2>6, <3>1 DEF Told, Excused, TypeOK, SessTypes, SessStates
  <2> QED
    BY <2>1, <2>4, <2>5, <2>6 DEF RstTypes, ResetPcs, After
<1> QED
  BY <1>1, ResetInductive, PTL

(* xpu_wait tells its caller that all is done only when the hardware has   *)
(* completed every task launched before, whatever exceptions, timeouts,    *)
(* pauses and hang-ups race the completions, as long as no reset has begun *)
(* (one takes tasks off the unfinished count before it marks the session). *)
THEOREM WaitIsHonest == ResetSpec => []WaitHonestBeforeReset
<1>1. RInv => WaitHonestBeforeReset
  BY DEF RInv, Waits, WaitHonestBeforeReset, WaitOkMeansCompleted
<1> QED
  BY <1>1, ResetInductive, PTL

(* The timer frees no session that a queued task points to, in and after a *)
(* reset as well, which takes tasks off the lists and off the unfinished   *)
(* counts under the lock of the queue.                                     *)
THEOREM ResetFreesNothingInUse == ResetSpec => []FreedIsUnreferenced
<1>1. RInv => FreedIsUnreferenced
  BY GoneIsUnreferenced DEF RInv
<1> QED
  BY <1>1, ResetInductive, PTL
=============================================================================
