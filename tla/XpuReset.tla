------------------------------- MODULE XpuReset -------------------------------
(***************************************************************************)
(* Soft reset of a K200 board, xpu_device_reset, running against the       *)
(* launch path of XpuTq.  The reset thread stops the driver (in_reset,     *)
(* state PRERESET, queues emptied, sessions in error), has the interrupt   *)
(* handler switch MSI off, lets the firmware reset the hardware, waits for *)
(* its interrupt and reinitialises.  Two handshakes with the interrupt     *)
(* handler may time out, and their answers may still come late.            *)
(*                                                                         *)
(* Nothing stops a launch in the meantime but the checks XpuTq models:     *)
(* xtq_add_tasks looks neither at in_reset nor at xtq->enable.             *)
(***************************************************************************)
EXTENDS XpuTq

CONSTANT MaxReset  \* bound: resets asked for

ASSUME ResetAssumption == MaxReset \in Nat

VARIABLES
  devState,     \* xdev->state
  resetPc,      \* the next step of the reset thread; "failed" is forever
  resetQ,       \* the queue it works on
  fwAsked,      \* the firmware has a reset command it has not carried out
  resetIrq,     \* the reset interrupt that is raised and not handled
  isrIn,        \* xpu_interrupt is in its loop over the interrupt causes
  msiOn,        \* the interrupt controller sends MSI
  disableDone,  \* completion xdev->irq_disable_done
  resetDone,    \* completion xdev->reset_done
  resets        \* resets asked for (bound)

rstVars   == <<devState, resetPc, resetQ, fwAsked, resetIrq, isrIn, msiOn, disableDone, resetDone, resets>>
resetVars == <<vars, rstVars>>

(* xpu_interrupt is not running. *)
IsrIdle == pc[ISR] = "idle" /\ ~isrIn

-----------------------------------------------------------------------------
(* The reset thread *)

(* xpu_device_reset: in_reset is both the flag and the lock. *)
ResetStart ==
  /\ resetPc = "idle"
  /\ resets < MaxReset
  /\ ~inReset
  /\ inReset' = TRUE
  /\ resets' = resets + 1
  /\ resetPc' = "prepare"
  /\ UNCHANGED <<xpdState, pendFlag, pauses, faults, tqVars, hwVars, sessVars, ctlVars,
                 devState, resetQ, fwAsked, resetIrq, isrIn, msiOn, disableDone, resetDone>>

(* xpu_device_reset_prepare: from now on the interrupt handler ignores all *)
(* but the reset's interrupts.                                             *)
ResetPrepare ==
  /\ resetPc = "prepare"
  /\ devState' = "PRERESET"
  /\ resetQ' = 0
  /\ resetPc' = "clean"
  /\ UNCHANGED <<vars, fwAsked, resetIrq, isrIn, msiOn, disableDone, resetDone, resets>>

(* lock_and_clean_tqs, one queue under its lock: every task is dropped and *)
(* taken off both counters, the pending ones off cnt_running too.          *)
(* last_running keeps its value, of which nothing reads before the reinit. *)
ResetCleanTq ==
  LET q == resetQ
      n == Len(tasks[q])
  IN  /\ resetPc = "clean"
      /\ LockFree(q)
      /\ tasks' = [tasks EXCEPT ![q] = <<>>]
      /\ cntRunning' = [cntRunning EXCEPT ![q] = Minus(@, n)]
      /\ cntAll' = [cntAll EXCEPT ![q] = Minus(@, n)]
      /\ unfin' = [s \in Sess |-> unfin[s] - Retired(q, n, s)]
      /\ xtasks' = [s \in Sess |-> xtasks[s] - Retired(q, n, s)]
      /\ IF q + 1 \in Queues
         THEN resetQ' = q + 1 /\ UNCHANGED resetPc
         ELSE resetQ' = 0 /\ resetPc' = "sessions"
      /\ UNCHANGED <<pdVars, tqState, tqLock, lastRunning, hwVars, sState, sErr, launched,
                     waitRet, ctlVars, devState, fwAsked, resetIrq, isrIn, msiOn, disableDone, resetDone, resets>>

(* Mutant: leaves sessions alone that have nothing unfinished. *)
ToldOfBusy(s) == sState[s] = "NORMAL" /\ unfin[s] # 0

(* sessions_prepare_reset: every session that has no error yet learns of   *)
(* the reset ...                                                           *)
ToldOfReset(s) == sState[s] = "NORMAL"

(* ... and the handler is asked to switch its interrupt off. *)
ResetSessions ==
  /\ resetPc = "sessions"
  /\ sState' = [s \in Sess |-> IF ToldOfReset(s) THEN "ERROR" ELSE sState[s]]
  /\ sErr' = [s \in Sess |-> ToldOfReset(s) \/ sErr[s]]
  /\ disableDone' = FALSE
  /\ resetIrq' = "prepare"
  /\ resetPc' = "wait_disable"
  /\ UNCHANGED <<pdVars, tqVars, hwVars, unfin, launched, xtasks, waitRet, ctlVars,
                 devState, resetQ, fwAsked, isrIn, msiOn, resetDone, resets>>

(* The reset command goes to the firmware. *)
ResetFirmware ==
  /\ resetPc = "wait_disable"
  /\ disableDone
  /\ resetDone' = FALSE
  /\ fwAsked' = TRUE
  /\ resetPc' = "wait_reset"
  /\ UNCHANGED <<vars, devState, resetQ, resetIrq, isrIn, msiOn, disableDone, resets>>

(* Either wait may time out: the reset returns an error, in_reset stays.   *)
ResetTimeout ==
  /\ \/ resetPc = "wait_disable" /\ ~disableDone
     \/ resetPc = "wait_reset" /\ ~resetDone
  /\ resetPc' = "failed"
  /\ UNCHANGED <<vars, devState, resetQ, fwAsked, resetIrq, isrIn, msiOn, disableDone, resetDone, resets>>

(* xpu_reinit_after_reset: the PD first ... *)
ResetReinitPd ==
  /\ resetPc = "wait_reset"
  /\ resetDone
  /\ xpdState' = "RUNNING"
  /\ resetQ' = 0
  /\ resetPc' = "reinit"
  /\ UNCHANGED <<inReset, pendFlag, pauses, faults, tqVars, hwVars, sessVars, ctlVars,
                 devState, fwAsked, resetIrq, isrIn, msiOn, disableDone, resetDone, resets>>

(* Mutant: cnt_running is left as the cleaning left it. *)
RunningAfterResetKept(q) == cntRunning[q]

RunningAfterReset(q) == 0

(* ... then each queue, without its lock and whatever is on its list ...   *)
ResetReinitTq ==
  /\ resetPc = "reinit"
  /\ tqState' = [tqState EXCEPT ![resetQ] = "NORMAL"]
  /\ cntRunning' = [cntRunning EXCEPT ![resetQ] = RunningAfterReset(resetQ)]
  /\ cntAll' = [cntAll EXCEPT ![resetQ] = 0]
  /\ lastRunning' = [lastRunning EXCEPT ![resetQ] = 0]
  /\ IF resetQ + 1 \in Queues
     THEN resetQ' = resetQ + 1 /\ UNCHANGED resetPc
     ELSE resetQ' = 0 /\ resetPc' = "restart"
  /\ UNCHANGED <<pdVars, tqLock, tasks, hwVars, sessVars, ctlVars,
                 devState, fwAsked, resetIrq, isrIn, msiOn, disableDone, resetDone, resets>>

(* ... then the interrupt controller and the device. *)
ResetRestart ==
  /\ resetPc = "restart"
  /\ pendFlag' = {}
  /\ devState' = "RUNNING"
  /\ msiOn' = TRUE
  /\ resetPc' = "release"
  /\ UNCHANGED <<xpdState, inReset, pauses, faults, tqVars, hwVars, sessVars, ctlVars,
                 resetQ, fwAsked, resetIrq, isrIn, disableDone, resetDone, resets>>

ResetRelease ==
  /\ resetPc = "release"
  /\ inReset' = FALSE
  /\ resetPc' = "idle"
  /\ UNCHANGED <<xpdState, pendFlag, pauses, faults, tqVars, hwVars, sessVars, ctlVars,
                 devState, resetQ, fwAsked, resetIrq, isrIn, msiOn, disableDone, resetDone, resets>>

-----------------------------------------------------------------------------
(* The firmware clears the hardware, which leaves MSI on, and reports,     *)
(* however long after the driver has given up.                             *)
FirmwareReset ==
  /\ fwAsked
  /\ fwAsked' = FALSE
  /\ hwFifo' = [q \in Queues |-> <<>>]
  /\ intrCnt' = [q \in Queues |-> 0]
  /\ resetIrq' = "finish"
  /\ msiOn' = TRUE
  /\ UNCHANGED <<pdVars, tqVars, completed, sessVars, ctlVars,
                 devState, resetPc, resetQ, isrIn, disableDone, resetDone, resets>>

(* Mutant: the handler does not complete irq_disable_done. *)
IsrPrepareResetSilent ==
  /\ IsrIdle /\ msiOn /\ devState = "PRERESET"
  /\ resetIrq = "prepare"
  /\ resetIrq' = "none"
  /\ msiOn' = FALSE
  /\ UNCHANGED <<vars, devState, resetPc, resetQ, fwAsked, isrIn, disableDone, resetDone, resets>>

(* xpu_interrupt looks at the device state on entry only: a loop entered   *)
(* before the reset goes on handling causes ...                            *)
IsrCause ==
  /\ isrIn \/ (devState = "RUNNING" /\ msiOn)
  /\ Interrupt
  /\ isrIn' = TRUE
  /\ UNCHANGED <<devState, resetPc, resetQ, fwAsked, resetIrq, msiOn, disableDone, resetDone, resets>>

(* ... until it leaves. *)
IsrLeave ==
  /\ isrIn /\ pc[ISR] = "idle"
  /\ isrIn' = FALSE
  /\ UNCHANGED <<vars, devState, resetPc, resetQ, fwAsked, resetIrq, msiOn,
                 disableDone, resetDone, resets>>

(* xpu_interrupt in PRERESET: the driver's own interrupt switches MSI off  *)
(* (isr_handle_prepare_reset) ...                                          *)
IsrPrepareReset ==
  /\ IsrIdle /\ msiOn /\ devState = "PRERESET"
  /\ resetIrq = "prepare"
  /\ resetIrq' = "none"
  /\ msiOn' = FALSE
  /\ disableDone' = TRUE
  /\ UNCHANGED <<vars, devState, resetPc, resetQ, fwAsked, isrIn, resetDone, resets>>

(* ... and the firmware's completes the reset. *)
IsrResetFinish ==
  /\ IsrIdle /\ msiOn /\ devState = "PRERESET"
  /\ resetIrq = "finish"
  /\ resetIrq' = "none"
  /\ devState' = "POSTRESET"
  /\ resetDone' = TRUE
  /\ UNCHANGED <<vars, resetPc, resetQ, fwAsked, isrIn, msiOn, disableDone, resets>>

-----------------------------------------------------------------------------
ResetInit ==
  /\ Init
  /\ devState = "RUNNING" /\ resetPc = "idle" /\ resetQ = 0
  /\ fwAsked = FALSE /\ resetIrq = "none"
  /\ isrIn = FALSE /\ msiOn = TRUE /\ disableDone = FALSE /\ resetDone = FALSE /\ resets = 0

(* The launch path goes on. *)
Launching ==
  /\ \/ \E s \in Sess : UserCall(s) \/ LaunchStep(s) \/ WaitStep(s)
     \/ \E q \in Queues : TaskletRun(q) \/ HwComplete(q)
     \/ \E d \in Ctx : Dispatch(d)
     \/ Reaper \/ IsrStep \/ DeviceError
  /\ UNCHANGED rstVars

ResetStep ==
  \/ ResetPrepare \/ ResetCleanTq \/ ResetSessions \/ ResetFirmware
  \/ ResetReinitPd \/ ResetReinitTq \/ ResetRestart \/ ResetRelease

ResetIrqStep == IsrLeave \/ IsrPrepareReset \/ IsrResetFinish \/ FirmwareReset

ResetNext == Launching \/ IsrCause \/ ResetStart \/ ResetStep \/ ResetTimeout \/ ResetIrqStep

ResetSpec == ResetInit /\ [][ResetNext]_resetVars

(* Fairness: every thread, the handler and the firmware go on.  A timeout  *)
(* is never forced.                                                        *)
ResetFairness ==
  /\ WF_resetVars(ResetStep)
  /\ WF_resetVars(ResetIrqStep)
  /\ WF_resetVars(IsrStep /\ UNCHANGED rstVars)
  /\ \A d \in Ctx : WF_resetVars(Dispatch(d) /\ UNCHANGED rstVars)

ResetFairSpec == ResetSpec /\ ResetFairness

-----------------------------------------------------------------------------
(* Invariants *)

(* From the moment the queues are emptied until the device runs again no   *)
(* dispatcher writes to the scheduling engine: after the firmware's reset  *)
(* it stays empty, although a dispatcher checks in_reset long before it    *)
(* writes.                                                                 *)
QuiescentAfterReset ==
  devState = "POSTRESET" => \A q \in Queues : hwFifo[q] = <<>> /\ intrCnt[q] = 0

(* No completion crosses a reset: outside one, cnt_running is what the     *)
(* hardware and the handler hold, so no count read before the reset is     *)
(* applied to the tasks launched after it.                                 *)
NoCompletionCrossesReset ==
  ~inReset =>
    \A q \in Queues : cntRunning[q] = HeldByIsr(q) + intrCnt[q] + Len(hwFifo[q])

(* A reset drops tasks, but the sessions that launched them learn of it    *)
(* before the hardware is touched (unless they are closed).                *)
Lost(s) == launched[s] - completed[s] > QueuedFor(TqOf(s), s)
LostTasksAreReported ==
  \A s \in Sess :
    Lost(s) => \/ sErr[s]
               \/ sState[s] \in {"CLOSED", "DETACHED", "FREED"}
               \/ resetPc \in {"clean", "sessions"}

(* Until a reset begins, a wait that succeeds means that every task it     *)
(* waited for was completed by the hardware, also when exceptions, time-   *)
(* outs and hang-ups race the completions.                                 *)
WaitHonestBeforeReset == resets = 0 => WaitOkMeansCompleted

(* A reset ends unless one of its waits times out. *)
ResetEnds == inReset ~> (~inReset \/ resetPc = "failed")

=============================================================================
