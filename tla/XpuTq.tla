-------------------------------- MODULE XpuTq --------------------------------
(***************************************************************************)
(* The launch path of one K200 power domain (PD): sessions put tasks on    *)
(* the software task queues (struct xpu_tq), a dispatcher moves them to    *)
(* the hardware FIFOs of the stream scheduling engine (SSE), the interrupt *)
(* handler retires what the SSE reports, the MCU pauses and resumes the    *)
(* PD, exceptions hang the queues, and a timer frees closed sessions.      *)
(*                                                                         *)
(* Three kinds of context run concurrently: one thread per session (ioctl  *)
(* calls of the process that opened the file), one tasklet per queue, and  *)
(* the single interrupt handler of the board.  They meet in the queue's    *)
(* spinlock, but also read the queue's counters and the PD state without   *)
(* it; every such read is a step of its own.                               *)
(*                                                                         *)
(* A task is represented by the session that launched it.                  *)
(***************************************************************************)
EXTENDS Integers, Sequences, FiniteSets

CONSTANTS
  Sess,       \* session ids, xpu_session.id
  NumTq,      \* KL1_SSE_TQ_COUNT
  Capacity,   \* KL1_SSE_TQ_CAPACITY
  U32,        \* number of values of a u32 counter
  MaxLaunch,  \* bound: tasks one session launches, and holds
  MaxBatch,   \* bound: tasks of one batch launch
  MaxPause,   \* bound: pause requests of the MCU
  MaxFault    \* bound: timeouts, exceptions and device errors

ASSUME ConstAssumption ==
  /\ Sess \subseteq Nat
  /\ NumTq \in Nat \ {0}
  /\ Capacity \in Nat \ {0}
  /\ U32 \in Nat /\ U32 > Capacity
  /\ MaxLaunch \in [Sess -> Nat] /\ MaxBatch \in Nat \ {0}
  /\ MaxPause \in Nat /\ MaxFault \in Nat

Queues == 0 .. (NumTq - 1)

(* The contexts of execution. *)
Thread(s)  == <<"thread", s>>
Tasklet(q) == <<"tasklet", q>>
ISR        == <<"isr", 0>>
Ctx == ({"thread"} \X Sess) \cup ({"tasklet"} \X Queues) \cup {ISR}
Nobody == <<"nobody", 0>>

VARIABLES
  xpdState,    \* xpd->state; LOWPOWER and UNUSED are never entered
  inReset,     \* xpu_device_disabled_or_in_reset(xdev)
  pendFlag,    \* the queues whose bit is set in xtqs_pending_finish_flag
  pauses,      \* pause requests received so far (bound)
  faults,      \* errors that have happened so far (bound)
  tqState,     \* xtq->state
  tqLock,      \* the context that holds xtq->lock across steps
  tasks,       \* xtq->tasks
  cntRunning,  \* xtq->cnt_running, a u32
  cntAll,      \* xtq->cnt_all, a u32
  lastRunning, \* xtq->last_running: a position of tasks, 0 for the list head
  hwFifo,      \* the tasks the SSE has accepted and not completed
  intrCnt,     \* RSSE_TQ_INTR_CNT, completions not yet read
  sState,      \* sess->state, NONE before open and FREED after kfree
  sErr,        \* sess->errno # 0
  unfin,       \* sess->unfinished_cnt
  launched,    \* tasks accepted from the session
  completed,   \* tasks of the session the SSE has completed
  xtasks,      \* struct xpu_task allocated for the session and not freed
  waitRet,     \* what the last wait of the session told its caller
  pc,          \* the next step of each context
  batch,       \* the count of the launch in progress
  seenRunning, \* the value of cnt_running a dispatcher has read
  softirq,     \* the queues whose dispatch tasklet is scheduled
  isrQ,        \* the queue the interrupt handler works on
  isrCnt       \* the completions it has read for that queue

pdVars   == <<xpdState, inReset, pendFlag, pauses, faults>>
tqVars   == <<tqState, tqLock, tasks, cntRunning, cntAll, lastRunning>>
hwVars   == <<hwFifo, intrCnt, completed>>
sessVars == <<sState, sErr, unfin, launched, xtasks, waitRet>>
ctlVars  == <<pc, batch, seenRunning, softirq, isrQ, isrCnt>>
vars     == <<pdVars, tqVars, hwVars, sessVars, ctlVars>>

-----------------------------------------------------------------------------
(* Helpers *)

(* xpu_sched_bind_sess: the first launch binds a session to queue id % 8   *)
(* and nothing rebinds it.                                                 *)
TqOf(s) == s % NumTq

(* The queue a dispatcher works on. *)
DispatchTq(d) ==
  CASE d[1] = "thread"  -> TqOf(d[2])
    [] d[1] = "tasklet" -> d[2]
    [] OTHER            -> isrQ

LockFree(q) == tqLock[q] = Nobody

Goto(d, label) == pc' = [pc EXCEPT ![d] = label]

(* u32 arithmetic of the counters. *)
Plus(n, k)  == (n + k) % U32
Minus(n, k) == (n - k) % U32

(* The tasks of s among positions lo to hi of q. *)
TasksOf(q, s, lo, hi) == {i \in lo .. hi : tasks[q][i] = s}

QueuedFor(q, s) == Cardinality(TasksOf(q, s, 1, Len(tasks[q])))

(* Sessions that own a task on q. *)
Owners(q) == {tasks[q][i] : i \in DOMAIN tasks[q]}

(* xpd_state_to_error: from RUNNING, PAUSING and ERROR only. *)
ErrorState == IF xpdState \in {"RUNNING", "PAUSING", "ERROR"} THEN "ERROR" ELSE xpdState

(* One more error, within the bound. *)
Fault == faults < MaxFault /\ faults' = faults + 1

(* xpd_state_to_paused: from PAUSING only. *)
PausedState == IF xpdState = "PAUSING" THEN "PAUSED" ELSE xpdState

(* The sessions in S that have no error yet take one: state and errno.     *)
(* LOST is ERROR in place of CLOSED: nobody closes such a session again.   *)
MarkError(S) ==
  /\ sState' = [s \in Sess |->
       IF s \notin S \/ sErr[s] THEN sState[s]
       ELSE IF sState[s] = "CLOSED" THEN "LOST" ELSE "ERROR"]
  /\ sErr'   = [s \in Sess |-> s \in S \/ sErr[s]]

-----------------------------------------------------------------------------
(* Sessions: open, close and the timer that frees closed ones *)

(* session_create, once the device is out of reset. *)
Open(s) ==
  /\ sState[s] = "NONE"
  /\ ~inReset
  /\ sState' = [sState EXCEPT ![s] = "NORMAL"]
  /\ UNCHANGED <<pdVars, tqVars, hwVars, sErr, unfin, launched, xtasks, waitRet, ctlVars>>

(* xpu_char_release and session_destroy: no ioctl of the file is running. *)
Close(s) ==
  /\ sState[s] \in {"NORMAL", "ERROR"}
  /\ pc[Thread(s)] = "idle"
  /\ sState' = [sState EXCEPT ![s] = "CLOSED"]
  /\ UNCHANGED <<pdVars, tqVars, hwVars, sErr, unfin, launched, xtasks, waitRet, ctlVars>>

(* Mutant: takes sessions in ERROR for closed ones. *)
ReapableInError(s) == sState[s] \in {"CLOSED", "ERROR"} /\ unfin[s] = 0

(* __clean_sessions, the part under sessions_lock: a closed session with   *)
(* nothing unfinished leaves the list ...                                  *)
Reapable(s) == sState[s] = "CLOSED" /\ unfin[s] = 0

ReapDetach(s) ==
  /\ Reapable(s)
  /\ sState' = [sState EXCEPT ![s] = "DETACHED"]
  /\ UNCHANGED <<pdVars, tqVars, hwVars, sErr, unfin, launched, xtasks, waitRet, ctlVars>>

(* ... and is released after the unlock. *)
ReapFree(s) ==
  /\ sState[s] = "DETACHED"
  /\ sState' = [sState EXCEPT ![s] = "FREED"]
  /\ UNCHANGED <<pdVars, tqVars, hwVars, sErr, unfin, launched, xtasks, waitRet, ctlVars>>

-----------------------------------------------------------------------------
(* Launch: ioctl_launch, ioctl_batchlaunch and ioctl_proflaunch *)

(* The ioctl has passed its checks and allocated n tasks. *)
LaunchEnter(s, n, label) ==
  /\ sState[s] = "NORMAL"
  /\ pc[Thread(s)] = "idle"
  /\ launched[s] + n <= MaxLaunch[s]
  /\ xtasks[s] + n <= MaxLaunch[s]
  /\ batch' = [batch EXCEPT ![s] = n]
  /\ xtasks' = [xtasks EXCEPT ![s] = @ + n]
  /\ waitRet' = [waitRet EXCEPT ![s] = "none"]
  /\ Goto(Thread(s), label)
  /\ UNCHANGED <<pdVars, tqVars, hwVars, sState, sErr, unfin, launched,
                 seenRunning, softirq, isrQ, isrCnt>>

(* A single launch is refused in ERROR, and polls until a pause is over. *)
IoctlLaunch(s) ==
  /\ xpdState \notin {"ERROR", "PAUSING", "PAUSED"}
  /\ LaunchEnter(s, 1, "add")

(* A batch launch only polls until a pause is over. *)
IoctlBatchLaunch(s, n) ==
  /\ xpdState \notin {"PAUSING", "PAUSED"}
  /\ LaunchEnter(s, n, "add")

(* A profiled launch does neither, and frees its task if it is refused.    *)
(* The wait at its end only reads.                                         *)
IoctlProfLaunch(s) == LaunchEnter(s, 1, "addprof")

Refused(q) == xpdState = "ERROR" \/ tqState[q] = "HANGUP"

(* Bound: the memory of the host holds fewer than 2^32 tasks. *)
MemoryHolds(q, n) == Len(tasks[q]) + n < U32

(* xtq_add_tasks: under the queue's lock, append the tasks and count them. *)
LaunchAdd(s) ==
  LET q == TqOf(s)
  IN  /\ pc[Thread(s)] \in {"add", "addprof"}
      /\ LockFree(q)
      /\ \/ /\ ~Refused(q)
            /\ MemoryHolds(q, batch[s])
            /\ tasks' = [tasks EXCEPT ![q] = @ \o [i \in 1 .. batch[s] |-> s]]
            /\ cntAll' = [cntAll EXCEPT ![q] = Plus(@, batch[s])]
            /\ launched' = [launched EXCEPT ![s] = @ + batch[s]]
            /\ Goto(Thread(s), "count")
            /\ UNCHANGED <<xtasks, batch>>
         \/ /\ Refused(q)
            /\ xtasks' = [xtasks EXCEPT ![s] =
                            IF pc[Thread(s)] = "addprof" THEN @ - batch[s] ELSE @]
            /\ batch' = [batch EXCEPT ![s] = 0]
            /\ Goto(Thread(s), "idle")
            /\ UNCHANGED <<tasks, cntAll, launched>>
      /\ UNCHANGED <<pdVars, tqState, tqLock, cntRunning, lastRunning, hwVars, sState,
                     sErr, unfin, waitRet, seenRunning, softirq, isrQ, isrCnt>>

(* __session_add_tasks_locked: the unfinished count follows, not under     *)
(* the queue's lock.                                                       *)
LaunchCount(s) ==
  /\ pc[Thread(s)] = "count"
  /\ unfin' = [unfin EXCEPT ![s] = @ + batch[s]]
  /\ batch' = [batch EXCEPT ![s] = 0]
  /\ Goto(Thread(s), "kick")
  /\ UNCHANGED <<pdVars, tqVars, hwVars, sState, sErr, launched, xtasks, waitRet,
                 seenRunning, softirq, isrQ, isrCnt>>

(* session_launch_tasks dispatches only if it sees the PD running. *)
LaunchKick(s) ==
  /\ pc[Thread(s)] = "kick"
  /\ Goto(Thread(s), IF xpdState = "RUNNING" THEN "capacity" ELSE "idle")
  /\ UNCHANGED <<pdVars, tqVars, hwVars, sessVars, batch, seenRunning, softirq, isrQ, isrCnt>>

-----------------------------------------------------------------------------
(* tasklet_xtq_dispatch, in any context *)

(* First test without the lock: is there a free slot in the hardware?      *)
DispatchCapacity(d) ==
  LET q == DispatchTq(d)
  IN  /\ pc[d] = "capacity"
      /\ \/ /\ cntRunning[q] >= Capacity
            /\ Goto(d, "idle")
            /\ UNCHANGED seenRunning
         \/ /\ cntRunning[q] < Capacity
            /\ seenRunning' = [seenRunning EXCEPT ![d] = cntRunning[q]]
            /\ Goto(d, "reload")
      /\ UNCHANGED <<pdVars, tqVars, hwVars, sessVars, batch, softirq, isrQ, isrCnt>>

(* Second test without the lock: cnt_running = cnt_all?  The counters are  *)
(* plain fields, so the compiler may load cnt_running again or not ...     *)
DispatchReload(d) ==
  /\ pc[d] = "reload"
  /\ \E v \in {seenRunning[d], cntRunning[DispatchTq(d)]} :
        seenRunning' = [seenRunning EXCEPT ![d] = v]
  /\ Goto(d, "compare")
  /\ UNCHANGED <<pdVars, tqVars, hwVars, sessVars, batch, softirq, isrQ, isrCnt>>

(* ... and cnt_all is loaded after it. *)
DispatchCompare(d) ==
  /\ pc[d] = "compare"
  /\ Goto(d, IF seenRunning[d] = cntAll[DispatchTq(d)] THEN "idle" ELSE "lock")
  /\ seenRunning' = [seenRunning EXCEPT ![d] = 0]
  /\ UNCHANGED <<pdVars, tqVars, hwVars, sessVars, batch, softirq, isrQ, isrCnt>>

(* Mutant: tests only for an error. *)
MayDispatchInPause == xpdState # "ERROR" /\ ~inReset

(* Mutant: looks at the PD only. *)
MayDispatchInReset == xpdState = "RUNNING"

MayDispatch == xpdState = "RUNNING" /\ ~inReset

(* Take the lock, and look at the PD and the device once under it. *)
DispatchLock(d) ==
  LET q == DispatchTq(d)
  IN  /\ pc[d] = "lock"
      /\ LockFree(q)
      /\ \/ /\ MayDispatch
            /\ tqLock' = [tqLock EXCEPT ![q] = d]
            /\ Goto(d, "push")
         \/ /\ ~MayDispatch
            /\ Goto(d, "idle")
            /\ UNCHANGED tqLock
      /\ UNCHANGED <<pdVars, tqState, tasks, cntRunning, cntAll, lastRunning,
                     hwVars, sessVars, batch, seenRunning, softirq, isrQ, isrCnt>>

(* How many tasks the dispatch loop moves: until the hardware FIFO is full *)
(* or last_running is the last of the list.                                *)
Free(q)    == Capacity - cntRunning[q]
Pending(q) == Len(tasks[q]) - lastRunning[q]
DispatchBurst(q) ==
  IF cntRunning[q] >= Capacity THEN 0
  ELSE IF Free(q) < Pending(q) THEN Free(q) ELSE Pending(q)

(* The loop and the unlock. *)
DispatchPush(d) ==
  LET q == DispatchTq(d)
      n == DispatchBurst(q)
      l == lastRunning[q]
  IN  /\ pc[d] = "push"
      /\ tqLock[q] = d
      /\ cntRunning' = [cntRunning EXCEPT ![q] = Plus(@, n)]
      /\ lastRunning' = [lastRunning EXCEPT ![q] = l + n]
      /\ hwFifo' = [hwFifo EXCEPT ![q] = @ \o SubSeq(tasks[q], l + 1, l + n)]
      /\ tqLock' = [tqLock EXCEPT ![q] = Nobody]
      /\ Goto(d, "idle")
      /\ UNCHANGED <<pdVars, tqState, tasks, cntAll, intrCnt, completed, sessVars,
                     batch, seenRunning, softirq, isrQ, isrCnt>>

(* The softirq runs a scheduled tasklet; a tasklet never runs twice at once.*)
TaskletRun(q) ==
  /\ q \in softirq
  /\ pc[Tasklet(q)] = "idle"
  /\ softirq' = softirq \ {q}
  /\ Goto(Tasklet(q), "capacity")
  /\ UNCHANGED <<pdVars, tqVars, hwVars, sessVars, batch, seenRunning, isrQ, isrCnt>>

Dispatch(d) ==
  \/ DispatchCapacity(d) \/ DispatchReload(d) \/ DispatchCompare(d)
  \/ DispatchLock(d) \/ DispatchPush(d)

-----------------------------------------------------------------------------
(* ioctl_wait *)

IoctlWait(s) ==
  /\ sState[s] = "NORMAL"
  /\ xpdState # "ERROR"
  /\ pc[Thread(s)] = "idle"
  /\ Goto(Thread(s), "wait")
  /\ waitRet' = [waitRet EXCEPT ![s] = "none"]
  /\ UNCHANGED <<pdVars, tqVars, hwVars, sState, sErr, unfin, launched, xtasks,
                 batch, seenRunning, softirq, isrQ, isrCnt>>

(* Mutant: a signal is reported like the end of the wait. *)
WaitResultOfSignal(s) == IF sErr[s] THEN "error" ELSE "ok"

(* One round of wait_session_timeout_interruptable that returns: nothing   *)
(* unfinished (with the session's errno), a signal, or a session error.    *)
WaitResult(s) == IF unfin[s] = 0 /\ ~sErr[s] THEN "ok" ELSE "error"

WaitReturn(s) ==
  /\ pc[Thread(s)] = "wait"
  /\ waitRet' = [waitRet EXCEPT ![s] = WaitResult(s)]
  /\ Goto(Thread(s), "idle")
  /\ UNCHANGED <<pdVars, tqVars, hwVars, sState, sErr, unfin, launched, xtasks,
                 batch, seenRunning, softirq, isrQ, isrCnt>>

(* A round that finds no progress for 20s: the PD goes to ERROR ...        *)
WaitTimeout(s) ==
  /\ pc[Thread(s)] = "wait"
  /\ unfin[s] # 0
  /\ Fault
  /\ xpdState' = ErrorState
  /\ Goto(Thread(s), "hangup")
  /\ UNCHANGED <<inReset, pendFlag, pauses, tqVars, hwVars, sessVars,
                 batch, seenRunning, softirq, isrQ, isrCnt>>

(* ... and, under the queue's lock, the queue hangs and the session of its *)
(* head task gets the blame.                                               *)
WaitHangup(s) ==
  LET q == TqOf(s)
  IN  /\ pc[Thread(s)] = "hangup"
      /\ LockFree(q)
      /\ tqState' = [tqState EXCEPT ![q] = "HANGUP"]
      /\ MarkError(IF tasks[q] = <<>> THEN {} ELSE {Head(tasks[q])})
      /\ waitRet' = [waitRet EXCEPT ![s] = "error"]
      /\ Goto(Thread(s), "idle")
      /\ UNCHANGED <<pdVars, tqLock, tasks, cntRunning, cntAll, lastRunning, hwVars,
                     unfin, launched, xtasks, batch, seenRunning, softirq, isrQ, isrCnt>>

-----------------------------------------------------------------------------
(* The stream scheduling engine: each queue completes in order and counts  *)
(* one interrupt per task.                                                 *)
HwComplete(q) ==
  /\ hwFifo[q] # <<>>
  /\ hwFifo' = [hwFifo EXCEPT ![q] = Tail(@)]
  /\ intrCnt' = [intrCnt EXCEPT ![q] = @ + 1]
  /\ completed' = [completed EXCEPT ![Head(hwFifo[q])] = @ + 1]
  /\ UNCHANGED <<pdVars, tqVars, sessVars, ctlVars>>

-----------------------------------------------------------------------------
(* The interrupt handler, xpu_interrupt: one context, one cause at a time *)

(* isr_handle_sse_intr reads and clears the counter before the lock.       *)
IsrReadCount(q) ==
  /\ pc[ISR] = "idle"
  /\ intrCnt[q] > 0
  /\ isrQ' = q
  /\ isrCnt' = intrCnt[q]
  /\ intrCnt' = [intrCnt EXCEPT ![q] = 0]
  /\ Goto(ISR, "finish")
  /\ UNCHANGED <<pdVars, tqVars, hwFifo, completed, sessVars, batch, seenRunning, softirq>>

(* Mutant: one task per interrupt, whatever the count. *)
FinishOne(q) == IF tasks[q] = <<>> THEN 0 ELSE 1

(* The tasks the loop of ISR_xtq_on_finish takes off the queue. *)
FinishBurst(q) == IF isrCnt < Len(tasks[q]) THEN isrCnt ELSE Len(tasks[q])

(* Mutant: the pointer stays on the removed entry. *)
LastRunningKept(q, n) == IF lastRunning[q] > n THEN lastRunning[q] - n ELSE lastRunning[q]
(* Mutant: the pointer steps back to the entry before. *)
LastRunningBack(q, n) == lastRunning[q] - n - 1

(* The queue after its first n tasks are gone: last_running falls back to  *)
(* the list head when its own task is removed.                             *)
LastRunningAfter(q, n) == IF lastRunning[q] > n THEN lastRunning[q] - n ELSE 0

(* Mutant: leaves the loop before the last task is accounted for. *)
RetiredButLast(q, n, s) == Cardinality(TasksOf(q, s, 1, n - 1))

Retired(q, n, s) == Cardinality(TasksOf(q, s, 1, n))

(* Mutant: only isr_pausing_xpd completes a pause. *)
NoteDrainedOnly(q, running) ==
  /\ pendFlag' = IF xpdState = "PAUSING" /\ running = 0 THEN pendFlag \cup {q} ELSE pendFlag
  /\ UNCHANGED xpdState

(* While PAUSING, a queue that has drained sets its bit; the last one      *)
(* completes the pause.                                                    *)
NoteDrained(q, running) ==
  IF xpdState = "PAUSING" /\ running = 0
  THEN /\ pendFlag' = pendFlag \cup {q}
       /\ xpdState' = IF pendFlag' = Queues THEN PausedState ELSE xpdState
  ELSE UNCHANGED <<pendFlag, xpdState>>

(* ISR_xtq_on_finish, the part under the lock. *)
IsrFinish ==
  LET q == isrQ
      n == FinishBurst(q)
  IN  /\ pc[ISR] = "finish"
      /\ LockFree(q)
      /\ isrCnt' = 0
      /\ \/ /\ inReset
            /\ Goto(ISR, "idle")
            /\ UNCHANGED <<xpdState, pendFlag, tasks, cntRunning, cntAll, lastRunning,
                           unfin, xtasks>>
         \/ /\ ~inReset
            /\ tasks' = [tasks EXCEPT ![q] = SubSeq(@, n + 1, Len(@))]
            /\ cntRunning' = [cntRunning EXCEPT ![q] = Minus(@, n)]
            /\ cntAll' = [cntAll EXCEPT ![q] = Minus(@, n)]
            /\ lastRunning' = [lastRunning EXCEPT ![q] = LastRunningAfter(q, n)]
            /\ unfin' = [s \in Sess |-> unfin[s] - Retired(q, n, s)]
            /\ xtasks' = [s \in Sess |-> xtasks[s] - Retired(q, n, s)]
            /\ NoteDrained(q, cntRunning'[q])
            /\ Goto(ISR, "after")
      /\ UNCHANGED <<inReset, pauses, faults, tqState, tqLock, hwVars, sState, sErr, launched,
                     waitRet, batch, seenRunning, softirq, isrQ>>

(* Mutant: dispatches only behind a task that still runs. *)
MorePendingBehind(q) ==
  cntRunning[q] > 0 /\ cntRunning[q] < cntAll[q] /\ xpdState = "RUNNING"

(* After the unlock, dispatch what is still pending.  Only this handler    *)
(* lowers the two counters, so reading them in one step loses nothing.     *)
MorePending(q) == cntRunning[q] < cntAll[q] /\ xpdState = "RUNNING"

IsrAfter ==
  /\ pc[ISR] = "after"
  /\ Goto(ISR, IF MorePending(isrQ) THEN "capacity" ELSE "idle")
  /\ UNCHANGED <<pdVars, tqVars, hwVars, sessVars, batch, seenRunning, softirq, isrQ, isrCnt>>

(* isr_pausing_xpd: PAUSING first, then one queue after the other is       *)
(* looked at under its lock ...                                            *)
IsrPause ==
  /\ pc[ISR] = "idle"
  /\ xpdState = "RUNNING"
  /\ pauses < MaxPause
  /\ pauses' = pauses + 1
  /\ xpdState' = "PAUSING"
  /\ pendFlag' = {}
  /\ isrQ' = 0
  /\ Goto(ISR, "drain")
  /\ UNCHANGED <<inReset, faults, tqVars, hwVars, sessVars, batch, seenRunning, softirq, isrCnt>>

IsrDrain ==
  /\ pc[ISR] = "drain"
  /\ LockFree(isrQ)
  /\ pendFlag' = IF cntRunning[isrQ] = 0 THEN pendFlag \cup {isrQ} ELSE pendFlag
  /\ IF isrQ + 1 \in Queues
     THEN isrQ' = isrQ + 1 /\ UNCHANGED pc
     ELSE isrQ' = 0 /\ Goto(ISR, "paused")
  /\ UNCHANGED <<xpdState, inReset, pauses, faults, tqVars, hwVars, sessVars,
                 batch, seenRunning, softirq, isrCnt>>

(* ... and the pause is complete at once if none was busy. *)
IsrPaused ==
  /\ pc[ISR] = "paused"
  /\ xpdState' = IF pendFlag = Queues THEN PausedState ELSE xpdState
  /\ Goto(ISR, "idle")
  /\ UNCHANGED <<inReset, pendFlag, pauses, faults, tqVars, hwVars, sessVars,
                 batch, seenRunning, softirq, isrQ, isrCnt>>

(* isr_resume_xpd: every queue's dispatch tasklet is scheduled. *)
IsrResume ==
  /\ pc[ISR] = "idle"
  /\ xpdState = "PAUSED"
  /\ xpdState' = "RUNNING"
  /\ softirq' = Queues
  /\ UNCHANGED <<inReset, pendFlag, pauses, faults, tqVars, hwVars, sessVars,
                 pc, batch, seenRunning, isrQ, isrCnt>>

(* ISR_xpd_on_exception and isr_xpd_on_sse_exception: the PD goes to       *)
(* ERROR, then every queue hangs and every session with a task there is    *)
(* marked, one queue at a time.                                            *)
IsrException ==
  /\ pc[ISR] = "idle"
  /\ Fault
  /\ xpdState' = ErrorState
  /\ isrQ' = 0
  /\ Goto(ISR, "hang")
  /\ UNCHANGED <<inReset, pendFlag, pauses, tqVars, hwVars, sessVars,
                 batch, seenRunning, softirq, isrCnt>>

IsrHang ==
  /\ pc[ISR] = "hang"
  /\ LockFree(isrQ)
  /\ tqState' = [tqState EXCEPT ![isrQ] = "HANGUP"]
  /\ MarkError(Owners(isrQ))
  /\ IF isrQ + 1 \in Queues
     THEN isrQ' = isrQ + 1 /\ UNCHANGED pc
     ELSE isrQ' = 0 /\ Goto(ISR, "idle")
  /\ UNCHANGED <<pdVars, tqLock, tasks, cntRunning, cntAll, lastRunning, hwVars,
                 unfin, launched, xtasks, waitRet, batch, seenRunning, softirq, isrCnt>>

(* The other causes of xpd_state_to_error leave the queues alone: an       *)
(* uncorrectable HBM error or overheating (interrupt), an EDMA timeout     *)
(* (memcpy ioctl).                                                         *)
DeviceError ==
  /\ xpdState # "ERROR"
  /\ Fault
  /\ xpdState' = ErrorState
  /\ UNCHANGED <<inReset, pendFlag, pauses, tqVars, hwVars, sessVars, ctlVars>>

-----------------------------------------------------------------------------
Init ==
  /\ xpdState = "RUNNING" /\ inReset = FALSE /\ pendFlag = {} /\ pauses = 0
  /\ faults = 0
  /\ tqState = [q \in Queues |-> "NORMAL"]
  /\ tqLock = [q \in Queues |-> Nobody]
  /\ tasks = [q \in Queues |-> <<>>]
  /\ cntRunning = [q \in Queues |-> 0]
  /\ cntAll = [q \in Queues |-> 0]
  /\ lastRunning = [q \in Queues |-> 0]
  /\ hwFifo = [q \in Queues |-> <<>>]
  /\ intrCnt = [q \in Queues |-> 0]
  /\ completed = [s \in Sess |-> 0]
  /\ sState = [s \in Sess |-> "NONE"]
  /\ sErr = [s \in Sess |-> FALSE]
  /\ unfin = [s \in Sess |-> 0]
  /\ launched = [s \in Sess |-> 0]
  /\ xtasks = [s \in Sess |-> 0]
  /\ waitRet = [s \in Sess |-> "none"]
  /\ pc = [d \in Ctx |-> "idle"]
  /\ batch = [s \in Sess |-> 0]
  /\ seenRunning = [d \in Ctx |-> 0]
  /\ softirq = {}
  /\ isrQ = 0 /\ isrCnt = 0

(* What the process behind a session calls ... *)
UserCall(s) ==
  \/ Open(s) \/ Close(s)
  \/ IoctlLaunch(s) \/ IoctlProfLaunch(s) \/ IoctlWait(s)
  \/ \E n \in 1 .. MaxBatch : IoctlBatchLaunch(s, n)

(* ... and what its thread then does in the kernel. *)
LaunchStep(s) == LaunchAdd(s) \/ LaunchCount(s) \/ LaunchKick(s)
WaitStep(s)   == WaitReturn(s) \/ WaitTimeout(s) \/ WaitHangup(s)

Reaper == \E s \in Sess : ReapDetach(s) \/ ReapFree(s)

(* Interrupt handling in progress. *)
IsrStep == IsrFinish \/ IsrAfter \/ IsrDrain \/ IsrPaused \/ IsrHang

(* Interrupts that may arrive. *)
Interrupt ==
  \/ \E q \in Queues : IsrReadCount(q)
  \/ IsrPause \/ IsrResume \/ IsrException

Next ==
  \/ \E s \in Sess : UserCall(s) \/ LaunchStep(s) \/ WaitStep(s)
  \/ \E q \in Queues : TaskletRun(q) \/ HwComplete(q)
  \/ \E d \in Ctx : Dispatch(d)
  \/ Reaper \/ Interrupt \/ IsrStep \/ DeviceError

Spec == Init /\ [][Next]_vars

(* Fairness: a context that can run does run (no CPU stalls, spinlocks are *)
(* granted), the SSE completes what it accepted, completion interrupts are *)
(* delivered, and the MCU ends every pause it has asked for.  Processes    *)
(* need not make calls and errors need not happen.                         *)
Fairness ==
  /\ \A s \in Sess : WF_vars(LaunchStep(s))
  /\ \A d \in Ctx : WF_vars(Dispatch(d))
  /\ \A q \in Queues : /\ WF_vars(TaskletRun(q))
                       /\ WF_vars(HwComplete(q))
                       /\ SF_vars(IsrReadCount(q))
  /\ WF_vars(IsrStep)
  /\ WF_vars(IsrResume)
  /\ WF_vars(Reaper)

FairSpec == Spec /\ Fairness

-----------------------------------------------------------------------------
(* Invariants *)

SessStates == {"NONE", "NORMAL", "ERROR", "LOST", "CLOSED", "DETACHED", "FREED"}
Labels  == {"idle", "add", "addprof", "count", "kick", "capacity", "reload", "compare",
            "lock", "push", "wait", "hangup", "finish", "after", "drain", "paused", "hang"}

PdTypes ==
  /\ xpdState \in {"RUNNING", "PAUSING", "PAUSED", "ERROR"}
  /\ inReset \in BOOLEAN
  /\ pendFlag \in SUBSET Queues
  /\ pauses \in Nat
  /\ faults \in Nat

TqTypes ==
  /\ tqState \in [Queues -> {"NORMAL", "HANGUP"}]
  /\ tqLock \in [Queues -> Ctx \cup {Nobody}]
  /\ tasks \in [Queues -> Seq(Sess)]
  /\ cntRunning \in [Queues -> Nat]
  /\ cntAll \in [Queues -> Nat]
  /\ lastRunning \in [Queues -> Nat]

HwTypes ==
  /\ hwFifo \in [Queues -> Seq(Sess)]
  /\ intrCnt \in [Queues -> Nat]
  /\ completed \in [Sess -> Nat]

SessTypes ==
  /\ sState \in [Sess -> SessStates]
  /\ sErr \in [Sess -> BOOLEAN]
  /\ unfin \in [Sess -> Int]
  /\ launched \in [Sess -> Nat]
  /\ xtasks \in [Sess -> Int]
  /\ waitRet \in [Sess -> {"none", "ok", "error"}]

CtlTypes ==
  /\ pc \in [Ctx -> Labels]
  /\ batch \in [Sess -> Nat]
  /\ seenRunning \in [Ctx -> Nat]
  /\ softirq \in SUBSET Queues
  /\ isrQ \in Queues
  /\ isrCnt \in Nat

(* Every variable holds a value of its type. *)
TypeOK == PdTypes /\ TqTypes /\ HwTypes /\ SessTypes /\ CtlTypes

(* The completions of q that the interrupt handler has read and not yet    *)
(* retired.                                                                *)
HeldByIsr(q) == IF pc[ISR] = "finish" /\ isrQ = q THEN isrCnt ELSE 0

(* The queue's three counters describe its list, whatever contexts race on *)
(* it: cnt_all is its length, cnt_running its dispatched prefix, which     *)
(* last_running ends, and no more than the capacity is dispatched.  The    *)
(* lockless tests of tasklet_xtq_dispatch rely on all of it.               *)
CountsDescribeQueue ==
  \A q \in Queues :
    /\ cntAll[q] = Len(tasks[q])
    /\ cntRunning[q] = lastRunning[q]
    /\ lastRunning[q] <= Len(tasks[q])
    /\ cntRunning[q] <= Capacity

(* The dispatched prefix is exactly what the SSE has: completed tasks the  *)
(* handler has yet to retire, then the hardware FIFO, in the same order.   *)
(* Hence the handler, which only gets a count, retires the right tasks.    *)
HardwareMirrorsPrefix ==
  \A q \in Queues :
    LET done == HeldByIsr(q) + intrCnt[q]
    IN  /\ cntRunning[q] = done + Len(hwFifo[q])
        /\ hwFifo[q] = SubSeq(tasks[q], done + 1, cntRunning[q])

(* When the PD reports PAUSED nothing is in the hardware or can get there, *)
(* although dispatchers check the PD state without holding its lock.       *)
PausedIsQuiescent ==
  xpdState = "PAUSED" =>
    \A q \in Queues : cntRunning[q] = 0 /\ hwFifo[q] = <<>> /\ intrCnt[q] = 0

(* A session the timer has taken off the list is referenced by no queued   *)
(* task, and its unfinished count tells the number of its queued tasks     *)
(* except while its own thread is between the two halves of a launch.      *)
FreedIsUnreferenced ==
  \A s \in Sess :
    /\ sState[s] \in {"DETACHED", "FREED"} =>
         pc[Thread(s)] = "idle" /\ \A q \in Queues : s \notin Owners(q)
    /\ unfin[s] = QueuedFor(TqOf(s), s) - (IF pc[Thread(s)] = "count" THEN batch[s] ELSE 0)

(* xpu_wait reports success only when the SSE has completed every task the *)
(* session had launched.                                                   *)
WaitOkMeansCompleted ==
  \A s \in Sess : waitRet[s] = "ok" => completed[s] = launched[s]

-----------------------------------------------------------------------------
(* Liveness *)

(* An error or a hanging queue ends the obligations of the driver. *)
Broken == xpdState = "ERROR" \/ \E q \in Queues : tqState[q] = "HANGUP"

(* No dispatch is lost: every accepted task is completed, although the     *)
(* dispatcher gives up on counters it reads without the lock (the "FIXME:  *)
(* is this safe?" of tasklet_xtq_dispatch) and launches skip it in a pause.*)
EveryTaskCompletes ==
  \A s \in Sess : (completed[s] < launched[s]) ~> (completed[s] = launched[s] \/ Broken)

(* A requested pause completes, whatever was running when it arrived. *)
PauseCompletes == (xpdState = "PAUSING") ~> (xpdState # "PAUSING")

(* A closed session is freed once its tasks are done. *)
ClosedIsFreed == \A s \in Sess : (sState[s] = "CLOSED") ~> (sState[s] = "FREED" \/ Broken)
=============================================================================
