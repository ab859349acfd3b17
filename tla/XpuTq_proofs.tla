---------------------------- MODULE XpuTq_proofs ----------------------------
(***************************************************************************)
(* Safety of the launch path for every number of sessions, queues and      *)
(* hardware slots: the queue's counters describe its list, and a paused    *)
(* power domain has nothing in the hardware.                               *)
(*                                                                         *)
(* The two properties are not inductive.  IInv adds what they rest on: how *)
(* many completions are under way between the hardware and the handler,    *)
(* and that a queue whose bit is set during a pause is drained and locked  *)
(* by nobody (so no dispatcher that saw RUNNING is still about to push).   *)
(***************************************************************************)
EXTENDS XpuTq, SequenceTheorems, FiniteSetTheorems, TLAPS

(* cnt_running is what the handler holds, has to read, and the hardware has. *)
HardwareCount ==
  \A q \in Queues : cntRunning[q] = HeldByIsr(q) + intrCnt[q] + Len(hwFifo[q])

(* A queue whose bit is set in a pause is drained, and nobody is about to   *)
(* push to it.                                                             *)
Drained ==
  xpdState \in {"PAUSING", "PAUSED"} =>
    \A q \in pendFlag : tqLock[q] = Nobody /\ cntRunning[q] = 0

(* A pause is complete only with every bit set. *)
PauseComplete == xpdState = "PAUSED" => pendFlag = Queues

(* No u32 counter wraps. *)
CountsFit == \A q \in Queues : Len(tasks[q]) < U32

(* The inductive invariant. *)
SafeInv ==
  /\ ~inReset
  /\ CountsDescribeQueue
  /\ CountsFit
  /\ HardwareCount
  /\ Drained
  /\ PauseComplete

IInv == TypeOK /\ SafeInv

(* The part of it that holds outside a reset, whether there has been one   *)
(* or not: after one cnt_all may be wrong.                                 *)
InBounds(q) ==
  cntRunning[q] = lastRunning[q] /\ lastRunning[q] <= Len(tasks[q]) /\ cntRunning[q] <= Capacity

Running == TypeOK /\ ~inReset /\ (\A q \in Queues : InBounds(q)) /\ HardwareCount

(* The part that is left during a reset, for a queue a dispatcher works on. *)
LockedInBounds == \A q \in Queues : tqLock[q] # Nobody => InBounds(q)

LEMMA IInvRuns == IInv => Running /\ LockedInBounds
BY DEF IInv, SafeInv, Running, LockedInBounds, InBounds, CountsDescribeQueue

-----------------------------------------------------------------------------
(* The contexts are different values. *)
LEMMA Contexts ==
  /\ ISR \in Ctx
  /\ Nobody \notin Ctx
  /\ \A s \in Sess : Thread(s) \in Ctx /\ Thread(s) # ISR
  /\ \A q \in Queues : Tasklet(q) \in Ctx /\ Tasklet(q) # ISR
BY DEF Ctx, ISR, Nobody, Thread, Tasklet

(* Every session and every dispatcher works on a queue of the PD. *)
LEMMA QueueOf ==
  /\ \A s \in Sess : TqOf(s) \in Queues
  /\ isrQ \in Queues => \A d \in Ctx : DispatchTq(d) \in Queues
<1>1. \A s \in Sess : TqOf(s) \in Queues
  BY ConstAssumption DEF TqOf, Queues
<1>2. ASSUME isrQ \in Queues, NEW d \in Ctx
      PROVE  DispatchTq(d) \in Queues
  BY <1>1, <1>2 DEF Ctx, ISR, DispatchTq
<1> QED
  BY <1>1, <1>2

(* u32 arithmetic is plain arithmetic as long as nothing wraps. *)
LEMMA NoWrap ==
  ASSUME NEW n \in Nat, NEW k \in Nat
  PROVE  /\ n + k < U32 => Plus(n, k) = n + k
         /\ k <= n /\ n < U32 => Minus(n, k) = n - k
BY ConstAssumption DEF Plus, Minus

(* The invariant holds initially. *)
LEMMA InitIInv == Init => IInv
<1> SUFFICES ASSUME Init PROVE IInv
  OBVIOUS
<1>1. 0 \in Queues /\ Queues \subseteq Nat
  BY ConstAssumption DEF Queues
<1>2. TypeOK
  <2>1. PdTypes
    BY DEF Init, PdTypes
  <2>2. TqTypes
    BY DEF Init, TqTypes
  <2>3. HwTypes
    BY DEF Init, HwTypes
  <2>4. SessTypes
    BY DEF Init, SessTypes, SessStates
  <2>5. CtlTypes
    BY <1>1 DEF Init, CtlTypes, Labels
  <2> QED
    BY <2>1, <2>2, <2>3, <2>4, <2>5 DEF TypeOK
<1>3. CountsDescribeQueue
  BY ConstAssumption DEF Init, CountsDescribeQueue
<1>4. HardwareCount
  BY Contexts DEF Init, HardwareCount, HeldByIsr
<1> QED
  BY <1>2, <1>3, <1>4, ConstAssumption DEF Init, IInv, SafeInv, CountsFit, Drained, PauseComplete

-----------------------------------------------------------------------------
(* A group of variables that a step leaves alone keeps its types. *)
LEMMA Frame ==
  /\ PdTypes /\ UNCHANGED pdVars => PdTypes'
  /\ TqTypes /\ UNCHANGED tqVars => TqTypes'
  /\ HwTypes /\ UNCHANGED hwVars => HwTypes'
  /\ SessTypes /\ UNCHANGED sessVars => SessTypes'
  /\ CtlTypes /\ UNCHANGED ctlVars => CtlTypes'
<1>1. PdTypes /\ UNCHANGED pdVars => PdTypes'
  BY DEF PdTypes, pdVars
<1>2. TqTypes /\ UNCHANGED tqVars => TqTypes'
  BY DEF TqTypes, tqVars
<1>3. HwTypes /\ UNCHANGED hwVars => HwTypes'
  BY DEF HwTypes, hwVars
<1>4. SessTypes /\ UNCHANGED sessVars => SessTypes'
  BY DEF SessTypes, sessVars
<1>5. CtlTypes /\ UNCHANGED ctlVars => CtlTypes'
  BY DEF CtlTypes, ctlVars
<1> QED
  BY <1>1, <1>2, <1>3, <1>4, <1>5

(* Counters stay in range. *)
LEMMA U32Type ==
  ASSUME NEW n \in Int, NEW k \in Int
  PROVE  Plus(n, k) \in Nat /\ Minus(n, k) \in Nat
BY ConstAssumption DEF Plus, Minus

LEMMA ZeroQueue == 0 \in Queues /\ Queues \subseteq Nat
BY ConstAssumption DEF Queues

(* What a dispatcher moves fits the hardware and is on the list. *)
LEMMA BurstBounds ==
  ASSUME TypeOK, NEW q \in Queues, InBounds(q)
  PROVE  /\ DispatchBurst(q) \in Nat
         /\ lastRunning[q] + DispatchBurst(q) <= Len(tasks[q])
         /\ cntRunning[q] + DispatchBurst(q) <= Capacity
BY ConstAssumption DEF TypeOK, TqTypes, InBounds, DispatchBurst, Free, Pending

(* A part of a queue's list is a list of sessions. *)
LEMMA SubSeqType ==
  ASSUME TqTypes, NEW q \in Queues, NEW m \in Nat \ {0}, NEW n \in Nat, n <= Len(tasks[q])
  PROVE  /\ SubSeq(tasks[q], m, n) \in Seq(Sess)
         /\ Len(SubSeq(tasks[q], m, n)) = IF m <= n THEN n - m + 1 ELSE 0
<1>1. tasks[q] \in Seq(Sess) /\ m \in Int /\ n \in Int
  BY DEF TqTypes
<1>2. \A i \in m .. n : i \in 1 .. Len(tasks[q])
  BY <1>1
<1>3. \A i \in m .. n : tasks[q][i] \in Sess
  BY <1>1, <1>2, ElementOfSeq
<1> QED
  BY <1>1, <1>3, SubSeqProperties

(* The tasks a dispatcher moves are tasks of sessions. *)
LEMMA PushedTasks ==
  ASSUME TypeOK, NEW q \in Queues, InBounds(q)
  PROVE  SubSeq(tasks[q], lastRunning[q] + 1, lastRunning[q] + DispatchBurst(q)) \in Seq(Sess)
<1>1. TqTypes /\ lastRunning[q] + 1 \in Nat \ {0} /\ lastRunning[q] + DispatchBurst(q) \in Nat
  BY BurstBounds DEF TypeOK, TqTypes
<1> QED
  BY <1>1, BurstBounds, SubSeqType

(* A launch appends tasks of its session. *)
LEMMA AddedTasks ==
  ASSUME NEW s \in Sess, NEW n \in Nat
  PROVE  /\ [i \in 1 .. n |-> s] \in Seq(Sess)
         /\ Len([i \in 1 .. n |-> s]) = n
OBVIOUS

(* Every completion the handler has read is a task at the head of the list. *)
LEMMA FinishBounds ==
  ASSUME Running, pc[ISR] = "finish"
  PROVE  /\ FinishBurst(isrQ) = isrCnt
         /\ isrCnt <= cntRunning[isrQ]
         /\ isrCnt <= Len(tasks[isrQ])
BY Contexts DEF Running, InBounds, TypeOK, TqTypes, HwTypes, CtlTypes, HardwareCount,
   HeldByIsr, FinishBurst

(* The handler takes off no more than there is, whatever it has read. *)
LEMMA FinishType ==
  ASSUME TypeOK
  PROVE  FinishBurst(isrQ) \in Nat /\ FinishBurst(isrQ) <= Len(tasks[isrQ])
<1>1. tasks[isrQ] \in Seq(Sess) /\ Len(tasks[isrQ]) \in Nat /\ isrCnt \in Nat
  BY DEF TypeOK, TqTypes, CtlTypes
<1> QED
  BY <1>1 DEF FinishBurst

LEMMA LastRunningType ==
  ASSUME TqTypes, NEW q \in Queues, NEW n \in Nat
  PROVE  LastRunningAfter(q, n) \in Nat
BY DEF TqTypes, LastRunningAfter

LEMMA RetiredType ==
  ASSUME NEW q, NEW s, NEW n \in Nat
  PROVE  Retired(q, n, s) \in Nat
<1>1. IsFiniteSet(1 .. n)
  BY FS_Interval
<1>2. TasksOf(q, s, 1, n) \in SUBSET (1 .. n)
  BY DEF TasksOf
<1>3. IsFiniteSet(TasksOf(q, s, 1, n))
  BY <1>1, <1>2, FS_Subset
<1> QED
  BY <1>3, FS_CardinalityType DEF Retired

-----------------------------------------------------------------------------
(* Type correctness, one step per action and one per group it changes. *)
LEMMA TypeStep ==
  ASSUME TypeOK, LockedInBounds, [Next]_vars
  PROVE  TypeOK'
<1>0. PdTypes /\ TqTypes /\ HwTypes /\ SessTypes /\ CtlTypes /\ TypeOK
  BY DEF TypeOK
<1>1. ASSUME NEW s \in Sess, Open(s)
      PROVE  TypeOK'
  <2>1. UNCHANGED <<pdVars, tqVars, hwVars, ctlVars>>
    BY <1>1 DEF Open
  <2>2. SessTypes'
    BY <1>0, <1>1
    DEF Open, SessTypes, sessVars, SessStates
  <2> QED
    BY <1>0, <2>1, <2>2, Frame DEF TypeOK
<1>2. ASSUME NEW s \in Sess, Close(s)
      PROVE  TypeOK'
  <2>1. UNCHANGED <<pdVars, tqVars, hwVars, ctlVars>>
    BY <1>2 DEF Close
  <2>2. SessTypes'
    BY <1>0, <1>2
    DEF Close, SessTypes, sessVars, SessStates
  <2> QED
    BY <1>0, <2>1, <2>2, Frame DEF TypeOK
<1>3. ASSUME NEW s \in Sess, ReapDetach(s)
      PROVE  TypeOK'
  <2>1. UNCHANGED <<pdVars, tqVars, hwVars, ctlVars>>
    BY <1>3 DEF ReapDetach
  <2>2. SessTypes'
    BY <1>0, <1>3
    DEF ReapDetach, SessTypes, sessVars, SessStates
  <2> QED
    BY <1>0, <2>1, <2>2, Frame DEF TypeOK
<1>4. ASSUME NEW s \in Sess, ReapFree(s)
      PROVE  TypeOK'
  <2>1. UNCHANGED <<pdVars, tqVars, hwVars, ctlVars>>
    BY <1>4 DEF ReapFree
  <2>2. SessTypes'
    BY <1>0, <1>4
    DEF ReapFree, SessTypes, sessVars, SessStates
  <2> QED
    BY <1>0, <2>1, <2>2, Frame DEF TypeOK
<1>5. ASSUME NEW s \in Sess, IoctlLaunch(s)
      PROVE  TypeOK'
  <2>1. UNCHANGED <<pdVars, tqVars, hwVars>>
    BY <1>5 DEF IoctlLaunch, LaunchEnter
  <2>2. SessTypes'
    BY <1>0, <1>5
    DEF IoctlLaunch, LaunchEnter, SessTypes, sessVars
  <2>3. CtlTypes'
    BY <1>0, <1>5, Contexts
    DEF IoctlLaunch, LaunchEnter, CtlTypes, ctlVars, Goto, Labels
  <2> QED
    BY <1>0, <2>1, <2>2, <2>3, Frame DEF TypeOK
<1>6. ASSUME NEW s \in Sess, NEW n \in 1 .. MaxBatch, IoctlBatchLaunch(s, n)
      PROVE  TypeOK'
  <2>1. UNCHANGED <<pdVars, tqVars, hwVars>>
    BY <1>6 DEF IoctlBatchLaunch, LaunchEnter
  <2>2. SessTypes'
    BY <1>0, <1>6, ConstAssumption
    DEF IoctlBatchLaunch, LaunchEnter, SessTypes, sessVars
  <2>3. CtlTypes'
    BY <1>0, <1>6, ConstAssumption, Contexts
    DEF IoctlBatchLaunch, LaunchEnter, CtlTypes, ctlVars, Goto, Labels
  <2> QED
    BY <1>0, <2>1, <2>2, <2>3, Frame DEF TypeOK
<1>7. ASSUME NEW s \in Sess, IoctlProfLaunch(s)
      PROVE  TypeOK'
  <2>1. UNCHANGED <<pdVars, tqVars, hwVars>>
    BY <1>7 DEF IoctlProfLaunch, LaunchEnter
  <2>2. SessTypes'
    BY <1>0, <1>7
    DEF IoctlProfLaunch, LaunchEnter, SessTypes, sessVars
  <2>3. CtlTypes'
    BY <1>0, <1>7, Contexts
    DEF IoctlProfLaunch, LaunchEnter, CtlTypes, ctlVars, Goto, Labels
  <2> QED
    BY <1>0, <2>1, <2>2, <2>3, Frame DEF TypeOK
<1>8. ASSUME NEW s \in Sess, LaunchAdd(s)
      PROVE  TypeOK'
  <2> DEFINE q == TqOf(s)
             added == [i \in 1 .. batch[s] |-> s]
  <2>1. UNCHANGED <<pdVars, hwVars>>
    BY <1>8 DEF LaunchAdd
  <2>2. q \in Queues /\ batch[s] \in Nat
    BY <1>0, QueueOf DEF CtlTypes
  <2>3. tasks[q] \in Seq(Sess) /\ tasks[q] \o added \in Seq(Sess)
    BY <1>0, <2>2, AddedTasks, ConcatProperties DEF TqTypes
  <2>4. Plus(cntAll[q], batch[s]) \in Nat
    <3>1. cntAll[q] \in Int /\ batch[s] \in Int
      BY <1>0, <2>2 DEF TqTypes
    <3> QED
      BY <3>1, U32Type
  <2>5. TqTypes'
    BY <1>0, <1>8, <2>2, <2>3, <2>4 DEF LaunchAdd, TqTypes
  <2>6. CASE ~Refused(q)
    <3>1. SessTypes'
      <4>1. /\ launched' = [launched EXCEPT ![s] = @ + batch[s]]
            /\ UNCHANGED <<sState, sErr, unfin, xtasks, waitRet>>
        BY <1>8, <2>6 DEF LaunchAdd
      <4> QED
        BY <1>0, <2>2, <4>1 DEF SessTypes
    <3>2. CtlTypes'
      BY <1>0, <1>8, <2>6, Contexts DEF LaunchAdd, CtlTypes, Goto, Labels
    <3> QED
      BY <1>0, <2>1, <2>5, <3>1, <3>2, Frame DEF TypeOK
  <2>7. CASE Refused(q)
    <3>1. SessTypes'
      BY <1>0, <1>8, <2>2, <2>7 DEF LaunchAdd, SessTypes
    <3>2. CtlTypes'
      BY <1>0, <1>8, <2>7, Contexts DEF LaunchAdd, CtlTypes, Goto, Labels
    <3> QED
      BY <1>0, <2>1, <2>5, <3>1, <3>2, Frame DEF TypeOK
  <2> QED
    BY <2>6, <2>7
<1>9. ASSUME NEW s \in Sess, LaunchCount(s)
      PROVE  TypeOK'
  <2>1. UNCHANGED <<pdVars, tqVars, hwVars>>
    BY <1>9 DEF LaunchCount
  <2>2. SessTypes'
    BY <1>0, <1>9
    DEF LaunchCount, SessTypes, sessVars, CtlTypes
  <2>3. CtlTypes'
    BY <1>0, <1>9, Contexts
    DEF LaunchCount, CtlTypes, ctlVars, Goto, Labels
  <2> QED
    BY <1>0, <2>1, <2>2, <2>3, Frame DEF TypeOK
<1>10. ASSUME NEW s \in Sess, LaunchKick(s)
      PROVE  TypeOK'
  <2>1. UNCHANGED <<pdVars, tqVars, hwVars, sessVars>>
    BY <1>10 DEF LaunchKick
  <2>2. CtlTypes'
    BY <1>0, <1>10, Contexts
    DEF LaunchKick, CtlTypes, ctlVars, Goto, Labels
  <2> QED
    BY <1>0, <2>1, <2>2, Frame DEF TypeOK
<1>11. ASSUME NEW s \in Sess, IoctlWait(s)
      PROVE  TypeOK'
  <2>1. UNCHANGED <<pdVars, tqVars, hwVars>>
    BY <1>11 DEF IoctlWait
  <2>2. SessTypes'
    BY <1>0, <1>11
    DEF IoctlWait, SessTypes, sessVars
  <2>3. CtlTypes'
    BY <1>0, <1>11, Contexts
    DEF IoctlWait, CtlTypes, ctlVars, Goto, Labels
  <2> QED
    BY <1>0, <2>1, <2>2, <2>3, Frame DEF TypeOK
<1>12. ASSUME NEW s \in Sess, WaitReturn(s)
      PROVE  TypeOK'
  <2>1. UNCHANGED <<pdVars, tqVars, hwVars>>
    BY <1>12 DEF WaitReturn
  <2>2. SessTypes'
    BY <1>0, <1>12
    DEF WaitReturn, SessTypes, sessVars, WaitResult
  <2>3. CtlTypes'
    BY <1>0, <1>12, Contexts
    DEF WaitReturn, CtlTypes, ctlVars, Goto, Labels
  <2> QED
    BY <1>0, <2>1, <2>2, <2>3, Frame DEF TypeOK
<1>13. ASSUME NEW s \in Sess, WaitTimeout(s)
      PROVE  TypeOK'
  <2>1. UNCHANGED <<tqVars, hwVars, sessVars>>
    BY <1>13 DEF WaitTimeout
  <2>2. PdTypes'
    BY <1>0, <1>13
    DEF WaitTimeout, PdTypes, pdVars, Fault, ErrorState
  <2>3. CtlTypes'
    BY <1>0, <1>13, Contexts
    DEF WaitTimeout, CtlTypes, ctlVars, Goto, Labels
  <2> QED
    BY <1>0, <2>1, <2>2, <2>3, Frame DEF TypeOK
<1>14. ASSUME NEW s \in Sess, WaitHangup(s)
      PROVE  TypeOK'
  <2>1. UNCHANGED <<pdVars, hwVars>>
    BY <1>14 DEF WaitHangup
  <2>2. TqTypes'
    BY <1>0, <1>14, QueueOf
    DEF WaitHangup, TqTypes, tqVars
  <2>3. SessTypes'
    BY <1>0, <1>14
    DEF WaitHangup, SessTypes, sessVars, MarkError, SessStates
  <2>4. CtlTypes'
    BY <1>0, <1>14, Contexts
    DEF WaitHangup, CtlTypes, ctlVars, Goto, Labels
  <2> QED
    BY <1>0, <2>1, <2>2, <2>3, <2>4, Frame DEF TypeOK
<1>15. ASSUME NEW d \in Ctx, DispatchCapacity(d)
      PROVE  TypeOK'
  <2>1. UNCHANGED <<pdVars, tqVars, hwVars, sessVars>>
    BY <1>15 DEF DispatchCapacity
  <2>2. CtlTypes'
    BY <1>0, <1>15, QueueOf
    DEF DispatchCapacity, CtlTypes, ctlVars, Goto, Labels, TqTypes
  <2> QED
    BY <1>0, <2>1, <2>2, Frame DEF TypeOK
<1>16. ASSUME NEW d \in Ctx, DispatchReload(d)
      PROVE  TypeOK'
  <2>1. UNCHANGED <<pdVars, tqVars, hwVars, sessVars>>
    BY <1>16 DEF DispatchReload
  <2>2. CtlTypes'
    BY <1>0, <1>16, QueueOf
    DEF DispatchReload, CtlTypes, ctlVars, Goto, Labels, TqTypes
  <2> QED
    BY <1>0, <2>1, <2>2, Frame DEF TypeOK
<1>17. ASSUME NEW d \in Ctx, DispatchCompare(d)
      PROVE  TypeOK'
  <2>1. UNCHANGED <<pdVars, tqVars, hwVars, sessVars>>
    BY <1>17 DEF DispatchCompare
  <2>2. CtlTypes'
    BY <1>0, <1>17
    DEF DispatchCompare, CtlTypes, ctlVars, Goto, Labels
  <2> QED
    BY <1>0, <2>1, <2>2, Frame DEF TypeOK
<1>18. ASSUME NEW d \in Ctx, DispatchLock(d)
      PROVE  TypeOK'
  <2>1. UNCHANGED <<pdVars, hwVars, sessVars>>
    BY <1>18 DEF DispatchLock
  <2>2. TqTypes'
    BY <1>0, <1>18, QueueOf
    DEF DispatchLock, TqTypes, tqVars
  <2>3. CtlTypes'
    BY <1>0, <1>18
    DEF DispatchLock, CtlTypes, ctlVars, Goto, Labels
  <2> QED
    BY <1>0, <2>1, <2>2, <2>3, Frame DEF TypeOK
<1>19. ASSUME NEW d \in Ctx, DispatchPush(d)
      PROVE  TypeOK'
  <2> DEFINE q == DispatchTq(d)
             n == DispatchBurst(q)
             l == lastRunning[q]
  <2>1. UNCHANGED <<pdVars, sessVars>>
    BY <1>19 DEF DispatchPush
  <2>0. q \in Queues /\ InBounds(q)
    BY <1>0, <1>19, QueueOf, Contexts DEF CtlTypes, LockedInBounds, DispatchPush
  <2>2. q \in Queues /\ n \in Nat /\ l \in Nat
    BY <1>0, <2>0, BurstBounds DEF TqTypes
  <2>3. Plus(cntRunning[q], n) \in Nat
    BY <1>0, <2>2, U32Type DEF TqTypes
  <2>4. TqTypes'
    BY <1>0, <1>19, <2>2, <2>3 DEF DispatchPush, TqTypes
  <2>5. hwFifo[q] \o SubSeq(tasks[q], l + 1, l + n) \in Seq(Sess)
    BY <1>0, <2>0, <2>2, PushedTasks, ConcatProperties DEF HwTypes
  <2>6. HwTypes'
    BY <1>0, <1>19, <2>2, <2>5 DEF DispatchPush, HwTypes
  <2>7. CtlTypes'
    BY <1>0, <1>19 DEF DispatchPush, CtlTypes, Goto, Labels
  <2> QED
    BY <1>0, <2>1, <2>4, <2>6, <2>7, Frame DEF TypeOK
<1>20. ASSUME NEW q \in Queues, TaskletRun(q)
      PROVE  TypeOK'
  <2>1. UNCHANGED <<pdVars, tqVars, hwVars, sessVars>>
    BY <1>20 DEF TaskletRun
  <2>2. CtlTypes'
    BY <1>0, <1>20, Contexts
    DEF TaskletRun, CtlTypes, ctlVars, Goto, Labels
  <2> QED
    BY <1>0, <2>1, <2>2, Frame DEF TypeOK
<1>21. ASSUME NEW q \in Queues, HwComplete(q)
      PROVE  TypeOK'
  <2>1. UNCHANGED <<pdVars, tqVars, sessVars, ctlVars>>
    BY <1>21 DEF HwComplete
  <2>2. HwTypes'
    BY <1>0, <1>21, HeadTailProperties
    DEF HwComplete, HwTypes, hwVars
  <2> QED
    BY <1>0, <2>1, <2>2, Frame DEF TypeOK
<1>22. ASSUME NEW q \in Queues, IsrReadCount(q)
      PROVE  TypeOK'
  <2>1. UNCHANGED <<pdVars, tqVars, sessVars>>
    BY <1>22 DEF IsrReadCount
  <2>2. HwTypes'
    BY <1>0, <1>22
    DEF IsrReadCount, HwTypes, hwVars
  <2>3. CtlTypes'
    BY <1>0, <1>22, Contexts
    DEF IsrReadCount, CtlTypes, ctlVars, Goto, Labels, HwTypes
  <2> QED
    BY <1>0, <2>1, <2>2, <2>3, Frame DEF TypeOK
<1>23. ASSUME IsrFinish
      PROVE  TypeOK'
  <2>1. UNCHANGED <<hwVars>>
    BY <1>23 DEF IsrFinish
  <2>2. PdTypes'
    BY <1>0, <1>23
    DEF IsrFinish, PdTypes, pdVars, NoteDrained, PausedState, CtlTypes
  <2>3. TqTypes'
    <3> DEFINE q == isrQ
               n == FinishBurst(q)
    <3>1. q \in Queues /\ n \in Nat /\ n <= Len(tasks[q])
      BY <1>0, FinishType DEF CtlTypes
    <3>2. SubSeq(tasks[q], n + 1, Len(tasks[q])) \in Seq(Sess)
      BY <1>0, <3>1, SubSeqType
    <3>3. cntRunning[q] \in Int /\ cntAll[q] \in Int /\ n \in Int
      BY <1>0, <3>1 DEF TqTypes
    <3>4. Minus(cntRunning[q], n) \in Nat /\ Minus(cntAll[q], n) \in Nat
      BY <3>3, U32Type
    <3>5. LastRunningAfter(q, n) \in Nat
      BY <1>0, <3>1, LastRunningType
    <3>6. UNCHANGED <<tqState, tqLock>>
      BY <1>23 DEF IsrFinish
    <3>7. CASE inReset
      BY <1>0, <1>23, <3>6, <3>7 DEF IsrFinish, TqTypes
    <3>8. CASE ~inReset
      <4>1. /\ tasks' = [tasks EXCEPT ![q] = SubSeq(@, n + 1, Len(@))]
            /\ cntRunning' = [cntRunning EXCEPT ![q] = Minus(@, n)]
            /\ cntAll' = [cntAll EXCEPT ![q] = Minus(@, n)]
            /\ lastRunning' = [lastRunning EXCEPT ![q] = LastRunningAfter(q, n)]
        BY <1>23, <3>8 DEF IsrFinish
      <4> QED
        BY <1>0, <3>1, <3>2, <3>4, <3>5, <3>6, <4>1 DEF TqTypes
    <3> QED
      BY <3>7, <3>8
  <2>4. SessTypes'
    <3>1. UNCHANGED <<sState, sErr, launched, waitRet>>
      BY <1>23 DEF IsrFinish
    <3>2. CASE inReset
      BY <1>0, <1>23, <3>1, <3>2 DEF IsrFinish, SessTypes
    <3>3. CASE ~inReset
      <4>1. PICK n \in Nat : n = FinishBurst(isrQ)
        BY FinishType
      <4>2. /\ unfin' = [z \in Sess |-> unfin[z] - Retired(isrQ, n, z)]
            /\ xtasks' = [z \in Sess |-> xtasks[z] - Retired(isrQ, n, z)]
        BY <1>23, <3>3, <4>1 DEF IsrFinish
      <4> QED
        BY <1>0, <3>1, <4>2, RetiredType DEF SessTypes
    <3> QED
      BY <3>2, <3>3
  <2>5. CtlTypes'
    BY <1>0, <1>23, Contexts
    DEF IsrFinish, CtlTypes, ctlVars, Goto, Labels
  <2> QED
    BY <1>0, <2>1, <2>2, <2>3, <2>4, <2>5, Frame DEF TypeOK
<1>24. ASSUME IsrAfter
      PROVE  TypeOK'
  <2>1. UNCHANGED <<pdVars, tqVars, hwVars, sessVars>>
    BY <1>24 DEF IsrAfter
  <2>2. CtlTypes'
    BY <1>0, <1>24, Contexts
    DEF IsrAfter, CtlTypes, ctlVars, Goto, Labels
  <2> QED
    BY <1>0, <2>1, <2>2, Frame DEF TypeOK
<1>25. ASSUME IsrPause
      PROVE  TypeOK'
  <2>1. UNCHANGED <<tqVars, hwVars, sessVars>>
    BY <1>25 DEF IsrPause
  <2>2. PdTypes'
    BY <1>0, <1>25
    DEF IsrPause, PdTypes, pdVars
  <2>3. CtlTypes'
    BY <1>0, <1>25, Contexts, ZeroQueue
    DEF IsrPause, CtlTypes, ctlVars, Goto, Labels
  <2> QED
    BY <1>0, <2>1, <2>2, <2>3, Frame DEF TypeOK
<1>26. ASSUME IsrDrain
      PROVE  TypeOK'
  <2>1. UNCHANGED <<tqVars, hwVars, sessVars>>
    BY <1>26 DEF IsrDrain
  <2>2. PdTypes'
    BY <1>0, <1>26
    DEF IsrDrain, PdTypes, pdVars, CtlTypes
  <2>3. CtlTypes'
    BY <1>0, <1>26, Contexts, ZeroQueue
    DEF IsrDrain, CtlTypes, ctlVars, Goto, Labels
  <2> QED
    BY <1>0, <2>1, <2>2, <2>3, Frame DEF TypeOK
<1>27. ASSUME IsrPaused
      PROVE  TypeOK'
  <2>1. UNCHANGED <<tqVars, hwVars, sessVars>>
    BY <1>27 DEF IsrPaused
  <2>2. PdTypes'
    BY <1>0, <1>27
    DEF IsrPaused, PdTypes, pdVars, PausedState
  <2>3. CtlTypes'
    BY <1>0, <1>27, Contexts
    DEF IsrPaused, CtlTypes, ctlVars, Goto, Labels
  <2> QED
    BY <1>0, <2>1, <2>2, <2>3, Frame DEF TypeOK
<1>28. ASSUME IsrResume
      PROVE  TypeOK'
  <2>1. UNCHANGED <<tqVars, hwVars, sessVars>>
    BY <1>28 DEF IsrResume
  <2>2. PdTypes'
    BY <1>0, <1>28
    DEF IsrResume, PdTypes, pdVars
  <2>3. CtlTypes'
    BY <1>0, <1>28
    DEF IsrResume, CtlTypes, ctlVars
  <2> QED
    BY <1>0, <2>1, <2>2, <2>3, Frame DEF TypeOK
<1>29. ASSUME IsrException
      PROVE  TypeOK'
  <2>1. UNCHANGED <<tqVars, hwVars, sessVars>>
    BY <1>29 DEF IsrException
  <2>2. PdTypes'
    BY <1>0, <1>29
    DEF IsrException, PdTypes, pdVars, Fault, ErrorState
  <2>3. CtlTypes'
    BY <1>0, <1>29, Contexts, ZeroQueue
    DEF IsrException, CtlTypes, ctlVars, Goto, Labels
  <2> QED
    BY <1>0, <2>1, <2>2, <2>3, Frame DEF TypeOK
<1>30. ASSUME IsrHang
      PROVE  TypeOK'
  <2>1. UNCHANGED <<pdVars, hwVars>>
    BY <1>30 DEF IsrHang
  <2>2. TqTypes'
    BY <1>0, <1>30
    DEF IsrHang, TqTypes, tqVars
  <2>3. SessTypes'
    BY <1>0, <1>30
    DEF IsrHang, SessTypes, sessVars, MarkError, SessStates
  <2>4. CtlTypes'
    BY <1>0, <1>30, Contexts, ZeroQueue
    DEF IsrHang, CtlTypes, ctlVars, Goto, Labels
  <2> QED
    BY <1>0, <2>1, <2>2, <2>3, <2>4, Frame DEF TypeOK
<1>31. ASSUME DeviceError
      PROVE  TypeOK'
  <2>1. UNCHANGED <<tqVars, hwVars, sessVars, ctlVars>>
    BY <1>31 DEF DeviceError
  <2>2. PdTypes'
    BY <1>0, <1>31
    DEF DeviceError, PdTypes, pdVars, Fault, ErrorState
  <2> QED
    BY <1>0, <2>1, <2>2, Frame DEF TypeOK
<1>32. CASE UNCHANGED vars
  BY <1>0, <1>32, Frame DEF vars, TypeOK
<1> QED
  BY <1>1, <1>2, <1>3, <1>4, <1>5, <1>6, <1>7, <1>8, <1>9, <1>10, <1>11, <1>12, <1>13, <1>14, <1>15, <1>16, <1>17, <1>18, <1>19, <1>20, <1>21, <1>22, <1>23, <1>24, <1>25, <1>26, <1>27, <1>28, <1>29, <1>30, <1>31, <1>32
  DEF Next, UserCall, LaunchStep, WaitStep, Dispatch, Reaper, Interrupt, IsrStep


-----------------------------------------------------------------------------
(* A context that is not at "finish" and does not go there. *)
LEMMA GotoFrame ==
  ASSUME pc \in [Ctx -> Labels], NEW d \in Ctx, NEW l, Goto(d, l),
         pc[d] # "finish", l # "finish"
  PROVE  pc'[ISR] = "finish" <=> pc[ISR] = "finish"
BY Contexts DEF Goto

LEMMA ThreadFrame ==
  ASSUME pc \in [Ctx -> Labels], NEW s \in Sess, NEW l, Goto(Thread(s), l)
  PROVE  pc'[ISR] = pc[ISR]
BY Contexts DEF Goto

(* Steps that leave the lists, their counts, the hardware and the handler's *)
(* count alone.                                                            *)
Still ==
  /\ UNCHANGED <<tasks, cntRunning, cntAll, lastRunning, launched, hwVars, isrCnt>>
  /\ pc'[ISR] = "finish" <=> pc[ISR] = "finish"
  /\ pc[ISR] = "finish" => UNCHANGED isrQ

(* The dispatcher's steps change no list and leave the handler's label. *)
LEMMA DispatchStill ==
  ASSUME TypeOK, NEW d \in Ctx,
         DispatchCapacity(d) \/ DispatchReload(d) \/ DispatchCompare(d) \/ DispatchLock(d)
  PROVE  Still /\ UNCHANGED sessVars /\ UNCHANGED batch
<1> USE Contexts DEF hwVars, tqVars, ctlVars, sessVars
<1>0. pc \in [Ctx -> Labels]
  BY DEF TypeOK, CtlTypes
<1>1. CASE DispatchCapacity(d)
  BY <1>0, <1>1, GotoFrame DEF DispatchCapacity, Still
<1>2. CASE DispatchReload(d)
  BY <1>0, <1>2, GotoFrame DEF DispatchReload, Still
<1>3. CASE DispatchCompare(d)
  <2>1. PICK l \in {"idle", "lock"} : Goto(d, l)
    BY <1>3 DEF DispatchCompare
  <2> QED
    BY <1>0, <1>3, <2>1, GotoFrame DEF DispatchCompare, Still
<1>4. CASE DispatchLock(d)
  BY <1>0, <1>4, GotoFrame DEF DispatchLock, Still
<1> QED
  BY <1>1, <1>2, <1>3, <1>4

(* A thread's own steps, those of a launch aside. *)
LEMMA ThreadStill ==
  ASSUME TypeOK, NEW s \in Sess, UserCall(s) \/ LaunchCount(s) \/ LaunchKick(s) \/ WaitStep(s)
  PROVE  Still
<1> USE DEF hwVars, tqVars, ctlVars, sessVars
<1>0. pc \in [Ctx -> Labels]
  BY DEF TypeOK, CtlTypes
<1>1. CASE Open(s) \/ Close(s)
  BY <1>1 DEF Open, Close, Still
<1>2. ASSUME NEW n, NEW l, LaunchEnter(s, n, l) PROVE Still
  BY <1>0, <1>2, ThreadFrame DEF LaunchEnter, Still
<1>3. CASE IoctlLaunch(s) \/ IoctlProfLaunch(s) \/ \E n \in 1 .. MaxBatch : IoctlBatchLaunch(s, n)
  BY <1>2, <1>3 DEF IoctlLaunch, IoctlProfLaunch, IoctlBatchLaunch
<1>4. CASE IoctlWait(s)
  BY <1>0, <1>4, ThreadFrame DEF IoctlWait, Still
<1>5. CASE LaunchCount(s)
  BY <1>0, <1>5, ThreadFrame DEF LaunchCount, Still
<1>6. CASE LaunchKick(s)
  BY <1>0, <1>6, ThreadFrame DEF LaunchKick, Still
<1>7. CASE WaitReturn(s)
  BY <1>0, <1>7, ThreadFrame DEF WaitReturn, Still
<1>8. CASE WaitTimeout(s)
  BY <1>0, <1>8, ThreadFrame DEF WaitTimeout, Still
<1>9. CASE WaitHangup(s)
  BY <1>0, <1>9, ThreadFrame DEF WaitHangup, Still
<1> QED
  BY <1>1, <1>3, <1>4, <1>5, <1>6, <1>7, <1>8, <1>9 DEF UserCall, WaitStep

(* The handler's other steps, the softirq, the timer, an error. *)
LEMMA OtherStill ==
  ASSUME TypeOK,
         \/ \E q \in Queues : TaskletRun(q)
         \/ Reaper \/ IsrPause \/ IsrResume \/ IsrException \/ DeviceError
         \/ IsrAfter \/ IsrDrain \/ IsrPaused \/ IsrHang
  PROVE  Still
<1> USE Contexts DEF hwVars, tqVars, ctlVars, sessVars
<1>0. pc \in [Ctx -> Labels]
  BY DEF TypeOK, CtlTypes
<1>1. CASE \E q \in Queues : TaskletRun(q)
  BY <1>0, <1>1, GotoFrame DEF TaskletRun, Still
<1>2. CASE Reaper
  BY <1>2 DEF Reaper, ReapDetach, ReapFree, Still
<1>3. CASE IsrPause
  BY <1>0, <1>3, GotoFrame DEF IsrPause, Still
<1>4. CASE IsrResume
  BY <1>4 DEF IsrResume, Still
<1>5. CASE IsrException
  BY <1>0, <1>5, GotoFrame DEF IsrException, Still
<1>6. CASE DeviceError
  BY <1>6 DEF DeviceError, Still
<1>7. CASE IsrAfter
  <2>1. PICK l \in {"capacity", "idle"} : Goto(ISR, l)
    BY <1>7 DEF IsrAfter
  <2> QED
    BY <1>0, <1>7, <2>1, GotoFrame DEF IsrAfter, Still
<1>8. CASE IsrDrain
  BY <1>0, <1>8, GotoFrame DEF IsrDrain, Still
<1>9. CASE IsrPaused
  BY <1>0, <1>9, GotoFrame DEF IsrPaused, Still
<1>10. CASE IsrHang
  BY <1>0, <1>10, GotoFrame DEF IsrHang, Still
<1> QED
  BY <1>1, <1>2, <1>3, <1>4, <1>5, <1>6, <1>7, <1>8, <1>9, <1>10

(* The five steps that touch a list, the hardware or the count. *)
LEMMA StillOrNot ==
  ASSUME TypeOK, [Next]_vars
  PROVE  \/ Still
         \/ \E s \in Sess : LaunchAdd(s)
         \/ \E d \in Ctx : DispatchPush(d)
         \/ \E q \in Queues : HwComplete(q) \/ IsrReadCount(q)
         \/ IsrFinish
<1>1. CASE UNCHANGED vars
  BY <1>1 DEF vars, tqVars, hwVars, sessVars, ctlVars, Still
<1> QED
  BY <1>1, DispatchStill, ThreadStill, OtherStill
  DEF Next, LaunchStep, Dispatch, Interrupt, IsrStep

-----------------------------------------------------------------------------
(* What a launch appends, in terms of the list. *)
LEMMA LaunchAppends ==
  ASSUME TypeOK, NEW s \in Sess, LaunchAdd(s)
  PROVE  /\ TqOf(s) \in Queues /\ batch[s] \in Nat
         /\ UNCHANGED <<hwFifo, intrCnt, isrCnt, isrQ>> /\ pc'[ISR] = pc[ISR]
         /\ tasks \in [Queues -> Seq(Sess)] /\ tasks' \in [Queues -> Seq(Sess)]
         /\ \A q \in Queues : q # TqOf(s) => tasks'[q] = tasks[q]
         /\ \/ Goto(Thread(s), "idle") /\ UNCHANGED tasks
            \/ /\ Goto(Thread(s), "count") /\ UNCHANGED batch
               /\ Len(tasks'[TqOf(s)]) = Len(tasks[TqOf(s)]) + batch[s]
               /\ \A i \in 1 .. Len(tasks[TqOf(s)]) : tasks'[TqOf(s)][i] = tasks[TqOf(s)][i]
               /\ \A i \in 1 .. Len(tasks'[TqOf(s)]) :
                    i > Len(tasks[TqOf(s)]) => tasks'[TqOf(s)][i] = s
<1> DEFINE q == TqOf(s)
           n == batch[s]
           new == [i \in 1 .. n |-> s]
<1>0. pc \in [Ctx -> Labels] /\ tasks \in [Queues -> Seq(Sess)] /\ n \in Nat
  BY DEF TypeOK, CtlTypes, TqTypes
<1>1. q \in Queues
  BY QueueOf
<1>2. UNCHANGED <<hwFifo, intrCnt, isrCnt, isrQ>>
  BY DEF LaunchAdd, hwVars
<1>3. pc'[ISR] = pc[ISR]
  BY <1>0, ThreadFrame DEF LaunchAdd
<1>4. CASE UNCHANGED tasks /\ Goto(Thread(s), "idle")
  BY <1>0, <1>1, <1>2, <1>3, <1>4
<1>5. CASE /\ tasks' = [tasks EXCEPT ![q] = @ \o new]
           /\ Goto(Thread(s), "count") /\ UNCHANGED batch
  <2>1. new \in Seq(Sess) /\ Len(new) = n /\ \A i \in 1 .. n : new[i] = s
    BY <1>0, AddedTasks
  <2>2. tasks[q] \in Seq(Sess) /\ Len(tasks[q]) \in Nat
    BY <1>0, <1>1
  <2>3. tasks'[q] = tasks[q] \o new /\ \A r \in Queues : r # q => tasks'[r] = tasks[r]
    BY <1>0, <1>1, <1>5
  <2> HIDE DEF new
  <2>4. /\ tasks[q] \o new \in Seq(Sess)
        /\ Len(tasks[q] \o new) = Len(tasks[q]) + n
        /\ \A i \in 1 .. Len(tasks[q]) + n : (tasks[q] \o new)[i] =
             IF i <= Len(tasks[q]) THEN tasks[q][i] ELSE new[i - Len(tasks[q])]
    <3>1. /\ tasks[q] \o new \in Seq(Sess)
          /\ Len(tasks[q] \o new) = Len(tasks[q]) + Len(new)
          /\ \A i \in 1 .. Len(tasks[q]) + Len(new) : (tasks[q] \o new)[i] =
               IF i <= Len(tasks[q]) THEN tasks[q][i] ELSE new[i - Len(tasks[q])]
      BY <2>1, <2>2, ConcatProperties
    <3> QED
      BY <2>1, <3>1
  <2>5. /\ \A i \in 1 .. Len(tasks[q]) : tasks'[q][i] = tasks[q][i]
        /\ \A i \in 1 .. Len(tasks[q]) + n : i > Len(tasks[q]) => tasks'[q][i] = s
    BY <1>0, <2>1, <2>2, <2>3, <2>4
  <2>6. tasks' \in [Queues -> Seq(Sess)]
    BY <1>0, <1>5, <2>2, <2>3, <2>4
  <2> QED
    BY <1>0, <1>1, <1>2, <1>3, <1>5, <2>3, <2>4, <2>5, <2>6
<1> QED
  BY <1>4, <1>5 DEF LaunchAdd

(* What the handler takes off, in terms of the list. *)
LEMMA FinishDrops ==
  ASSUME Running, IsrFinish
  PROVE  /\ isrQ \in Queues /\ isrCnt \in Nat /\ isrCnt <= Len(tasks[isrQ])
         /\ FinishBurst(isrQ) = isrCnt /\ HeldByIsr(isrQ) = isrCnt
         /\ \A q \in Queues : HeldByIsr(q)' = 0 /\ (q # isrQ => HeldByIsr(q) = 0)
         /\ UNCHANGED <<hwFifo, intrCnt>>
         /\ tasks \in [Queues -> Seq(Sess)] /\ tasks' \in [Queues -> Seq(Sess)]
         /\ \A q \in Queues : q # isrQ => tasks'[q] = tasks[q]
         /\ Len(tasks'[isrQ]) = Len(tasks[isrQ]) - isrCnt
         /\ \A i \in 1 .. Len(tasks'[isrQ]) : tasks'[isrQ][i] = tasks[isrQ][isrCnt + i]
<1> DEFINE q == isrQ
           n == isrCnt
           len == Len(tasks[q])
<1>0. /\ pc \in [Ctx -> Labels] /\ tasks \in [Queues -> Seq(Sess)]
      /\ q \in Queues /\ n \in Nat /\ len \in Nat /\ ~inReset
  BY DEF Running, TypeOK, CtlTypes, TqTypes
<1>1. pc[ISR] = "finish"
  BY DEF IsrFinish
<1>2. FinishBurst(q) = n /\ n <= len
  BY <1>1, FinishBounds
<1>3. /\ tasks' = [tasks EXCEPT ![q] = SubSeq(@, n + 1, Len(@))]
      /\ Goto(ISR, "after") /\ UNCHANGED <<hwFifo, intrCnt>>
  BY <1>0, <1>2 DEF IsrFinish, hwVars
<1>4. pc'[ISR] # "finish"
  BY <1>0, <1>3, Contexts DEF Goto
<1>5. tasks'[q] = SubSeq(tasks[q], n + 1, len) /\ \A r \in Queues : r # q => tasks'[r] = tasks[r]
  BY <1>0, <1>3
<1>6. /\ SubSeq(tasks[q], n + 1, len) \in Seq(Sess)
      /\ Len(SubSeq(tasks[q], n + 1, len)) = len - n
      /\ \A i \in 1 .. len - n : SubSeq(tasks[q], n + 1, len)[i] = tasks[q][n + i]
  <2>1. tasks[q] \in Seq(Sess) /\ n + 1 \in Int /\ len \in Int
    BY <1>0
  <2>2. \A i \in n + 1 .. len : tasks[q][i] \in Sess
    BY <2>1, <1>0, ElementOfSeq
  <2>3. /\ SubSeq(tasks[q], n + 1, len) \in Seq(Sess)
        /\ Len(SubSeq(tasks[q], n + 1, len)) = IF n + 1 <= len THEN len - (n + 1) + 1 ELSE 0
        /\ \A i \in 1 .. len - (n + 1) + 1 :
             SubSeq(tasks[q], n + 1, len)[i] = tasks[q][(n + 1) + i - 1]
    BY <2>1, <2>2, SubSeqProperties
  <2> HIDE DEF len
  <2>4. len - (n + 1) + 1 = len - n /\ \A i \in 1 .. len - n : (n + 1) + i - 1 = n + i
    BY <1>0
  <2> QED
    BY <1>0, <1>2, <2>3, <2>4
<1>7. tasks' \in [Queues -> Seq(Sess)]
  BY <1>0, <1>3, <1>6
<1> QED
  BY <1>0, <1>1, <1>2, <1>3, <1>4, <1>5, <1>6, <1>7 DEF HeldByIsr
-----------------------------------------------------------------------------
(* What a dispatcher moves. *)
LEMMA PushMoves ==
  ASSUME TypeOK, LockedInBounds, NEW d \in Ctx, DispatchPush(d), NEW q, q = DispatchTq(d)
  PROVE  /\ q \in Queues /\ InBounds(q)
         /\ DispatchBurst(q) \in Nat
         /\ cntRunning'[q] = cntRunning[q] + DispatchBurst(q)
         /\ lastRunning'[q] = lastRunning[q] + DispatchBurst(q)
         /\ lastRunning[q] + DispatchBurst(q) <= Len(tasks[q])
         /\ cntRunning[q] + DispatchBurst(q) <= Capacity
         /\ Len(hwFifo'[q]) = Len(hwFifo[q]) + DispatchBurst(q)
         /\ \A r \in Queues : r # q => /\ cntRunning'[r] = cntRunning[r]
                                       /\ lastRunning'[r] = lastRunning[r]
                                       /\ hwFifo'[r] = hwFifo[r]
         /\ UNCHANGED <<tasks, cntAll, intrCnt, completed, launched, isrQ, isrCnt>>
         /\ tqLock[q] = d /\ tqLock' = [tqLock EXCEPT ![q] = Nobody]
         /\ pc'[ISR] = "finish" <=> pc[ISR] = "finish"
<1>0. /\ pc \in [Ctx -> Labels] /\ cntRunning \in [Queues -> Nat] /\ lastRunning \in [Queues -> Nat]
      /\ hwFifo \in [Queues -> Seq(Sess)] /\ isrQ \in Queues /\ TqTypes
  BY DEF TypeOK, CtlTypes, TqTypes, HwTypes
<1>1. q \in Queues /\ InBounds(q)
  BY <1>0, QueueOf, Contexts DEF LockedInBounds, DispatchPush
<1>2. PICK n \in Nat, l \in Nat : n = DispatchBurst(q) /\ l = lastRunning[q]
  BY <1>0, <1>1, BurstBounds
<1>3. PICK pushed : pushed = SubSeq(tasks[q], l + 1, l + n)
  OBVIOUS
<1>4. /\ cntRunning' = [cntRunning EXCEPT ![q] = Plus(@, n)]
      /\ lastRunning' = [lastRunning EXCEPT ![q] = l + n]
      /\ hwFifo' = [hwFifo EXCEPT ![q] = @ \o pushed]
      /\ tqLock[q] = d /\ tqLock' = [tqLock EXCEPT ![q] = Nobody]
      /\ UNCHANGED <<tasks, cntAll, intrCnt, completed, launched, isrQ, isrCnt>>
      /\ pc[d] = "push" /\ Goto(d, "idle")
  BY <1>2, <1>3 DEF DispatchPush, sessVars
<1>5. l + n <= Len(tasks[q]) /\ cntRunning[q] + n <= Capacity
  BY <1>1, <1>2, BurstBounds
<1>6. Plus(cntRunning[q], n) = cntRunning[q] + n
  BY <1>0, <1>1, <1>5, NoWrap, ConstAssumption
<1>7. pushed \in Seq(Sess) /\ Len(pushed) = n
  <2>1. PICK a \in Nat \ {0}, b \in Nat : a = l + 1 /\ b = l + n
    BY <1>2
  <2>2. /\ SubSeq(tasks[q], a, b) \in Seq(Sess)
        /\ Len(SubSeq(tasks[q], a, b)) = IF a <= b THEN b - a + 1 ELSE 0
    BY <1>0, <1>1, <1>5, <2>1, SubSeqType
  <2>3. pushed = SubSeq(tasks[q], a, b)
    BY <1>3, <2>1
  <2>4. (IF a <= b THEN b - a + 1 ELSE 0) = n
    BY <1>2, <2>1
  <2> QED
    BY <2>2, <2>3, <2>4
<1>8. Len(hwFifo[q] \o pushed) = Len(hwFifo[q]) + n
  <2>1. hwFifo[q] \in Seq(Sess)
    BY <1>0, <1>1
  <2>2. Len(hwFifo[q] \o pushed) = Len(hwFifo[q]) + Len(pushed)
    BY <1>7, <2>1, ConcatProperties
  <2> QED
    BY <1>7, <2>2
<1>9. pc'[ISR] = "finish" <=> pc[ISR] = "finish"
  BY <1>0, <1>4, GotoFrame
<1> QED
  BY <1>0, <1>1, <1>2, <1>4, <1>5, <1>6, <1>8, <1>9

(* A queue's counts stay in bounds, in a reset as well: there the handler  *)
(* takes nothing off.                                                      *)
LEMMA BoundsStep ==
  ASSUME TypeOK, LockedInBounds, inReset \/ Running, NEW q \in Queues, InBounds(q), [Next]_vars
  PROVE  InBounds(q)'
<1>0. /\ tasks[q] \in Seq(Sess) /\ Len(tasks[q]) \in Nat
      /\ cntRunning \in [Queues -> Nat] /\ lastRunning \in [Queues -> Nat] /\ isrQ \in Queues
  BY DEF TypeOK, TqTypes, CtlTypes
<1>1. CASE Still
  BY <1>1 DEF Still, InBounds
<1>2. ASSUME NEW s \in Sess, LaunchAdd(s) PROVE InBounds(q)'
  <2>1. UNCHANGED <<cntRunning, lastRunning>>
    BY <1>2 DEF LaunchAdd
  <2>2. Len(tasks'[q]) >= Len(tasks[q])
    <3>1. CASE tasks'[q] = tasks[q]
      BY <1>0, <3>1
    <3>2. CASE tasks'[q] # tasks[q]
      <4>1. q = TqOf(s) /\ batch[s] \in Nat /\ Len(tasks'[q]) = Len(tasks[q]) + batch[s]
        BY <1>2, <3>2, LaunchAppends
      <4> QED
        BY <1>0, <4>1
    <3> QED
      BY <3>1, <3>2
  <2>3. PICK a \in Nat, b \in Nat : a = lastRunning[q] /\ b = Len(tasks[q])
    BY <1>0
  <2>4. Len(tasks'[q]) \in Nat
    BY <1>2, LaunchAppends, LenProperties
  <2> QED
    BY <2>1, <2>2, <2>3, <2>4 DEF InBounds
<1>3. ASSUME NEW d \in Ctx, DispatchPush(d) PROVE InBounds(q)'
  <2>1. PICK r : r = DispatchTq(d)
    OBVIOUS
  <2> QED
    BY <1>0, <1>3, <2>1, PushMoves DEF InBounds
<1>4. ASSUME NEW r \in Queues, HwComplete(r) \/ IsrReadCount(r) PROVE InBounds(q)'
  BY <1>4 DEF HwComplete, IsrReadCount, tqVars, InBounds
<1>5. CASE IsrFinish
  <2>1. CASE inReset
    BY <1>5, <2>1 DEF IsrFinish, InBounds
  <2>2. CASE ~inReset
    <3>1. PICK n \in Nat : n = isrCnt /\ FinishBurst(isrQ) = n
      BY <1>5, <2>2, FinishDrops
    <3>2. n <= cntRunning[isrQ]
      BY <1>5, <2>2, <3>1, FinishBounds DEF IsrFinish
    <3>3. /\ cntRunning' = [cntRunning EXCEPT ![isrQ] = Minus(@, n)]
          /\ lastRunning' = [lastRunning EXCEPT ![isrQ] = LastRunningAfter(isrQ, n)]
      BY <1>5, <2>2, <3>1 DEF IsrFinish
    <3>4. CASE q = isrQ
      <4>1. Len(tasks'[q]) = Len(tasks[q]) - n
        BY <1>5, <2>2, <3>1, <3>4, FinishDrops
      <4>2. Minus(cntRunning[q], n) = cntRunning[q] - n
        BY <1>0, <3>2, <3>4, NoWrap, ConstAssumption DEF InBounds
      <4>3. LastRunningAfter(q, n) = cntRunning[q] - n
        BY <1>0, <3>2, <3>4 DEF LastRunningAfter, InBounds
      <4> QED
        <5>1. PICK c \in Nat, len \in Nat : c = cntRunning[q] /\ len = Len(tasks[q])
          BY <1>0
        <5>2. cntRunning'[q] = c - n /\ lastRunning'[q] = c - n /\ Len(tasks'[q]) = len - n
          BY <1>0, <3>3, <3>4, <4>1, <4>2, <4>3, <5>1
        <5>3. c <= len /\ c <= Capacity /\ n <= c
          BY <3>2, <3>4, <5>1 DEF InBounds
        <5> QED
          BY <5>1, <5>2, <5>3, ConstAssumption DEF InBounds
    <3>5. CASE q # isrQ
      BY <1>0, <1>5, <2>2, <3>3, <3>5, FinishDrops DEF InBounds
    <3> QED
      BY <3>4, <3>5
  <2> QED
    BY <2>1, <2>2
<1> QED
  BY <1>1, <1>2, <1>3, <1>4, <1>5, StillOrNot

(* cnt_running stays the number of tasks between the list and the handler. *)
LEMMA HardwareStep ==
  ASSUME Running, [Next]_vars
  PROVE  HardwareCount'
<1>0. /\ TypeOK /\ LockedInBounds /\ HardwareCount /\ ~inReset
      /\ pc \in [Ctx -> Labels] /\ cntRunning \in [Queues -> Nat] /\ isrCnt \in Nat /\ isrQ \in Queues
      /\ hwFifo \in [Queues -> Seq(Sess)] /\ intrCnt \in [Queues -> Nat]
  BY DEF Running, LockedInBounds, TypeOK, TqTypes, HwTypes, CtlTypes
<1>1. \A r \in Queues : /\ cntRunning[r] = HeldByIsr(r) + intrCnt[r] + Len(hwFifo[r])
                        /\ HeldByIsr(r) \in Nat /\ intrCnt[r] \in Nat /\ Len(hwFifo[r]) \in Nat
  BY <1>0 DEF HardwareCount, HeldByIsr
<1>2. CASE Still
  BY <1>0, <1>2 DEF Still, HardwareCount, HeldByIsr, hwVars
<1>3. ASSUME NEW s \in Sess, LaunchAdd(s) PROVE HardwareCount'
  <2>1. UNCHANGED <<cntRunning, hwFifo, intrCnt, isrCnt, isrQ>> /\ pc'[ISR] = pc[ISR]
    BY <1>0, <1>3, LaunchAppends DEF LaunchAdd
  <2> QED
    BY <1>0, <2>1 DEF HardwareCount, HeldByIsr
<1>4. ASSUME NEW d \in Ctx, DispatchPush(d) PROVE HardwareCount'
  <2>1. PICK q : q = DispatchTq(d)
    OBVIOUS
  <2>2. \A r \in Queues : HeldByIsr(r)' = HeldByIsr(r) /\ intrCnt'[r] = intrCnt[r]
    BY <1>0, <1>4, <2>1, PushMoves DEF HeldByIsr
  <2>3. PICK n \in Nat : cntRunning'[q] = cntRunning[q] + n /\ Len(hwFifo'[q]) = Len(hwFifo[q]) + n
    <3>1. /\ DispatchBurst(q) \in Nat
          /\ cntRunning'[q] = cntRunning[q] + DispatchBurst(q)
          /\ Len(hwFifo'[q]) = Len(hwFifo[q]) + DispatchBurst(q)
      BY <1>0, <1>4, <2>1, PushMoves
    <3> QED
      BY <3>1
  <2>4. \A r \in Queues : r # q => cntRunning'[r] = cntRunning[r] /\ hwFifo'[r] = hwFifo[r]
    BY <1>0, <1>4, <2>1, PushMoves
  <2> SUFFICES ASSUME NEW r \in Queues
               PROVE  cntRunning'[r] = HeldByIsr(r)' + intrCnt'[r] + Len(hwFifo'[r])
    BY DEF HardwareCount
  <2>5. CASE r = q
    BY <1>1, <2>2, <2>3, <2>5
  <2>6. CASE r # q
    BY <1>1, <2>2, <2>4, <2>6
  <2> QED
    BY <2>5, <2>6
<1>5. ASSUME NEW q \in Queues, HwComplete(q) PROVE HardwareCount'
  <2>1. /\ hwFifo[q] # <<>>
        /\ hwFifo' = [hwFifo EXCEPT ![q] = Tail(@)]
        /\ intrCnt' = [intrCnt EXCEPT ![q] = @ + 1]
        /\ UNCHANGED <<cntRunning, pc, isrQ, isrCnt>>
    BY <1>5 DEF HwComplete, tqVars, ctlVars
  <2>2. Len(Tail(hwFifo[q])) = Len(hwFifo[q]) - 1
    BY <1>0, <2>1, HeadTailProperties
  <2> SUFFICES ASSUME NEW r \in Queues
               PROVE  cntRunning'[r] = HeldByIsr(r)' + intrCnt'[r] + Len(hwFifo'[r])
    BY DEF HardwareCount
  <2>3. HeldByIsr(r)' = HeldByIsr(r)
    BY <2>1 DEF HeldByIsr
  <2>4. CASE r = q
    <3>1. intrCnt'[r] = intrCnt[r] + 1 /\ Len(hwFifo'[r]) = Len(hwFifo[r]) - 1
      BY <1>0, <2>1, <2>2, <2>4
    <3>2. PICK a \in Nat, b \in Nat, c \in Nat : a = HeldByIsr(r) /\ b = intrCnt[r] /\ c = Len(hwFifo[r])
      BY <1>1
    <3>3. cntRunning'[r] = a + b + c /\ HeldByIsr(r)' = a
      BY <1>1, <2>1, <2>3, <3>2
    <3>4. intrCnt'[r] = b + 1 /\ Len(hwFifo'[r]) = c - 1
      BY <3>1, <3>2
    <3> QED
      BY <3>2, <3>3, <3>4
  <2>5. CASE r # q
    <3>1. intrCnt'[r] = intrCnt[r] /\ hwFifo'[r] = hwFifo[r]
      BY <1>0, <2>1, <2>5
    <3> QED
      BY <1>1, <2>1, <2>3, <3>1
  <2> QED
    BY <2>4, <2>5
<1>6. ASSUME NEW q \in Queues, IsrReadCount(q) PROVE HardwareCount'
  <2>1. /\ pc[ISR] = "idle" /\ pc'[ISR] = "finish"
        /\ isrQ' = q /\ isrCnt' = intrCnt[q]
        /\ intrCnt' = [intrCnt EXCEPT ![q] = 0]
        /\ UNCHANGED <<cntRunning, hwFifo>>
    BY <1>0, <1>6, Contexts DEF IsrReadCount, Goto, tqVars
  <2> SUFFICES ASSUME NEW r \in Queues
               PROVE  cntRunning'[r] = HeldByIsr(r)' + intrCnt'[r] + Len(hwFifo'[r])
    BY DEF HardwareCount
  <2>2. HeldByIsr(r) = 0
    BY <2>1 DEF HeldByIsr
  <2>3. CASE r = q
    <3>1. HeldByIsr(r)' = intrCnt[r] /\ intrCnt'[r] = 0
      BY <1>0, <2>1, <2>3 DEF HeldByIsr
    <3> QED
      BY <1>1, <2>1, <2>2, <3>1
  <2>4. CASE r # q
    <3>1. HeldByIsr(r)' = 0 /\ intrCnt'[r] = intrCnt[r]
      BY <1>0, <2>1, <2>4 DEF HeldByIsr
    <3> QED
      BY <1>1, <2>1, <2>2, <3>1
  <2> QED
    BY <2>3, <2>4
<1>7. CASE IsrFinish
  <2>1. PICK n \in Nat : n = isrCnt /\ FinishBurst(isrQ) = n /\ HeldByIsr(isrQ) = n
    BY <1>7, FinishDrops
  <2>2. n <= cntRunning[isrQ] /\ cntRunning[isrQ] <= Capacity
    BY <1>0, <1>7, <2>1, FinishBounds DEF IsrFinish, Running, InBounds
  <2>3. cntRunning' = [cntRunning EXCEPT ![isrQ] = Minus(@, n)] /\ UNCHANGED <<hwFifo, intrCnt>>
    BY <1>0, <1>7, <2>1 DEF IsrFinish, hwVars
  <2>4. Minus(cntRunning[isrQ], n) = cntRunning[isrQ] - n
    BY <1>0, <2>2, NoWrap, ConstAssumption
  <2>5. \A r \in Queues : HeldByIsr(r)' = 0 /\ (r # isrQ => HeldByIsr(r) = 0)
    BY <1>7, FinishDrops
  <2> SUFFICES ASSUME NEW r \in Queues
               PROVE  cntRunning'[r] = HeldByIsr(r)' + intrCnt'[r] + Len(hwFifo'[r])
    BY DEF HardwareCount
  <2>6. CASE r = isrQ
    BY <1>0, <1>1, <2>1, <2>3, <2>4, <2>5, <2>6
  <2>7. CASE r # isrQ
    BY <1>0, <1>1, <2>3, <2>5, <2>7
  <2> QED
    BY <2>6, <2>7
<1> QED
  BY <1>0, <1>2, <1>3, <1>4, <1>5, <1>6, <1>7, StillOrNot

(* No step of the launch path begins or ends a reset. *)
LEMMA SameReset ==
  ASSUME [Next]_vars
  PROVE  UNCHANGED inReset
<1>1. ASSUME NEW s \in Sess, UserCall(s) \/ LaunchStep(s) \/ WaitStep(s) PROVE UNCHANGED inReset
  <2>1. CASE UserCall(s)
    BY <2>1 DEF UserCall, Open, Close, IoctlLaunch, IoctlBatchLaunch, IoctlProfLaunch, LaunchEnter,
                IoctlWait, pdVars
  <2>2. CASE LaunchStep(s)
    BY <2>2 DEF LaunchStep, LaunchAdd, LaunchCount, LaunchKick, pdVars
  <2>3. CASE WaitStep(s)
    BY <2>3 DEF WaitStep, WaitReturn, WaitTimeout, WaitHangup, pdVars
  <2> QED
    BY <1>1, <2>1, <2>2, <2>3
<1>2. ASSUME NEW d \in Ctx, Dispatch(d) PROVE UNCHANGED inReset
  BY <1>2 DEF Dispatch, DispatchCapacity, DispatchReload, DispatchCompare, DispatchLock, DispatchPush,
              pdVars
<1>3. ASSUME NEW q \in Queues, TaskletRun(q) \/ HwComplete(q) \/ IsrReadCount(q) PROVE UNCHANGED inReset
  BY <1>3 DEF TaskletRun, HwComplete, IsrReadCount, pdVars
<1>4. CASE Reaper \/ DeviceError \/ IsrPause \/ IsrResume \/ IsrException \/ IsrStep
  BY <1>4 DEF Reaper, ReapDetach, ReapFree, DeviceError, IsrPause, IsrResume, IsrException, IsrStep,
              IsrFinish, IsrAfter, IsrDrain, IsrPaused, IsrHang, pdVars
<1>5. CASE UNCHANGED vars
  BY <1>5 DEF vars, pdVars
<1> QED
  BY <1>1, <1>2, <1>3, <1>4, <1>5 DEF Next, Interrupt

(* Outside a reset the launch path stays in that part of the invariant. *)
LEMMA RunningStep ==
  ASSUME Running, [Next]_vars
  PROVE  Running'
<1>1. TypeOK /\ LockedInBounds /\ ~inReset /\ \A q \in Queues : InBounds(q)
  BY DEF Running, LockedInBounds
<1>2. TypeOK'
  BY <1>1, TypeStep
<1>3. \A q \in Queues : InBounds(q)'
  BY <1>1, BoundsStep
<1>4. UNCHANGED inReset
  BY SameReset
<1> QED
  BY <1>1, <1>2, <1>3, <1>4, HardwareStep DEF Running

(* cnt_all is the length of the list, which fits a u32. *)
AllCounted == \A q \in Queues : cntAll[q] = Len(tasks[q]) /\ Len(tasks[q]) < U32

LEMMA AllCountedStep ==
  ASSUME Running, AllCounted, [Next]_vars
  PROVE  AllCounted'
<1>0. /\ TypeOK /\ ~inReset /\ isrQ \in Queues /\ batch \in [Sess -> Nat]
      /\ tasks \in [Queues -> Seq(Sess)] /\ cntAll \in [Queues -> Nat]
  BY DEF Running, TypeOK, TqTypes, CtlTypes
<1>1. \A q \in Queues : Len(tasks[q]) \in Nat
  BY <1>0, LenProperties
<1>2. CASE Still
  BY <1>2 DEF Still, AllCounted
<1>3. ASSUME NEW s \in Sess, LaunchAdd(s) PROVE AllCounted'
  <2>1. CASE UNCHANGED <<tasks, cntAll>>
    BY <2>1 DEF AllCounted
  <2>2. CASE /\ tasks' = [tasks EXCEPT ![TqOf(s)] = @ \o [i \in 1 .. batch[s] |-> s]]
             /\ cntAll' = [cntAll EXCEPT ![TqOf(s)] = Plus(@, batch[s])]
             /\ MemoryHolds(TqOf(s), batch[s])
    <3>1. TqOf(s) \in Queues /\ batch[s] \in Nat
      BY <1>0, QueueOf
    <3>2. PICK q \in Queues, n \in Nat : q = TqOf(s) /\ n = batch[s]
      BY <3>1
    <3>3. PICK added : added = [i \in 1 .. n |-> s]
      OBVIOUS
    <3>4. added \in Seq(Sess) /\ Len(added) = n
      BY <3>3, AddedTasks
    <3>5. Len(tasks[q] \o added) = Len(tasks[q]) + n
      BY <1>0, <3>4, ConcatProperties
    <3>6. Len(tasks[q]) + n < U32 /\ cntAll[q] = Len(tasks[q])
      BY <2>2, <3>2 DEF MemoryHolds, AllCounted
    <3>7. Plus(cntAll[q], n) = Len(tasks[q]) + n
      BY <1>1, <3>6, NoWrap
    <3>8. tasks'[q] = tasks[q] \o added /\ cntAll'[q] = Plus(cntAll[q], n)
      BY <1>0, <2>2, <3>2, <3>3
    <3>9. \A r \in Queues : r # q => tasks'[r] = tasks[r] /\ cntAll'[r] = cntAll[r]
      BY <1>0, <2>2, <3>2
    <3> QED
      BY <3>5, <3>6, <3>7, <3>8, <3>9 DEF AllCounted
  <2> QED
    BY <1>3, <2>1, <2>2 DEF LaunchAdd
<1>4. ASSUME NEW d \in Ctx, DispatchPush(d) PROVE AllCounted'
  BY <1>4 DEF DispatchPush, AllCounted
<1>5. ASSUME NEW q \in Queues, HwComplete(q) \/ IsrReadCount(q) PROVE AllCounted'
  BY <1>5 DEF HwComplete, IsrReadCount, tqVars, AllCounted
<1>6. CASE IsrFinish
  <2>1. PICK n \in Nat : n = isrCnt /\ FinishBurst(isrQ) = n /\ n <= Len(tasks[isrQ])
    BY <1>6, FinishDrops
  <2>2. cntAll' = [cntAll EXCEPT ![isrQ] = Minus(@, n)]
    BY <1>0, <1>6, <2>1 DEF IsrFinish
  <2>3. Minus(cntAll[isrQ], n) = Len(tasks[isrQ]) - n
    BY <1>0, <1>1, <2>1, NoWrap DEF AllCounted
  <2>4. /\ Len(tasks'[isrQ]) = Len(tasks[isrQ]) - n
        /\ \A q \in Queues : q # isrQ => tasks'[q] = tasks[q]
    BY <1>6, <2>1, FinishDrops
  <2> SUFFICES ASSUME NEW q \in Queues PROVE cntAll'[q] = Len(tasks'[q]) /\ Len(tasks'[q]) < U32
    BY DEF AllCounted
  <2>5. CASE q = isrQ
    BY <1>0, <1>1, <2>1, <2>2, <2>3, <2>4, <2>5, ConstAssumption DEF AllCounted
  <2>6. CASE q # isrQ
    BY <1>0, <2>2, <2>4, <2>6 DEF AllCounted
  <2> QED
    BY <2>5, <2>6
<1> QED
  BY <1>0, <1>2, <1>3, <1>4, <1>5, <1>6, StillOrNot

(* The pause: a queue whose bit is set stays drained, as a dispatcher that *)
(* takes its lock later sees that the PD does not run.                     *)
LEMMA DrainedFrame ==
  ASSUME Drained, PauseComplete, UNCHANGED <<xpdState, pendFlag, tqLock, cntRunning>>
  PROVE  Drained' /\ PauseComplete'
BY DEF Drained, PauseComplete

LEMMA PauseStep ==
  ASSUME Running, Drained, PauseComplete, [Next]_vars
  PROVE  Drained' /\ PauseComplete'
<1> USE DEF pdVars, tqVars
<1>0. /\ TypeOK /\ LockedInBounds /\ ~inReset /\ PdTypes /\ TqTypes
      /\ isrQ \in Queues /\ cntRunning \in [Queues -> Nat] /\ tqLock \in [Queues -> Ctx \cup {Nobody}]
  BY DEF Running, LockedInBounds, TypeOK, TqTypes, CtlTypes
<1>1. ASSUME NEW s \in Sess, UserCall(s) \/ LaunchStep(s) PROVE UNCHANGED <<xpdState, pendFlag, tqLock, cntRunning>>
  BY <1>1 DEF UserCall, Open, Close, IoctlLaunch, IoctlBatchLaunch, IoctlProfLaunch, LaunchEnter,
              IoctlWait, LaunchStep, LaunchAdd, LaunchCount, LaunchKick
<1>2. ASSUME NEW s \in Sess, WaitReturn(s) \/ WaitHangup(s)
      PROVE  UNCHANGED <<xpdState, pendFlag, tqLock, cntRunning>>
  BY <1>2 DEF WaitReturn, WaitHangup
<1>3. ASSUME NEW d \in Ctx, DispatchCapacity(d) \/ DispatchReload(d) \/ DispatchCompare(d)
      PROVE  UNCHANGED <<xpdState, pendFlag, tqLock, cntRunning>>
  BY <1>3 DEF DispatchCapacity, DispatchReload, DispatchCompare
<1>4. ASSUME NEW q \in Queues, TaskletRun(q) \/ HwComplete(q) \/ IsrReadCount(q)
      PROVE  UNCHANGED <<xpdState, pendFlag, tqLock, cntRunning>>
  BY <1>4 DEF TaskletRun, HwComplete, IsrReadCount
<1>5. CASE Reaper \/ IsrAfter \/ IsrHang \/ UNCHANGED vars
  <2>1. UNCHANGED <<xpdState, pendFlag, tqLock, cntRunning>>
    BY <1>5 DEF Reaper, ReapDetach, ReapFree, IsrAfter, IsrHang, vars
  <2> QED
    BY <2>1, DrainedFrame
<1>6. CASE DeviceError \/ IsrException \/ \E s \in Sess : WaitTimeout(s)
  <2>1. xpdState' = ErrorState /\ UNCHANGED <<pendFlag, tqLock, cntRunning>>
    BY <1>6 DEF DeviceError, IsrException, WaitTimeout
  <2> QED
    BY <1>0, <2>1 DEF Drained, PauseComplete, ErrorState, PdTypes
<1>7. ASSUME NEW d \in Ctx, DispatchLock(d) PROVE Drained' /\ PauseComplete'
  <2>1. UNCHANGED <<xpdState, pendFlag, cntRunning>> /\ (MayDispatch \/ UNCHANGED tqLock)
    BY <1>7 DEF DispatchLock
  <2> QED
    BY <2>1, DrainedFrame DEF MayDispatch, Drained, PauseComplete
<1>8. ASSUME NEW d \in Ctx, DispatchPush(d) PROVE Drained' /\ PauseComplete'
  <2>1. PICK q : q = DispatchTq(d)
    OBVIOUS
  <2>2. /\ q \in Queues /\ tqLock[q] = d /\ tqLock' = [tqLock EXCEPT ![q] = Nobody]
        /\ \A r \in Queues : r # q => cntRunning'[r] = cntRunning[r]
    BY <1>0, <1>8, <2>1, PushMoves
  <2>3. UNCHANGED <<xpdState, pendFlag>>
    BY <1>8 DEF DispatchPush
  <2>4. xpdState \in {"PAUSING", "PAUSED"} => q \notin pendFlag
    BY <2>2, Contexts DEF Drained
  <2> QED
    BY <1>0, <2>2, <2>3, <2>4 DEF Drained, PauseComplete, PdTypes
<1>9. CASE IsrFinish
  <2>1. PICK q, n : q = isrQ /\ n = FinishBurst(q)
    OBVIOUS
  <2>2. /\ tqLock[q] = Nobody /\ UNCHANGED tqLock
        /\ cntRunning' = [cntRunning EXCEPT ![q] = Minus(@, n)]
        /\ NoteDrained(q, cntRunning'[q])
    BY <1>0, <1>9, <2>1 DEF IsrFinish, LockFree
  <2>3. /\ q \in Queues /\ n \in Nat /\ n <= cntRunning[q] /\ cntRunning[q] < U32
    BY <1>0, <1>9, <2>1, FinishBounds, FinishType, ConstAssumption DEF IsrFinish, Running, InBounds
  <2>4. /\ cntRunning'[q] = cntRunning[q] - n
        /\ \A r \in Queues : r # q => cntRunning'[r] = cntRunning[r]
    BY <1>0, <2>2, <2>3, NoWrap
  <2>5. CASE xpdState = "PAUSING" /\ cntRunning'[q] = 0
    <3>1. pendFlag' = pendFlag \cup {q} /\ xpdState' \in {"PAUSING", "PAUSED"}
          /\ (xpdState' = "PAUSED" => pendFlag' = Queues)
      BY <2>2, <2>5 DEF NoteDrained, PausedState
    <3> QED
      BY <1>0, <2>2, <2>3, <2>4, <2>5, <3>1 DEF Drained, PauseComplete, PdTypes
  <2>6. CASE ~(xpdState = "PAUSING" /\ cntRunning'[q] = 0)
    <3>1. UNCHANGED <<pendFlag, xpdState>>
      BY <2>2, <2>6 DEF NoteDrained
    <3>2. \A r \in Queues : cntRunning[r] = 0 => cntRunning'[r] = 0
      BY <1>0, <2>3, <2>4
    <3> QED
      BY <1>0, <2>2, <3>1, <3>2 DEF Drained, PauseComplete, PdTypes
  <2> QED
    BY <2>5, <2>6
<1>10. CASE IsrPause
  <2>1. xpdState' = "PAUSING" /\ pendFlag' = {}
    BY <1>10 DEF IsrPause
  <2> QED
    BY <2>1 DEF Drained, PauseComplete
<1>11. CASE IsrDrain
  <2>1. /\ tqLock[isrQ] = Nobody
        /\ pendFlag' = IF cntRunning[isrQ] = 0 THEN pendFlag \cup {isrQ} ELSE pendFlag
        /\ UNCHANGED <<xpdState, tqLock, cntRunning>>
    BY <1>11 DEF IsrDrain, LockFree
  <2> QED
    BY <1>0, <2>1 DEF Drained, PauseComplete, PdTypes
<1>12. CASE IsrPaused
  <2>1. xpdState' = (IF pendFlag = Queues THEN PausedState ELSE xpdState)
        /\ UNCHANGED <<pendFlag, tqLock, cntRunning>>
    BY <1>12 DEF IsrPaused
  <2> QED
    BY <1>0, <2>1 DEF Drained, PauseComplete, PausedState, PdTypes
<1>13. CASE IsrResume
  <2>1. xpdState' = "RUNNING"
    BY <1>13 DEF IsrResume
  <2> QED
    BY <2>1 DEF Drained, PauseComplete
<1> QED
  BY <1>1, <1>2, <1>3, <1>4, <1>5, <1>6, <1>7, <1>8, <1>9, <1>10, <1>11, <1>12, <1>13, DrainedFrame
  DEF Next, WaitStep, Dispatch, Interrupt, IsrStep

-----------------------------------------------------------------------------
LEMMA Inductive == Spec => []IInv
<1>1. IInv /\ [Next]_vars => IInv'
  <2> SUFFICES ASSUME IInv, [Next]_vars PROVE IInv'
    OBVIOUS
  <2>1. Running /\ AllCounted /\ Drained /\ PauseComplete
    BY IInvRuns DEF IInv, SafeInv, CountsDescribeQueue, CountsFit, AllCounted
  <2>2. Running' /\ AllCounted' /\ Drained' /\ PauseComplete'
    BY <2>1, RunningStep, AllCountedStep, PauseStep
  <2>3. CountsDescribeQueue' /\ CountsFit'
    BY <2>2 DEF Running, InBounds, AllCounted, CountsDescribeQueue, CountsFit
  <2> QED
    BY <2>2, <2>3 DEF Running, IInv, SafeInv
<1> QED
  BY InitIInv, <1>1, PTL DEF Spec

(* Type correctness of the launch path. *)
THEOREM TypeCorrect == Spec => []TypeOK
<1>1. IInv => TypeOK
  BY DEF IInv
<1> QED
  BY Inductive, <1>1, PTL

(* The counters of every task queue describe its list at every moment,     *)
(* although tasklet_xtq_dispatch and ISR_xtq_on_finish test them without   *)
(* its lock: no order of launches, dispatches, completions, pauses and     *)
(* errors loses or double counts a task, nor overfills the hardware FIFO.  *)
THEOREM QueueCounts == Spec => []CountsDescribeQueue
<1>1. IInv => CountsDescribeQueue
  BY DEF IInv, SafeInv
<1> QED
  BY Inductive, <1>1, PTL

(* A PD reported PAUSED to the MCU has nothing in the hardware: no         *)
(* dispatcher that saw it RUNNING pushes a task after isr_pausing_xpd or   *)
(* the last ISR_xtq_on_finish has declared the pause complete.             *)
THEOREM PauseIsSafe == Spec => []PausedIsQuiescent
<1>1. ASSUME IInv, xpdState = "PAUSED", NEW q \in Queues
      PROVE  cntRunning[q] = 0 /\ hwFifo[q] = <<>> /\ intrCnt[q] = 0
  <2>1. cntRunning[q] = 0
    BY <1>1 DEF IInv, SafeInv, Drained, PauseComplete
  <2>2. HeldByIsr(q) \in Nat /\ intrCnt[q] \in Nat /\ hwFifo[q] \in Seq(Sess)
    BY <1>1 DEF IInv, TypeOK, CtlTypes, HwTypes, HeldByIsr
  <2>3. intrCnt[q] = 0 /\ Len(hwFifo[q]) = 0
    BY <1>1, <2>1, <2>2 DEF IInv, SafeInv, HardwareCount
  <2> QED
    BY <2>1, <2>2, <2>3, EmptySeq
<1>2. IInv => PausedIsQuiescent
  BY <1>1 DEF PausedIsQuiescent
<1> QED
  BY Inductive, <1>2, PTL
=============================================================================
