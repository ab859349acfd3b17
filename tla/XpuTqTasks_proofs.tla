------------------------- MODULE XpuTqTasks_proofs --------------------------
(***************************************************************************)
(* The tasks themselves, for every number of sessions, queues and hardware *)
(* slots: what the hardware has is the dispatched prefix of the list, and  *)
(* no task on a list points to a session the timer has taken off.          *)
(*                                                                         *)
(* The handler only gets a count, so that it retires the right tasks rests *)
(* on the order (Mirror).  That a session the timer takes is idle and on   *)
(* no queue rests on what its unfinished count means while its thread is   *)
(* between the two halves of a launch (UnfinCounts), and on its tasks all  *)
(* being on the queue it is bound to (OnItsQueue).                         *)
(***************************************************************************)
EXTENDS XpuTq_proofs, FunctionTheorems

(* Completed tasks the handler has yet to retire. *)
Done(q) == HeldByIsr(q) + intrCnt[q]

Mirror == \A q \in Queues : \A i \in 1 .. Len(hwFifo[q]) : hwFifo[q][i] = tasks[q][Done(q) + i]

-----------------------------------------------------------------------------
(* n elements of a sequence behind its first l. *)
LEMMA PartOf ==
  ASSUME NEW S, NEW s \in Seq(S), NEW l \in Nat, NEW n \in Nat, l + n <= Len(s)
  PROVE  /\ SubSeq(s, l + 1, l + n) \in Seq(S)
         /\ Len(SubSeq(s, l + 1, l + n)) = n
         /\ \A i \in 1 .. n : SubSeq(s, l + 1, l + n)[i] = s[l + i]
<1>1. PICK a \in Int, b \in Int : a = l + 1 /\ b = l + n
  OBVIOUS
<1>2. \A i \in a .. b : s[i] \in S
  BY <1>1, ElementOfSeq
<1>3. /\ SubSeq(s, a, b) \in Seq(S)
      /\ Len(SubSeq(s, a, b)) = IF a <= b THEN b - a + 1 ELSE 0
      /\ \A i \in 1 .. b - a + 1 : SubSeq(s, a, b)[i] = s[a + i - 1]
  BY <1>2, SubSeqProperties
<1>4. b - a + 1 = n /\ \A i \in 1 .. n : a + i - 1 = l + i
  BY <1>1
<1> QED
  BY <1>1, <1>3, <1>4

-----------------------------------------------------------------------------
(* The hardware has the dispatched tasks, in the order of the list. *)
LEMMA MirrorStill ==
  ASSUME Running, Mirror, Still
  PROVE  Mirror'
<1>1. \A q \in Queues : Done(q)' = Done(q)
  BY DEF Still, Done, HeldByIsr, hwVars
<1> QED
  BY <1>1 DEF Still, Mirror, hwVars

(* Bounds of the part of the list the hardware has. *)
LEMMA DoneBounds ==
  ASSUME Running, NEW q \in Queues
  PROVE  /\ Done(q) \in Nat /\ Len(hwFifo[q]) \in Nat /\ hwFifo[q] \in Seq(Sess)
         /\ Done(q) + Len(hwFifo[q]) = cntRunning[q]
         /\ Done(q) + Len(hwFifo[q]) = lastRunning[q]
         /\ Done(q) + Len(hwFifo[q]) <= Len(tasks[q])
         /\ tasks[q] \in Seq(Sess) /\ Len(tasks[q]) \in Nat
BY DEF Running, TypeOK, TqTypes, HwTypes, CtlTypes, Done, HeldByIsr, HardwareCount,
       InBounds

LEMMA MirrorAdd ==
  ASSUME Running, Mirror, NEW s \in Sess, LaunchAdd(s)
  PROVE  Mirror'
<1>0. TypeOK
  BY DEF Running
<1>1. UNCHANGED hwFifo /\ \A q \in Queues : Done(q)' = Done(q)
  BY <1>0, LaunchAppends DEF Done, HeldByIsr
<1> SUFFICES ASSUME NEW q \in Queues, NEW i \in 1 .. Len(hwFifo'[q])
             PROVE  hwFifo'[q][i] = tasks'[q][Done(q)' + i]
  BY DEF Mirror
<1>2. Done(q) + i \in 1 .. Len(tasks[q]) /\ hwFifo[q][i] = tasks[q][Done(q) + i]
  BY <1>1, DoneBounds DEF Mirror
<1>3. tasks'[q][Done(q) + i] = tasks[q][Done(q) + i]
  BY <1>0, <1>2, LaunchAppends
<1> QED
  BY <1>1, <1>2, <1>3

LEMMA MirrorPush ==
  ASSUME Running, Mirror, NEW d \in Ctx, DispatchPush(d)
  PROVE  Mirror'
<1>0. pc \in [Ctx -> Labels] /\ hwFifo \in [Queues -> Seq(Sess)]
  BY DEF Running, TypeOK, CtlTypes, HwTypes
<1>1. PICK q \in Queues : q = DispatchTq(d)
  BY QueueOf DEF Running, TypeOK, CtlTypes
<1>2. PICK l \in Nat, n \in Nat : l = lastRunning[q] /\ n = DispatchBurst(q)
  BY BurstBounds DEF Running, TypeOK, TqTypes
<1>3. PICK more : more = SubSeq(tasks[q], l + 1, l + n)
  OBVIOUS
<1>4. /\ UNCHANGED <<tasks, intrCnt, isrCnt, isrQ>> /\ pc[d] = "push" /\ Goto(d, "idle")
      /\ hwFifo' = [hwFifo EXCEPT ![q] = @ \o more]
  BY <1>1, <1>2, <1>3 DEF DispatchPush
<1>5. \A r \in Queues : Done(r)' = Done(r)
  BY <1>0, <1>4, Contexts DEF Done, HeldByIsr, Goto
<1>6. /\ l + n <= Len(tasks[q]) /\ tasks[q] \in Seq(Sess)
      /\ hwFifo[q] \in Seq(Sess) /\ Len(hwFifo[q]) \in Nat
      /\ Done(q) \in Nat /\ l = Done(q) + Len(hwFifo[q])
  BY <1>2, BurstBounds, DoneBounds DEF Running
<1>7. hwFifo'[q] = hwFifo[q] \o more /\ \A r \in Queues : r # q => hwFifo'[r] = hwFifo[r]
  BY <1>0, <1>4
<1>8. more \in Seq(Sess) /\ Len(more) = n /\ \A i \in 1 .. n : more[i] = tasks[q][l + i]
  <2>1. PICK part : part = tasks[q]
    OBVIOUS
  <2>2. part \in Seq(Sess) /\ l + n <= Len(part) /\ more = SubSeq(part, l + 1, l + n)
    BY <1>3, <1>6, <2>1
  <2>3. more \in Seq(Sess) /\ Len(more) = n /\ \A i \in 1 .. n : more[i] = part[l + i]
    BY <2>2, PartOf
  <2> QED
    BY <2>1, <2>3
<1>9. /\ Len(hwFifo[q] \o more) = Len(hwFifo[q]) + Len(more)
      /\ \A i \in 1 .. Len(hwFifo[q]) + Len(more) : (hwFifo[q] \o more)[i] =
           IF i <= Len(hwFifo[q]) THEN hwFifo[q][i] ELSE more[i - Len(hwFifo[q])]
  <2>1. hwFifo[q] \in Seq(Sess) /\ more \in Seq(Sess)
    BY <1>6, <1>8
  <2> QED
    BY <2>1, ConcatProperties
<1> SUFFICES ASSUME NEW r \in Queues, NEW i \in 1 .. Len(hwFifo'[r])
             PROVE  hwFifo'[r][i] = tasks[r][Done(r) + i]
  BY <1>4, <1>5 DEF Mirror
<1>10. CASE r # q
  BY <1>7, <1>10 DEF Mirror
<1>11. CASE r = q
  <2>1. PICK h \in Nat, c \in Nat : h = Len(hwFifo[q]) /\ c = Done(q) /\ l = c + h
    BY <1>6
  <2>2. i \in 1 .. h + n /\ hwFifo'[q][i] = IF i <= h THEN hwFifo[q][i] ELSE more[i - h]
    BY <1>7, <1>8, <1>9, <1>11, <2>1
  <2>3. CASE i <= h
    <3>1. i \in 1 .. Len(hwFifo[q])
      BY <2>1, <2>2, <2>3
    <3> QED
      BY <1>11, <2>2, <2>3, <3>1 DEF Mirror
  <2>4. CASE ~(i <= h)
    <3>1. i \in 1 .. h + n /\ i > h
      BY <2>2, <2>4
    <3>2. l = c + h
      BY <2>1
    <3>3. i - h \in 1 .. n /\ l + (i - h) = c + i
      BY <3>1, <3>2
    <3>4. more[i - h] = tasks[q][l + (i - h)]
      BY <1>8, <3>3
    <3> QED
      BY <1>11, <2>1, <2>2, <2>4, <3>3, <3>4
  <2> QED
    BY <2>3, <2>4
<1> QED
  BY <1>10, <1>11

(* A completion moves a task from the hardware to what has to be retired. *)
LEMMA MirrorComplete ==
  ASSUME Running, Mirror, NEW q \in Queues, HwComplete(q)
  PROVE  Mirror'
<1>0. /\ hwFifo \in [Queues -> Seq(Sess)] /\ intrCnt \in [Queues -> Nat]
      /\ hwFifo[q] \in Seq(Sess) /\ hwFifo[q] # <<>>
  BY DEF Running, TypeOK, HwTypes, HwComplete
<1>1. /\ hwFifo'[q] = Tail(hwFifo[q]) /\ intrCnt'[q] = intrCnt[q] + 1
      /\ \A r \in Queues : r # q => hwFifo'[r] = hwFifo[r] /\ intrCnt'[r] = intrCnt[r]
      /\ UNCHANGED <<tasks, pc, isrQ, isrCnt>>
  BY <1>0 DEF HwComplete, tqVars, ctlVars
<1>2. /\ Len(Tail(hwFifo[q])) = Len(hwFifo[q]) - 1
      /\ \A i \in 1 .. Len(Tail(hwFifo[q])) : Tail(hwFifo[q])[i] = hwFifo[q][i + 1]
  BY <1>0, HeadTailProperties
<1>3. /\ Done(q) \in Nat /\ Len(hwFifo[q]) \in Nat
      /\ Done(q)' = Done(q) + 1 /\ \A r \in Queues : r # q => Done(r)' = Done(r)
  <2>1. Done(q) \in Nat /\ Len(hwFifo[q]) \in Nat
    BY DoneBounds
  <2>2. \A r \in Queues : HeldByIsr(r)' = HeldByIsr(r)
    BY <1>1 DEF HeldByIsr
  <2>3. \A r \in Queues : r # q => Done(r)' = Done(r)
    BY <1>1, <2>2 DEF Done
  <2>4. HeldByIsr(q) \in Nat /\ intrCnt[q] \in Nat
    BY <1>0 DEF HeldByIsr, Running, TypeOK, CtlTypes
  <2>5. Done(q)' = Done(q) + 1
    BY <1>1, <2>2, <2>4 DEF Done
  <2> QED
    BY <2>1, <2>3, <2>5
<1> SUFFICES ASSUME NEW r \in Queues, NEW i \in 1 .. Len(hwFifo'[r])
             PROVE  hwFifo'[r][i] = tasks[r][Done(r)' + i]
  BY <1>1 DEF Mirror
<1>4. CASE r # q
  BY <1>1, <1>3, <1>4 DEF Mirror
<1>5. CASE r = q
  <2>0. i \in 1 .. Len(hwFifo[q]) - 1 /\ hwFifo'[q][i] = hwFifo[q][i + 1]
    BY <1>1, <1>2, <1>5
  <2>1. i + 1 \in 1 .. Len(hwFifo[q]) /\ hwFifo'[q][i] = hwFifo[q][i + 1]
    BY <1>3, <2>0
  <2>2. hwFifo[q][i + 1] = tasks[q][Done(q) + (i + 1)]
    BY <2>1 DEF Mirror
  <2>3. Done(q) + (i + 1) = Done(q)' + i
    BY <1>3, <2>1
  <2> QED
    BY <1>5, <2>1, <2>2, <2>3
<1> QED
  BY <1>4, <1>5

(* Reading the count moves it from the register to the handler. *)
LEMMA MirrorRead ==
  ASSUME Running, Mirror, NEW q \in Queues, IsrReadCount(q)
  PROVE  Mirror'
<1>0. /\ pc \in [Ctx -> Labels] /\ intrCnt \in [Queues -> Nat] /\ isrCnt \in Nat
  BY DEF Running, TypeOK, CtlTypes, HwTypes
<1>1. /\ pc[ISR] = "idle" /\ pc'[ISR] = "finish" /\ isrQ' = q /\ isrCnt' = intrCnt[q]
      /\ intrCnt' = [intrCnt EXCEPT ![q] = 0] /\ UNCHANGED <<tasks, hwFifo>>
  BY <1>0, Contexts DEF IsrReadCount, Goto, tqVars
<1>2. \A r \in Queues : Done(r)' = Done(r)
  BY <1>0, <1>1 DEF Done, HeldByIsr
<1> QED
  BY <1>1, <1>2 DEF Mirror

(* Retiring drops from the list what had been completed. *)
LEMMA MirrorFinish ==
  ASSUME Running, Mirror, IsrFinish
  PROVE  Mirror'
<1> SUFFICES ASSUME NEW q \in Queues, NEW i \in 1 .. Len(hwFifo[q])
             PROVE  hwFifo[q][i] = tasks'[q][Done(q)' + i]
  BY FinishDrops DEF Mirror
<1>1. hwFifo[q][i] = tasks[q][Done(q) + i]
  BY DEF Mirror
<1>2. CASE q # isrQ
  BY <1>1, <1>2, FinishDrops DEF Done
<1>3. CASE q = isrQ
  <2>1. Done(q) = isrCnt + intrCnt[q] /\ Done(q)' = intrCnt[q] /\ intrCnt[q] \in Nat
    BY <1>3, FinishDrops DEF Done, Running, TypeOK, HwTypes
  <2>2. isrCnt \in Nat /\ Len(tasks'[q]) = Len(tasks[q]) - isrCnt
        /\ \A k \in 1 .. Len(tasks'[q]) : tasks'[q][k] = tasks[q][isrCnt + k]
    BY <1>3, FinishDrops
  <2>3. Done(q)' + i \in 1 .. Len(tasks'[q])
    <3>1. PICK len \in Nat, h \in Nat : len = Len(tasks[q]) /\ h = Len(hwFifo[q])
      BY DoneBounds, LenProperties DEF Running, TypeOK, TqTypes
    <3>2. Done(q) + h <= len /\ i \in 1 .. h
      BY <3>1, DoneBounds
    <3>3. PICK d \in Nat, n \in Nat : d = intrCnt[q] /\ n = isrCnt
      BY <2>1, <2>2
    <3>4. Done(q)' = d /\ Done(q) = n + d /\ Len(tasks'[q]) = len - n
      BY <2>1, <2>2, <3>1, <3>3
    <3>5. n + d + h <= len /\ i \in 1 .. h
      BY <3>2, <3>4
    <3>6. d + i \in 1 .. len - n
      BY <3>5
    <3> QED
      BY <3>4, <3>6
  <2>4. isrCnt + (Done(q)' + i) = Done(q) + i
    BY <2>1, <2>2
  <2> QED
    BY <1>1, <2>2, <2>3, <2>4
<1> QED
  BY <1>2, <1>3

LEMMA MirrorStep ==
  ASSUME Running, Mirror, [Next]_vars
  PROVE  Mirror'
<1>1. TypeOK
  BY DEF Running
<1> QED
  BY <1>1, StillOrNot, MirrorStill, MirrorAdd, MirrorPush, MirrorComplete, MirrorRead, MirrorFinish

LEMMA MirrorInductive == Spec => [](IInv /\ Mirror)
<1>1. Init => Mirror
  BY DEF Init, Mirror
<1>2. IInv /\ Mirror /\ [Next]_vars => Mirror'
  BY IInvRuns, MirrorStep
<1> QED
  BY Inductive, <1>1, <1>2, PTL DEF Spec

(* ISR_xtq_on_finish gets a count of completions and no names: the tasks   *)
(* it retires are the ones the SSE completed, because the dispatched       *)
(* prefix of the list is what it has completed and what it still has, in   *)
(* this order, whatever launches, dispatchers, pauses and errors race.     *)
THEOREM HardwareFollowsList == Spec => []HardwareMirrorsPrefix
<1>1. ASSUME IInv, Mirror, NEW q \in Queues
      PROVE  /\ cntRunning[q] = Done(q) + Len(hwFifo[q])
             /\ hwFifo[q] = SubSeq(tasks[q], Done(q) + 1, cntRunning[q])
  <2> DEFINE m == Done(q) + 1
             r == cntRunning[q]
             part == SubSeq(tasks[q], m, r)
  <2>1. /\ Done(q) \in Nat /\ Len(hwFifo[q]) \in Nat /\ hwFifo[q] \in Seq(Sess)
        /\ r = Done(q) + Len(hwFifo[q]) /\ r <= Len(tasks[q])
        /\ tasks[q] \in Seq(Sess) /\ Len(tasks[q]) \in Nat
    BY <1>1, IInvRuns, DoneBounds
  <2> HIDE DEF r
  <2>2. \A i \in m .. r : tasks[q][i] \in Sess
    BY <2>1, ElementOfSeq
  <2>3. /\ part \in Seq(Sess)
        /\ Len(part) = IF m <= r THEN r - m + 1 ELSE 0
        /\ \A i \in 1 .. r - m + 1 : part[i] = tasks[q][m + i - 1]
    <3>1. m \in Int /\ r \in Int
      BY <2>1
    <3> HIDE DEF m
    <3> QED
      BY <3>1, <2>2, SubSeqProperties
  <2> HIDE DEF part
  <2>4. Len(part) = Len(hwFifo[q])
    BY <2>1, <2>3
  <2>5. ASSUME NEW i \in 1 .. Len(hwFifo[q]) PROVE hwFifo[q][i] = part[i]
    <3>1. i \in 1 .. r - m + 1 /\ m + i - 1 = Done(q) + i
      BY <2>1
    <3> QED
      BY <1>1, <2>3, <3>1 DEF Mirror
  <2>6. hwFifo[q] = part
    BY <2>1, <2>3, <2>4, <2>5, SeqEqual
  <2> QED
    BY <2>1, <2>6 DEF part, r
<1>2. IInv /\ Mirror => HardwareMirrorsPrefix
  BY <1>1 DEF HardwareMirrorsPrefix, Done
<1> QED
  BY MirrorInductive, <1>2, PTL

-----------------------------------------------------------------------------
(* Sessions and the tasks that point to them. *)

(* A thread is in the kernel only with its file open. *)
BusyIsOpen == \A s \in Sess : pc[Thread(s)] # "idle" => sState[s] \in {"NORMAL", "ERROR"}

(* A task is on the queue its session is bound to. *)
OnItsQueue == \A q \in Queues : \A i \in 1 .. Len(tasks[q]) : TqOf(tasks[q][i]) = q

(* The unfinished count lacks what the thread has appended and not counted. *)
UnfinCounts ==
  \A s \in Sess :
    unfin[s] = QueuedFor(TqOf(s), s) - (IF pc[Thread(s)] = "count" THEN batch[s] ELSE 0)

Gone == {"DETACHED", "FREED"}

GoneUnqueued == \A q \in Queues : \A i \in 1 .. Len(tasks[q]) : sState[tasks[q][i]] \notin Gone

TaskInv == BusyIsOpen /\ OnItsQueue /\ UnfinCounts /\ GoneUnqueued

(* Steps that leave what TaskInv is about in place. *)
Calm ==
  /\ UNCHANGED <<tasks, unfin>>
  /\ \A s \in Sess :
       /\ pc'[Thread(s)] = "count" <=> pc[Thread(s)] = "count"
       /\ pc[Thread(s)] = "count" => batch'[s] = batch[s]
       /\ pc'[Thread(s)] # "idle" => sState'[s] \in {"NORMAL", "ERROR"}
       /\ sState'[s] \in Gone => sState[s] \in Gone

LEMMA CalmKeeps ==
  ASSUME TypeOK, TaskInv, Calm
  PROVE  TaskInv'
<1>1. \A q, s : QueuedFor(q, s)' = QueuedFor(q, s)
  BY DEF Calm, QueuedFor, TasksOf
<1>2. BusyIsOpen' /\ OnItsQueue'
  BY DEF Calm, TaskInv, BusyIsOpen, OnItsQueue
<1>3. UnfinCounts'
  BY <1>1 DEF Calm, TaskInv, UnfinCounts
<1>4. \A q \in Queues : \A i \in 1 .. Len(tasks[q]) : tasks[q][i] \in Sess
  BY ElementOfSeq DEF TypeOK, TqTypes
<1>5. GoneUnqueued'
  BY <1>4 DEF Calm, TaskInv, GoneUnqueued
<1> QED
  BY <1>2, <1>3, <1>5 DEF TaskInv

(* Where a step of one context leaves the threads. *)
LEMMA ThreadGoes ==
  ASSUME pc \in [Ctx -> Labels], NEW s \in Sess, NEW l, Goto(Thread(s), l)
  PROVE  /\ pc'[Thread(s)] = l
         /\ \A t \in Sess : t # s => pc'[Thread(t)] = pc[Thread(t)]
<1>1. \A t \in Sess : Thread(t) \in Ctx /\ (t # s => Thread(t) # Thread(s))
  BY Contexts DEF Thread
<1> QED
  BY <1>1 DEF Goto

LEMMA OthersGo ==
  ASSUME pc \in [Ctx -> Labels], NEW d, d = ISR \/ (\E q : d = Tasklet(q)), NEW l, Goto(d, l)
  PROVE  \A t \in Sess : pc'[Thread(t)] = pc[Thread(t)]
<1>1. \A t \in Sess : Thread(t) \in Ctx /\ Thread(t) # ISR
  BY Contexts
<1>2. \A t \in Sess : \A q : Thread(t) # Tasklet(q)
  BY DEF Thread, Tasklet
<1> QED
  BY <1>1, <1>2 DEF Goto

(* An error never takes a session off the list, nor its state from a       *)
(* thread at work.                                                         *)
LEMMA Marked ==
  ASSUME NEW S, MarkError(S), NEW t \in Sess
  PROVE  /\ sState[t] \in {"NORMAL", "ERROR"} => sState'[t] \in {"NORMAL", "ERROR"}
         /\ sState'[t] \in Gone => sState[t] \in Gone
BY DEF MarkError, Gone

LEMMA CallsCalm ==
  ASSUME TypeOK, TaskInv, NEW s \in Sess, UserCall(s) \/ LaunchKick(s) \/ WaitStep(s)
  PROVE  Calm
<1> USE DEF Gone, tqVars, sessVars, ctlVars
<1>0. /\ pc \in [Ctx -> Labels] /\ sState \in [Sess -> SessStates] /\ batch \in [Sess -> Nat]
      /\ BusyIsOpen
  BY DEF TypeOK, CtlTypes, SessTypes, TaskInv
<1>1. CASE Open(s) \/ Close(s)
  BY <1>0, <1>1 DEF Open, Close, Calm, BusyIsOpen
<1>2. ASSUME NEW n, NEW l \in {"add", "addprof"}, LaunchEnter(s, n, l) PROVE Calm
  <2>1. /\ pc'[Thread(s)] = l
        /\ \A t \in Sess : t # s => pc'[Thread(t)] = pc[Thread(t)] /\ batch'[t] = batch[t]
    BY <1>0, <1>2, ThreadGoes DEF LaunchEnter
  <2> QED
    BY <1>0, <1>2, <2>1 DEF LaunchEnter, Calm, BusyIsOpen
<1>3. CASE IoctlLaunch(s) \/ IoctlProfLaunch(s) \/ \E n \in 1 .. MaxBatch : IoctlBatchLaunch(s, n)
  BY <1>2, <1>3 DEF IoctlLaunch, IoctlProfLaunch, IoctlBatchLaunch
<1>4. CASE IoctlWait(s)
  <2>1. /\ pc'[Thread(s)] = "wait"
        /\ \A t \in Sess : t # s => pc'[Thread(t)] = pc[Thread(t)]
    BY <1>0, <1>4, ThreadGoes DEF IoctlWait
  <2> QED
    BY <1>0, <1>4, <2>1 DEF IoctlWait, Calm, BusyIsOpen
<1>5. CASE LaunchKick(s)
  <2>1. PICK l \in {"capacity", "idle"} : Goto(Thread(s), l)
    BY <1>5 DEF LaunchKick
  <2>2. /\ pc'[Thread(s)] = l
        /\ \A t \in Sess : t # s => pc'[Thread(t)] = pc[Thread(t)]
    BY <1>0, <2>1, ThreadGoes
  <2> QED
    BY <1>0, <1>5, <2>2 DEF LaunchKick, Calm, BusyIsOpen
<1>6. CASE WaitReturn(s)
  <2>1. /\ pc'[Thread(s)] = "idle"
        /\ \A t \in Sess : t # s => pc'[Thread(t)] = pc[Thread(t)]
    BY <1>0, <1>6, ThreadGoes DEF WaitReturn
  <2> QED
    BY <1>0, <1>6, <2>1 DEF WaitReturn, Calm, BusyIsOpen
<1>7. CASE WaitTimeout(s)
  <2>1. /\ pc'[Thread(s)] = "hangup"
        /\ \A t \in Sess : t # s => pc'[Thread(t)] = pc[Thread(t)]
    BY <1>0, <1>7, ThreadGoes DEF WaitTimeout
  <2> QED
    BY <1>0, <1>7, <2>1 DEF WaitTimeout, Calm, BusyIsOpen
<1>8. CASE WaitHangup(s)
  <2>1. /\ pc[Thread(s)] = "hangup" /\ pc'[Thread(s)] = "idle"
        /\ \A t \in Sess : t # s => pc'[Thread(t)] = pc[Thread(t)]
    BY <1>0, <1>8, ThreadGoes DEF WaitHangup
  <2>2. UNCHANGED <<tasks, unfin, batch>> /\ \E S : MarkError(S)
    BY <1>8 DEF WaitHangup
  <2> QED
    BY <1>0, <2>1, <2>2, Marked DEF Calm, BusyIsOpen
<1> QED
  BY <1>1, <1>3, <1>4, <1>5, <1>6, <1>7, <1>8 DEF UserCall, WaitStep

LEMMA DispatchCalm ==
  ASSUME TypeOK, TaskInv, NEW d \in Ctx, Dispatch(d)
  PROVE  Calm
<1> USE DEF tqVars, sessVars, ctlVars
<1>0. pc \in [Ctx -> Labels] /\ BusyIsOpen
  BY DEF TypeOK, CtlTypes, TaskInv
<1>1. /\ pc[d] \notin {"idle", "count"} /\ UNCHANGED <<tasks, sState, unfin, batch>>
      /\ \E l : l # "count" /\ Goto(d, l)
  <2>1. CASE DispatchCapacity(d)
    BY <2>1 DEF DispatchCapacity
  <2>2. CASE DispatchReload(d)
    BY <2>2 DEF DispatchReload
  <2>3. CASE DispatchCompare(d)
    <3>1. PICK l \in {"idle", "lock"} : Goto(d, l)
      BY <2>3 DEF DispatchCompare
    <3> QED
      BY <2>3, <3>1 DEF DispatchCompare
  <2>4. CASE DispatchLock(d)
    BY <2>4 DEF DispatchLock
  <2>5. CASE DispatchPush(d)
    BY <2>5 DEF DispatchPush
  <2> QED
    BY <2>1, <2>2, <2>3, <2>4, <2>5 DEF Dispatch
<1>2. \A t \in Sess : \/ pc'[Thread(t)] = pc[Thread(t)]
                      \/ pc[Thread(t)] \notin {"idle", "count"} /\ pc'[Thread(t)] # "count"
  BY <1>0, <1>1, Contexts DEF Goto
<1> QED
  BY <1>0, <1>1, <1>2 DEF Calm, BusyIsOpen

LEMMA OtherCalm ==
  ASSUME TypeOK, TaskInv,
         \/ \E q \in Queues : TaskletRun(q) \/ HwComplete(q)
         \/ Interrupt \/ DeviceError
         \/ IsrAfter \/ IsrDrain \/ IsrPaused \/ IsrHang
  PROVE  Calm
<1> USE DEF tqVars, sessVars, ctlVars
<1>0. pc \in [Ctx -> Labels] /\ BusyIsOpen
  BY DEF TypeOK, CtlTypes, TaskInv
<1>1. ASSUME UNCHANGED <<tasks, sState, unfin, batch>>,
             \A t \in Sess : pc'[Thread(t)] = pc[Thread(t)]
      PROVE  Calm
  BY <1>0, <1>1 DEF Calm, BusyIsOpen
<1>2. CASE \E q \in Queues : TaskletRun(q)
  BY <1>0, <1>1, <1>2, OthersGo DEF TaskletRun
<1>3. CASE \E q \in Queues : HwComplete(q)
  BY <1>1, <1>3 DEF HwComplete
<1>4. CASE \E q \in Queues : IsrReadCount(q)
  BY <1>0, <1>1, <1>4, OthersGo DEF IsrReadCount
<1>5. CASE IsrPause
  BY <1>0, <1>1, <1>5, OthersGo DEF IsrPause
<1>6. CASE IsrResume
  BY <1>1, <1>6 DEF IsrResume
<1>7. CASE IsrException
  BY <1>0, <1>1, <1>7, OthersGo DEF IsrException
<1>8. CASE DeviceError
  BY <1>1, <1>8 DEF DeviceError
<1>9. CASE IsrAfter
  BY <1>0, <1>1, <1>9, OthersGo DEF IsrAfter
<1>10. CASE IsrDrain
  BY <1>0, <1>1, <1>10, OthersGo DEF IsrDrain
<1>11. CASE IsrPaused
  BY <1>0, <1>1, <1>11, OthersGo DEF IsrPaused
<1>12. CASE IsrHang
  <2>1. \A t \in Sess : pc'[Thread(t)] = pc[Thread(t)]
    BY <1>0, <1>12, OthersGo DEF IsrHang
  <2>2. UNCHANGED <<tasks, unfin, batch>> /\ \E S : MarkError(S)
    BY <1>12 DEF IsrHang
  <2> QED
    BY <1>0, <2>1, <2>2, Marked DEF Calm, BusyIsOpen
<1> QED
  BY <1>2, <1>3, <1>4, <1>5, <1>6, <1>7, <1>8, <1>9, <1>10, <1>11, <1>12 DEF Interrupt

-----------------------------------------------------------------------------
(* Counting the tasks of a session. *)

LEMMA TasksOfFinite ==
  ASSUME NEW q, NEW s, NEW lo \in Int, NEW hi \in Int
  PROVE  IsFiniteSet(TasksOf(q, s, lo, hi)) /\ Cardinality(TasksOf(q, s, lo, hi)) \in Nat
<1>1. TasksOf(q, s, lo, hi) \in SUBSET (lo .. hi)
  BY DEF TasksOf
<1> QED
  BY <1>1, FS_Interval, FS_Subset, FS_CardinalityType

LEMMA Disjoint ==
  ASSUME NEW S, NEW T, IsFiniteSet(S), IsFiniteSet(T), S \cap T = {}
  PROVE  Cardinality(S \cup T) = Cardinality(S) + Cardinality(T)
<1>1. Cardinality(S \cap T) = 0
  BY FS_EmptySet
<1>2. Cardinality(S \cup T) = Cardinality(S) + Cardinality(T) - Cardinality(S \cap T)
  BY FS_Union
<1> QED
  BY <1>1, <1>2, FS_CardinalityType

(* The tasks of s from position lo of its queue on. *)
QueuedFrom(s, lo) == Cardinality(TasksOf(TqOf(s), s, lo, Len(tasks[TqOf(s)])))

LEMMA QueuedFromType ==
  ASSUME TypeOK, NEW s \in Sess, NEW lo \in Int
  PROVE  QueuedFrom(s, lo) \in Nat /\ QueuedFor(TqOf(s), s) = QueuedFrom(s, 1)
<1>1. Len(tasks[TqOf(s)]) \in Int
  BY QueueOf, LenProperties DEF TypeOK, TqTypes
<1> QED
  BY <1>1, TasksOfFinite DEF QueuedFrom, QueuedFor

(* A launch adds as many tasks to its session, and none to another. *)
LEMMA LaunchCounts ==
  ASSUME TypeOK, NEW s \in Sess, LaunchAdd(s), UNCHANGED batch,
         Len(tasks'[TqOf(s)]) = Len(tasks[TqOf(s)]) + batch[s],
         \A i \in 1 .. Len(tasks[TqOf(s)]) : tasks'[TqOf(s)][i] = tasks[TqOf(s)][i],
         \A i \in 1 .. Len(tasks'[TqOf(s)]) :
           i > Len(tasks[TqOf(s)]) => tasks'[TqOf(s)][i] = s,
         NEW t \in Sess, NEW lo \in Nat \ {0}, lo <= Len(tasks[TqOf(t)]) + 1
  PROVE  QueuedFrom(t, lo)' = QueuedFrom(t, lo) + (IF t = s THEN batch[s] ELSE 0)
<1>1. PICK q \in Queues, len \in Nat, n \in Nat :
        q = TqOf(s) /\ len = Len(tasks[q]) /\ n = batch[s]
  BY LaunchAppends, LenProperties
<1>2. TqOf(t) \in Queues /\ \A r \in Queues : r # q => tasks'[r] = tasks[r]
  BY <1>1, QueueOf, LaunchAppends
<1>3. /\ Len(tasks'[q]) = len + n
      /\ \A i \in 1 .. len : tasks'[q][i] = tasks[q][i]
      /\ \A i \in 1 .. len + n : i > len => tasks'[q][i] = s
  BY <1>1
<1>4. IsFiniteSet(TasksOf(q, t, lo, len)) /\ Cardinality(TasksOf(q, t, lo, len)) \in Nat
  BY TasksOfFinite
<1>5. QueuedFrom(t, lo) \in Nat
  BY QueuedFromType
<1>6. CASE TqOf(t) # q
  <2>1. t # s /\ tasks'[TqOf(t)] = tasks[TqOf(t)]
    BY <1>1, <1>2, <1>6
  <2>2. QueuedFrom(t, lo)' = QueuedFrom(t, lo)
    BY <2>1 DEF QueuedFrom, TasksOf
  <2> QED
    BY <1>5, <2>1, <2>2
<1>7. CASE TqOf(t) = q /\ t # s
  <2>1. \A i \in lo .. len + n : tasks'[q][i] = t => i <= len
    BY <1>3, <1>7
  <2>2. \A i \in lo .. len : tasks'[q][i] = tasks[q][i]
    BY <1>3
  <2>3. {i \in lo .. len + n : tasks'[q][i] = t} = {i \in lo .. len : tasks[q][i] = t}
    BY <2>1, <2>2
  <2>4. QueuedFrom(t, lo)' = Cardinality({i \in lo .. len + n : tasks'[q][i] = t})
    BY <1>3, <1>7 DEF QueuedFrom, TasksOf
  <2>5. QueuedFrom(t, lo) = Cardinality({i \in lo .. len : tasks[q][i] = t})
    BY <1>1, <1>7 DEF QueuedFrom, TasksOf
  <2>6. QueuedFrom(t, lo)' = QueuedFrom(t, lo)
    BY <2>3, <2>4, <2>5
  <2> QED
    BY <1>5, <1>7, <2>6
<1>8. CASE t = s
  <2>1. PICK S, T : S = TasksOf(q, s, lo, len) /\ T = (len + 1) .. (len + n)
    OBVIOUS
  <2>2. lo <= len + 1
    BY <1>1, <1>8
  <2>3. {i \in lo .. len + n : tasks'[q][i] = s} = S \cup T
    BY <1>3, <2>1, <2>2 DEF TasksOf
  <2>4. S \cap T = {}
    BY <2>1 DEF TasksOf
  <2>5. IsFiniteSet(T) /\ Cardinality(T) = n
    <3>1. PICK a \in Int, b \in Int : a = len + 1 /\ b = len + n
      OBVIOUS
    <3>2. IsFiniteSet(a .. b) /\ Cardinality(a .. b) = IF a > b THEN 0 ELSE b - a + 1
      BY FS_Interval
    <3> QED
      BY <2>1, <3>1, <3>2
  <2>6. Cardinality(S \cup T) = Cardinality(S) + n
    <3>1. IsFiniteSet(S)
      BY <1>4, <1>8, <2>1
    <3>2. Cardinality(S \cup T) = Cardinality(S) + Cardinality(T)
      BY <2>4, <2>5, <3>1, Disjoint
    <3> QED
      BY <2>5, <3>2
  <2>7. QueuedFrom(s, lo)' = Cardinality({i \in lo .. len + n : tasks'[q][i] = s})
    BY <1>1, <1>3 DEF QueuedFrom, TasksOf
  <2>8. QueuedFrom(s, lo) = Cardinality(S)
    BY <1>1, <2>1 DEF QueuedFrom
  <2> QED
    BY <1>1, <1>8, <2>3, <2>6, <2>7, <2>8
<1> QED
  BY <1>6, <1>7, <1>8

(* Retiring moves the other tasks by as many positions as were taken off. *)
LEMMA FinishShifts ==
  ASSUME Running, IsrFinish, NEW t \in Sess, TqOf(t) = isrQ, NEW lo \in Nat \ {0}
  PROVE  QueuedFrom(t, lo)' = QueuedFrom(t, isrCnt + lo)
<1>1. PICK q \in Queues, len \in Nat, n \in Nat :
        q = isrQ /\ len = Len(tasks[q]) /\ n = isrCnt /\ n <= len
  BY FinishDrops, LenProperties
<1>2. Len(tasks'[q]) = len - n /\ \A i \in 1 .. len - n : tasks'[q][i] = tasks[q][n + i]
  BY <1>1, FinishDrops
<1>3. PICK A, B : A = {i \in lo .. len - n : tasks[q][n + i] = t} /\ B = TasksOf(q, t, n + lo, len)
  OBVIOUS
<1>4. B = {i \in n + lo .. len : tasks[q][i] = t}
  BY <1>3 DEF TasksOf
<1>5. IsFiniteSet(B)
  <2>1. n + lo \in Int /\ len \in Int
    OBVIOUS
  <2> QED
    BY <1>3, <2>1, TasksOfFinite
<1>6. PICK f : f = [i \in B |-> i - n]
  OBVIOUS
<1>7. f \in [B -> A]
  <2>1. ASSUME NEW i \in B PROVE i - n \in A
    <3>1. i \in Int /\ n + lo <= i /\ i <= len /\ tasks[q][i] = t
      BY <1>4
    <3>2. i - n \in lo .. len - n /\ n + (i - n) = i
      BY <3>1
    <3> QED
      BY <1>3, <3>1, <3>2
  <2> QED
    BY <1>6, <2>1
<1>8. \A a, b \in B : f[a] = f[b] => a = b
  BY <1>4, <1>6
<1>9. ASSUME NEW a \in A PROVE \E b \in B : f[b] = a
  <2>1. a \in Int /\ lo <= a /\ a <= len - n /\ tasks[q][n + a] = t
    BY <1>3
  <2>2. n + a \in B
    BY <1>4, <2>1
  <2>3. f[n + a] = a
    BY <1>6, <2>1, <2>2
  <2> QED
    BY <2>2, <2>3
<1>10. f \in Bijection(B, A)
  BY <1>7, <1>8, <1>9, Fun_IsBij
<1>11. Cardinality(A) = Cardinality(B)
  <2>1. ExistsBijection(B, A)
    BY <1>10 DEF ExistsBijection
  <2> QED
    BY <1>5, <2>1, FS_Bijection
<1>12. QueuedFrom(t, lo)' = Cardinality({i \in lo .. len - n : tasks'[q][i] = t})
  BY <1>1, <1>2 DEF QueuedFrom, TasksOf
<1>13. {i \in lo .. len - n : tasks'[q][i] = t} = A
  BY <1>2, <1>3
<1>14. QueuedFrom(t, n + lo) = Cardinality(B)
  BY <1>1, <1>3 DEF QueuedFrom
<1> QED
  BY <1>1, <1>11, <1>12, <1>13, <1>14

(* Retiring lowers the count of a session by its retired tasks. *)
LEMMA FinishCounts ==
  ASSUME Running, OnItsQueue, IsrFinish, NEW t \in Sess
  PROVE  QueuedFor(TqOf(t), t)' = QueuedFor(TqOf(t), t) - Retired(isrQ, isrCnt, t)
<1>1. PICK q \in Queues, len \in Nat, n \in Nat :
        q = isrQ /\ len = Len(tasks[q]) /\ n = isrCnt /\ n <= len
  BY FinishDrops, LenProperties
<1>2. TqOf(t) \in Queues /\ QueuedFor(TqOf(t), t) = QueuedFrom(t, 1) /\ QueuedFrom(t, 1) \in Nat
  BY QueueOf, QueuedFromType DEF Running
<1>3. QueuedFor(TqOf(t), t)' = QueuedFrom(t, 1)'
  BY DEF QueuedFor, QueuedFrom
<1>4. CASE TqOf(t) # q
  <2>1. TasksOf(q, t, 1, n) = {}
    BY <1>1, <1>4 DEF TasksOf, OnItsQueue
  <2>2. Retired(q, n, t) = 0
    BY <2>1, FS_EmptySet DEF Retired
  <2>3. tasks'[TqOf(t)] = tasks[TqOf(t)]
    BY <1>1, <1>2, <1>4, FinishDrops
  <2>4. QueuedFor(TqOf(t), t)' = QueuedFor(TqOf(t), t)
    BY <2>3 DEF QueuedFor, TasksOf
  <2> QED
    BY <1>1, <1>2, <2>2, <2>4
<1>5. CASE TqOf(t) = q
  <2>1. QueuedFrom(t, 1)' = QueuedFrom(t, n + 1)
    BY <1>1, <1>5, FinishShifts
  <2>2. PICK B, C : B = TasksOf(q, t, n + 1, len) /\ C = TasksOf(q, t, 1, n)
    OBVIOUS
  <2>3. IsFiniteSet(B) /\ IsFiniteSet(C) /\ Cardinality(B) \in Nat /\ Cardinality(C) \in Nat
    <3>1. n + 1 \in Int /\ len \in Int /\ 1 \in Int /\ n \in Int
      OBVIOUS
    <3> QED
      BY <3>1, <2>2, TasksOfFinite
  <2>4. TasksOf(q, t, 1, len) = C \cup B /\ C \cap B = {}
    BY <1>1, <2>2 DEF TasksOf
  <2>5. Cardinality(C \cup B) = Cardinality(C) + Cardinality(B)
    BY <2>3, <2>4, Disjoint
  <2>6. QueuedFrom(t, n + 1) = Cardinality(B) /\ QueuedFrom(t, 1) = Cardinality(C \cup B)
    BY <1>1, <1>5, <2>2, <2>4 DEF QueuedFrom
  <2>7. Retired(q, n, t) = Cardinality(C)
    BY <2>2 DEF Retired
  <2> QED
    BY <1>1, <1>2, <1>3, <2>1, <2>3, <2>5, <2>6, <2>7
<1> QED
  BY <1>4, <1>5

(* The four steps that change the lists, the counts or the timer's list. *)
LEMMA AddKeeps ==
  ASSUME TypeOK, TaskInv, NEW s \in Sess, LaunchAdd(s)
  PROVE  TaskInv'
<1>0. /\ pc \in [Ctx -> Labels] /\ tasks \in [Queues -> Seq(Sess)] /\ sState \in [Sess -> SessStates]
      /\ batch \in [Sess -> Nat] /\ unfin \in [Sess -> Int]
      /\ UNCHANGED <<sState, unfin>> /\ pc[Thread(s)] \in {"add", "addprof"}
      /\ \A t \in Sess : t # s => batch'[t] = batch[t]
  BY DEF TypeOK, CtlTypes, TqTypes, SessTypes, LaunchAdd
<1>1. PICK l \in {"idle", "count"} : Goto(Thread(s), l)
  BY LaunchAppends
<1>2. /\ pc'[Thread(s)] = l
      /\ \A t \in Sess : t # s => pc'[Thread(t)] = pc[Thread(t)]
  BY <1>0, <1>1, ThreadGoes
<1>3. sState[s] \in {"NORMAL", "ERROR"}
  BY <1>0 DEF TaskInv, BusyIsOpen
<1>4. BusyIsOpen'
  BY <1>0, <1>2, <1>3 DEF TaskInv, BusyIsOpen
<1>5. CASE Goto(Thread(s), "idle") /\ UNCHANGED tasks
  <2>1. pc'[Thread(s)] = "idle"
    BY <1>0, <1>5, ThreadGoes
  <2>2. \A t \in Sess : /\ pc'[Thread(t)] = "count" <=> pc[Thread(t)] = "count"
                        /\ pc[Thread(t)] = "count" => batch'[t] = batch[t]
    BY <1>0, <1>2, <2>1
  <2>3. Calm
    BY <1>0, <1>4, <1>5, <2>2 DEF Calm, BusyIsOpen
  <2> QED
    BY <2>3, CalmKeeps
<1>6. ASSUME Goto(Thread(s), "count"), UNCHANGED batch,
             Len(tasks'[TqOf(s)]) = Len(tasks[TqOf(s)]) + batch[s],
             \A i \in 1 .. Len(tasks[TqOf(s)]) : tasks'[TqOf(s)][i] = tasks[TqOf(s)][i],
             \A i \in 1 .. Len(tasks'[TqOf(s)]) :
               i > Len(tasks[TqOf(s)]) => tasks'[TqOf(s)][i] = s
      PROVE  TaskInv'
  <2>1. pc'[Thread(s)] = "count" /\ pc[Thread(s)] # "count"
    BY <1>0, <1>6, ThreadGoes
  <2>2. ASSUME NEW q \in Queues, NEW i \in 1 .. Len(tasks'[q])
        PROVE  \/ tasks'[q][i] = s /\ q = TqOf(s)
               \/ i \in 1 .. Len(tasks[q]) /\ tasks'[q][i] = tasks[q][i]
    <3>1. CASE q # TqOf(s)
      BY <3>1, LaunchAppends
    <3>2. CASE q = TqOf(s)
      <4>1. Len(tasks[q]) \in Nat
        BY <1>0, LenProperties
      <4> QED
        BY <1>6, <3>2, <4>1
    <3> QED
      BY <3>1, <3>2
  <2>3. OnItsQueue'
    BY <2>2 DEF OnItsQueue, TaskInv
  <2>4. GoneUnqueued'
    BY <1>0, <1>3, <2>2 DEF GoneUnqueued, TaskInv, Gone
  <2>5. UnfinCounts'
    <3> SUFFICES ASSUME NEW t \in Sess
                 PROVE  unfin[t] = QueuedFor(TqOf(t), t)'
                          - (IF pc'[Thread(t)] = "count" THEN batch[t] ELSE 0)
      BY <1>0, <1>6 DEF UnfinCounts
    <3>1. /\ QueuedFor(TqOf(t), t)' = QueuedFor(TqOf(t), t) + (IF t = s THEN batch[s] ELSE 0)
          /\ unfin[t] = QueuedFor(TqOf(t), t) - (IF pc[Thread(t)] = "count" THEN batch[t] ELSE 0)
      <4>1. 1 \in Nat \ {0} /\ 1 <= Len(tasks[TqOf(t)]) + 1
        BY <1>0, QueueOf, LenProperties
      <4>2. QueuedFrom(t, 1)' = QueuedFrom(t, 1) + (IF t = s THEN batch[s] ELSE 0)
        BY <1>6, <4>1, LaunchCounts
      <4>3. QueuedFor(TqOf(t), t)' = QueuedFrom(t, 1)' /\ QueuedFor(TqOf(t), t) = QueuedFrom(t, 1)
        BY QueuedFromType DEF QueuedFor, QueuedFrom
      <4> QED
        BY <4>2, <4>3 DEF TaskInv, UnfinCounts
    <3>2. Len(tasks[TqOf(t)]) \in Int
      BY <1>0, QueueOf, LenProperties
    <3>3. QueuedFor(TqOf(t), t) \in Nat /\ batch[t] \in Nat
      BY <1>0, <3>2, TasksOfFinite DEF QueuedFor
    <3>4. CASE t = s
      BY <2>1, <3>1, <3>3, <3>4
    <3>5. CASE t # s
      BY <1>2, <3>1, <3>3, <3>5
    <3> QED
      BY <3>4, <3>5
  <2> QED
    BY <1>4, <2>3, <2>4, <2>5 DEF TaskInv
<1> QED
  BY <1>5, <1>6, LaunchAppends

LEMMA CountKeeps ==
  ASSUME TypeOK, TaskInv, NEW s \in Sess, LaunchCount(s)
  PROVE  TaskInv'
<1>0. /\ pc \in [Ctx -> Labels] /\ tasks \in [Queues -> Seq(Sess)]
      /\ batch \in [Sess -> Nat] /\ unfin \in [Sess -> Int]
      /\ UNCHANGED <<tasks, sState>> /\ pc[Thread(s)] = "count"
      /\ unfin'[s] = unfin[s] + batch[s] /\ \A t \in Sess : t # s => unfin'[t] = unfin[t]
      /\ \A t \in Sess : t # s => batch'[t] = batch[t]
  BY DEF TypeOK, CtlTypes, TqTypes, SessTypes, LaunchCount, tqVars
<1>1. /\ pc'[Thread(s)] = "kick"
      /\ \A t \in Sess : t # s => pc'[Thread(t)] = pc[Thread(t)]
  BY <1>0, ThreadGoes DEF LaunchCount
<1>2. \A q, t : QueuedFor(q, t)' = QueuedFor(q, t)
  BY <1>0 DEF QueuedFor, TasksOf
<1>3. ASSUME NEW t \in Sess PROVE QueuedFor(TqOf(t), t) \in Nat
  <2>1. Len(tasks[TqOf(t)]) \in Int
    BY <1>0, QueueOf, LenProperties
  <2> QED
    BY <2>1, TasksOfFinite DEF QueuedFor
<1>4. UnfinCounts'
  <2> SUFFICES ASSUME NEW t \in Sess
               PROVE  unfin'[t] = QueuedFor(TqOf(t), t)'
                        - (IF pc'[Thread(t)] = "count" THEN batch'[t] ELSE 0)
    BY DEF UnfinCounts
  <2>1. QueuedFor(TqOf(t), t)' = QueuedFor(TqOf(t), t)
    BY <1>0 DEF QueuedFor, TasksOf
  <2>2. unfin[t] = QueuedFor(TqOf(t), t) - (IF pc[Thread(t)] = "count" THEN batch[t] ELSE 0)
    BY DEF TaskInv, UnfinCounts
  <2>3. QueuedFor(TqOf(t), t) \in Nat /\ batch[t] \in Nat
    BY <1>0, <1>3
  <2>4. CASE t = s
    BY <1>0, <1>1, <2>1, <2>2, <2>3, <2>4
  <2>5. CASE t # s
    BY <1>0, <1>1, <2>1, <2>2, <2>3, <2>5
  <2> QED
    BY <2>4, <2>5
<1>5. BusyIsOpen' /\ OnItsQueue' /\ GoneUnqueued'
  BY <1>0, <1>1 DEF TaskInv, BusyIsOpen, OnItsQueue, GoneUnqueued
<1> QED
  BY <1>4, <1>5 DEF TaskInv

LEMMA FinishKeeps ==
  ASSUME Running, TaskInv, IsrFinish
  PROVE  TaskInv'
<1>0. /\ pc \in [Ctx -> Labels] /\ tasks \in [Queues -> Seq(Sess)] /\ ~inReset
      /\ UNCHANGED <<sState, batch>> /\ Goto(ISR, "after")
      /\ \A t \in Sess : unfin'[t] = unfin[t] - Retired(isrQ, isrCnt, t)
  <2>1. pc \in [Ctx -> Labels] /\ tasks \in [Queues -> Seq(Sess)] /\ ~inReset
    BY DEF Running, TypeOK, CtlTypes, TqTypes
  <2>2. FinishBurst(isrQ) = isrCnt
    BY FinishDrops
  <2> QED
    BY <2>1, <2>2 DEF IsrFinish
<1>1. \A t \in Sess : pc'[Thread(t)] = pc[Thread(t)]
  BY <1>0, OthersGo
<1>2. ASSUME NEW q \in Queues, NEW i \in 1 .. Len(tasks'[q])
      PROVE  \E k \in 1 .. Len(tasks[q]) : tasks'[q][i] = tasks[q][k]
  <2>1. CASE q # isrQ
    BY <2>1, FinishDrops
  <2>2. CASE q = isrQ
    <3>1. PICK len \in Nat : len = Len(tasks[q])
      BY <1>0, LenProperties
    <3>2. isrCnt \in Nat /\ i \in 1 .. len - isrCnt /\ tasks'[q][i] = tasks[q][isrCnt + i]
      BY <2>2, <3>1, FinishDrops
    <3>3. isrCnt + i \in 1 .. len
      BY <3>2
    <3> QED
      BY <3>1, <3>2, <3>3
  <2> QED
    BY <2>1, <2>2
<1>3. BusyIsOpen' /\ OnItsQueue' /\ GoneUnqueued'
  BY <1>0, <1>1, <1>2 DEF TaskInv, BusyIsOpen, OnItsQueue, GoneUnqueued
<1>4. UnfinCounts'
  <2> SUFFICES ASSUME NEW t \in Sess
               PROVE  unfin'[t] = QueuedFor(TqOf(t), t)'
                        - (IF pc'[Thread(t)] = "count" THEN batch'[t] ELSE 0)
    BY DEF UnfinCounts
  <2>1. PICK k : k = IF pc[Thread(t)] = "count" THEN batch[t] ELSE 0
    OBVIOUS
  <2>2. k \in Nat /\ k = IF pc'[Thread(t)] = "count" THEN batch'[t] ELSE 0
    BY <1>0, <1>1, <2>1 DEF Running, TypeOK, CtlTypes
  <2>3. unfin[t] = QueuedFor(TqOf(t), t) - k
    BY <2>1 DEF TaskInv, UnfinCounts
  <2>4. QueuedFor(TqOf(t), t)' = QueuedFor(TqOf(t), t) - Retired(isrQ, isrCnt, t)
    BY FinishCounts DEF TaskInv
  <2>5. Len(tasks[TqOf(t)]) \in Int /\ isrCnt \in Nat
    BY <1>0, QueueOf, LenProperties, FinishDrops
  <2>6. QueuedFor(TqOf(t), t) \in Nat /\ Retired(isrQ, isrCnt, t) \in Nat
    BY <2>5, TasksOfFinite, RetiredType DEF QueuedFor
  <2>7. unfin'[t] = unfin[t] - Retired(isrQ, isrCnt, t)
    BY <1>0
  <2> QED
    BY <2>2, <2>3, <2>4, <2>6, <2>7
<1> QED
  BY <1>3, <1>4 DEF TaskInv

(* The session the timer takes has no task: its count is exact, since its  *)
(* thread is idle.                                                         *)
LEMMA DetachKeeps ==
  ASSUME TypeOK, TaskInv, NEW s \in Sess, ReapDetach(s)
  PROVE  TaskInv'
<1>0. /\ tasks \in [Queues -> Seq(Sess)] /\ sState \in [Sess -> SessStates]
      /\ sState[s] = "CLOSED" /\ unfin[s] = 0
      /\ UNCHANGED <<tasks, unfin, pc, batch>>
      /\ \A t \in Sess : t # s => sState'[t] = sState[t]
  BY DEF TypeOK, TqTypes, SessTypes, ReapDetach, Reapable, tqVars, ctlVars
<1>1. pc[Thread(s)] = "idle"
  BY <1>0 DEF TaskInv, BusyIsOpen
<1>2. Len(tasks[TqOf(s)]) \in Int /\ TqOf(s) \in Queues
  BY <1>0, QueueOf, LenProperties
<1>3. QueuedFor(TqOf(s), s) = 0
  <2>1. QueuedFor(TqOf(s), s) \in Nat
    BY <1>2, TasksOfFinite DEF QueuedFor
  <2> QED
    BY <1>0, <1>1, <2>1 DEF TaskInv, UnfinCounts
<1>4. TasksOf(TqOf(s), s, 1, Len(tasks[TqOf(s)])) = {}
  BY <1>2, <1>3, TasksOfFinite, FS_EmptySet DEF QueuedFor
<1>5. \A q \in Queues : \A i \in 1 .. Len(tasks[q]) : tasks[q][i] # s
  BY <1>4 DEF TasksOf, TaskInv, OnItsQueue
<1>6. \A q \in Queues : \A i \in 1 .. Len(tasks[q]) : tasks[q][i] \in Sess
  BY <1>0, ElementOfSeq
<1>7. GoneUnqueued'
  BY <1>0, <1>5, <1>6 DEF TaskInv, GoneUnqueued
<1>8. \A q, t : QueuedFor(q, t)' = QueuedFor(q, t)
  BY <1>0 DEF QueuedFor, TasksOf
<1>9. BusyIsOpen' /\ OnItsQueue' /\ UnfinCounts'
  BY <1>0, <1>1, <1>8 DEF TaskInv, BusyIsOpen, OnItsQueue, UnfinCounts
<1> QED
  BY <1>7, <1>9 DEF TaskInv

LEMMA FreeKeeps ==
  ASSUME TypeOK, TaskInv, NEW s \in Sess, ReapFree(s)
  PROVE  TaskInv'
<1>1. Calm
  BY DEF ReapFree, Calm, Gone, TaskInv, BusyIsOpen, tqVars, ctlVars, TypeOK, SessTypes
<1> QED
  BY <1>1, CalmKeeps

(* The init of TaskInv: nothing is queued. *)
LEMMA InitTaskInv == Init => TaskInv
<1> SUFFICES ASSUME Init PROVE TaskInv
  OBVIOUS
<1>1. BusyIsOpen /\ OnItsQueue /\ GoneUnqueued
  BY Contexts DEF Init, BusyIsOpen, OnItsQueue, GoneUnqueued
<1>2. ASSUME NEW s \in Sess PROVE QueuedFor(TqOf(s), s) = 0
  <2>1. TasksOf(TqOf(s), s, 1, Len(tasks[TqOf(s)])) = {}
    BY QueueOf DEF Init, TasksOf
  <2> QED
    BY <2>1, FS_EmptySet DEF QueuedFor
<1>3. UnfinCounts
  BY <1>2, Contexts DEF Init, UnfinCounts
<1> QED
  BY <1>1, <1>3 DEF TaskInv

(* During a reset the handler takes nothing off. *)
LEMMA FinishInReset ==
  ASSUME TypeOK, TaskInv, inReset, IsrFinish
  PROVE  Calm
<1>0. pc \in [Ctx -> Labels] /\ BusyIsOpen
  BY DEF TypeOK, CtlTypes, TaskInv
<1>1. UNCHANGED <<tasks, sState, unfin, batch>> /\ Goto(ISR, "idle")
  BY DEF IsrFinish
<1>2. \A t \in Sess : pc'[Thread(t)] = pc[Thread(t)]
  BY <1>0, <1>1, OthersGo
<1> QED
  BY <1>0, <1>1, <1>2 DEF Calm, BusyIsOpen

LEMMA TaskStep ==
  ASSUME TypeOK, inReset \/ Running, TaskInv, [Next]_vars
  PROVE  TaskInv'
<1>1. CASE UNCHANGED vars
  <2>1. Calm
    BY <1>1 DEF vars, tqVars, sessVars, ctlVars, Calm, TaskInv, BusyIsOpen
  <2> QED
    BY <2>1, CalmKeeps
<1>2. ASSUME NEW s \in Sess, UserCall(s) \/ LaunchStep(s) \/ WaitStep(s) PROVE TaskInv'
  BY <1>2, CallsCalm, CalmKeeps, AddKeeps, CountKeeps DEF LaunchStep
<1>3. ASSUME NEW d \in Ctx, Dispatch(d) PROVE TaskInv'
  BY <1>3, DispatchCalm, CalmKeeps
<1>4. CASE IsrFinish
  BY <1>4, FinishInReset, FinishKeeps, CalmKeeps
<1>5. CASE \/ \E q \in Queues : TaskletRun(q) \/ HwComplete(q)
           \/ Interrupt \/ DeviceError \/ IsrAfter \/ IsrDrain \/ IsrPaused \/ IsrHang
  BY <1>5, OtherCalm, CalmKeeps
<1>6. CASE Reaper
  BY <1>6, DetachKeeps, FreeKeeps DEF Reaper
<1> QED
  BY <1>1, <1>2, <1>3, <1>4, <1>5, <1>6 DEF Next, IsrStep

LEMMA TaskInductive == Spec => [](IInv /\ TaskInv)
<1>1. IInv /\ TaskInv /\ [Next]_vars => TaskInv'
  BY IInvRuns, TaskStep DEF IInv
<1> QED
  BY Inductive, InitTaskInv, <1>1, PTL DEF Spec

(* A session off the list is referenced by no queued task. *)
LEMMA GoneIsUnreferenced ==
  ASSUME TypeOK, TaskInv
  PROVE  FreedIsUnreferenced
<1> SUFFICES ASSUME NEW s \in Sess
             PROVE  /\ sState[s] \in {"DETACHED", "FREED"} =>
                         pc[Thread(s)] = "idle" /\ \A q \in Queues : s \notin Owners(q)
                    /\ unfin[s] = QueuedFor(TqOf(s), s)
                                    - (IF pc[Thread(s)] = "count" THEN batch[s] ELSE 0)
  BY DEF FreedIsUnreferenced
<1>1. unfin[s] = QueuedFor(TqOf(s), s) - (IF pc[Thread(s)] = "count" THEN batch[s] ELSE 0)
  BY DEF TaskInv, UnfinCounts
<1>2. ASSUME sState[s] \in {"DETACHED", "FREED"}, NEW q \in Queues, s \in Owners(q) PROVE FALSE
  <2>1. DOMAIN tasks[q] = 1 .. Len(tasks[q])
    BY LenProperties DEF TypeOK, TqTypes
  <2>2. PICK i \in 1 .. Len(tasks[q]) : tasks[q][i] = s
    BY <1>2, <2>1 DEF Owners
  <2> QED
    BY <1>2, <2>2 DEF TaskInv, GoneUnqueued, Gone
<1>3. sState[s] \in {"DETACHED", "FREED"} => pc[Thread(s)] = "idle"
  BY DEF TaskInv, BusyIsOpen
<1> QED
  BY <1>1, <1>2, <1>3

(* While no reset empties the lists, the timer never frees a session that  *)
(* a queued task points to (__clean_sessions tests only the state and the  *)
(* unfinished count, and the launch that raises it is not atomic with the  *)
(* append), and the count is exact but for the launch in progress.         *)
THEOREM FreedSessionsUnreferenced == Spec => []FreedIsUnreferenced
<1>1. IInv /\ TaskInv => FreedIsUnreferenced
  BY GoneIsUnreferenced DEF IInv
<1> QED
  BY TaskInductive, <1>1, PTL
=============================================================================
