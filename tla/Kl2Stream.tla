------------------------------ MODULE Kl2Stream ------------------------------
(***************************************************************************)
(* Streams of an R200 board: sessions add kernels, event records and event *)
(* waits to the hardware queue they are bound to; the interrupt of a queue *)
(* counts its tasks off; a queue waits in hardware for what another queue  *)
(* records.  A kernel that faults, hangs or belongs to a session that is   *)
(* being closed is taken out by the timer and the exception work, which    *)
(* stall all queues, wait until nothing runs, spread the error to the      *)
(* sessions that may wait for the lost records, revoke the tasks of the    *)
(* sessions in error, reset the queues and write the rest again.           *)
(*                                                                         *)
(* One thread per session calls the driver.  A kernel runs on one unit,    *)
(* whose fault or time-out is booked with its queue.  The hardware keeps   *)
(* the last recorded number of a queue across a reset of the queue.        *)
(***************************************************************************)
EXTENDS Integers, Sequences, FiniteSets

CONSTANTS
  Sessions, Uproc,  \* sessions (open files) and the process of each
  NumQ, Depth,      \* KL2_HWQ_CNT, KL2_HWQ_DEPTH
  Events,           \* events of the processes
  Plans,            \* bound: the calls and failures that may meet
  Races,            \* bound: see RaceNames
  Nothing

Queues == 1 .. NumQ

(* Orders of events that only some runs let happen.                        *)
(*   close:  a session that records events is closed with tasks left       *)
(*   late:   a kernel that was found to be late ends by itself             *)
(*   record: an event is recorded behind the back of the exception work    *)
(*   signal: the timer asks for a reset between the mark and the reset     *)
(*   split:  an event is recorded while a thread looks at its counts       *)
(*   stuck:  a unit still works after its reset                            *)
RaceNames == {"close", "late", "record", "signal", "split", "stuck"}

CallType == {"kernel", "rec", "wait", "hostwait"} \X Events

(* A plan has the calls of each session, the sessions whose kernels may    *)
(* fault or hang (faulty), those that may be closed (closing), the tasks.  *)

ASSUME StreamAssumption ==
  /\ IsFiniteSet(Sessions)
  /\ NumQ \in Nat \ {0} /\ Depth \in Nat \ {0}
  /\ \A p \in Plans :
       /\ DOMAIN p.calls = Sessions /\ \A s \in Sessions : p.calls[s] \subseteq CallType
       /\ p.faulty \subseteq Sessions /\ p.closing \subseteq Sessions /\ p.tasks \in Nat
  /\ Races \subseteq RaceNames
  /\ Nothing \notin Queues

(* An event is of one process: evnt->uproc # sess->uproc is refused. *)
UsesEvent(p, s, e) == \E kind \in {"rec", "wait", "hostwait"} : <<kind, e>> \in p.calls[s]

ASSUME EventsOfOneProcess ==
  \A p \in Plans, e \in Events, r \in Sessions, s \in Sessions :
    UsesEvent(p, r, e) /\ UsesEvent(p, s, e) => Uproc[r] = Uproc[s]

VARIABLES
  plan,                  \* the member of Plans that is looked at
  file,                  \* open, waiting, tainted (kl2_release), closed
  failed, tainted,       \* sess->state, sess->taint_state
  unfin,                 \* sess->unfinished_cnt
  bound,                 \* sess->hwq
  up,                    \* uproc->state is KL2_UPROC_ERROR
  pc, arg,               \* where the thread of a session is, with which task
  token,                 \* kl2_dev->task_token
  pt, rt, ft, xl, gone,  \* pt_list, rt_list, ft_list, exception_list, free_list
  running,               \* hwq->cnt_running
  evSeq,                 \* hwq->evnt_seq
  finish,                \* hwq->finish_work is queued
  ev,                    \* the events
  hw, unit, recorded,    \* hardware: a queue, the unit at its head, last record
  intr, isr,             \* completions signalled, and read by the handler
  stall,                 \* the queues are stalled
  fault, late,           \* exception_board_cluster: booked, timeout_token or 0
  board,                 \* exception_board_hwq: token of a task, or 0
  spread, again,         \* taint_cnt, taint_2_reset_cnt
  htaint, draining,      \* hwq->taint_state, hwq->regular_timer_state
  work, wpc, todo,       \* the exception work is queued; its next step, queues
  dead,                  \* kl2_dev->state is KL2_ERROR
  killed, culprits  \* history: tasks done, kernels cut off, sessions to blame

sessVars  == <<file, failed, tainted, unfin, bound, up>>
callVars  == <<plan, pc, arg, token>>
listVars  == <<pt, rt, ft, xl, gone, running, finish>>
hwVars    == <<hw, unit, recorded, intr>>
boardVars == <<fault, late, board, spread, again, htaint, draining>>
workVars  == <<work, wpc, todo, dead>>
vars == <<sessVars, callVars, listVars, evSeq, ev, hwVars, isr, stall, boardVars, workVars,
          killed, culprits>>

Elems(s)  == {s[i] : i \in 1 .. Len(s)}

(* The elements of list that are in S, in their order. *)
Only(list, S) ==
  LET first[n \in 0 .. Len(list)] ==
        IF n = 0 THEN <<>>
        ELSE IF list[n] \in S THEN Append(first[n - 1], list[n]) ELSE first[n - 1]
  IN  first[Len(list)]

Least(S)  == CHOOSE x \in S : \A y \in S : x <= y
Rep(e)    == [q \in Queues |-> e]
NoTask    == [tk |-> 0, sess |-> Nothing, kind |-> "none", ev |-> Nothing, q |-> Nothing, seq |-> 0]

(* kl2_session_state_normal *)
Normal(s) == ~failed[s] /\ ~tainted[s]

TasksOf(s) ==
  UNION {{t \in Elems(pt[q] \o rt[q] \o ft[q] \o xl[q] \o gone[q]) : t.sess = s} : q \in Queues}

(* The session can still be found: its file and its tasks refer to it. *)
Alive(s) == file[s] # "closed" \/ TasksOf(s) # {}

-----------------------------------------------------------------------------
(* Calls of a session *)

(* kl2_session_bind_hwq_locked: to the first queue with the fewest sessions *)
Load(b, q)  == Cardinality({s \in Sessions : b[s] = q /\ Alive(s)})
Lightest(b) == Least({q \in Queues : \A p \in Queues : Load(b, q) <= Load(b, p)})
Bind(b, s)  == IF b[s] = Nothing THEN [b EXCEPT ![s] = Lightest(b)] ELSE b

(* A call up to the check of kl2_session_add_task that holds no lock.  An  *)
(* event wait reads what was published of the last record.                 *)
Begin(s) ==
  /\ pc[s] = "idle" /\ file[s] = "open"
  /\ token <= plan.tasks
  /\ Normal(s) /\ ~dead
  /\ \E call \in plan.calls[s] :
       LET e == call[2]
       IN  /\ call[1] \in {"kernel", "rec", "wait"}
           /\ call[1] = "wait" => ev[e].q # Nothing
           /\ arg' = [arg EXCEPT ![s] =
                [tk |-> token, sess |-> s, kind |-> call[1],
                 ev  |-> IF call[1] = "rec" THEN e ELSE Nothing,
                 q   |-> IF call[1] = "wait" THEN ev[e].q ELSE Nothing,
                 seq |-> IF call[1] = "wait" THEN ev[e].seq ELSE 0]]
  /\ bound' = Bind(bound, s)
  /\ token' = token + 1
  /\ pc' = [pc EXCEPT ![s] = "add"]
  /\ UNCHANGED <<file, failed, tainted, unfin, up, plan, listVars, evSeq, ev, hwVars, isr, stall,
                 boardVars, workVars, killed, culprits>>

Room(n) == Depth - n

(* Tasks of pt that fit, up to the first one of a session in trouble. *)
Ready(q, p, n) ==
  LET ok(k) == k <= Len(p) /\ k <= Room(n) /\ \A i \in 1 .. k : Normal(p[i].sess)
  IN  CHOOSE k \in 0 .. Len(p) : ok(k) /\ ~ok(k + 1)

(* __kl2_hwq_dispatch_locked_nocheck of lists p (pending) and r (running) *)
Dispatch(q, p, r, n, h) ==
  LET k == Ready(q, p, n)
      out == SubSeq(p, 1, k)
  IN  /\ pt' = [pt EXCEPT ![q] = SubSeq(p, k + 1, Len(p))]
      /\ rt' = [rt EXCEPT ![q] = r \o out]
      /\ running' = [running EXCEPT ![q] = n + k]
      /\ hw' = [hw EXCEPT ![q] = h \o out]

(* kl2_hwq_dispatch_locked *)
DispatchIfRunning(q, p, r, n) ==
  IF dead
  THEN /\ pt' = [pt EXCEPT ![q] = p] /\ rt' = [rt EXCEPT ![q] = r]
       /\ running' = [running EXCEPT ![q] = n] /\ UNCHANGED hw
  ELSE Dispatch(q, p, r, n, hw[q])

(* Mutant: the number is given out in the order of the calls. *)
RecordSeqEarly(s, q) == arg[s].tk

RecordSeq(s, q) == evSeq[q] + 1

(* Mutant: the state is not looked at again. *)
AcceptBlind(s) == TRUE

Accept(s) == Normal(s)

(* kl2_session_add_task under hwq->lock *)
Add(s) ==
  LET q == bound[s]
      isRec == arg[s].kind = "rec"
      t == IF isRec THEN [arg[s] EXCEPT !.seq = RecordSeq(s, q)] ELSE arg[s]
  IN  /\ pc[s] = "add"
      /\ "record" \in Races \/ ~isRec \/ wpc \in {"idle", "units", "drain", "sync"}
      /\ IF Accept(s)
         THEN /\ evSeq' = IF isRec THEN [evSeq EXCEPT ![q] = t.seq] ELSE evSeq
              /\ ev' = IF isRec THEN [ev EXCEPT ![t.ev].rec = @ + 1] ELSE ev
              /\ unfin' = [unfin EXCEPT ![s] = @ + 1]
              /\ DispatchIfRunning(q, Append(pt[q], t), rt[q], running[q])
              /\ arg' = [arg EXCEPT ![s] = IF isRec THEN t ELSE NoTask]
              /\ pc' = [pc EXCEPT ![s] = IF isRec THEN "publish" ELSE "idle"]
         ELSE /\ pc' = [pc EXCEPT ![s] = "idle"]
              /\ arg' = [arg EXCEPT ![s] = NoTask]
              /\ UNCHANGED <<evSeq, ev, unfin, pt, rt, running, hw>>
      /\ UNCHANGED <<file, failed, tainted, bound, up, plan, token, ft, xl, gone, finish, unit,
                     recorded, intr, isr, stall, boardVars, workVars, killed, culprits>>

(* Only then, under evnt->lock, can the record be waited for. *)
Publish(s) ==
  /\ pc[s] = "publish"
  /\ ev' = [ev EXCEPT ![arg[s].ev].q = bound[s], ![arg[s].ev].seq = arg[s].seq]
  /\ pc' = [pc EXCEPT ![s] = "idle"]
  /\ arg' = [arg EXCEPT ![s] = NoTask]
  /\ UNCHANGED <<sessVars, plan, token, listVars, evSeq, hwVars, isr, stall, boardVars, workVars,
                 killed, culprits>>

(* ioctl_event_wait reads rec_cnt ... *)
WaitBegin(s) ==
  /\ pc[s] = "idle" /\ file[s] = "open"
  /\ \E call \in plan.calls[s] :
       /\ call[1] = "hostwait"
       /\ ev[call[2]].rec > 0
       /\ arg' = [arg EXCEPT ![s] = [NoTask EXCEPT !.ev = call[2], !.seq = ev[call[2]].rec]]
  /\ pc' = [pc EXCEPT ![s] = "look"]
  /\ UNCHANGED <<sessVars, plan, token, listVars, evSeq, ev, hwVars, isr, stall, boardVars,
                 workVars, killed, culprits>>

RecordsOver(e, n) == n <= ev[e].fin

(* ... then fin_cnt.  It looks again until the records it knows are over,  *)
(* the event is revoked, the session is in error or time is up.            *)
WaitLook(s) ==
  LET e == arg[s].ev
  IN  /\ pc[s] = "look"
      /\ "split" \in Races \/ ev[e].rec = arg[s].seq
      /\ pc' = [pc EXCEPT ![s] =
           IF RecordsOver(e, arg[s].seq) /\ ~failed[s] THEN "ok" ELSE "idle"]
      /\ arg' = [arg EXCEPT ![s] = IF pc'[s] = "ok" THEN @ ELSE NoTask]
      /\ UNCHANGED <<sessVars, plan, token, listVars, evSeq, ev, hwVars, isr, stall, boardVars,
                     workVars, killed, culprits>>

WaitReturn(s) ==
  /\ pc[s] = "ok"
  /\ pc' = [pc EXCEPT ![s] = "idle"]
  /\ arg' = [arg EXCEPT ![s] = NoTask]
  /\ UNCHANGED <<sessVars, plan, token, listVars, evSeq, ev, hwVars, isr, stall, boardVars,
                 workVars, killed, culprits>>

Records(s) == \E e \in Events : <<"rec", e>> \in plan.calls[s]

(* kl2_release waits for the tasks of the session, *)
CloseBegin(s) ==
  /\ s \in plan.closing /\ file[s] = "open" /\ pc[s] = "idle"
  /\ "close" \in Races \/ ~Records(s) \/ unfin[s] = 0
  /\ file' = [file EXCEPT ![s] = "waiting"]
  /\ UNCHANGED <<failed, tainted, unfin, bound, up, callVars, listVars, evSeq, ev, hwVars, isr,
                 stall, boardVars, workVars, killed, culprits>>

(* after half a second leaves them to the timer and the exception work, *)
CloseTaint(s) ==
  /\ file[s] = "waiting" /\ unfin[s] # 0
  /\ file' = [file EXCEPT ![s] = "tainted"]
  /\ tainted' = [tainted EXCEPT ![s] = TRUE]
  /\ htaint' = [htaint EXCEPT ![bound[s]] = TRUE]
  /\ culprits' = culprits \cup {s}
  /\ UNCHANGED <<failed, unfin, bound, up, callVars, listVars, evSeq, ev, hwVars, isr, stall, fault,
                 late, board, spread, again, draining, workVars, killed>>

(* and after a minute returns all the same. *)
CloseEnd(s) ==
  /\ file[s] = "tainted" \/ (file[s] = "waiting" /\ unfin[s] = 0)
  /\ file' = [file EXCEPT ![s] = "closed"]
  /\ UNCHANGED <<failed, tainted, unfin, bound, up, callVars, listVars, evSeq, ev, hwVars, isr,
                 stall, boardVars, workVars, killed, culprits>>

-----------------------------------------------------------------------------
(* Hardware *)

Head1(q, kind) == hw[q] # <<>> /\ Head(hw[q]).kind = kind

HwKeeps == UNCHANGED <<sessVars, callVars, listVars, evSeq, ev, isr, boardVars, workVars, stall>>

(* A kernel runs, hangs or faults once it is at the head of its queue. *)
HwStart(q) ==
  /\ ~stall /\ unit[q] = "idle" /\ Head1(q, "kernel")
  /\ unit' = [unit EXCEPT ![q] = "run"]
  /\ UNCHANGED <<hw, recorded, intr, killed, culprits>> /\ HwKeeps

HwFails(q) ==
  /\ unit[q] = "run"
  /\ Head(hw[q]).sess \in plan.faulty
  /\ \E how \in {"hang", "fault"} : unit' = [unit EXCEPT ![q] = how]
  /\ culprits' = culprits \cup {Head(hw[q]).sess}
  /\ UNCHANGED <<hw, recorded, intr, killed>> /\ HwKeeps

HwPop(q) ==
  /\ hw' = [hw EXCEPT ![q] = Tail(@)]
  /\ intr' = [intr EXCEPT ![q] = @ + 1]

HwDone(q) ==
  /\ unit[q] = "run"
  /\ unit' = [unit EXCEPT ![q] = "idle"]
  /\ HwPop(q)
  /\ UNCHANGED <<recorded, killed, culprits>> /\ HwKeeps

HwRecord(q) ==
  /\ ~stall /\ unit[q] = "idle" /\ Head1(q, "rec")
  /\ recorded' = [recorded EXCEPT ![q] = Head(hw[q]).seq]
  /\ HwPop(q)
  /\ UNCHANGED <<unit, killed, culprits>> /\ HwKeeps

HwWait(q) ==
  /\ ~stall /\ unit[q] = "idle" /\ Head1(q, "wait")
  /\ recorded[Head(hw[q]).q] >= Head(hw[q]).seq
  /\ HwPop(q)
  /\ UNCHANGED <<unit, recorded, killed, culprits>> /\ HwKeeps

Busy(q) == unit[q] \in {"run", "hang", "fault"}

-----------------------------------------------------------------------------
(* Interrupts and the work that finishes tasks *)

(* kl2_sse_hwq_intr_count, before the lock is taken *)
IsrRead(q) ==
  /\ intr[q] > 0 /\ isr[q] = 0
  /\ isr' = [isr EXCEPT ![q] = intr[q]]
  /\ intr' = [intr EXCEPT ![q] = 0]
  /\ UNCHANGED <<sessVars, callVars, listVars, evSeq, ev, hw, unit, recorded, stall,
                 boardVars, workVars, killed, culprits>>

OfSession(s, tasks) == Cardinality({i \in 1 .. Len(tasks) : tasks[i].sess = s})

(* kl2_handle_hwq_intr *)
Isr(q) ==
  LET cnt == IF running[q] < isr[q] THEN running[q] ELSE isr[q]
      out == SubSeq(rt[q], 1, cnt)
  IN  /\ isr[q] > 0
      /\ isr' = [isr EXCEPT ![q] = 0]
      /\ ft' = [ft EXCEPT ![q] = @ \o out]
      /\ unfin' = [s \in Sessions |-> unfin[s] - OfSession(s, out)]
      /\ DispatchIfRunning(q, pt[q], SubSeq(rt[q], cnt + 1, Len(rt[q])), running[q] - cnt)
      /\ finish' = [finish EXCEPT ![q] = TRUE]
      /\ UNCHANGED <<file, failed, tainted, bound, up, callVars, xl, gone, evSeq, ev, unit,
                     recorded, intr, stall, boardVars, workVars, killed, culprits>>

GivenUp(q) == xl[q]

(* kl2_hwq_finish_work_func under the lock *)
FinishBegin(q) ==
  /\ finish[q] /\ gone[q] = <<>>
  /\ finish' = [finish EXCEPT ![q] = FALSE]
  /\ gone' = [gone EXCEPT ![q] = xl[q] \o ft[q]]
  /\ unfin' = [s \in Sessions |-> unfin[s] - OfSession(s, GivenUp(q))]
  /\ xl' = [xl EXCEPT ![q] = <<>>]
  /\ ft' = [ft EXCEPT ![q] = <<>>]
  /\ UNCHANGED <<file, failed, tainted, bound, up, callVars, pt, rt, running, evSeq, ev, hwVars,
                 isr, stall, boardVars, workVars, killed, culprits>>

(* finish_task and kl2_session_free_task *)
FinishTask(q) ==
  /\ gone[q] # <<>>
  /\ LET t == Head(gone[q])
     IN  ev' = IF t.kind = "rec" THEN [ev EXCEPT ![t.ev].fin = @ + 1] ELSE ev
  /\ gone' = [gone EXCEPT ![q] = Tail(@)]
  /\ UNCHANGED <<sessVars, callVars, pt, rt, ft, xl, running, finish, evSeq, hwVars, isr, stall,
                 boardVars, workVars, killed, culprits>>

(* kl2_cluster_disable_and_record_excp *)
BookFault(q) ==
  /\ fault' = [fault EXCEPT ![q] = TRUE]
  /\ board' = [board EXCEPT ![q] = Head(hw[q]).tk]

(* kl2_cluster_disable_and_record_timeout *)
BookLate(q) == late' = [late EXCEPT ![q] = Head(rt[q]).tk]

(* kl2_handle_excp_irq: the queues are stalled, the fault is booked. *)
FaultIrq(q) ==
  /\ unit[q] = "fault" /\ ~fault[q]
  /\ stall' = TRUE
  /\ BookFault(q)
  /\ work' = TRUE
  /\ UNCHANGED <<sessVars, callVars, listVars, evSeq, ev, hwVars, isr, late, spread, again,
                 htaint, draining, wpc, todo, dead, killed, culprits>>

-----------------------------------------------------------------------------
(* The timer: kl2_regular_timer_func *)

TimerDispatch(q) ==
  /\ DispatchIfRunning(q, pt[q], rt[q], running[q])
  /\ UNCHANGED <<sessVars, callVars, ft, xl, gone, finish, evSeq, ev, unit, recorded, intr,
                 isr, stall, boardVars, workVars, killed, culprits>>

(* The first task of a queue holds a unit for too long, or longer than its *)
(* session has been told to stop.                                          *)
TimerLate(q) ==
  /\ Busy(q) /\ rt[q] # <<>> /\ Head(rt[q]) = Head(hw[q]) /\ late[q] = 0
  /\ \/ unit[q] = "hang"
     \/ ~Normal(Head(rt[q]).sess)
     \/ "late" \in Races /\ Head(rt[q]).sess \in plan.faulty
  /\ stall' = TRUE
  /\ BookLate(q)
  /\ board' = [board EXCEPT ![q] = Head(rt[q]).tk]
  /\ tainted' = [tainted EXCEPT ![Head(rt[q]).sess] = TRUE]
  /\ culprits' = culprits \cup {Head(rt[q]).sess}
  /\ work' = TRUE
  /\ UNCHANGED <<file, failed, unfin, bound, up, callVars, listVars, evSeq, ev, hwVars, isr,
                 fault, spread, again, htaint, draining, wpc, todo, dead, killed>>

(* Queues marked by kl2_release are stalled; one on which nothing runs is  *)
(* handed to the exception work.                                           *)
TimerTaint ==
  LET told == {q \in Queues : htaint[q] \/ draining[q]}
      idle == {q \in told : ~Busy(q)}
  IN  /\ told # {}
      /\ stall => \E q \in told : htaint[q] \/ q \in idle
      /\ "signal" \in Races \/ wpc \notin {"mark", "reset", "clear"}
      /\ stall' = TRUE
      /\ htaint' = Rep(FALSE)
      /\ draining' = [q \in Queues |-> q \in told \ idle]
      /\ again' = [q \in Queues |-> again[q] \/ q \in idle]
      /\ work' = (work \/ idle # {})
      /\ UNCHANGED <<sessVars, callVars, listVars, evSeq, ev, hwVars, isr, fault, late, board, spread,
                     wpc, todo, dead, killed, culprits>>

-----------------------------------------------------------------------------
(* The exception work: kl2_handle_excp_work_func *)

(* kl2_in_excp *)
InExcp == \E q \in Queues : fault[q] \/ late[q] # 0 \/ board[q] # 0 \/ spread[q] \/ again[q]

WorkBegin ==
  /\ work /\ wpc = "idle"
  /\ work' = FALSE
  /\ IF InExcp
     THEN stall' = TRUE /\ wpc' = "units"
     ELSE UNCHANGED <<stall, wpc>>
  /\ UNCHANGED <<sessVars, callVars, listVars, evSeq, ev, hwVars, isr, boardVars, todo, dead,
                 killed, culprits>>

(* Mutant: units that are late are left alone. *)
CutOffFaulty == {q \in Queues : Busy(q) /\ fault[q]}

(* kl2_excp_reset_excp_timeout_cu: a unit is reset, unless it was only     *)
(* late and its late task has ended by itself.                             *)
CutOff == {q \in Queues : Busy(q) /\ (fault[q] \/ late[q] = Head(hw[q]).tk)}

WorkUnits ==
  /\ wpc = "units"
  /\ unit' = [q \in Queues |-> IF q \in CutOff THEN "cut" ELSE unit[q]]
  /\ killed' = killed \cup {Head(hw[q]).tk : q \in CutOff}
  /\ fault' = Rep(FALSE)
  /\ late' = Rep(0)
  /\ wpc' = "drain"
  /\ UNCHANGED <<sessVars, callVars, listVars, evSeq, ev, hw, recorded, intr, isr, stall, board,
                 spread, again, htaint, draining, work, todo, dead, culprits>>

(* Again, until nothing runs any more. *)
WorkDrained ==
  /\ wpc = "drain"
  /\ wpc' = IF \E q \in Queues : Busy(q) THEN "units" ELSE "sync"
  /\ UNCHANGED <<sessVars, callVars, listVars, evSeq, ev, hwVars, isr, stall, boardVars, work,
                 todo, dead, killed, culprits>>

(* Or a minute is over. *)
WorkGivesUp ==
  /\ wpc = "drain" /\ "stuck" \in Races
  /\ \E q \in Queues : Busy(q)
  /\ dead' = TRUE
  /\ wpc' = "idle"
  /\ UNCHANGED <<sessVars, callVars, listVars, evSeq, ev, hwVars, isr, stall, boardVars, work,
                 todo, killed, culprits>>

(* Mutant: without waiting. *)
HandledAtOnce == TRUE

Handled == \A q \in Queues : intr[q] = 0 /\ isr[q] = 0

(* synchronize_irq: the completions signalled so far have been handled. *)
WorkSync ==
  /\ wpc = "sync"
  /\ Handled
  /\ wpc' = "spread"
  /\ todo' = Queues
  /\ UNCHANGED <<sessVars, callVars, listVars, evSeq, ev, hwVars, isr, stall, boardVars, work,
                 dead, killed, culprits>>

(* kl2_excp_find_sess_tainting_from: the session of the task that failed,  *)
(* if a record of this session comes after it.                             *)
TaintingFrom(q) ==
  {s \in Sessions :
     \E i \in 1 .. Len(rt[q]) :
       /\ rt[q][i].tk = board[q] /\ rt[q][i].sess = s
       /\ \E t \in Elems(SubSeq(rt[q], i + 1, Len(rt[q])) \o pt[q]) :
            t.kind = "rec" /\ t.sess = s}

(* Mutants: to nobody, to the sessions of every process. *)
SpreadToNone(s) == {}
SpreadToAll(s) == {x \in Sessions \ {s} : Alive(x)}

SpreadTo(s) == {x \in Sessions \ {s} : Uproc[x] = Uproc[s] /\ Alive(x)}

(* kl2_excp_taint_all, one queue at a time: the session is in error; once  *)
(* per process, its other sessions are as well, are bound (to the queue    *)
(* that is lightest in the order of their numbers: any), their queues      *)
(* marked.                                                                 *)
WorkSpread ==
  LET q == Least(todo)
      lost == IF board[q] = 0 THEN {} ELSE TaintingFrom(q)
      from == {s \in lost : ~up[Uproc[s]]}
      to == UNION {SpreadTo(s) : s \in from}
  IN  /\ wpc = "spread"
      /\ up' = [p \in DOMAIN up |-> up[p] \/ \E s \in from : Uproc[s] = p]
      /\ failed' = [s \in Sessions |-> failed[s] \/ s \in lost \cup to]
      /\ \E b \in [to -> Queues] :
           /\ \A s \in to : bound[s] # Nothing => b[s] = bound[s]
           /\ bound' = [s \in Sessions |-> IF s \in to THEN b[s] ELSE bound[s]]
           /\ spread' = [x \in Queues |-> spread[x] \/ \E s \in to : b[s] = x]
      /\ todo' = todo \ {q}
      /\ wpc' = IF todo' = {} THEN "mark" ELSE "spread"
      /\ UNCHANGED <<file, tainted, unfin, callVars, listVars, evSeq, ev, hwVars, isr, stall, fault,
                     late, board, again, htaint, draining, work, dead, killed, culprits>>

(* Sessions told to stop are in error from here on, the queues the error   *)
(* was spread to are to be reset.                                          *)
WorkMark ==
  /\ wpc = "mark"
  /\ failed' = [s \in Sessions |-> failed[s] \/ (tainted[s] /\ Alive(s))]
  /\ again' = [q \in Queues |-> again[q] \/ spread[q]]
  /\ spread' = Rep(FALSE)
  /\ todo' = Queues
  /\ wpc' = "reset"
  /\ UNCHANGED <<file, tainted, unfin, bound, up, callVars, listVars, evSeq, ev, hwVars, isr,
                 stall, fault, late, board, htaint, draining, work, dead, killed, culprits>>

(* revoke_task_from_err_session_locked *)
Revoked(bad, q) == LET list == rt[q] \o pt[q] IN Only(list, {t \in Elems(list) : bad[t.sess]})
Kept(out, list) == Only(list, Elems(list) \ Elems(out))

(* Mutant: nobody. *)
NobodyFailed(q) == {}

(* The session of the task that failed, if it is still there. *)
FailedSession(q) ==
  {s \in Sessions : board[q] # 0 /\ \E t \in Elems(rt[q]) : t.tk = board[q] /\ t.sess = s}

(* Under the lock of a queue: mark the session of the task that failed,    *)
(* revoke, reset the queue, write the rest again and dispatch.             *)
WorkReset ==
  LET q == Least(todo)
      bad == [s \in Sessions |-> failed[s] \/ s \in FailedSession(q)]
      out == Revoked(bad, q)
      r == Kept(out, rt[q])
  IN  /\ wpc = "reset" /\ todo # {}
      /\ IF board[q] # 0 \/ again[q]
         THEN /\ failed' = bad
              /\ xl' = [xl EXCEPT ![q] = @ \o out]
              /\ ev' = [e \in Events |->
                   [ev[e] EXCEPT !.revoked = @ \/ \E t \in Elems(out) : t.kind = "rec" /\ t.ev = e]]
              /\ unit' = [unit EXCEPT ![q] = "idle"]
              /\ Dispatch(q, Kept(out, pt[q]), r, Len(r), r)
              /\ wpc' = "clear"
              /\ UNCHANGED todo
         ELSE /\ todo' = todo \ {q}
              /\ UNCHANGED <<failed, xl, ev, unit, pt, rt, running, hw, wpc>>
      /\ UNCHANGED <<file, tainted, unfin, bound, up, callVars, ft, gone, finish, evSeq, recorded,
                     intr, isr, stall, boardVars, work, dead, killed, culprits>>

(* Outside the lock: the finish work is queued, the board of the queue     *)
(* wiped.                                                                  *)
WorkClear ==
  LET q == Least(todo)
  IN  /\ wpc = "clear"
      /\ finish' = [finish EXCEPT ![q] = TRUE]
      /\ board' = [board EXCEPT ![q] = 0]
      /\ again' = [again EXCEPT ![q] = FALSE]
      /\ spread' = [spread EXCEPT ![q] = FALSE]
      /\ todo' = todo \ {q}
      /\ wpc' = "reset"
      /\ UNCHANGED <<sessVars, callVars, pt, rt, ft, xl, gone, running, evSeq, ev, hwVars, isr,
                     stall, fault, late, htaint, draining, work, dead, killed, culprits>>

WorkEnd ==
  /\ wpc = "reset" /\ todo = {}
  /\ dead' = FALSE
  /\ stall' = FALSE
  /\ wpc' = "idle"
  /\ UNCHANGED <<sessVars, callVars, listVars, evSeq, ev, hwVars, isr, boardVars, work, todo,
                 killed, culprits>>

-----------------------------------------------------------------------------
Init ==
  /\ plan \in Plans
  /\ file = [s \in Sessions |-> "open"]
  /\ failed = [s \in Sessions |-> FALSE] /\ tainted = [s \in Sessions |-> FALSE]
  /\ unfin = [s \in Sessions |-> 0]
  /\ bound = [s \in Sessions |-> Nothing]
  /\ up = [p \in {Uproc[s] : s \in Sessions} |-> FALSE]
  /\ pc = [s \in Sessions |-> "idle"] /\ arg = [s \in Sessions |-> NoTask]
  /\ token = 1
  /\ pt = Rep(<<>>) /\ rt = Rep(<<>>) /\ ft = Rep(<<>>) /\ xl = Rep(<<>>) /\ gone = Rep(<<>>)
  /\ running = Rep(0) /\ finish = Rep(FALSE) /\ evSeq = Rep(0)
  /\ ev = [e \in Events |-> [rec |-> 0, fin |-> 0, revoked |-> FALSE, q |-> Nothing, seq |-> 0]]
  /\ hw = Rep(<<>>) /\ unit = Rep("idle") /\ recorded = Rep(0) /\ intr = Rep(0) /\ isr = Rep(0)
  /\ stall = FALSE
  /\ fault = Rep(FALSE) /\ late = Rep(0) /\ board = Rep(0) /\ spread = Rep(FALSE) /\ again = Rep(FALSE)
  /\ htaint = Rep(FALSE) /\ draining = Rep(FALSE)
  /\ work = FALSE /\ wpc = "idle" /\ todo = {} /\ dead = FALSE
  /\ killed = {} /\ culprits = {}

Call(s)  == Begin(s) \/ WaitBegin(s)
Goes(s)  == Add(s) \/ Publish(s) \/ WaitLook(s) \/ WaitReturn(s)
Close(s) == CloseBegin(s) \/ CloseTaint(s) \/ CloseEnd(s)

Hw(q)     == HwStart(q) \/ HwDone(q) \/ HwRecord(q) \/ HwWait(q)
Finish(q) == FinishBegin(q) \/ FinishTask(q)

WorkStep ==
  \/ WorkBegin \/ WorkUnits \/ WorkDrained \/ WorkGivesUp \/ WorkSync
  \/ WorkSpread \/ WorkMark \/ WorkReset \/ WorkClear \/ WorkEnd

Next ==
  \/ \E s \in Sessions : Call(s) \/ Goes(s) \/ Close(s)
  \/ \E q \in Queues :
       Hw(q) \/ HwFails(q) \/ IsrRead(q) \/ Isr(q) \/ Finish(q) \/ FaultIrq(q)
         \/ TimerDispatch(q) \/ TimerLate(q)
  \/ TimerTaint \/ WorkStep

(* The thread of a call, the hardware, interrupts, timer and work queues   *)
(* run; nobody has to make another call, and no kernel has to fail.        *)
Fairness ==
  /\ \A s \in Sessions : WF_vars(Goes(s))
  /\ \A q \in Queues :
       /\ WF_vars(Hw(q)) /\ WF_vars(IsrRead(q) \/ Isr(q) \/ FaultIrq(q)) /\ WF_vars(Finish(q))
       /\ WF_vars(TimerDispatch(q) \/ TimerLate(q))
  /\ WF_vars(TimerTaint)
  /\ WF_vars(WorkStep)

Spec == Init /\ [][Next]_vars /\ Fairness

-----------------------------------------------------------------------------
(* Properties *)

TaskType ==
  [tk : 0 .. plan.tasks, sess : Sessions \cup {Nothing}, kind : {"none", "kernel", "rec", "wait"},
   ev : Events \cup {Nothing}, q : Queues \cup {Nothing}, seq : Nat]

(* Every variable has its type. *)
StreamTypeOK ==
  /\ file \in [Sessions -> {"open", "waiting", "tainted", "closed"}]
  /\ unfin \in [Sessions -> 0 .. plan.tasks]
  /\ bound \in [Sessions -> Queues \cup {Nothing}]
  /\ pc \in [Sessions -> {"idle", "add", "publish", "look", "ok"}]
  /\ arg \in [Sessions -> TaskType]
  /\ \A q \in Queues : Elems(pt[q] \o rt[q] \o ft[q] \o xl[q] \o gone[q]) \subseteq TaskType
  /\ running \in [Queues -> 0 .. Depth]
  /\ unit \in [Queues -> {"idle", "run", "hang", "fault", "cut"}]
  /\ late \in [Queues -> 0 .. plan.tasks]
  /\ board \in [Queues -> 0 .. plan.tasks]
  /\ todo \subseteq Queues
  /\ wpc \in {"idle", "units", "drain", "sync", "spread", "mark", "reset", "clear"}

(* The counts the driver decides by are right although interrupts, finish  *)
(* work and exception work move the tasks of a session between five lists: *)
(* unfinished_cnt, which a close and xpu_wait poll, is the number of its   *)
(* tasks that are neither completed nor given up, cnt_running the length   *)
(* of rt_list.                                                             *)
TasksCounted ==
  /\ \A q \in Queues : running[q] = Len(rt[q])
  /\ \A s \in Sessions :
       unfin[s] = Cardinality({t \in TasksOf(s) :
                    \E q \in Queues : t \in Elems(pt[q] \o rt[q] \o xl[q])})

(* What the driver believes is in a hardware queue is there, in order: the *)
(* tasks of rt_list that have not completed.  So a completion is never     *)
(* charged to another task and no completed task is written a second time. *)
QueueMirrored ==
  \A q \in Queues :
    /\ Len(rt[q]) = intr[q] + isr[q] + Len(hw[q])
    /\ hw[q] = SubSeq(rt[q], intr[q] + isr[q] + 1, Len(rt[q]))

(* All of it: every variable has its type, and the lists of the driver,    *)
(* its counts and the hardware queues stay one another's mirror.           *)
ListsMirrored == StreamTypeOK /\ TasksCounted /\ QueueMirrored

(* A kernel that was cut off halfway is never run again. *)
CutOffForGood ==
  \A q \in Queues : \A t \in Elems(hw[q]) :
    t.tk \in killed => unit[q] = "cut" /\ t = Head(hw[q])

(* The records of a queue reach the hardware in the order of their         *)
(* numbers, so that a wait that is passed was right to be passed.          *)
RecordsInOrder ==
  \A q \in Queues :
    LET list == hw[q] \o pt[q]
    IN  \A i \in 1 .. Len(list) :
          list[i].kind = "rec" =>
            /\ list[i].seq \in (recorded[q] + 1) .. evSeq[q]
            /\ \A j \in 1 .. (i - 1) : list[j].kind = "rec" => list[j].seq < list[i].seq

(* Whoever loses its tasks has itself, or another session of its process,  *)
(* to blame: the error of one process is never spread to another, although *)
(* both share queues that are reset.                                       *)
FaultsContained ==
  \A s \in Sessions :
    failed[s] \/ (\E q \in Queues : \E t \in Elems(xl[q]) : t.sess = s) =>
      \E c \in culprits : Uproc[c] = Uproc[s]

(* The tasks of a session in error do not come back: once the exception    *)
(* work has been through its queue, none is left and none is added.        *)
RevokedForGood ==
  \A s \in Sessions :
    failed[s] /\ bound[s] # Nothing /\ ~InExcp /\ wpc = "idle"
        /\ ~htaint[bound[s]] /\ ~draining[bound[s]] =>
      \A t \in Elems(pt[bound[s]] \o rt[bound[s]]) : t.sess # s

(* A stream that waits for a record waits for something that still comes:  *)
(* "if an event record follows on the queue, the sessions of the whole     *)
(* process are destroyed" (exception.c, kl2_handle_excp_work_func).        *)
WaitsHaveRecords ==
  wpc = "idle" /\ ~InExcp =>
    \A q \in Queues : \A t \in Elems(rt[q]) :
      t.kind = "wait" /\ Normal(t.sess) =>
        \/ recorded[t.q] >= t.seq
        \/ \E r \in Elems(pt[t.q] \o rt[t.q]) : r.kind = "rec" /\ r.seq >= t.seq

(* event_wait reports success only if the records it knew of were made by  *)
(* the hardware, none of them revoked, although it decides by counts that  *)
(* the exception work moves as well.                                       *)
EventWaitHonest ==
  \A s \in Sessions : pc[s] = "ok" =>
    LET e == arg[s].ev
    IN  ev[e].rec = arg[s].seq =>
          /\ ~ev[e].revoked
          /\ \A q \in Queues : \A t \in Elems(pt[q] \o rt[q] \o xl[q]) :
               ~(t.kind = "rec" /\ t.ev = e)

(* Whatever waits for whatever, and whoever fails, every task is completed *)
(* or given up: the queues do not end up waiting for one another.          *)
TasksEnd == \A s \in Sessions : unfin[s] > 0 ~> unfin[s] = 0
=============================================================================
