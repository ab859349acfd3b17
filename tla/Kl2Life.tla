------------------------------- MODULE Kl2Life -------------------------------
(***************************************************************************)
(* Who keeps whom alive on an R200 board: sessions (open files), the       *)
(* record of their process, its events, and the container instance whose   *)
(* memory limit it is under.  Files, tasks on a hardware queue, ioctls and *)
(* the control device hold references; the last one to go releases, in     *)
(* steps between which others run.  Pages are charged to the process and   *)
(* to the instance around the allocation, and given back with it.          *)
(*                                                                         *)
(* The hardware queues are those of Kl2Stream, the pages those of KlMm:    *)
(* here a task only ends at some time, and an allocation only succeeds or  *)
(* not.  Named bounds: a session has one ioctl and one task under way, and *)
(* only one kind of memory is limited.                                     *)
(***************************************************************************)
EXTENDS Integers, FiniteSets, FiniteSetsExt

CONSTANTS
  Sess,      \* addresses of struct kl2_session
  Procs,     \* processes
  Uprocs,    \* addresses of struct kl2_userprocess
  Events,    \* addresses of struct kl2_event
  Insts,     \* addresses of struct kl_cxpu_instance
  GroupOf,   \* the cgroup of a process
  Admins,    \* threads that set limits on the control device
  Asks,      \* pages asked for
  Limits,    \* limits set, in pages
  MaxPages,  \* bound: pages a session holds
  Total,     \* the pages that can be assigned to instances
  Races,     \* bound: which of the races named below may happen
  Mixes,     \* bound: the kinds of call made together
  Nothing    \* a null pointer

(* Races the code leaves open, each of which ends in a freed object being  *)
(* used (see the README).                                                  *)
AllRaces ==
  { "open",     \* a process opens a file while its last one is released
    "find",     \* an event is looked up while its last reference goes
    "foreign",  \* an event of another process is looked up
    "twice",    \* an event is destroyed a second time
    "early" }   \* an event is looked up before its count is set

CallKinds == {"launch", "event", "memory", "limit"}

Unlimited == -1
Groups == {GroupOf[p] : p \in Procs}

EventCalls  == [op : {"init", "found", "put", "unlink"}, ev : Events]
MemoryCalls == [op : {"charge", "alloc", "stat", "copy"}, n : Asks]
AdminCalls  ==
  [op : {"read", "apply", "put"}, inst : Insts, limit : Limits \cup {Unlimited}, last : Limits \cup {0}]

ASSUME LifeAssumption ==
  /\ IsFiniteSet(Sess) /\ IsFiniteSet(Uprocs) /\ IsFiniteSet(Insts) /\ IsFiniteSet(Admins)
  /\ Procs # {}
  /\ Asks \subseteq Nat \ {0} /\ Limits \subseteq Nat
  /\ MaxPages \in Nat /\ Total \in Nat
  /\ Races \subseteq AllRaces /\ Mixes \subseteq SUBSET CallKinds
  /\ Nothing \notin Uprocs \cup Events \cup Insts
  /\ Nothing \notin EventCalls \cup MemoryCalls \cup AdminCalls

VARIABLES
  sLife,    \* a session, and the steps of its release
  sRef,     \* sess->xref
  sFile,    \* a file is open on it
  sUproc,   \* sess->uproc
  sErr,     \* its state is not NORMAL
  pages,    \* the pages it holds
  task,     \* its task on the queue, and the event that records
  call,     \* what its ioctl has yet to do
  uLife,    \* the record of a process, and the steps of its release
  uRef,     \* uproc->xref
  uPid,     \* uproc->pid
  uErr,     \* uproc->state is not NORMAL
  uInst,    \* uproc->cxpu_instance
  uUsed,    \* uproc->mem_used_pgcnt
  uLock,    \* the session that holds uproc->lock
  eLife,    \* an event; DYING has no reference left
  eRef,     \* evnt->xref
  eUproc,   \* evnt->uproc
  eState,   \* evnt->state
  gone,     \* the events a destroy has succeeded for
  iRef,     \* instance->xref, 0 when there is none
  iToken,   \* instance->token
  iUsed,    \* instance->mem_used_pgcnt
  iLimit,   \* instance->mem_limit_pgcnt
  assigned, \* cxpu->main_mem.page_used
  admin,    \* what each thread of the control device has yet to do
  mix       \* the kinds of call made in this behaviour

sessVars  == <<sLife, sRef, sFile, sUproc, sErr>>
workVars  == <<pages, task, call>>
uprocVars == <<uLife, uRef, uPid, uErr, uInst>>
useVars   == <<uUsed, uLock, iUsed>>
eventVars == <<eLife, eRef, eUproc, eState, gone>>
instVars  == <<iRef, iToken, iLimit, assigned>>
ctlVars   == <<instVars, admin, mix>>
lifeVars  == <<sessVars, workVars, uprocVars, useVars, eventVars, ctlVars>>

NoTask == [kind |-> "none", ev |-> Nothing]
Idle(s) == call[s] = Nothing
Active(s) == sLife[s] = "LIVE" /\ sFile[s]

(* uproc_idr and event_idr *)
ListedUproc(p) == {u \in Uprocs : uLife[u] \in {"LIVE", "UNLINK"} /\ uPid[u] = p}
ListedEvents   == {e \in Events : eLife[e] # "NONE"}
Instances      == {i \in Insts : iRef[i] > 0}

-----------------------------------------------------------------------------
(* References *)

GetSess(s) == sRef' = [sRef EXCEPT ![s] = @ + 1]

(* xref_put of a session; the last one begins kl2_destroy_session_ref. *)
PutSess(s) ==
  /\ sRef' = [sRef EXCEPT ![s] = @ - 1]
  /\ sLife' = IF sRef[s] = 1 THEN [sLife EXCEPT ![s] = "UNLINK"] ELSE sLife

(* xref_put of an event with kl2_destroy_event_ref, which takes            *)
(* event_idr_lock only after the count has become 0.                       *)
PutEvent(e) ==
  /\ eRef' = [eRef EXCEPT ![e] = @ - 1]
  /\ eLife' = IF eRef[e] = 1 THEN [eLife EXCEPT ![e] = "DYING"] ELSE eLife

(* xref_put of the events E with kl2_destroy_event_locked_ref. *)
PutEventsLocked(E) ==
  /\ eRef' = [e \in Events |-> IF e \in E THEN eRef[e] - 1 ELSE eRef[e]]
  /\ eLife' = [e \in Events |-> IF e \in E /\ eRef[e] = 1 THEN "NONE" ELSE eLife[e]]

(* kl_cxpu_put_instance_locked, with kl_cxpu_destroy_instance_ref. *)
PutInst(i) ==
  /\ iRef' = [iRef EXCEPT ![i] = @ - 1]
  /\ assigned' = IF iRef[i] = 1 /\ iLimit[i] # Unlimited THEN assigned - iLimit[i] ELSE assigned
  /\ UNCHANGED <<iToken, iLimit>>

-----------------------------------------------------------------------------
(* A session comes and goes *)

(* kl_cxpu_get_instance_by_token_locked *)
JoinInst(u, token) ==
  IF \E i \in Instances : iToken[i] = token
  THEN \E i \in Instances :
         /\ iToken[i] = token
         /\ uInst' = [uInst EXCEPT ![u] = i]
         /\ iRef' = [iRef EXCEPT ![i] = @ + 1]
  ELSE uInst' = [uInst EXCEPT ![u] = Nothing] /\ UNCHANGED iRef

(* Named bound: without the race "open", no file is opened by a process    *)
(* whose record has lost its last reference but is still listed.           *)
Joinable(u) == uLife[u] = "LIVE" \/ "open" \in Races

(* kl2_create_session, under uproc_session_lock: the record of the process *)
(* is found, or a new one made (kl2_create_userprocess_locked).            *)
Open(s, p, u) ==
  /\ sLife[s] = "NONE"
  /\ \/ /\ u \in ListedUproc(p) /\ Joinable(u) /\ ~uErr[u]
        /\ uRef' = [uRef EXCEPT ![u] = @ + 1]
        /\ UNCHANGED <<uLife, uPid, uErr, uInst, iRef, uUsed>>
     \/ /\ ListedUproc(p) = {} /\ uLife[u] = "NONE"
        /\ uLife' = [uLife EXCEPT ![u] = "LIVE"]
        /\ uRef' = [uRef EXCEPT ![u] = 1]
        /\ uPid' = [uPid EXCEPT ![u] = p]
        /\ uErr' = [uErr EXCEPT ![u] = FALSE]
        /\ uUsed' = [uUsed EXCEPT ![u] = 0]
        /\ JoinInst(u, GroupOf[p])
  /\ sLife' = [sLife EXCEPT ![s] = "LIVE"]
  /\ sRef' = [sRef EXCEPT ![s] = 1]
  /\ sFile' = [sFile EXCEPT ![s] = TRUE]
  /\ sUproc' = [sUproc EXCEPT ![s] = u]
  /\ sErr' = [sErr EXCEPT ![s] = FALSE]
  /\ UNCHANGED <<workVars, uLock, iUsed, eventVars, iToken, iLimit, assigned, admin, mix>>

(* kl2_release: the task may outlive the wait for it. *)
Close(s) ==
  /\ Active(s) /\ Idle(s)
  /\ sFile' = [sFile EXCEPT ![s] = FALSE]
  /\ PutSess(s)
  /\ UNCHANGED <<sUproc, sErr, workVars, uprocVars, useVars, eventVars, ctlVars>>

(* kl2_destroy_session_ref: idr_remove and the queue's list ... *)
SessUnlink(s) ==
  /\ sLife[s] = "UNLINK"
  /\ sLife' = [sLife EXCEPT ![s] = "MEM"]
  /\ UNCHANGED <<sRef, sFile, sUproc, sErr, workVars, uprocVars, useVars, eventVars, ctlVars>>

(* Mutant: the lock is not dropped. *)
UnchargeKeepsLock(u, n) ==
  /\ uLock[u] = Nothing
  /\ uUsed' = [uUsed EXCEPT ![u] = @ - n]
  /\ iUsed' = IF uInst[u] = Nothing THEN iUsed ELSE [iUsed EXCEPT ![uInst[u]] = @ - n]
  /\ uLock' = IF n = 0 THEN uLock ELSE [uLock EXCEPT ![u] = CHOOSE s \in Sess : sUproc[s] = u]

(* Mutant: the instance is not told. *)
UnchargeProcessOnly(u, n) ==
  /\ uUsed' = [uUsed EXCEPT ![u] = @ - n]
  /\ UNCHANGED <<uLock, iUsed>>

(* kl2_mm_free_update_stat_cb, under uproc->lock. *)
Uncharge(u, n) ==
  /\ uLock[u] = Nothing
  /\ uUsed' = [uUsed EXCEPT ![u] = @ - n]
  /\ iUsed' = IF uInst[u] = Nothing THEN iUsed ELSE [iUsed EXCEPT ![uInst[u]] = @ - n]
  /\ UNCHANGED uLock

(* ... kl_mm_free_by_owner ... *)
SessFreeMem(s) ==
  /\ sLife[s] = "MEM"
  /\ Uncharge(sUproc[s], pages[s])
  /\ pages' = [pages EXCEPT ![s] = 0]
  /\ sLife' = [sLife EXCEPT ![s] = "PUT"]
  /\ UNCHANGED <<sRef, sFile, sUproc, sErr, task, call, uprocVars, eventVars, ctlVars>>

(* ... and the reference to the process; the last one begins               *)
(* kl2_destroy_userprocess_ref.                                            *)
SessPutUproc(s) ==
  LET u == sUproc[s]
  IN  /\ sLife[s] = "PUT"
      /\ uRef' = [uRef EXCEPT ![u] = @ - 1]
      /\ uLife' = IF uRef[u] = 1 THEN [uLife EXCEPT ![u] = "UNLINK"] ELSE uLife
      /\ sLife' = [sLife EXCEPT ![s] = "NONE"]
      /\ sUproc' = [sUproc EXCEPT ![s] = Nothing]
      /\ sErr' = [sErr EXCEPT ![s] = FALSE]
      /\ UNCHANGED <<sRef, sFile, workVars, uPid, uErr, uInst, useVars, eventVars, ctlVars>>

-----------------------------------------------------------------------------
(* The record of a process goes *)

(* Under uproc_session_lock: idr_remove. *)
UprocUnlink(u) ==
  /\ uLife[u] = "UNLINK"
  /\ uLife' = [uLife EXCEPT ![u] = "EVENTS"]
  /\ UNCHANGED <<sessVars, workVars, uRef, uPid, uErr, uInst, useVars, eventVars, ctlVars>>

(* Mutant: a revoked event is taken for one already destroyed. *)
EventListUnrevoked(u) == {e \in ListedEvents : eUproc[e] = u /\ eState[e] # "REVOKED"}

(* uproc->event_list *)
EventList(u) == {e \in ListedEvents : eUproc[e] = u}

(* kl2_destroy_uproc_event_list: the first reference of each listed event. *)
UprocPutEvents(u) ==
  /\ uLife[u] = "EVENTS"
  /\ PutEventsLocked(EventList(u))
  /\ uLife' = [uLife EXCEPT ![u] = "INST"]
  /\ UNCHANGED <<sessVars, workVars, uRef, uPid, uErr, uInst, useVars, eUproc, eState, gone, ctlVars>>

(* kl_cxpu_put_instance_locked and kfree; what was freed tells nothing. *)
UprocPutInst(u) ==
  /\ uLife[u] = "INST"
  /\ IF uInst[u] = Nothing THEN UNCHANGED instVars ELSE PutInst(uInst[u])
  /\ uLife' = [uLife EXCEPT ![u] = "NONE"]
  /\ uInst' = [uInst EXCEPT ![u] = Nothing]
  /\ uErr' = [uErr EXCEPT ![u] = FALSE]
  /\ UNCHANGED <<sessVars, workVars, uRef, uPid, useVars, eventVars, admin, mix>>

-----------------------------------------------------------------------------
(* Tasks and events *)

(* kl2_session_add_task: the queue's reference to the session, and for a   *)
(* record the one to the event.                                            *)
AddTask(s, e) ==
  /\ ~sErr[s] /\ task[s] = NoTask
  /\ task' = [task EXCEPT ![s] = [kind |-> "task", ev |-> e]]
  /\ GetSess(s)
  /\ UNCHANGED <<sLife, sFile, sUproc, sErr>>

(* ioctl_launch *)
Launch(s) ==
  /\ "launch" \in mix
  /\ Active(s) /\ Idle(s)
  /\ AddTask(s, Nothing)
  /\ UNCHANGED <<pages, call, uprocVars, useVars, eventVars, ctlVars>>

(* kl2_create_event: under event_idr_lock the event is listed, with the    *)
(* count of zeroed memory ...                                              *)
EventCreate(s, e) ==
  /\ "event" \in mix
  /\ Active(s) /\ Idle(s)
  /\ eLife[e] = "NONE"
  /\ eLife' = [eLife EXCEPT ![e] = "LIVE"]
  /\ eRef' = [eRef EXCEPT ![e] = 0]
  /\ eUproc' = [eUproc EXCEPT ![e] = sUproc[s]]
  /\ eState' = [eState EXCEPT ![e] = "NORMAL"]
  /\ gone' = gone \ {e}
  /\ call' = [call EXCEPT ![s] = [op |-> "init", ev |-> e]]
  /\ UNCHANGED <<sessVars, pages, task, uprocVars, useVars, ctlVars>>

(* ... and its count set after the lock is dropped. *)
EventInit(s) ==
  /\ ~Idle(s) /\ call[s].op = "init"
  /\ eRef' = [eRef EXCEPT ![call[s].ev] = 1]
  /\ call' = [call EXCEPT ![s] = Nothing]
  /\ UNCHANGED <<sessVars, pages, task, uprocVars, useVars, eLife, eUproc, eState, gone, ctlVars>>

Early(e) == \E s \in Sess : ~Idle(s) /\ call[s].op = "init" /\ call[s].ev = e

(* The checks of ioctl_event_destroy. *)
Destroyable(s, e) ==
  /\ e \in ListedEvents /\ eUproc[e] = sUproc[s]
  /\ eState[e] # "DESTROYED"

(* ioctl_event_destroy, under event_idr_lock. *)
EventDestroy(s, e) ==
  /\ Active(s) /\ Idle(s)
  /\ Destroyable(s, e)
  /\ e \in gone => "twice" \in Races
  /\ Early(e) => "early" \in Races
  /\ eState' = [eState EXCEPT ![e] = "DESTROYED"]
  /\ gone' = gone \cup {e}
  /\ PutEventsLocked({e})
  /\ UNCHANGED <<sessVars, workVars, uprocVars, useVars, eUproc, ctlVars>>

(* kl2_event_find_and_get, which precedes the check of the process, in     *)
(* ioctl_event_record, _stream_wait and _wait.                             *)
EventFind(s, e) ==
  /\ Active(s) /\ Idle(s)
  /\ e \in ListedEvents
  /\ eLife[e] = "DYING" => "find" \in Races
  /\ eUproc[e] # sUproc[s] => "foreign" \in Races
  /\ Early(e) => "early" \in Races
  /\ eRef' = [eRef EXCEPT ![e] = @ + 1]
  /\ call' = [call EXCEPT ![s] = [op |-> "found", ev |-> e]]
  /\ UNCHANGED <<sessVars, pages, task, uprocVars, useVars, eLife, eUproc, eState, gone, ctlVars>>

(* Mutant: a record does not hold its event. *)
RecordGetNone(e) == UNCHANGED eRef

RecordGet(e) == eRef' = [eRef EXCEPT ![e] = @ + 1]

(* The event is recorded by a task, waited for by one, or by the ioctl     *)
(* itself ...                                                              *)
EventUse(s) ==
  /\ ~Idle(s) /\ call[s].op = "found"
  /\ eUproc[call[s].ev] = sUproc[s]
  /\ \/ AddTask(s, call[s].ev) /\ RecordGet(call[s].ev)
     \/ AddTask(s, Nothing) /\ UNCHANGED eRef
  /\ call' = [call EXCEPT ![s] = [op |-> "put", ev |-> call[s].ev]]
  /\ UNCHANGED <<pages, uprocVars, useVars, eLife, eUproc, eState, gone, ctlVars>>

(* What is left to do for the one that puts e. *)
AfterPut(e, last, done) == IF eRef[e] = 1 THEN last ELSE done

(* ... and let go. *)
EventPut(s) ==
  /\ ~Idle(s) /\ call[s].op \in {"found", "put"}
  /\ LET e == call[s].ev
     IN  /\ PutEvent(e)
         /\ call' = [call EXCEPT ![s] = AfterPut(e, [op |-> "unlink", ev |-> e], Nothing)]
  /\ UNCHANGED <<sessVars, pages, task, uprocVars, useVars, eUproc, eState, gone, ctlVars>>

(* kl2_destroy_event_ref: idr_remove and the list of the process. *)
Unlink(e) ==
  /\ eLife' = [eLife EXCEPT ![e] = "NONE"]
  /\ UNCHANGED <<eRef, eUproc, eState, gone>>

EventUnlink(s) ==
  /\ ~Idle(s) /\ call[s].op = "unlink"
  /\ Unlink(call[s].ev)
  /\ call' = [call EXCEPT ![s] = Nothing]
  /\ UNCHANGED <<sessVars, pages, task, uprocVars, useVars, ctlVars>>

(* An exception takes a task of the session off its queue:                 *)
(* revoke_task_from_err_session_locked marks the event it records.  It may *)
(* have put the whole process in error (kl2_excp_taint_uproc_sess).        *)
Revoke(s) ==
  /\ task[s].kind = "task"
  /\ sErr' = [sErr EXCEPT ![s] = TRUE]
  /\ uErr' \in {uErr, [uErr EXCEPT ![sUproc[s]] = TRUE]}
  /\ task' = [task EXCEPT ![s].kind = "revoked"]
  /\ eState' = IF task[s].ev = Nothing THEN eState ELSE [eState EXCEPT ![task[s].ev] = "REVOKED"]
  /\ UNCHANGED <<sLife, sRef, sFile, sUproc, pages, call, uLife, uRef, uPid, uInst, useVars,
                 eLife, eRef, eUproc, gone, ctlVars>>

(* A task gets to the worker of the queue when the hardware has done it,   *)
(* or from the list of the revoked ones.                                   *)
Finishable(s) == task[s].kind # "none"

(* finish_task: the event first ... *)
FinishEvent(s) ==
  /\ Finishable(s) /\ task[s].kind # "done" /\ task[s].ev # Nothing
  /\ LET e == task[s].ev
     IN  /\ PutEvent(e)
         /\ task' = [task EXCEPT ![s] =
                       [kind |-> "done", ev |-> AfterPut(e, e, Nothing)]]
  /\ UNCHANGED <<sessVars, pages, call, uprocVars, useVars, eUproc, eState, gone, ctlVars>>

FinishUnlink(s) ==
  /\ task[s].kind = "done" /\ task[s].ev # Nothing
  /\ Unlink(task[s].ev)
  /\ task' = [task EXCEPT ![s].ev = Nothing]
  /\ UNCHANGED <<sessVars, pages, call, uprocVars, useVars, ctlVars>>

(* ... then kl2_session_free_task. *)
FinishTask(s) ==
  /\ Finishable(s) /\ task[s].ev = Nothing
  /\ task' = [task EXCEPT ![s] = NoTask]
  /\ PutSess(s)
  /\ UNCHANGED <<sFile, sUproc, sErr, pages, call, uprocVars, useVars, eventVars, ctlVars>>

-----------------------------------------------------------------------------
(* Memory under a limit *)

InstOf(s) == uInst[sUproc[s]]

Do(s, op, n) == call' = [call EXCEPT ![s] = [op |-> op, n |-> n]]

AddInstUsed(s, n) ==
  iUsed' = IF InstOf(s) = Nothing THEN iUsed ELSE [iUsed EXCEPT ![InstOf(s)] = @ + n]

(* __exceed_limit *)
WithinLimit(i, n) == i # Nothing /\ iLimit[i] # Unlimited => iUsed[i] + n <= iLimit[i]

(* ioctl_malloc takes uproc->lock and checks the limit ... *)
MallocCheck(s, n) ==
  /\ "memory" \in mix
  /\ Active(s) /\ Idle(s)
  /\ pages[s] + n <= MaxPages
  /\ uLock[sUproc[s]] = Nothing
  /\ WithinLimit(InstOf(s), n)
  /\ uLock' = [uLock EXCEPT ![sUproc[s]] = s]
  /\ Do(s, "charge", n)
  /\ UNCHANGED <<sessVars, pages, task, uprocVars, uUsed, iUsed, eventVars, ctlVars>>

(* ... charges the instance, and drops the lock; another process of the    *)
(* instance is not kept out.                                               *)
MallocCharge(s) ==
  /\ ~Idle(s) /\ call[s].op = "charge"
  /\ AddInstUsed(s, call[s].n)
  /\ uLock' = [uLock EXCEPT ![sUproc[s]] = Nothing]
  /\ Do(s, "alloc", call[s].n)
  /\ UNCHANGED <<sessVars, pages, task, uprocVars, uUsed, eventVars, ctlVars>>

MallocFails(s) ==
  /\ AddInstUsed(s, -call[s].n)
  /\ call' = [call EXCEPT ![s] = Nothing]

(* kl_mm_malloc *)
MallocTake(s) ==
  /\ ~Idle(s) /\ call[s].op = "alloc"
  /\ \/ /\ pages' = [pages EXCEPT ![s] = @ + call[s].n]
        /\ Do(s, "stat", call[s].n)
        /\ UNCHANGED iUsed
     \/ MallocFails(s) /\ UNCHANGED pages
  /\ UNCHANGED <<sessVars, task, uprocVars, uUsed, uLock, eventVars, ctlVars>>

(* kl2_mm_malloc_update_stat_cb *)
MallocStat(s) ==
  /\ ~Idle(s) /\ call[s].op = "stat"
  /\ uLock[sUproc[s]] = Nothing
  /\ uUsed' = [uUsed EXCEPT ![sUproc[s]] = @ + call[s].n]
  /\ Do(s, "copy", call[s].n)
  /\ UNCHANGED <<sessVars, pages, task, uprocVars, uLock, iUsed, eventVars, ctlVars>>

(* copy_to_user; when it fails the pages go back. *)
MallocReturn(s) ==
  /\ ~Idle(s) /\ call[s].op = "copy"
  /\ \/ UNCHANGED <<pages, useVars>>
     \/ /\ pages' = [pages EXCEPT ![s] = @ - call[s].n]
        /\ Uncharge(sUproc[s], call[s].n)
  /\ call' = [call EXCEPT ![s] = Nothing]
  /\ UNCHANGED <<sessVars, task, uprocVars, eventVars, ctlVars>>

(* ioctl_free of one allocation *)
Free(s, n) ==
  /\ Active(s) /\ Idle(s)
  /\ n <= pages[s]
  /\ pages' = [pages EXCEPT ![s] = @ - n]
  /\ Uncharge(sUproc[s], n)
  /\ UNCHANGED <<sessVars, task, call, uprocVars, eventVars, ctlVars>>

-----------------------------------------------------------------------------
(* The control device *)

(* kl_cxpu_create_instance *)
CreateInstance(i, token) ==
  /\ "limit" \in mix
  /\ iRef[i] = 0
  /\ iRef' = [iRef EXCEPT ![i] = 1]
  /\ iToken' = [iToken EXCEPT ![i] = token]
  /\ iUsed' = [iUsed EXCEPT ![i] = 0]
  /\ iLimit' = [iLimit EXCEPT ![i] = Unlimited]
  /\ UNCHANGED <<sessVars, workVars, uprocVars, uUsed, uLock, eventVars, assigned, admin, mix>>

(* The test of kl_cxpu_destroy_instance, which answers EBUSY otherwise. *)
NotBusy(i) == iRef[i] = 1

DestroyInstance(i) ==
  /\ NotBusy(i)
  /\ PutInst(i)
  /\ UNCHANGED <<sessVars, workVars, uprocVars, useVars, eventVars, admin, mix>>

(* kl_cxpu_set_instance_mem_limit: the instance is found ... *)
SetFind(a, i, limit) ==
  /\ admin[a] = Nothing
  /\ iRef[i] > 0
  /\ iRef' = [iRef EXCEPT ![i] = @ + 1]
  /\ admin' = [admin EXCEPT ![a] = [op |-> "read", inst |-> i, limit |-> limit, last |-> 0]]
  /\ UNCHANGED <<sessVars, workVars, uprocVars, useVars, eventVars, iToken, iLimit, assigned, mix>>

(* ... its last limit read before instance->lock is taken ... *)
SetRead(a) ==
  /\ admin[a] # Nothing /\ admin[a].op = "read"
  /\ LET last == iLimit[admin[a].inst]
     IN  admin' = [admin EXCEPT ![a] =
                       [@ EXCEPT !.op = "apply", !.last = IF last = Unlimited THEN 0 ELSE last]]
  /\ UNCHANGED <<sessVars, workVars, uprocVars, useVars, eventVars, instVars, mix>>

(* Mutant: what is assigned already does not count. *)
AvailableUnused(last) == Total + last

Available(last) == Total + last - assigned

Reassigned(last, limit) == assigned - last + (IF limit = Unlimited THEN 0 ELSE limit)

(* ... replaced under it if there are pages enough left ... *)
SetApply(a) ==
  /\ admin[a] # Nothing /\ admin[a].op = "apply"
  /\ LET i == admin[a].inst
         last == admin[a].last
         limit == admin[a].limit
     IN  IF limit = Unlimited \/ limit <= Available(last)
         THEN /\ assigned' = Reassigned(last, limit)
              /\ iLimit' = [iLimit EXCEPT ![i] = limit]
         ELSE UNCHANGED <<assigned, iLimit>>
  /\ admin' = [admin EXCEPT ![a].op = "put"]
  /\ UNCHANGED <<sessVars, workVars, uprocVars, useVars, eventVars, iRef, iToken, mix>>

(* ... and put back. *)
SetPut(a) ==
  /\ admin[a] # Nothing /\ admin[a].op = "put"
  /\ PutInst(admin[a].inst)
  /\ admin' = [admin EXCEPT ![a] = Nothing]
  /\ UNCHANGED <<sessVars, workVars, uprocVars, useVars, eventVars, mix>>

-----------------------------------------------------------------------------

Init ==
  /\ sLife = [s \in Sess |-> "NONE"]
  /\ sRef = [s \in Sess |-> 0]
  /\ sFile = [s \in Sess |-> FALSE]
  /\ sUproc = [s \in Sess |-> Nothing]
  /\ sErr = [s \in Sess |-> FALSE]
  /\ pages = [s \in Sess |-> 0]
  /\ task = [s \in Sess |-> NoTask]
  /\ call = [s \in Sess |-> Nothing]
  /\ uLife = [u \in Uprocs |-> "NONE"]
  /\ uRef = [u \in Uprocs |-> 0]
  /\ uPid = [u \in Uprocs |-> CHOOSE p \in Procs : TRUE]
  /\ uErr = [u \in Uprocs |-> FALSE]
  /\ uInst = [u \in Uprocs |-> Nothing]
  /\ uUsed = [u \in Uprocs |-> 0]
  /\ uLock = [u \in Uprocs |-> Nothing]
  /\ eLife = [e \in Events |-> "NONE"]
  /\ eRef = [e \in Events |-> 0]
  /\ eUproc = [e \in Events |-> Nothing]
  /\ eState = [e \in Events |-> "NORMAL"]
  /\ gone = {}
  /\ iRef = [i \in Insts |-> 0]
  /\ iToken = [i \in Insts |-> CHOOSE g \in Groups : TRUE]
  /\ iUsed = [i \in Insts |-> 0]
  /\ iLimit = [i \in Insts |-> Unlimited]
  /\ assigned = 0
  /\ admin = [a \in Admins |-> Nothing]
  /\ mix \in Mixes

UserCall(s) ==
  \/ \E p \in Procs, u \in Uprocs : Open(s, p, u)
  \/ Close(s) \/ Launch(s)
  \/ \E e \in Events : EventCreate(s, e) \/ EventDestroy(s, e) \/ EventFind(s, e)
  \/ \E n \in Asks : MallocCheck(s, n) \/ Free(s, n)

IoctlStep(s) ==
  \/ EventInit(s) \/ EventUse(s) \/ EventPut(s) \/ EventUnlink(s)
  \/ MallocCharge(s) \/ MallocTake(s) \/ MallocStat(s) \/ MallocReturn(s)

QueueStep(s) == FinishEvent(s) \/ FinishUnlink(s) \/ FinishTask(s)

SessRelease(s) == SessUnlink(s) \/ SessFreeMem(s) \/ SessPutUproc(s)

UprocRelease(u) == UprocUnlink(u) \/ UprocPutEvents(u) \/ UprocPutInst(u)

AdminStep(a) ==
  \/ \E i \in Insts, limit \in Limits \cup {Unlimited} : SetFind(a, i, limit)
  \/ SetRead(a) \/ SetApply(a) \/ SetPut(a)

Next ==
  \/ \E s \in Sess : UserCall(s) \/ IoctlStep(s) \/ QueueStep(s) \/ SessRelease(s) \/ Revoke(s)
  \/ \E u \in Uprocs : UprocRelease(u)
  \/ \E i \in Insts : DestroyInstance(i) \/ \E token \in Groups : CreateInstance(i, token)
  \/ \E a \in Admins : AdminStep(a)

Spec == Init /\ [][Next]_lifeVars

(* The kernel lets every thread and worker run, and a task ends: the queue *)
(* finishes it, or its exception takes it off.                             *)
Fairness ==
  /\ \A s \in Sess : WF_lifeVars(QueueStep(s) \/ SessRelease(s))
  /\ \A u \in Uprocs : WF_lifeVars(UprocRelease(u))

FairSpec == Spec /\ Fairness

-----------------------------------------------------------------------------
(* Properties *)

(* Every variable has its type; what is used never falls below nothing,    *)
(* and a session never holds more than the bound.                          *)
LifeTypeOK ==
  /\ sLife \in [Sess -> {"NONE", "LIVE", "UNLINK", "MEM", "PUT"}]
  /\ sRef \in [Sess -> 0..2]
  /\ sFile \in [Sess -> BOOLEAN]
  /\ sUproc \in [Sess -> Uprocs \cup {Nothing}]
  /\ sErr \in [Sess -> BOOLEAN]
  /\ pages \in [Sess -> 0..MaxPages]
  /\ task \in [Sess -> [kind : {"none", "task", "revoked", "done"}, ev : Events \cup {Nothing}]]
  /\ call \in [Sess -> EventCalls \cup MemoryCalls \cup {Nothing}]
  /\ uLife \in [Uprocs -> {"NONE", "LIVE", "UNLINK", "EVENTS", "INST"}]
  /\ uRef \in [Uprocs -> 0..Cardinality(Sess)]
  /\ uPid \in [Uprocs -> Procs]
  /\ uErr \in [Uprocs -> BOOLEAN]
  /\ uInst \in [Uprocs -> Insts \cup {Nothing}]
  /\ uUsed \in [Uprocs -> Nat]
  /\ uLock \in [Uprocs -> Sess \cup {Nothing}]
  /\ eLife \in [Events -> {"NONE", "LIVE", "DYING"}]
  /\ eRef \in [Events -> Nat]
  /\ eUproc \in [Events -> Uprocs \cup {Nothing}]
  /\ eState \in [Events -> {"NORMAL", "DESTROYED", "REVOKED"}]
  /\ gone \subseteq Events
  /\ iRef \in [Insts -> Nat]
  /\ iToken \in [Insts -> Groups]
  /\ iUsed \in [Insts -> Nat]
  /\ iLimit \in [Insts -> Limits \cup {Unlimited}]
  /\ assigned \in 0..Total
  /\ mix \in Mixes
  /\ admin \in [Admins -> AdminCalls \cup {Nothing}]

SessionsOf(u) == {s \in Sess : sUproc[s] = u}
Holding(s)    == IF sFile[s] THEN 1 ELSE 0
Queued(s)     == IF task[s] = NoTask THEN 0 ELSE 1

(* The reference an event is created with is put by its destroy or by the  *)
(* release of the process, whichever is first.                             *)
FirstRef(e) ==
  IF eUproc[e] # Nothing /\ uLife[eUproc[e]] \in {"LIVE", "UNLINK", "EVENTS"} /\ e \notin gone /\ ~Early(e)
  THEN 1 ELSE 0
Recorders(e) == {s \in Sess : task[s].ev = e /\ eLife[e] # "DYING"}
Finders(e)   == {s \in Sess : ~Idle(s) /\ call[s].op \in {"found", "put"} /\ call[s].ev = e}
Members(i)   == {u \in Uprocs : uInst[u] = i}
Setters(i)   == {a \in Admins : admin[a] # Nothing /\ admin[a].inst = i}

(* Every reference count is the number of those who will still put it:     *)
(* none is put twice or forgotten, over files, tasks, lookups, and the     *)
(* release of a process that puts what its events were created with.       *)
RefsMatch ==
  /\ \A s \in Sess : sRef[s] = Holding(s) + Queued(s)
  /\ \A u \in Uprocs : uRef[u] = Cardinality(SessionsOf(u))
  /\ \A e \in ListedEvents :
       eRef[e] = FirstRef(e) + Cardinality(Recorders(e)) + Cardinality(Finders(e))
  /\ \A i \in Instances : iRef[i] = 1 + Cardinality(Members(i)) + Cardinality(Setters(i))

(* Nobody is left with a pointer to what is gone: a file and a task have   *)
(* their session, a session its process, a lookup and a record their       *)
(* event, an event its process, a process and a setter their instance.     *)
NobodyDangles ==
  /\ \A s \in Sess :
       /\ (sFile[s] \/ task[s] # NoTask) => sLife[s] = "LIVE"
       /\ sLife[s] # "NONE" => sUproc[s] # Nothing /\ uLife[sUproc[s]] = "LIVE"
       /\ task[s].ev # Nothing => task[s].ev \in ListedEvents
  /\ \A e \in Events : Finders(e) # {} => eLife[e] = "LIVE"
  /\ \A e \in ListedEvents : uLife[eUproc[e]] \in {"LIVE", "UNLINK", "EVENTS"}
  /\ \A u \in Uprocs : uInst[u] # Nothing => uInst[u] \in Instances
  /\ \A i \in Insts : Setters(i) # {} => i \in Instances

PendingIn(s, op) == IF ~Idle(s) /\ call[s].op = op THEN call[s].n ELSE 0
Charged(s)       == pages[s] + PendingIn(s, "alloc")
Noted(s)         == pages[s] - PendingIn(s, "stat")

LimitOf(i)       == iLimit[i]

(* The pages counted as assigned are the limits of the instances there are.*)
AssignedMatches ==
  assigned = MapThenSumSet(LimitOf, {i \in Instances : iLimit[i] # Unlimited})

(* What is charged to an instance and to a process is what their sessions  *)
(* hold or are about to: whatever fails, races or is released, pages are   *)
(* given back once, to the instance they were charged to, and its limit to *)
(* what can be assigned.                                                   *)
MemoryAccounted ==
  /\ \A u \in Uprocs : uLife[u] # "NONE" =>
       uUsed[u] = MapThenSumSet(Noted, SessionsOf(u))
  /\ \A i \in Instances :
       iUsed[i] = MapThenSumSet(Charged, UNION {SessionsOf(u) : u \in Members(i)})
  /\ AssignedMatches

(* event.c:153: only the first destroy of an event returns success.        *)
DestroyedOnce ==
  [][\A s \in Sess, e \in Events : EventDestroy(s, e) => e \notin gone]_lifeVars

(* A process that keeps no file open is forgotten, with its sessions,      *)
(* their memory and its events: whatever its tasks and lookups still held  *)
(* is put in the end.                                                      *)
Fileless(u) == \A s \in SessionsOf(u) : ~sFile[s]
ProcessForgotten == \A u \in Uprocs : <>[]Fileless(u) => []<>(uLife[u] = "NONE")

=============================================================================
