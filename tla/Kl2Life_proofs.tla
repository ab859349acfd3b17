---------------------------- MODULE Kl2Life_proofs ----------------------------
(***************************************************************************)
(* References of the R200 driver, for any number of sessions, processes,   *)
(* events, instances and threads of the control device: without the races  *)
(* named in Kl2Life every count matches, nobody dangles, and the pages     *)
(* charged are the pages held.                                             *)
(*                                                                         *)
(* That the counts match is not inductive: what must be known besides is   *)
(* who may still use an event.  Its users are calls and tasks of sessions  *)
(* of its own process (UserOk), which keeps the process; one that is DYING *)
(* is held by nobody and has exactly one thread that will unlink it; and   *)
(* one whose count is not yet set has no user but its creator.             *)
(***************************************************************************)
EXTENDS Kl2Life, FiniteSetTheorems, TLAPS

TaskRecords == [kind : {"none", "task", "revoked", "done"}, ev : Events \cup {Nothing}]

(* The types the counts need. *)
LifeTypes ==
  /\ sLife \in [Sess -> {"NONE", "LIVE", "UNLINK", "MEM", "PUT"}]
  /\ sRef \in [Sess -> Int]
  /\ sFile \in [Sess -> BOOLEAN]
  /\ sUproc \in [Sess -> Uprocs \cup {Nothing}]
  /\ task \in [Sess -> TaskRecords]
  /\ call \in [Sess -> EventCalls \cup MemoryCalls \cup {Nothing}]
  /\ uLife \in [Uprocs -> {"NONE", "LIVE", "UNLINK", "EVENTS", "INST"}]
  /\ uRef \in [Uprocs -> Int]
  /\ uInst \in [Uprocs -> Insts \cup {Nothing}]
  /\ eLife \in [Events -> {"NONE", "LIVE", "DYING"}]
  /\ eRef \in [Events -> Int]
  /\ eUproc \in [Events -> Uprocs \cup {Nothing}]
  /\ gone \subseteq Events
  /\ iRef \in [Insts -> Int]
  /\ admin \in [Admins -> AdminCalls \cup {Nothing}]

LimitsTyped == iLimit \in [Insts -> Limits \cup {Unlimited}]

(* A file and a task hold their session; a call is made through a file. *)
SessInv ==
  \A s \in Sess :
    /\ sRef[s] = Holding(s) + Queued(s)
    /\ sFile[s] \/ task[s] # NoTask => sLife[s] = "LIVE"
    /\ sLife[s] = "NONE" <=> sUproc[s] = Nothing
    /\ call[s] # Nothing => sFile[s]
    /\ task[s].kind = "none" => task[s].ev = Nothing

(* A process is referenced by its sessions, and lives as long as one does. *)
UprocInv ==
  /\ \A u \in Uprocs : uRef[u] = Cardinality(SessionsOf(u))
  /\ \A s \in Sess : sUproc[s] # Nothing => uLife[sUproc[s]] = "LIVE"

(* A call of s is at one of the steps ops, about event e. *)
CallOn(s, ops, e) == call[s] # Nothing /\ call[s].op \in ops /\ call[s].ev = e

(* s has put the last reference of e and will unlink it. *)
Unlinks(s, e) == CallOn(s, {"unlink"}, e) \/ (task[s].kind = "done" /\ task[s].ev = e)

(* The tasks that hold a reference of e. *)
Recording(e) == {s \in Sess : task[s].kind # "done" /\ task[s].ev = e}

(* The count of an event, and what is known when it is 0 or not yet set. *)
EventOk(e) ==
  /\ eLife[e] # "NONE" =>
        eUproc[e] \in Uprocs /\ uLife[eUproc[e]] \in {"LIVE", "UNLINK", "EVENTS"}
  /\ eLife[e] = "LIVE" =>
        /\ eRef[e] = FirstRef(e) + Cardinality(Recording(e)) + Cardinality(Finders(e))
        /\ ~Early(e) => eRef[e] > 0
  /\ eLife[e] = "DYING" => eRef[e] = 0 /\ e \in gone /\ \E s \in Sess : Unlinks(s, e)
  /\ Early(e) => e \notin gone /\ Recording(e) = {} /\ Finders(e) = {}

(* A session that uses e is of its process; one at a time unlinks it. *)
UserOk(s, e) ==
  /\ CallOn(s, {"init", "found", "put"}, e) => eLife[e] = "LIVE" /\ eUproc[e] = sUproc[s]
  /\ CallOn(s, {"unlink"}, e) =>
        eLife[e] = "DYING" /\ eUproc[e] = sUproc[s] /\ ~(task[s].kind = "done" /\ task[s].ev = e)
  /\ task[s].ev = e =>
        /\ eUproc[e] = sUproc[s]
        /\ eLife[e] = IF task[s].kind = "done" THEN "DYING" ELSE "LIVE"
  /\ \A r \in Sess : Unlinks(r, e) /\ Unlinks(s, e) => r = s
  /\ \A r \in Sess : CallOn(r, {"init"}, e) /\ CallOn(s, {"init"}, e) => r = s

EventInv == \A e \in Events : EventOk(e) /\ \A s \in Sess : UserOk(s, e)

(* An instance is held by the processes in it, by those who set its limit, *)
(* and by the one who made it.                                             *)
InstOk(i) ==
  /\ iRef[i] >= 0
  /\ iRef[i] > 0 => iRef[i] = 1 + Cardinality(Members(i)) + Cardinality(Setters(i))
  /\ iRef[i] = 0 => Members(i) = {} /\ Setters(i) = {}

UprocOk(u) == uInst[u] # Nothing => uLife[u] # "NONE"

InstInv == (\A i \in Insts : InstOk(i)) /\ \A u \in Uprocs : UprocOk(u)

LifeInv == LifeTypes /\ LimitsTyped /\ SessInv /\ UprocInv /\ EventInv /\ InstInv

-----------------------------------------------------------------------------
(* Counting *)

(* A set with one element more.                                            *)
LEMMA CountMore ==
  ASSUME NEW S, IsFiniteSet(S), NEW x, x \notin S
  PROVE  Cardinality(S \cup {x}) = Cardinality(S) + 1
BY FS_AddElement

(* A set with one element less.                                            *)
LEMMA CountLess ==
  ASSUME NEW S, IsFiniteSet(S), NEW x \in S
  PROVE  Cardinality(S \ {x}) = Cardinality(S) - 1 /\ Cardinality(S) > 0
<1>1. Cardinality(S) \in Nat /\ S # {}
  BY FS_CardinalityType
<1>2. Cardinality(S) # 0
  BY <1>1, FS_EmptySet
<1> QED
  BY <1>1, <1>2, FS_RemoveElement

(* Those who hold references are finitely many.                            *)
LEMMA Counted ==
  /\ \A u \in Uprocs : IsFiniteSet(SessionsOf(u)) /\ Cardinality(SessionsOf(u)) \in Nat
  /\ \A e \in Events :
       /\ IsFiniteSet(Recording(e)) /\ Cardinality(Recording(e)) \in Nat
       /\ IsFiniteSet(Finders(e)) /\ Cardinality(Finders(e)) \in Nat
  /\ \A i \in Insts :
       /\ IsFiniteSet(Members(i)) /\ Cardinality(Members(i)) \in Nat
       /\ IsFiniteSet(Setters(i)) /\ Cardinality(Setters(i)) \in Nat
<1>1. \A u : SessionsOf(u) \subseteq Sess
  BY DEF SessionsOf
<1>2. \A e : Recording(e) \subseteq Sess /\ Finders(e) \subseteq Sess
  BY DEF Recording, Finders
<1>3. \A i : Members(i) \subseteq Uprocs /\ Setters(i) \subseteq Admins
  BY DEF Members, Setters
<1>4. \A S : S \subseteq Sess => IsFiniteSet(S)
  BY LifeAssumption, FS_Subset
<1>5. \A S : S \subseteq Uprocs => IsFiniteSet(S)
  BY LifeAssumption, FS_Subset
<1>6. \A S : S \subseteq Admins => IsFiniteSet(S)
  BY LifeAssumption, FS_Subset
<1> QED
  BY <1>1, <1>2, <1>3, <1>4, <1>5, <1>6, FS_CardinalityType

-----------------------------------------------------------------------------
(* Types *)

(* The steps that take more than one look. *)
LEMMA OpenTyped ==
  ASSUME LifeTypes, NEW s \in Sess, NEW p \in Procs, NEW u \in Uprocs, Open(s, p, u)
  PROVE  LifeTypes'
<1>1. uLife' \in [Uprocs -> {"NONE", "LIVE", "UNLINK", "EVENTS", "INST"}] /\ uRef' \in [Uprocs -> Int]
  BY DEF Open, LifeTypes
<1>2. uInst' \in [Uprocs -> Insts \cup {Nothing}] /\ iRef' \in [Insts -> Int]
  <2>1. CASE JoinInst(u, GroupOf[p])
    BY <2>1 DEF JoinInst, Instances, LifeTypes
  <2>2. CASE UNCHANGED <<uInst, iRef>>
    BY <2>2 DEF LifeTypes
  <2> QED
    BY <2>1, <2>2 DEF Open
<1> QED
  BY <1>1, <1>2 DEF Open, workVars, eventVars, LifeTypes

(* kl_mm_malloc gives pages or fails: types stay.                          *)
LEMMA TakeTyped ==
  ASSUME LifeTypes, NEW s \in Sess, MallocTake(s)
  PROVE  LifeTypes'
<1>1. call[s].n \in Asks
  BY LifeAssumption DEF MallocTake, Idle, LifeTypes, EventCalls, MemoryCalls
<1>2. call' \in [Sess -> EventCalls \cup MemoryCalls \cup {Nothing}]
  <2>1. CASE Do(s, "stat", call[s].n)
    BY <1>1, <2>1 DEF Do, LifeTypes, MemoryCalls
  <2>2. CASE MallocFails(s)
    BY <2>2 DEF MallocFails, LifeTypes
  <2> QED
    BY <2>1, <2>2 DEF MallocTake
<1> QED
  BY <1>2 DEF MallocTake, LifeTypes, sessVars, uprocVars, eventVars, ctlVars, instVars

(* So they do when an instance is put.                                     *)
LEMMA PutTyped ==
  ASSUME LifeTypes, NEW s \in Sess, SessPutUproc(s)
  PROVE  LifeTypes'
<1> DEFINE u == sUproc[s]
<1>1. uLife' \in [Uprocs -> {"NONE", "LIVE", "UNLINK", "EVENTS", "INST"}] /\ uRef' \in [Uprocs -> Int]
  <2>1. uRef' = [uRef EXCEPT ![u] = @ - 1]
    BY DEF SessPutUproc
  <2>2. uLife' = [uLife EXCEPT ![u] = "UNLINK"] \/ uLife' = uLife
    BY DEF SessPutUproc
  <2> HIDE DEF u
  <2>3. uRef' \in [Uprocs -> Int]
    <3>1. CASE u \in Uprocs
      BY <2>1, <3>1 DEF LifeTypes
    <3>2. CASE u \notin Uprocs
      <4>1. uRef' = uRef
        BY <2>1, <3>2 DEF LifeTypes
      <4> QED
        BY <4>1 DEF LifeTypes
    <3> QED
      BY <3>1, <3>2
  <2> QED
    BY <2>2, <2>3 DEF LifeTypes
<1>2. sLife' \in [Sess -> {"NONE", "LIVE", "UNLINK", "MEM", "PUT"}]
      /\ sUproc' \in [Sess -> Uprocs \cup {Nothing}]
  BY DEF SessPutUproc, LifeTypes
<1> QED
  BY <1>1, <1>2 DEF SessPutUproc, LifeTypes, workVars, useVars, eventVars, ctlVars, instVars

(* So they do when a limit is read.                                        *)
LEMMA SetReadTyped ==
  ASSUME LifeTypes, LimitsTyped, NEW a \in Admins, SetRead(a)
  PROVE  LifeTypes'
<1>1. admin[a] \in AdminCalls
  BY DEF SetRead, LifeTypes
<1> DEFINE i == admin[a].inst
           last == IF iLimit[i] = Unlimited THEN 0 ELSE iLimit[i]
<1>2. last \in Limits \cup {0}
  BY <1>1 DEF AdminCalls, LimitsTyped
<1>3. admin' = [admin EXCEPT ![a] = [@ EXCEPT !.op = "apply", !.last = last]]
  BY DEF SetRead
<1>4. admin' \in [Admins -> AdminCalls \cup {Nothing}]
  BY <1>1, <1>2, <1>3 DEF AdminCalls, LifeTypes
<1> QED
  BY <1>4 DEF SetRead, LifeTypes, sessVars, workVars, uprocVars, useVars, eventVars, instVars

(* And when it is replaced.                                                *)
LEMMA SetApplyTyped ==
  ASSUME LifeTypes, NEW a \in Admins, SetApply(a)
  PROVE  LifeTypes'
<1>1. admin[a] \in AdminCalls /\ admin' = [admin EXCEPT ![a].op = "put"]
  BY DEF SetApply, LifeTypes
<1>2. admin' \in [Admins -> AdminCalls \cup {Nothing}]
  BY <1>1 DEF AdminCalls, LifeTypes
<1> QED
  BY <1>2 DEF SetApply, LifeTypes, sessVars, workVars, uprocVars, useVars, eventVars

(* So they do when an event is recorded or waited for.                     *)
LEMMA UseTyped ==
  ASSUME LifeTypes, NEW s \in Sess, EventUse(s)
  PROVE  LifeTypes'
<1>1. call[s] \in EventCalls
  BY DEF EventUse, Idle, LifeTypes, EventCalls, MemoryCalls
<1>2. call' \in [Sess -> EventCalls \cup MemoryCalls \cup {Nothing}]
  BY <1>1 DEF EventUse, LifeTypes, EventCalls
<1>3. \E e \in Events \cup {Nothing} : AddTask(s, e) /\ eRef' \in [Events -> Int]
  BY <1>1 DEF EventUse, RecordGet, LifeTypes, EventCalls
<1>4. task' \in [Sess -> TaskRecords] /\ sRef' \in [Sess -> Int]
      /\ UNCHANGED <<sLife, sFile, sUproc, sErr>>
  BY <1>3 DEF AddTask, GetSess, TaskRecords, LifeTypes
<1>5. eRef' \in [Events -> Int]
  BY <1>3
<1> QED
  BY <1>2, <1>4, <1>5 DEF EventUse, LifeTypes, uprocVars, useVars, ctlVars, instVars

(* Every step keeps the types. *)
LEMMA TypesKept ==
  ASSUME LifeInv, [Next]_lifeVars
  PROVE  LifeTypes'
<1>1. ASSUME NEW s \in Sess, NEW p \in Procs, NEW u \in Uprocs, Open(s, p, u)
      PROVE  LifeTypes'
  BY <1>1, OpenTyped DEF LifeInv
<1>2. ASSUME NEW s \in Sess, Close(s)
      PROVE  LifeTypes'
  BY <1>2, LifeAssumption DEF Close, PutSess, ctlVars, eventVars, instVars, uprocVars, useVars,
    workVars, LifeInv, LifeTypes, TaskRecords, EventCalls, MemoryCalls, AdminCalls, NoTask,
    Instances, Idle, Unlimited
<1>3. ASSUME NEW s \in Sess, Launch(s)
      PROVE  LifeTypes'
  BY <1>3, LifeAssumption DEF Launch, AddTask, GetSess, ctlVars, eventVars, instVars, uprocVars,
    useVars, LifeInv, LifeTypes, TaskRecords, EventCalls, MemoryCalls, AdminCalls, NoTask,
    Instances, Idle, Unlimited
<1>4. ASSUME NEW s \in Sess, NEW e \in Events, EventCreate(s, e)
      PROVE  LifeTypes'
  BY <1>4, LifeAssumption DEF EventCreate, ctlVars, instVars, sessVars, uprocVars, useVars,
    LifeInv, LifeTypes, TaskRecords, EventCalls, MemoryCalls, AdminCalls, NoTask, Instances, Idle,
    Unlimited
<1>5. ASSUME NEW s \in Sess, NEW e \in Events, EventDestroy(s, e)
      PROVE  LifeTypes'
  BY <1>5, LifeAssumption DEF EventDestroy, PutEventsLocked, ctlVars, instVars, sessVars,
    uprocVars, useVars, workVars, LifeInv, LifeTypes, TaskRecords, EventCalls, MemoryCalls,
    AdminCalls, NoTask, Instances, Idle, Unlimited
<1>6. ASSUME NEW s \in Sess, NEW e \in Events, EventFind(s, e)
      PROVE  LifeTypes'
  BY <1>6, LifeAssumption DEF EventFind, ctlVars, instVars, sessVars, uprocVars, useVars, LifeInv,
    LifeTypes, TaskRecords, EventCalls, MemoryCalls, AdminCalls, NoTask, Instances, Idle, Unlimited
<1>7. ASSUME NEW s \in Sess, NEW n \in Asks, MallocCheck(s, n)
      PROVE  LifeTypes'
  BY <1>7, LifeAssumption DEF MallocCheck, Do, ctlVars, eventVars, instVars, sessVars, uprocVars,
    LifeInv, LifeTypes, TaskRecords, EventCalls, MemoryCalls, AdminCalls, NoTask, Instances, Idle,
    Unlimited
<1>8. ASSUME NEW s \in Sess, NEW n \in Asks, Free(s, n)
      PROVE  LifeTypes'
  BY <1>8, LifeAssumption DEF Free, ctlVars, eventVars, instVars, sessVars, uprocVars, LifeInv,
    LifeTypes, TaskRecords, EventCalls, MemoryCalls, AdminCalls, NoTask, Instances, Idle, Unlimited
<1>9. ASSUME NEW s \in Sess, EventInit(s)
      PROVE  LifeTypes'
  BY <1>9, LifeAssumption DEF EventInit, Idle, ctlVars, instVars, sessVars, uprocVars, useVars,
    LifeInv, LifeTypes, TaskRecords, EventCalls, MemoryCalls, AdminCalls, NoTask, Instances, Idle,
    Unlimited
<1>10. ASSUME NEW s \in Sess, EventUse(s)
      PROVE  LifeTypes'
  BY <1>10, UseTyped DEF LifeInv
<1>11. ASSUME NEW s \in Sess, EventPut(s)
      PROVE  LifeTypes'
  BY <1>11, LifeAssumption DEF EventPut, PutEvent, AfterPut, Idle, ctlVars, instVars, sessVars,
    uprocVars, useVars, LifeInv, LifeTypes, TaskRecords, EventCalls, MemoryCalls, AdminCalls,
    NoTask, Instances, Idle, Unlimited
<1>12. ASSUME NEW s \in Sess, EventUnlink(s)
      PROVE  LifeTypes'
  BY <1>12, LifeAssumption DEF EventUnlink, Unlink, Idle, ctlVars, instVars, sessVars, uprocVars,
    useVars, LifeInv, LifeTypes, TaskRecords, EventCalls, MemoryCalls, AdminCalls, NoTask,
    Instances, Idle, Unlimited
<1>13. ASSUME NEW s \in Sess, MallocCharge(s)
      PROVE  LifeTypes'
  BY <1>13, LifeAssumption DEF MallocCharge, Do, Idle, ctlVars, eventVars, instVars, sessVars,
    uprocVars, LifeInv, LifeTypes, TaskRecords, EventCalls, MemoryCalls, AdminCalls, NoTask,
    Instances, Idle, Unlimited
<1>14. ASSUME NEW s \in Sess, MallocTake(s)
      PROVE  LifeTypes'
  BY <1>14, TakeTyped DEF LifeInv
<1>15. ASSUME NEW s \in Sess, MallocStat(s)
      PROVE  LifeTypes'
  BY <1>15, LifeAssumption DEF MallocStat, Do, Idle, ctlVars, eventVars, instVars, sessVars,
    uprocVars, LifeInv, LifeTypes, TaskRecords, EventCalls, MemoryCalls, AdminCalls, NoTask,
    Instances, Idle, Unlimited
<1>16. ASSUME NEW s \in Sess, MallocReturn(s)
      PROVE  LifeTypes'
  BY <1>16, LifeAssumption DEF MallocReturn, Idle, ctlVars, eventVars, instVars, sessVars,
    uprocVars, useVars, LifeInv, LifeTypes, TaskRecords, EventCalls, MemoryCalls, AdminCalls,
    NoTask, Instances, Idle, Unlimited
<1>17. ASSUME NEW s \in Sess, FinishEvent(s)
      PROVE  LifeTypes'
  BY <1>17, LifeAssumption DEF FinishEvent, PutEvent, AfterPut, Finishable, ctlVars, instVars,
    sessVars, uprocVars, useVars, LifeInv, LifeTypes, TaskRecords, EventCalls, MemoryCalls,
    AdminCalls, NoTask, Instances, Idle, Unlimited
<1>18. ASSUME NEW s \in Sess, FinishUnlink(s)
      PROVE  LifeTypes'
  BY <1>18, LifeAssumption DEF FinishUnlink, Unlink, ctlVars, instVars, sessVars, uprocVars,
    useVars, LifeInv, LifeTypes, TaskRecords, EventCalls, MemoryCalls, AdminCalls, NoTask,
    Instances, Idle, Unlimited
<1>19. ASSUME NEW s \in Sess, FinishTask(s)
      PROVE  LifeTypes'
  BY <1>19, LifeAssumption DEF FinishTask, PutSess, Finishable, ctlVars, eventVars, instVars,
    uprocVars, useVars, LifeInv, LifeTypes, TaskRecords, EventCalls, MemoryCalls, AdminCalls,
    NoTask, Instances, Idle, Unlimited
<1>20. ASSUME NEW s \in Sess, SessUnlink(s)
      PROVE  LifeTypes'
  BY <1>20, LifeAssumption DEF SessUnlink, ctlVars, eventVars, instVars, uprocVars, useVars,
    workVars, LifeInv, LifeTypes, TaskRecords, EventCalls, MemoryCalls, AdminCalls, NoTask,
    Instances, Idle, Unlimited
<1>21. ASSUME NEW s \in Sess, SessFreeMem(s)
      PROVE  LifeTypes'
  BY <1>21, LifeAssumption DEF SessFreeMem, ctlVars, eventVars, instVars, uprocVars, LifeInv,
    LifeTypes, TaskRecords, EventCalls, MemoryCalls, AdminCalls, NoTask, Instances, Idle, Unlimited
<1>22. ASSUME NEW s \in Sess, SessPutUproc(s)
      PROVE  LifeTypes'
  BY <1>22, PutTyped DEF LifeInv
<1>23. ASSUME NEW s \in Sess, Revoke(s)
      PROVE  LifeTypes'
  BY <1>23, LifeAssumption DEF Revoke, ctlVars, instVars, useVars, LifeInv, LifeTypes, TaskRecords,
    EventCalls, MemoryCalls, AdminCalls, NoTask, Instances, Idle, Unlimited
<1>24. ASSUME NEW u \in Uprocs, UprocUnlink(u)
      PROVE  LifeTypes'
  BY <1>24, LifeAssumption DEF UprocUnlink, ctlVars, eventVars, instVars, sessVars, useVars,
    workVars, LifeInv, LifeTypes, TaskRecords, EventCalls, MemoryCalls, AdminCalls, NoTask,
    Instances, Idle, Unlimited
<1>25. ASSUME NEW u \in Uprocs, UprocPutEvents(u)
      PROVE  LifeTypes'
  BY <1>25, LifeAssumption DEF UprocPutEvents, PutEventsLocked, ctlVars, instVars, sessVars,
    useVars, workVars, LifeInv, LifeTypes, TaskRecords, EventCalls, MemoryCalls, AdminCalls,
    NoTask, Instances, Idle, Unlimited
<1>26. ASSUME NEW u \in Uprocs, UprocPutInst(u)
      PROVE  LifeTypes'
  BY <1>26, LifeAssumption DEF UprocPutInst, PutInst, eventVars, instVars, sessVars, useVars,
    workVars, LifeInv, LifeTypes, TaskRecords, EventCalls, MemoryCalls, AdminCalls, NoTask,
    Instances, Idle, Unlimited
<1>27. ASSUME NEW i \in Insts, NEW token \in Groups, CreateInstance(i, token)
      PROVE  LifeTypes'
  BY <1>27, LifeAssumption DEF CreateInstance, eventVars, sessVars, uprocVars, workVars, LifeInv,
    LifeTypes, TaskRecords, EventCalls, MemoryCalls, AdminCalls, NoTask, Instances, Idle, Unlimited
<1>28. ASSUME NEW i \in Insts, DestroyInstance(i)
      PROVE  LifeTypes'
  BY <1>28, LifeAssumption DEF DestroyInstance, PutInst, eventVars, sessVars, uprocVars, useVars,
    workVars, LifeInv, LifeTypes, TaskRecords, EventCalls, MemoryCalls, AdminCalls, NoTask,
    Instances, Idle, Unlimited
<1>29. ASSUME NEW a \in Admins, NEW i \in Insts, NEW limit \in Limits \cup {Unlimited}, SetFind(a, i, limit)
      PROVE  LifeTypes'
  BY <1>29, LifeAssumption DEF SetFind, eventVars, sessVars, uprocVars, useVars, workVars, LifeInv,
    LifeTypes, TaskRecords, EventCalls, MemoryCalls, AdminCalls, NoTask, Instances, Idle, Unlimited
<1>30. ASSUME NEW a \in Admins, SetRead(a)
      PROVE  LifeTypes'
  BY <1>30, SetReadTyped DEF LifeInv
<1>31. ASSUME NEW a \in Admins, SetApply(a)
      PROVE  LifeTypes'
  BY <1>31, SetApplyTyped DEF LifeInv
<1>32. ASSUME NEW a \in Admins, SetPut(a)
      PROVE  LifeTypes'
  BY <1>32, LifeAssumption DEF SetPut, PutInst, eventVars, sessVars, uprocVars, useVars, workVars,
    LifeInv, LifeTypes, TaskRecords, EventCalls, MemoryCalls, AdminCalls, NoTask, Instances, Idle,
    Unlimited
<1>33. CASE UNCHANGED lifeVars
  BY <1>33, LifeAssumption DEF lifeVars, sessVars, workVars, uprocVars, useVars, eventVars,
    ctlVars, instVars, LifeInv, LifeTypes
<1> QED
  BY <1>1, <1>2, <1>3, <1>4, <1>5, <1>6, <1>7, <1>8, <1>9, <1>10, <1>11, <1>12, <1>13, <1>14,
    <1>15, <1>16, <1>17, <1>18, <1>19, <1>20, <1>21, <1>22, <1>23, <1>24, <1>25, <1>26, <1>27,
    <1>28, <1>29, <1>30, <1>31, <1>32, <1>33 DEF Next, UserCall, IoctlStep, QueueStep, SessRelease,
    UprocRelease, AdminStep

(* Limits stay limits. *)
LEMMA LimitsKept ==
  ASSUME LifeInv, [Next]_lifeVars
  PROVE  LimitsTyped'
<1>1. ASSUME NEW s \in Sess, NEW p \in Procs, NEW u \in Uprocs, Open(s, p, u)
      PROVE  LimitsTyped'
  BY <1>1, LifeAssumption DEF Open, JoinInst, eventVars, workVars, LifeInv, LifeTypes, LimitsTyped,
    AdminCalls, Unlimited
<1>2. ASSUME NEW s \in Sess, Close(s)
      PROVE  LimitsTyped'
  BY <1>2, LifeAssumption DEF Close, PutSess, ctlVars, eventVars, instVars, uprocVars, useVars,
    workVars, LifeInv, LifeTypes, LimitsTyped, AdminCalls, Unlimited
<1>3. ASSUME NEW s \in Sess, Launch(s)
      PROVE  LimitsTyped'
  BY <1>3, LifeAssumption DEF Launch, AddTask, GetSess, ctlVars, eventVars, instVars, uprocVars,
    useVars, LifeInv, LifeTypes, LimitsTyped, AdminCalls, Unlimited
<1>4. ASSUME NEW s \in Sess, NEW e \in Events, EventCreate(s, e)
      PROVE  LimitsTyped'
  BY <1>4, LifeAssumption DEF EventCreate, ctlVars, instVars, sessVars, uprocVars, useVars,
    LifeInv, LifeTypes, LimitsTyped, AdminCalls, Unlimited
<1>5. ASSUME NEW s \in Sess, NEW e \in Events, EventDestroy(s, e)
      PROVE  LimitsTyped'
  BY <1>5, LifeAssumption DEF EventDestroy, PutEventsLocked, ctlVars, instVars, sessVars,
    uprocVars, useVars, workVars, LifeInv, LifeTypes, LimitsTyped, AdminCalls, Unlimited
<1>6. ASSUME NEW s \in Sess, NEW e \in Events, EventFind(s, e)
      PROVE  LimitsTyped'
  BY <1>6, LifeAssumption DEF EventFind, ctlVars, instVars, sessVars, uprocVars, useVars, LifeInv,
    LifeTypes, LimitsTyped, AdminCalls, Unlimited
<1>7. ASSUME NEW s \in Sess, NEW n \in Asks, MallocCheck(s, n)
      PROVE  LimitsTyped'
  BY <1>7, LifeAssumption DEF MallocCheck, Do, ctlVars, eventVars, instVars, sessVars, uprocVars,
    LifeInv, LifeTypes, LimitsTyped, AdminCalls, Unlimited
<1>8. ASSUME NEW s \in Sess, NEW n \in Asks, Free(s, n)
      PROVE  LimitsTyped'
  BY <1>8, LifeAssumption DEF Free, ctlVars, eventVars, instVars, sessVars, uprocVars, LifeInv,
    LifeTypes, LimitsTyped, AdminCalls, Unlimited
<1>9. ASSUME NEW s \in Sess, EventInit(s)
      PROVE  LimitsTyped'
  BY <1>9, LifeAssumption DEF EventInit, Idle, ctlVars, instVars, sessVars, uprocVars, useVars,
    LifeInv, LifeTypes, LimitsTyped, AdminCalls, Unlimited
<1>10. ASSUME NEW s \in Sess, EventUse(s)
      PROVE  LimitsTyped'
  BY <1>10, LifeAssumption DEF EventUse, AddTask, GetSess, RecordGet, Idle, ctlVars, instVars,
    uprocVars, useVars, LifeInv, LifeTypes, LimitsTyped, AdminCalls, Unlimited
<1>11. ASSUME NEW s \in Sess, EventPut(s)
      PROVE  LimitsTyped'
  BY <1>11, LifeAssumption DEF EventPut, PutEvent, AfterPut, Idle, ctlVars, instVars, sessVars,
    uprocVars, useVars, LifeInv, LifeTypes, LimitsTyped, AdminCalls, Unlimited
<1>12. ASSUME NEW s \in Sess, EventUnlink(s)
      PROVE  LimitsTyped'
  BY <1>12, LifeAssumption DEF EventUnlink, Unlink, Idle, ctlVars, instVars, sessVars, uprocVars,
    useVars, LifeInv, LifeTypes, LimitsTyped, AdminCalls, Unlimited
<1>13. ASSUME NEW s \in Sess, MallocCharge(s)
      PROVE  LimitsTyped'
  BY <1>13, LifeAssumption DEF MallocCharge, Do, Idle, ctlVars, eventVars, instVars, sessVars,
    uprocVars, LifeInv, LifeTypes, LimitsTyped, AdminCalls, Unlimited
<1>14. ASSUME NEW s \in Sess, MallocTake(s)
      PROVE  LimitsTyped'
  BY <1>14, LifeAssumption DEF MallocTake, Do, MallocFails, Idle, ctlVars, eventVars, instVars,
    sessVars, uprocVars, LifeInv, LifeTypes, LimitsTyped, AdminCalls, Unlimited
<1>15. ASSUME NEW s \in Sess, MallocStat(s)
      PROVE  LimitsTyped'
  BY <1>15, LifeAssumption DEF MallocStat, Do, Idle, ctlVars, eventVars, instVars, sessVars,
    uprocVars, LifeInv, LifeTypes, LimitsTyped, AdminCalls, Unlimited
<1>16. ASSUME NEW s \in Sess, MallocReturn(s)
      PROVE  LimitsTyped'
  BY <1>16, LifeAssumption DEF MallocReturn, Idle, ctlVars, eventVars, instVars, sessVars,
    uprocVars, useVars, LifeInv, LifeTypes, LimitsTyped, AdminCalls, Unlimited
<1>17. ASSUME NEW s \in Sess, FinishEvent(s)
      PROVE  LimitsTyped'
  BY <1>17, LifeAssumption DEF FinishEvent, PutEvent, AfterPut, Finishable, ctlVars, instVars,
    sessVars, uprocVars, useVars, LifeInv, LifeTypes, LimitsTyped, AdminCalls, Unlimited
<1>18. ASSUME NEW s \in Sess, FinishUnlink(s)
      PROVE  LimitsTyped'
  BY <1>18, LifeAssumption DEF FinishUnlink, Unlink, ctlVars, instVars, sessVars, uprocVars,
    useVars, LifeInv, LifeTypes, LimitsTyped, AdminCalls, Unlimited
<1>19. ASSUME NEW s \in Sess, FinishTask(s)
      PROVE  LimitsTyped'
  BY <1>19, LifeAssumption DEF FinishTask, PutSess, Finishable, ctlVars, eventVars, instVars,
    uprocVars, useVars, LifeInv, LifeTypes, LimitsTyped, AdminCalls, Unlimited
<1>20. ASSUME NEW s \in Sess, SessUnlink(s)
      PROVE  LimitsTyped'
  BY <1>20, LifeAssumption DEF SessUnlink, ctlVars, eventVars, instVars, uprocVars, useVars,
    workVars, LifeInv, LifeTypes, LimitsTyped, AdminCalls, Unlimited
<1>21. ASSUME NEW s \in Sess, SessFreeMem(s)
      PROVE  LimitsTyped'
  BY <1>21, LifeAssumption DEF SessFreeMem, ctlVars, eventVars, instVars, uprocVars, LifeInv,
    LifeTypes, LimitsTyped, AdminCalls, Unlimited
<1>22. ASSUME NEW s \in Sess, SessPutUproc(s)
      PROVE  LimitsTyped'
  BY <1>22, LifeAssumption DEF SessPutUproc, ctlVars, eventVars, instVars, useVars, workVars,
    LifeInv, LifeTypes, LimitsTyped, AdminCalls, Unlimited
<1>23. ASSUME NEW s \in Sess, Revoke(s)
      PROVE  LimitsTyped'
  BY <1>23, LifeAssumption DEF Revoke, ctlVars, instVars, useVars, LifeInv, LifeTypes, LimitsTyped,
    AdminCalls, Unlimited
<1>24. ASSUME NEW u \in Uprocs, UprocUnlink(u)
      PROVE  LimitsTyped'
  BY <1>24, LifeAssumption DEF UprocUnlink, ctlVars, eventVars, instVars, sessVars, useVars,
    workVars, LifeInv, LifeTypes, LimitsTyped, AdminCalls, Unlimited
<1>25. ASSUME NEW u \in Uprocs, UprocPutEvents(u)
      PROVE  LimitsTyped'
  BY <1>25, LifeAssumption DEF UprocPutEvents, PutEventsLocked, ctlVars, instVars, sessVars,
    useVars, workVars, LifeInv, LifeTypes, LimitsTyped, AdminCalls, Unlimited
<1>26. ASSUME NEW u \in Uprocs, UprocPutInst(u)
      PROVE  LimitsTyped'
  BY <1>26, LifeAssumption DEF UprocPutInst, PutInst, eventVars, instVars, sessVars, useVars,
    workVars, LifeInv, LifeTypes, LimitsTyped, AdminCalls, Unlimited
<1>27. ASSUME NEW i \in Insts, NEW token \in Groups, CreateInstance(i, token)
      PROVE  LimitsTyped'
  BY <1>27, LifeAssumption DEF CreateInstance, eventVars, sessVars, uprocVars, workVars, LifeInv,
    LifeTypes, LimitsTyped, AdminCalls, Unlimited
<1>28. ASSUME NEW i \in Insts, DestroyInstance(i)
      PROVE  LimitsTyped'
  BY <1>28, LifeAssumption DEF DestroyInstance, PutInst, eventVars, sessVars, uprocVars, useVars,
    workVars, LifeInv, LifeTypes, LimitsTyped, AdminCalls, Unlimited
<1>29. ASSUME NEW a \in Admins, NEW i \in Insts, NEW limit \in Limits \cup {Unlimited}, SetFind(a, i, limit)
      PROVE  LimitsTyped'
  BY <1>29, LifeAssumption DEF SetFind, eventVars, sessVars, uprocVars, useVars, workVars, LifeInv,
    LifeTypes, LimitsTyped, AdminCalls, Unlimited
<1>30. ASSUME NEW a \in Admins, SetRead(a)
      PROVE  LimitsTyped'
  BY <1>30, LifeAssumption DEF SetRead, eventVars, instVars, sessVars, uprocVars, useVars,
    workVars, LifeInv, LifeTypes, LimitsTyped, AdminCalls, Unlimited
<1>31. ASSUME NEW a \in Admins, SetApply(a)
      PROVE  LimitsTyped'
  BY <1>31, LifeAssumption DEF SetApply, eventVars, sessVars, uprocVars, useVars, workVars,
    LifeInv, LifeTypes, LimitsTyped, AdminCalls, Unlimited
<1>32. ASSUME NEW a \in Admins, SetPut(a)
      PROVE  LimitsTyped'
  BY <1>32, LifeAssumption DEF SetPut, PutInst, eventVars, sessVars, uprocVars, useVars, workVars,
    LifeInv, LifeTypes, LimitsTyped, AdminCalls, Unlimited
<1>33. CASE UNCHANGED lifeVars
  BY <1>33, LifeAssumption DEF lifeVars, sessVars, workVars, uprocVars, useVars, eventVars,
    ctlVars, instVars, LifeInv, LimitsTyped
<1> QED
  BY <1>1, <1>2, <1>3, <1>4, <1>5, <1>6, <1>7, <1>8, <1>9, <1>10, <1>11, <1>12, <1>13, <1>14,
    <1>15, <1>16, <1>17, <1>18, <1>19, <1>20, <1>21, <1>22, <1>23, <1>24, <1>25, <1>26, <1>27,
    <1>28, <1>29, <1>30, <1>31, <1>32, <1>33 DEF Next, UserCall, IoctlStep, QueueStep, SessRelease,
    UprocRelease, AdminStep

(* Every step keeps the counts of the sessions. *)
LEMMA SessionsKept ==
  ASSUME LifeInv, [Next]_lifeVars
  PROVE  SessInv'
<1>1. ASSUME NEW s \in Sess, NEW p \in Procs, NEW u \in Uprocs, Open(s, p, u)
      PROVE  SessInv'
  BY <1>1, LifeAssumption DEF Open, JoinInst, eventVars, workVars, LifeInv, LifeTypes, SessInv,
    Holding, Queued, NoTask, TaskRecords, Active, Idle
<1>2. ASSUME NEW s \in Sess, Close(s)
      PROVE  SessInv'
  BY <1>2, LifeAssumption DEF Close, PutSess, ctlVars, eventVars, instVars, uprocVars, useVars,
    workVars, LifeInv, LifeTypes, SessInv, Holding, Queued, NoTask, TaskRecords, Active, Idle
<1>3. ASSUME NEW s \in Sess, Launch(s)
      PROVE  SessInv'
  BY <1>3, LifeAssumption DEF Launch, AddTask, GetSess, ctlVars, eventVars, instVars, uprocVars,
    useVars, LifeInv, LifeTypes, SessInv, Holding, Queued, NoTask, TaskRecords, Active, Idle
<1>4. ASSUME NEW s \in Sess, NEW e \in Events, EventCreate(s, e)
      PROVE  SessInv'
  BY <1>4, LifeAssumption DEF EventCreate, ctlVars, instVars, sessVars, uprocVars, useVars,
    LifeInv, LifeTypes, SessInv, Holding, Queued, NoTask, TaskRecords, Active, Idle
<1>5. ASSUME NEW s \in Sess, NEW e \in Events, EventDestroy(s, e)
      PROVE  SessInv'
  BY <1>5, LifeAssumption DEF EventDestroy, PutEventsLocked, ctlVars, instVars, sessVars,
    uprocVars, useVars, workVars, LifeInv, LifeTypes, SessInv, Holding, Queued, NoTask,
    TaskRecords, Active, Idle
<1>6. ASSUME NEW s \in Sess, NEW e \in Events, EventFind(s, e)
      PROVE  SessInv'
  BY <1>6, LifeAssumption DEF EventFind, ctlVars, instVars, sessVars, uprocVars, useVars, LifeInv,
    LifeTypes, SessInv, Holding, Queued, NoTask, TaskRecords, Active, Idle
<1>7. ASSUME NEW s \in Sess, NEW n \in Asks, MallocCheck(s, n)
      PROVE  SessInv'
  BY <1>7, LifeAssumption DEF MallocCheck, Do, ctlVars, eventVars, instVars, sessVars, uprocVars,
    LifeInv, LifeTypes, SessInv, Holding, Queued, NoTask, TaskRecords, Active, Idle
<1>8. ASSUME NEW s \in Sess, NEW n \in Asks, Free(s, n)
      PROVE  SessInv'
  BY <1>8, LifeAssumption DEF Free, ctlVars, eventVars, instVars, sessVars, uprocVars, LifeInv,
    LifeTypes, SessInv, Holding, Queued, NoTask, TaskRecords, Active, Idle
<1>9. ASSUME NEW s \in Sess, EventInit(s)
      PROVE  SessInv'
  BY <1>9, LifeAssumption DEF EventInit, Idle, ctlVars, instVars, sessVars, uprocVars, useVars,
    LifeInv, LifeTypes, SessInv, Holding, Queued, NoTask, TaskRecords, Active, Idle
<1>10. ASSUME NEW s \in Sess, EventUse(s)
      PROVE  SessInv'
  BY <1>10, LifeAssumption DEF EventUse, AddTask, GetSess, RecordGet, Idle, ctlVars, instVars,
    uprocVars, useVars, LifeInv, LifeTypes, SessInv, Holding, Queued, NoTask, TaskRecords, Active,
    Idle
<1>11. ASSUME NEW s \in Sess, EventPut(s)
      PROVE  SessInv'
  BY <1>11, LifeAssumption DEF EventPut, PutEvent, AfterPut, Idle, ctlVars, instVars, sessVars,
    uprocVars, useVars, LifeInv, LifeTypes, SessInv, Holding, Queued, NoTask, TaskRecords, Active,
    Idle
<1>12. ASSUME NEW s \in Sess, EventUnlink(s)
      PROVE  SessInv'
  BY <1>12, LifeAssumption DEF EventUnlink, Unlink, Idle, ctlVars, instVars, sessVars, uprocVars,
    useVars, LifeInv, LifeTypes, SessInv, Holding, Queued, NoTask, TaskRecords, Active, Idle
<1>13. ASSUME NEW s \in Sess, MallocCharge(s)
      PROVE  SessInv'
  BY <1>13, LifeAssumption DEF MallocCharge, Do, Idle, ctlVars, eventVars, instVars, sessVars,
    uprocVars, LifeInv, LifeTypes, SessInv, Holding, Queued, NoTask, TaskRecords, Active, Idle
<1>14. ASSUME NEW s \in Sess, MallocTake(s)
      PROVE  SessInv'
  BY <1>14, LifeAssumption DEF MallocTake, Do, MallocFails, Idle, ctlVars, eventVars, instVars,
    sessVars, uprocVars, LifeInv, LifeTypes, SessInv, Holding, Queued, NoTask, TaskRecords, Active,
    Idle
<1>15. ASSUME NEW s \in Sess, MallocStat(s)
      PROVE  SessInv'
  BY <1>15, LifeAssumption DEF MallocStat, Do, Idle, ctlVars, eventVars, instVars, sessVars,
    uprocVars, LifeInv, LifeTypes, SessInv, Holding, Queued, NoTask, TaskRecords, Active, Idle
<1>16. ASSUME NEW s \in Sess, MallocReturn(s)
      PROVE  SessInv'
  BY <1>16, LifeAssumption DEF MallocReturn, Idle, ctlVars, eventVars, instVars, sessVars,
    uprocVars, useVars, LifeInv, LifeTypes, SessInv, Holding, Queued, NoTask, TaskRecords, Active,
    Idle
<1>17. ASSUME NEW s \in Sess, FinishEvent(s)
      PROVE  SessInv'
  BY <1>17, LifeAssumption DEF FinishEvent, PutEvent, AfterPut, Finishable, ctlVars, instVars,
    sessVars, uprocVars, useVars, LifeInv, LifeTypes, SessInv, Holding, Queued, NoTask,
    TaskRecords, Active, Idle
<1>18. ASSUME NEW s \in Sess, FinishUnlink(s)
      PROVE  SessInv'
  BY <1>18, LifeAssumption DEF FinishUnlink, Unlink, ctlVars, instVars, sessVars, uprocVars,
    useVars, LifeInv, LifeTypes, SessInv, Holding, Queued, NoTask, TaskRecords, Active, Idle
<1>19. ASSUME NEW s \in Sess, FinishTask(s)
      PROVE  SessInv'
  BY <1>19, LifeAssumption DEF FinishTask, PutSess, Finishable, ctlVars, eventVars, instVars,
    uprocVars, useVars, LifeInv, LifeTypes, SessInv, Holding, Queued, NoTask, TaskRecords, Active,
    Idle
<1>20. ASSUME NEW s \in Sess, SessUnlink(s)
      PROVE  SessInv'
  BY <1>20, LifeAssumption DEF SessUnlink, ctlVars, eventVars, instVars, uprocVars, useVars,
    workVars, LifeInv, LifeTypes, SessInv, Holding, Queued, NoTask, TaskRecords, Active, Idle
<1>21. ASSUME NEW s \in Sess, SessFreeMem(s)
      PROVE  SessInv'
  BY <1>21, LifeAssumption DEF SessFreeMem, ctlVars, eventVars, instVars, uprocVars, LifeInv,
    LifeTypes, SessInv, Holding, Queued, NoTask, TaskRecords, Active, Idle
<1>22. ASSUME NEW s \in Sess, SessPutUproc(s)
      PROVE  SessInv'
  BY <1>22, LifeAssumption DEF SessPutUproc, ctlVars, eventVars, instVars, useVars, workVars,
    LifeInv, LifeTypes, SessInv, Holding, Queued, NoTask, TaskRecords, Active, Idle
<1>23. ASSUME NEW s \in Sess, Revoke(s)
      PROVE  SessInv'
  BY <1>23, LifeAssumption DEF Revoke, ctlVars, instVars, useVars, LifeInv, LifeTypes, SessInv,
    Holding, Queued, NoTask, TaskRecords, Active, Idle
<1>24. ASSUME NEW u \in Uprocs, UprocUnlink(u)
      PROVE  SessInv'
  BY <1>24, LifeAssumption DEF UprocUnlink, ctlVars, eventVars, instVars, sessVars, useVars,
    workVars, LifeInv, LifeTypes, SessInv, Holding, Queued, NoTask, TaskRecords, Active, Idle
<1>25. ASSUME NEW u \in Uprocs, UprocPutEvents(u)
      PROVE  SessInv'
  BY <1>25, LifeAssumption DEF UprocPutEvents, PutEventsLocked, ctlVars, instVars, sessVars,
    useVars, workVars, LifeInv, LifeTypes, SessInv, Holding, Queued, NoTask, TaskRecords, Active,
    Idle
<1>26. ASSUME NEW u \in Uprocs, UprocPutInst(u)
      PROVE  SessInv'
  BY <1>26, LifeAssumption DEF UprocPutInst, PutInst, eventVars, instVars, sessVars, useVars,
    workVars, LifeInv, LifeTypes, SessInv, Holding, Queued, NoTask, TaskRecords, Active, Idle
<1>27. ASSUME NEW i \in Insts, NEW token \in Groups, CreateInstance(i, token)
      PROVE  SessInv'
  BY <1>27, LifeAssumption DEF CreateInstance, eventVars, sessVars, uprocVars, workVars, LifeInv,
    LifeTypes, SessInv, Holding, Queued, NoTask, TaskRecords, Active, Idle
<1>28. ASSUME NEW i \in Insts, DestroyInstance(i)
      PROVE  SessInv'
  BY <1>28, LifeAssumption DEF DestroyInstance, PutInst, eventVars, sessVars, uprocVars, useVars,
    workVars, LifeInv, LifeTypes, SessInv, Holding, Queued, NoTask, TaskRecords, Active, Idle
<1>29. ASSUME NEW a \in Admins, NEW i \in Insts, NEW limit \in Limits \cup {Unlimited}, SetFind(a, i, limit)
      PROVE  SessInv'
  BY <1>29, LifeAssumption DEF SetFind, eventVars, sessVars, uprocVars, useVars, workVars, LifeInv,
    LifeTypes, SessInv, Holding, Queued, NoTask, TaskRecords, Active, Idle
<1>30. ASSUME NEW a \in Admins, SetRead(a)
      PROVE  SessInv'
  BY <1>30, LifeAssumption DEF SetRead, eventVars, instVars, sessVars, uprocVars, useVars,
    workVars, LifeInv, LifeTypes, SessInv, Holding, Queued, NoTask, TaskRecords, Active, Idle
<1>31. ASSUME NEW a \in Admins, SetApply(a)
      PROVE  SessInv'
  BY <1>31, LifeAssumption DEF SetApply, eventVars, sessVars, uprocVars, useVars, workVars,
    LifeInv, LifeTypes, SessInv, Holding, Queued, NoTask, TaskRecords, Active, Idle
<1>32. ASSUME NEW a \in Admins, SetPut(a)
      PROVE  SessInv'
  BY <1>32, LifeAssumption DEF SetPut, PutInst, eventVars, sessVars, uprocVars, useVars, workVars,
    LifeInv, LifeTypes, SessInv, Holding, Queued, NoTask, TaskRecords, Active, Idle
<1>33. CASE UNCHANGED lifeVars
  BY <1>33, LifeAssumption DEF lifeVars, sessVars, workVars, uprocVars, useVars, eventVars,
    ctlVars, instVars, LifeInv, SessInv, Holding, Queued
<1> QED
  BY <1>1, <1>2, <1>3, <1>4, <1>5, <1>6, <1>7, <1>8, <1>9, <1>10, <1>11, <1>12, <1>13, <1>14,
    <1>15, <1>16, <1>17, <1>18, <1>19, <1>20, <1>21, <1>22, <1>23, <1>24, <1>25, <1>26, <1>27,
    <1>28, <1>29, <1>30, <1>31, <1>32, <1>33 DEF Next, UserCall, IoctlStep, QueueStep, SessRelease,
    UprocRelease, AdminStep

-----------------------------------------------------------------------------
(* Sessions and processes *)

(* A file opened is one more session of its process, new or found. Without *)
(* the race "open" the process found is not on its way out.                *)
LEMMA OpenKeepsUprocs ==
  ASSUME LifeInv, Races = {}, NEW s \in Sess, NEW p \in Procs, NEW u \in Uprocs, Open(s, p, u)
  PROVE  UprocInv'
<1>1. sUproc[s] = Nothing /\ s \notin SessionsOf(u) /\ u # Nothing
  BY LifeAssumption DEF LifeInv, SessInv, Open, SessionsOf
<1>2. uLife' = [uLife EXCEPT ![u] = "LIVE"] /\ uRef' = [uRef EXCEPT ![u] = Cardinality(SessionsOf(u)) + 1]
  <2>1. CASE uLife[u] = "NONE" /\ uLife' = [uLife EXCEPT ![u] = "LIVE"] /\ uRef' = [uRef EXCEPT ![u] = 1]
    <3>1. SessionsOf(u) = {}
      BY <1>1, <2>1 DEF LifeInv, UprocInv, SessionsOf, LifeTypes
    <3>2. Cardinality(SessionsOf(u)) + 1 = 1
      BY <3>1, FS_EmptySet
    <3> QED
      BY <2>1, <3>2
  <2>2. CASE u \in ListedUproc(p) /\ Joinable(u) /\ uRef' = [uRef EXCEPT ![u] = @ + 1] /\ uLife' = uLife
    <3>1. uLife[u] = "LIVE"
      BY <2>2 DEF Joinable
    <3>2. uLife = [uLife EXCEPT ![u] = uLife[u]] /\ uRef[u] = Cardinality(SessionsOf(u))
      BY DEF LifeInv, UprocInv, LifeTypes
    <3> QED
      BY <2>2, <3>1, <3>2
  <2>3. \/ u \in ListedUproc(p) /\ Joinable(u) /\ uRef' = [uRef EXCEPT ![u] = @ + 1] /\ uLife' = uLife
        \/ uLife[u] = "NONE" /\ uLife' = [uLife EXCEPT ![u] = "LIVE"] /\ uRef' = [uRef EXCEPT ![u] = 1]
    BY Zenon DEF Open
  <2> QED
    BY <2>1, <2>2, <2>3, Zenon
<1>3. sUproc' = [sUproc EXCEPT ![s] = u]
  BY DEF Open
<1>4. SessionsOf(u)' = SessionsOf(u) \cup {s}
  BY <1>1, <1>3 DEF SessionsOf, LifeInv, LifeTypes
<1>5. \A v \in Uprocs : v # u => SessionsOf(v)' = SessionsOf(v)
  BY <1>1, <1>3, LifeAssumption DEF SessionsOf, LifeInv, LifeTypes
<1>6. Cardinality(SessionsOf(u)') = Cardinality(SessionsOf(u)) + 1
  BY <1>1, <1>4, CountMore, Counted
<1>7. \A v \in Uprocs : uRef'[v] = Cardinality(SessionsOf(v)')
  BY <1>2, <1>5, <1>6 DEF LifeInv, UprocInv, LifeTypes
<1>8. \A r \in Sess : sUproc'[r] # Nothing => uLife'[sUproc'[r]] = "LIVE"
  BY <1>2, <1>3 DEF LifeInv, UprocInv, LifeTypes
<1> QED
  BY <1>7, <1>8 DEF UprocInv

(* A session that goes is one less; the last one takes the process along.  *)
LEMMA PutKeepsUprocs ==
  ASSUME LifeInv, NEW s \in Sess, SessPutUproc(s)
  PROVE  UprocInv'
<1>1. PICK u \in Uprocs : u = sUproc[s]
  BY LifeAssumption DEF LifeInv, LifeTypes, SessInv, SessPutUproc
<1>2. /\ sUproc' = [sUproc EXCEPT ![s] = Nothing]
      /\ uRef' = [uRef EXCEPT ![u] = @ - 1]
      /\ uLife' = IF uRef[u] = 1 THEN [uLife EXCEPT ![u] = "UNLINK"] ELSE uLife
  BY <1>1 DEF SessPutUproc
<1>3. s \in SessionsOf(u) /\ SessionsOf(u)' = SessionsOf(u) \ {s}
  BY <1>1, <1>2, LifeAssumption DEF SessionsOf, LifeInv, LifeTypes
<1>4. \A v \in Uprocs : v # u => SessionsOf(v)' = SessionsOf(v)
  BY <1>1, <1>2, LifeAssumption DEF SessionsOf, LifeInv, LifeTypes
<1>5. Cardinality(SessionsOf(u)') = Cardinality(SessionsOf(u)) - 1
  BY <1>3, CountLess, Counted
<1>6. uRef[u] = Cardinality(SessionsOf(u))
  BY DEF LifeInv, UprocInv
<1>7. \A v \in Uprocs : uRef'[v] = Cardinality(SessionsOf(v)')
  BY <1>2, <1>4, <1>5, <1>6 DEF LifeInv, UprocInv, LifeTypes
<1>8. uRef[u] = 1 => SessionsOf(u)' = {}
  <2>1. IsFiniteSet(SessionsOf(u)')
    BY <1>3, Counted, FS_RemoveElement
  <2> QED
    BY <2>1, <1>5, <1>6, FS_EmptySet
<1>9. \A r \in Sess : sUproc'[r] # Nothing => uLife'[sUproc'[r]] = "LIVE"
  <2> SUFFICES ASSUME NEW r \in Sess, sUproc'[r] # Nothing
               PROVE  uLife'[sUproc'[r]] = "LIVE"
    OBVIOUS
  <2>1. r # s /\ sUproc'[r] = sUproc[r] /\ uLife[sUproc[r]] = "LIVE" /\ sUproc[r] \in Uprocs
    BY <1>2 DEF LifeInv, UprocInv, LifeTypes
  <2>2. uRef[u] = 1 => sUproc[r] # u
    BY <1>8, <2>1 DEF SessionsOf
  <2> QED
    BY <1>2, <2>1, <2>2 DEF LifeInv, LifeTypes
<1> QED
  BY <1>7, <1>9 DEF UprocInv

(* A process on its way out has no session.                                *)
LEMMA ReleaseKeepsUprocs ==
  ASSUME LifeInv, NEW u \in Uprocs, UprocUnlink(u) \/ UprocPutEvents(u) \/ UprocPutInst(u)
  PROVE  UprocInv'
<1>1. UNCHANGED <<sUproc, uRef>> /\ uLife[u] # "LIVE"
  BY DEF UprocUnlink, UprocPutEvents, UprocPutInst, sessVars
<1>2. \E l \in {"EVENTS", "INST", "NONE"} : uLife' = [uLife EXCEPT ![u] = l]
  BY DEF UprocUnlink, UprocPutEvents, UprocPutInst
<1>3. \A v \in Uprocs : SessionsOf(v)' = SessionsOf(v)
  BY <1>1 DEF SessionsOf
<1> QED
  BY <1>1, <1>2, <1>3 DEF UprocInv, LifeInv, LifeTypes

(* Every step keeps the references of the processes, and no session has a  *)
(* process that is released.                                               *)
LEMMA UprocsKept ==
  ASSUME LifeInv, Races = {}, [Next]_lifeVars
  PROVE  UprocInv'
<1>1. ASSUME NEW s \in Sess, NEW p \in Procs, NEW u \in Uprocs, Open(s, p, u)
      PROVE  UprocInv'
  BY <1>1, OpenKeepsUprocs
<1>2. ASSUME NEW s \in Sess, Close(s)
      PROVE  UprocInv'
  BY <1>2 DEF Close, PutSess, ctlVars, eventVars, instVars, uprocVars, useVars, workVars, UprocInv,
    SessionsOf, LifeInv
<1>3. ASSUME NEW s \in Sess, Launch(s)
      PROVE  UprocInv'
  BY <1>3 DEF Launch, AddTask, GetSess, ctlVars, eventVars, instVars, uprocVars, useVars, UprocInv,
    SessionsOf, LifeInv
<1>4. ASSUME NEW s \in Sess, NEW e \in Events, EventCreate(s, e)
      PROVE  UprocInv'
  BY <1>4 DEF EventCreate, ctlVars, instVars, sessVars, uprocVars, useVars, UprocInv, SessionsOf,
    LifeInv
<1>5. ASSUME NEW s \in Sess, NEW e \in Events, EventDestroy(s, e)
      PROVE  UprocInv'
  BY <1>5 DEF EventDestroy, PutEventsLocked, ctlVars, instVars, sessVars, uprocVars, useVars,
    workVars, UprocInv, SessionsOf, LifeInv
<1>6. ASSUME NEW s \in Sess, NEW e \in Events, EventFind(s, e)
      PROVE  UprocInv'
  BY <1>6 DEF EventFind, ctlVars, instVars, sessVars, uprocVars, useVars, UprocInv, SessionsOf,
    LifeInv
<1>7. ASSUME NEW s \in Sess, NEW n \in Asks, MallocCheck(s, n)
      PROVE  UprocInv'
  BY <1>7 DEF MallocCheck, Do, ctlVars, eventVars, instVars, sessVars, uprocVars, UprocInv,
    SessionsOf, LifeInv
<1>8. ASSUME NEW s \in Sess, NEW n \in Asks, Free(s, n)
      PROVE  UprocInv'
  BY <1>8 DEF Free, ctlVars, eventVars, instVars, sessVars, uprocVars, UprocInv, SessionsOf,
    LifeInv
<1>9. ASSUME NEW s \in Sess, EventInit(s)
      PROVE  UprocInv'
  BY <1>9 DEF EventInit, Idle, ctlVars, instVars, sessVars, uprocVars, useVars, UprocInv,
    SessionsOf, LifeInv
<1>10. ASSUME NEW s \in Sess, EventUse(s)
      PROVE  UprocInv'
  BY <1>10 DEF EventUse, AddTask, GetSess, RecordGet, Idle, ctlVars, instVars, uprocVars, useVars,
    UprocInv, SessionsOf, LifeInv
<1>11. ASSUME NEW s \in Sess, EventPut(s)
      PROVE  UprocInv'
  BY <1>11 DEF EventPut, PutEvent, AfterPut, Idle, ctlVars, instVars, sessVars, uprocVars, useVars,
    UprocInv, SessionsOf, LifeInv
<1>12. ASSUME NEW s \in Sess, EventUnlink(s)
      PROVE  UprocInv'
  BY <1>12 DEF EventUnlink, Unlink, Idle, ctlVars, instVars, sessVars, uprocVars, useVars,
    UprocInv, SessionsOf, LifeInv
<1>13. ASSUME NEW s \in Sess, MallocCharge(s)
      PROVE  UprocInv'
  BY <1>13 DEF MallocCharge, Do, Idle, ctlVars, eventVars, instVars, sessVars, uprocVars, UprocInv,
    SessionsOf, LifeInv
<1>14. ASSUME NEW s \in Sess, MallocTake(s)
      PROVE  UprocInv'
  BY <1>14 DEF MallocTake, Do, MallocFails, Idle, ctlVars, eventVars, instVars, sessVars,
    uprocVars, UprocInv, SessionsOf, LifeInv
<1>15. ASSUME NEW s \in Sess, MallocStat(s)
      PROVE  UprocInv'
  BY <1>15 DEF MallocStat, Do, Idle, ctlVars, eventVars, instVars, sessVars, uprocVars, UprocInv,
    SessionsOf, LifeInv
<1>16. ASSUME NEW s \in Sess, MallocReturn(s)
      PROVE  UprocInv'
  BY <1>16 DEF MallocReturn, Idle, ctlVars, eventVars, instVars, sessVars, uprocVars, useVars,
    UprocInv, SessionsOf, LifeInv
<1>17. ASSUME NEW s \in Sess, FinishEvent(s)
      PROVE  UprocInv'
  BY <1>17 DEF FinishEvent, PutEvent, AfterPut, Finishable, ctlVars, instVars, sessVars, uprocVars,
    useVars, UprocInv, SessionsOf, LifeInv
<1>18. ASSUME NEW s \in Sess, FinishUnlink(s)
      PROVE  UprocInv'
  BY <1>18 DEF FinishUnlink, Unlink, ctlVars, instVars, sessVars, uprocVars, useVars, UprocInv,
    SessionsOf, LifeInv
<1>19. ASSUME NEW s \in Sess, FinishTask(s)
      PROVE  UprocInv'
  BY <1>19 DEF FinishTask, PutSess, Finishable, ctlVars, eventVars, instVars, uprocVars, useVars,
    UprocInv, SessionsOf, LifeInv
<1>20. ASSUME NEW s \in Sess, SessUnlink(s)
      PROVE  UprocInv'
  BY <1>20 DEF SessUnlink, ctlVars, eventVars, instVars, uprocVars, useVars, workVars, UprocInv,
    SessionsOf, LifeInv
<1>21. ASSUME NEW s \in Sess, SessFreeMem(s)
      PROVE  UprocInv'
  BY <1>21 DEF SessFreeMem, ctlVars, eventVars, instVars, uprocVars, UprocInv, SessionsOf, LifeInv
<1>22. ASSUME NEW s \in Sess, SessPutUproc(s)
      PROVE  UprocInv'
  BY <1>22, PutKeepsUprocs
<1>23. ASSUME NEW s \in Sess, Revoke(s)
      PROVE  UprocInv'
  BY <1>23 DEF Revoke, ctlVars, instVars, useVars, UprocInv, SessionsOf, LifeInv
<1>24. ASSUME NEW u \in Uprocs, UprocUnlink(u)
      PROVE  UprocInv'
  BY <1>24, ReleaseKeepsUprocs
<1>25. ASSUME NEW u \in Uprocs, UprocPutEvents(u)
      PROVE  UprocInv'
  BY <1>25, ReleaseKeepsUprocs
<1>26. ASSUME NEW u \in Uprocs, UprocPutInst(u)
      PROVE  UprocInv'
  BY <1>26, ReleaseKeepsUprocs
<1>27. ASSUME NEW i \in Insts, NEW token \in Groups, CreateInstance(i, token)
      PROVE  UprocInv'
  BY <1>27 DEF CreateInstance, eventVars, sessVars, uprocVars, workVars, UprocInv, SessionsOf,
    LifeInv
<1>28. ASSUME NEW i \in Insts, DestroyInstance(i)
      PROVE  UprocInv'
  BY <1>28 DEF DestroyInstance, PutInst, eventVars, sessVars, uprocVars, useVars, workVars,
    UprocInv, SessionsOf, LifeInv
<1>29. ASSUME NEW a \in Admins, NEW i \in Insts, NEW limit \in Limits \cup {Unlimited}, SetFind(a, i, limit)
      PROVE  UprocInv'
  BY <1>29 DEF SetFind, eventVars, sessVars, uprocVars, useVars, workVars, UprocInv, SessionsOf,
    LifeInv
<1>30. ASSUME NEW a \in Admins, SetRead(a)
      PROVE  UprocInv'
  BY <1>30 DEF SetRead, eventVars, instVars, sessVars, uprocVars, useVars, workVars, UprocInv,
    SessionsOf, LifeInv
<1>31. ASSUME NEW a \in Admins, SetApply(a)
      PROVE  UprocInv'
  BY <1>31 DEF SetApply, eventVars, sessVars, uprocVars, useVars, workVars, UprocInv, SessionsOf,
    LifeInv
<1>32. ASSUME NEW a \in Admins, SetPut(a)
      PROVE  UprocInv'
  BY <1>32 DEF SetPut, PutInst, eventVars, sessVars, uprocVars, useVars, workVars, UprocInv,
    SessionsOf, LifeInv
<1>33. CASE UNCHANGED lifeVars
  BY <1>33 DEF lifeVars, sessVars, workVars, uprocVars, useVars, eventVars, ctlVars, instVars,
    LifeInv, UprocInv, SessionsOf
<1> QED
  BY <1>1, <1>2, <1>3, <1>4, <1>5, <1>6, <1>7, <1>8, <1>9, <1>10, <1>11, <1>12, <1>13, <1>14,
    <1>15, <1>16, <1>17, <1>18, <1>19, <1>20, <1>21, <1>22, <1>23, <1>24, <1>25, <1>26, <1>27,
    <1>28, <1>29, <1>30, <1>31, <1>32, <1>33 DEF Next, UserCall, IoctlStep, QueueStep, SessRelease,
    UprocRelease, AdminStep

-----------------------------------------------------------------------------
(* Events *)

(* Nobody begins or ceases to use event e.                                 *)
SameUse(e) ==
  \A s \in Sess :
    /\ task'[s].ev = e <=> task[s].ev = e
    /\ task[s].ev = e => (task'[s].kind = "done" <=> task[s].kind = "done")
    /\ \A ops \in {{"init"}, {"found", "put"}, {"unlink"}} : CallOn(s, ops, e)' <=> CallOn(s, ops, e)
    /\ task[s].ev = e \/ CallOn(s, {"init", "found", "put", "unlink"}, e) => sUproc'[s] = sUproc[s]

Untouched(e) ==
  /\ SameUse(e)
  /\ eLife'[e] = eLife[e] /\ eRef'[e] = eRef[e] /\ eUproc'[e] = eUproc[e]
  /\ e \in gone' <=> e \in gone
  /\ eLife[e] # "NONE" => uLife'[eUproc[e]] \in {"LIVE", "UNLINK", "EVENTS"}

EventFine(e) == EventOk(e) /\ \A s \in Sess : UserOk(s, e)

(* An event nobody touches stays as it was.                                *)
LEMMA UntouchedKept ==
  ASSUME LifeInv, NEW e \in Events, Untouched(e)
  PROVE  EventFine(e)'
<1> USE DEF Untouched, SameUse
<1>1. EventOk(e) /\ \A s \in Sess : UserOk(s, e)
  BY DEF LifeInv, EventInv
<1>2. \A s \in Sess : /\ CallOn(s, {"init"}, e)' <=> CallOn(s, {"init"}, e)
                      /\ CallOn(s, {"found", "put"}, e)' <=> CallOn(s, {"found", "put"}, e)
                      /\ CallOn(s, {"unlink"}, e)' <=> CallOn(s, {"unlink"}, e)
                      /\ Unlinks(s, e)' <=> Unlinks(s, e)
  BY DEF Unlinks
<1>3. Recording(e)' = Recording(e)
  BY DEF Recording
<1>4. Finders(e)' = Finders(e)
  BY <1>2 DEF Finders, CallOn, Idle
<1>5. Early(e)' <=> Early(e)
  BY <1>2 DEF Early, CallOn, Idle
<1>6. EventOk(e)'
  <2>1. eLife[e] # "NONE" => FirstRef(e)' = FirstRef(e)
    BY <1>1, <1>5 DEF FirstRef, EventOk
  <2>2. (\E s \in Sess : Unlinks(s, e)') <=> (\E s \in Sess : Unlinks(s, e))
    BY <1>2
  <2>3. eLife[e] = "LIVE" => /\ eRef[e] = FirstRef(e)' + Cardinality(Recording(e)') + Cardinality(Finders(e)')
                             /\ ~Early(e)' => eRef[e] > 0
    BY <1>1, <1>3, <1>4, <1>5, <2>1 DEF EventOk
  <2>4. Early(e)' => e \notin gone' /\ Recording(e)' = {} /\ Finders(e)' = {}
    BY <1>1, <1>3, <1>4, <1>5 DEF EventOk
  <2> QED
    BY <1>1, <2>2, <2>3, <2>4 DEF EventOk
<1>7. ASSUME NEW s \in Sess
      PROVE  UserOk(s, e)'
  <2>1. CallOn(s, {"init", "found", "put"}, e) <=> CallOn(s, {"init"}, e) \/ CallOn(s, {"found", "put"}, e)
    BY DEF CallOn
  <2>2. CallOn(s, {"init", "found", "put"}, e)' <=> CallOn(s, {"init"}, e)' \/ CallOn(s, {"found", "put"}, e)'
    BY DEF CallOn
  <2>3. CallOn(s, {"init", "found", "put", "unlink"}, e)
          <=> CallOn(s, {"init", "found", "put"}, e) \/ CallOn(s, {"unlink"}, e)
    BY DEF CallOn
  <2> QED
    BY <1>1, <1>2, <2>1, <2>2, <2>3 DEF UserOk
<1> QED
  BY <1>6, <1>7 DEF EventFine

(* What a step of one session or process leaves alone: all events but one. *)
OthersUntouched(x) == \A e \in Events \ {x} : Untouched(e)

(* So only the event a step is about needs an argument.                    *)
LEMMA OthersKept ==
  ASSUME LifeInv, NEW x, OthersUntouched(x), x \in Events => EventFine(x)'
  PROVE  EventInv'
<1> SUFFICES ASSUME NEW e \in Events
             PROVE  EventFine(e)'
  BY DEF EventInv, EventFine
<1> QED
  BY UntouchedKept DEF OthersUntouched

EventStep(s, e) ==
  \/ e \in Events /\ (EventCreate(s, e) \/ EventDestroy(s, e) \/ EventFind(s, e))
  \/ e = call[s].ev /\ (EventInit(s) \/ EventUse(s) \/ EventPut(s) \/ EventUnlink(s))
  \/ e = task[s].ev /\ (FinishEvent(s) \/ FinishUnlink(s))

TouchesOne ==
  \/ OthersUntouched(Nothing)
  \/ \E s \in Sess : \E e : EventStep(s, e) /\ OthersUntouched(e)
  \/ \E u \in Uprocs : UprocPutEvents(u)

(* A step touches no event, or the one it is about, or goes through the    *)
(* events of a process.                                                    *)
LEMMA StepTouches ==
  ASSUME LifeInv, [Next]_lifeVars
  PROVE  TouchesOne
<1>1. ASSUME NEW s \in Sess, NEW p \in Procs, NEW u \in Uprocs, Open(s, p, u)
      PROVE  OthersUntouched(Nothing)
  BY <1>1, LifeAssumption DEF Open, JoinInst, eventVars, workVars, OthersUntouched, Untouched,
    SameUse, CallOn, LifeInv, LifeTypes, SessInv, UprocInv, EventInv, EventOk, Active, Idle,
    NoTask, Holding, Queued, TaskRecords
<1>2. ASSUME NEW s \in Sess, Close(s)
      PROVE  OthersUntouched(Nothing)
  BY <1>2, LifeAssumption DEF Close, PutSess, ctlVars, eventVars, instVars, uprocVars, useVars,
    workVars, OthersUntouched, Untouched, SameUse, CallOn, LifeInv, LifeTypes, SessInv, UprocInv,
    EventInv, EventOk, Active, Idle, NoTask, Holding, Queued, TaskRecords
<1>3. ASSUME NEW s \in Sess, Launch(s)
      PROVE  OthersUntouched(Nothing)
  BY <1>3, LifeAssumption DEF Launch, AddTask, GetSess, ctlVars, eventVars, instVars, uprocVars,
    useVars, OthersUntouched, Untouched, SameUse, CallOn, LifeInv, LifeTypes, SessInv, UprocInv,
    EventInv, EventOk, Active, Idle, NoTask, Holding, Queued, TaskRecords
<1>4. ASSUME NEW s \in Sess, NEW e \in Events, EventCreate(s, e)
      PROVE  OthersUntouched(e)
  BY <1>4, LifeAssumption DEF EventCreate, ctlVars, instVars, sessVars, uprocVars, useVars,
    OthersUntouched, Untouched, SameUse, CallOn, LifeInv, LifeTypes, SessInv, UprocInv, EventInv,
    EventOk, Active, Idle, NoTask, Holding, Queued, TaskRecords
<1>5. ASSUME NEW s \in Sess, NEW e \in Events, EventDestroy(s, e)
      PROVE  OthersUntouched(e)
  BY <1>5, LifeAssumption DEF EventDestroy, PutEventsLocked, ctlVars, instVars, sessVars,
    uprocVars, useVars, workVars, OthersUntouched, Untouched, SameUse, CallOn, LifeInv, LifeTypes,
    SessInv, UprocInv, EventInv, EventOk, Active, Idle, NoTask, Holding, Queued, TaskRecords
<1>6. ASSUME NEW s \in Sess, NEW e \in Events, EventFind(s, e)
      PROVE  OthersUntouched(e)
  BY <1>6, LifeAssumption DEF EventFind, ctlVars, instVars, sessVars, uprocVars, useVars,
    OthersUntouched, Untouched, SameUse, CallOn, LifeInv, LifeTypes, SessInv, UprocInv, EventInv,
    EventOk, Active, Idle, NoTask, Holding, Queued, TaskRecords
<1>7. ASSUME NEW s \in Sess, NEW n \in Asks, MallocCheck(s, n)
      PROVE  OthersUntouched(Nothing)
  BY <1>7, LifeAssumption DEF MallocCheck, Do, ctlVars, eventVars, instVars, sessVars, uprocVars,
    OthersUntouched, Untouched, SameUse, CallOn, LifeInv, LifeTypes, SessInv, UprocInv, EventInv,
    EventOk, Active, Idle, NoTask, Holding, Queued, TaskRecords
<1>8. ASSUME NEW s \in Sess, NEW n \in Asks, Free(s, n)
      PROVE  OthersUntouched(Nothing)
  BY <1>8, LifeAssumption DEF Free, ctlVars, eventVars, instVars, sessVars, uprocVars,
    OthersUntouched, Untouched, SameUse, CallOn, LifeInv, LifeTypes, SessInv, UprocInv, EventInv,
    EventOk, Active, Idle, NoTask, Holding, Queued, TaskRecords
<1>9. ASSUME NEW s \in Sess, EventInit(s)
      PROVE  OthersUntouched(call[s].ev)
  BY <1>9, LifeAssumption DEF EventInit, Idle, ctlVars, instVars, sessVars, uprocVars, useVars,
    OthersUntouched, Untouched, SameUse, CallOn, LifeInv, LifeTypes, SessInv, UprocInv, EventInv,
    EventOk, Active, Idle, NoTask, Holding, Queued, TaskRecords
<1>10. ASSUME NEW s \in Sess, EventUse(s)
      PROVE  OthersUntouched(call[s].ev)
  BY <1>10, LifeAssumption DEF EventUse, AddTask, GetSess, RecordGet, Idle, ctlVars, instVars,
    uprocVars, useVars, OthersUntouched, Untouched, SameUse, CallOn, LifeInv, LifeTypes, SessInv,
    UprocInv, EventInv, EventOk, Active, Idle, NoTask, Holding, Queued, TaskRecords
<1>11. ASSUME NEW s \in Sess, EventPut(s)
      PROVE  OthersUntouched(call[s].ev)
  BY <1>11, LifeAssumption DEF EventPut, PutEvent, AfterPut, Idle, ctlVars, instVars, sessVars,
    uprocVars, useVars, OthersUntouched, Untouched, SameUse, CallOn, LifeInv, LifeTypes, SessInv,
    UprocInv, EventInv, EventOk, Active, Idle, NoTask, Holding, Queued, TaskRecords
<1>12. ASSUME NEW s \in Sess, EventUnlink(s)
      PROVE  OthersUntouched(call[s].ev)
  BY <1>12, LifeAssumption DEF EventUnlink, Unlink, Idle, ctlVars, instVars, sessVars, uprocVars,
    useVars, OthersUntouched, Untouched, SameUse, CallOn, LifeInv, LifeTypes, SessInv, UprocInv,
    EventInv, EventOk, Active, Idle, NoTask, Holding, Queued, TaskRecords
<1>13. ASSUME NEW s \in Sess, MallocCharge(s)
      PROVE  OthersUntouched(Nothing)
  BY <1>13, LifeAssumption DEF MallocCharge, Do, Idle, ctlVars, eventVars, instVars, sessVars,
    uprocVars, OthersUntouched, Untouched, SameUse, CallOn, LifeInv, LifeTypes, SessInv, UprocInv,
    EventInv, EventOk, Active, Idle, NoTask, Holding, Queued, TaskRecords
<1>14. ASSUME NEW s \in Sess, MallocTake(s)
      PROVE  OthersUntouched(Nothing)
  <2>1. \E c \in {Nothing, [op |-> "stat", n |-> call[s].n]} : call' = [call EXCEPT ![s] = c]
    BY <1>14 DEF MallocTake, Do, MallocFails
  <2>2. UNCHANGED <<sUproc, task, uLife, eLife, eRef, eUproc, gone>> /\ call[s] # Nothing /\ call[s].op = "alloc"
    BY <1>14 DEF MallocTake, Idle, sessVars, uprocVars, eventVars
  <2> QED
    BY <2>1, <2>2, LifeAssumption DEF OthersUntouched, Untouched, SameUse, CallOn, LifeInv, LifeTypes,
      EventInv, EventOk
<1>15. ASSUME NEW s \in Sess, MallocStat(s)
      PROVE  OthersUntouched(Nothing)
  BY <1>15, LifeAssumption DEF MallocStat, Do, Idle, ctlVars, eventVars, instVars, sessVars,
    uprocVars, OthersUntouched, Untouched, SameUse, CallOn, LifeInv, LifeTypes, SessInv, UprocInv,
    EventInv, EventOk, Active, Idle, NoTask, Holding, Queued, TaskRecords
<1>16. ASSUME NEW s \in Sess, MallocReturn(s)
      PROVE  OthersUntouched(Nothing)
  BY <1>16, LifeAssumption DEF MallocReturn, Idle, ctlVars, eventVars, instVars, sessVars,
    uprocVars, useVars, OthersUntouched, Untouched, SameUse, CallOn, LifeInv, LifeTypes, SessInv,
    UprocInv, EventInv, EventOk, Active, Idle, NoTask, Holding, Queued, TaskRecords
<1>17. ASSUME NEW s \in Sess, FinishEvent(s)
      PROVE  OthersUntouched(task[s].ev)
  BY <1>17, LifeAssumption DEF FinishEvent, PutEvent, AfterPut, Finishable, ctlVars, instVars,
    sessVars, uprocVars, useVars, OthersUntouched, Untouched, SameUse, CallOn, LifeInv, LifeTypes,
    SessInv, UprocInv, EventInv, EventOk, Active, Idle, NoTask, Holding, Queued, TaskRecords
<1>18. ASSUME NEW s \in Sess, FinishUnlink(s)
      PROVE  OthersUntouched(task[s].ev)
  BY <1>18, LifeAssumption DEF FinishUnlink, Unlink, ctlVars, instVars, sessVars, uprocVars,
    useVars, OthersUntouched, Untouched, SameUse, CallOn, LifeInv, LifeTypes, SessInv, UprocInv,
    EventInv, EventOk, Active, Idle, NoTask, Holding, Queued, TaskRecords
<1>19. ASSUME NEW s \in Sess, FinishTask(s)
      PROVE  OthersUntouched(Nothing)
  BY <1>19, LifeAssumption DEF FinishTask, PutSess, Finishable, ctlVars, eventVars, instVars,
    uprocVars, useVars, OthersUntouched, Untouched, SameUse, CallOn, LifeInv, LifeTypes, SessInv,
    UprocInv, EventInv, EventOk, Active, Idle, NoTask, Holding, Queued, TaskRecords
<1>20. ASSUME NEW s \in Sess, SessUnlink(s)
      PROVE  OthersUntouched(Nothing)
  BY <1>20, LifeAssumption DEF SessUnlink, ctlVars, eventVars, instVars, uprocVars, useVars,
    workVars, OthersUntouched, Untouched, SameUse, CallOn, LifeInv, LifeTypes, SessInv, UprocInv,
    EventInv, EventOk, Active, Idle, NoTask, Holding, Queued, TaskRecords
<1>21. ASSUME NEW s \in Sess, SessFreeMem(s)
      PROVE  OthersUntouched(Nothing)
  BY <1>21, LifeAssumption DEF SessFreeMem, ctlVars, eventVars, instVars, uprocVars,
    OthersUntouched, Untouched, SameUse, CallOn, LifeInv, LifeTypes, SessInv, UprocInv, EventInv,
    EventOk, Active, Idle, NoTask, Holding, Queued, TaskRecords
<1>22. ASSUME NEW s \in Sess, SessPutUproc(s)
      PROVE  OthersUntouched(Nothing)
  BY <1>22, LifeAssumption DEF SessPutUproc, ctlVars, eventVars, instVars, useVars, workVars,
    OthersUntouched, Untouched, SameUse, CallOn, LifeInv, LifeTypes, SessInv, UprocInv, EventInv,
    EventOk, Active, Idle, NoTask, Holding, Queued, TaskRecords
<1>23. ASSUME NEW s \in Sess, Revoke(s)
      PROVE  OthersUntouched(Nothing)
  BY <1>23, LifeAssumption DEF Revoke, ctlVars, instVars, useVars, OthersUntouched, Untouched,
    SameUse, CallOn, LifeInv, LifeTypes, SessInv, UprocInv, EventInv, EventOk, Active, Idle,
    NoTask, Holding, Queued, TaskRecords
<1>24. ASSUME NEW u \in Uprocs, UprocUnlink(u)
      PROVE  OthersUntouched(Nothing)
  BY <1>24, LifeAssumption DEF UprocUnlink, ctlVars, eventVars, instVars, sessVars, useVars,
    workVars, OthersUntouched, Untouched, SameUse, CallOn, LifeInv, LifeTypes, SessInv, UprocInv,
    EventInv, EventOk, Active, Idle, NoTask, Holding, Queued, TaskRecords
<1>25. ASSUME NEW u \in Uprocs, UprocPutEvents(u)
      PROVE  TouchesOne
  BY <1>25, LifeAssumption DEF UprocPutEvents, PutEventsLocked, ctlVars, instVars, sessVars,
    useVars, workVars, TouchesOne
<1>26. ASSUME NEW u \in Uprocs, UprocPutInst(u)
      PROVE  OthersUntouched(Nothing)
  BY <1>26, LifeAssumption DEF UprocPutInst, PutInst, eventVars, instVars, sessVars, useVars,
    workVars, OthersUntouched, Untouched, SameUse, CallOn, LifeInv, LifeTypes, SessInv, UprocInv,
    EventInv, EventOk, Active, Idle, NoTask, Holding, Queued, TaskRecords
<1>27. ASSUME NEW i \in Insts, NEW token \in Groups, CreateInstance(i, token)
      PROVE  OthersUntouched(Nothing)
  BY <1>27, LifeAssumption DEF CreateInstance, eventVars, sessVars, uprocVars, workVars,
    OthersUntouched, Untouched, SameUse, CallOn, LifeInv, LifeTypes, SessInv, UprocInv, EventInv,
    EventOk, Active, Idle, NoTask, Holding, Queued, TaskRecords
<1>28. ASSUME NEW i \in Insts, DestroyInstance(i)
      PROVE  OthersUntouched(Nothing)
  BY <1>28, LifeAssumption DEF DestroyInstance, PutInst, eventVars, sessVars, uprocVars, useVars,
    workVars, OthersUntouched, Untouched, SameUse, CallOn, LifeInv, LifeTypes, SessInv, UprocInv,
    EventInv, EventOk, Active, Idle, NoTask, Holding, Queued, TaskRecords
<1>29. ASSUME NEW a \in Admins, NEW i \in Insts, NEW limit \in Limits \cup {Unlimited}, SetFind(a, i, limit)
      PROVE  OthersUntouched(Nothing)
  BY <1>29, LifeAssumption DEF SetFind, eventVars, sessVars, uprocVars, useVars, workVars,
    OthersUntouched, Untouched, SameUse, CallOn, LifeInv, LifeTypes, SessInv, UprocInv, EventInv,
    EventOk, Active, Idle, NoTask, Holding, Queued, TaskRecords
<1>30. ASSUME NEW a \in Admins, SetRead(a)
      PROVE  OthersUntouched(Nothing)
  BY <1>30, LifeAssumption DEF SetRead, eventVars, instVars, sessVars, uprocVars, useVars,
    workVars, OthersUntouched, Untouched, SameUse, CallOn, LifeInv, LifeTypes, SessInv, UprocInv,
    EventInv, EventOk, Active, Idle, NoTask, Holding, Queued, TaskRecords
<1>31. ASSUME NEW a \in Admins, SetApply(a)
      PROVE  OthersUntouched(Nothing)
  BY <1>31, LifeAssumption DEF SetApply, eventVars, sessVars, uprocVars, useVars, workVars,
    OthersUntouched, Untouched, SameUse, CallOn, LifeInv, LifeTypes, SessInv, UprocInv, EventInv,
    EventOk, Active, Idle, NoTask, Holding, Queued, TaskRecords
<1>32. ASSUME NEW a \in Admins, SetPut(a)
      PROVE  OthersUntouched(Nothing)
  BY <1>32, LifeAssumption DEF SetPut, PutInst, eventVars, sessVars, uprocVars, useVars, workVars,
    OthersUntouched, Untouched, SameUse, CallOn, LifeInv, LifeTypes, SessInv, UprocInv, EventInv,
    EventOk, Active, Idle, NoTask, Holding, Queued, TaskRecords
<1>33. ASSUME UNCHANGED lifeVars
      PROVE  OthersUntouched(Nothing)
  BY <1>33, LifeAssumption DEF lifeVars, sessVars, workVars, uprocVars, useVars, eventVars,
    ctlVars, instVars, OthersUntouched, Untouched, SameUse, CallOn, LifeInv, EventInv, EventOk
<1>34. ASSUME NEW s \in Sess, NEW e, EventStep(s, e)
      PROVE  OthersUntouched(e)
  <2>1. CASE e \in Events /\ (EventCreate(s, e) \/ EventDestroy(s, e) \/ EventFind(s, e))
    BY <2>1, <1>4, <1>5, <1>6
  <2>2. CASE e = call[s].ev /\ (EventInit(s) \/ EventUse(s) \/ EventPut(s) \/ EventUnlink(s))
    BY <2>2, <1>9, <1>10, <1>11, <1>12
  <2>3. CASE e = task[s].ev /\ (FinishEvent(s) \/ FinishUnlink(s))
    BY <2>3, <1>17, <1>18
  <2> QED
    BY <1>34, <2>1, <2>2, <2>3 DEF EventStep
<1>35. ASSUME NEW s \in Sess, UserCall(s) \/ IoctlStep(s) \/ QueueStep(s) \/ SessRelease(s) \/ Revoke(s)
      PROVE  TouchesOne
  <2>1. CASE \E e \in Events \cup {call[s].ev, task[s].ev} : EventStep(s, e)
    BY <2>1, <1>34 DEF TouchesOne
  <2>2. CASE ~\E e \in Events \cup {call[s].ev, task[s].ev} : EventStep(s, e)
    <3>1. OthersUntouched(Nothing)
      BY <1>35, <2>2, <1>1, <1>2, <1>3, <1>7, <1>8, <1>13, <1>14, <1>15, <1>16, <1>19, <1>20,
        <1>21, <1>22, <1>23 DEF UserCall, IoctlStep, QueueStep, SessRelease, EventStep
    <3> QED
      BY <3>1 DEF TouchesOne
  <2> QED
    BY <2>1, <2>2
<1>36. ASSUME NEW u \in Uprocs, UprocRelease(u)
      PROVE  TouchesOne
  BY <1>36, <1>24, <1>25, <1>26 DEF UprocRelease, TouchesOne
<1> QED
  BY <1>35, <1>36, <1>27, <1>28, <1>29, <1>30, <1>31, <1>32, <1>33 DEF Next, AdminStep, TouchesOne

(* The steps about an event, each by its own argument.                     *)

(* kl2_create_event: listed, and used by nobody yet.                       *)
LEMMA CreateFine ==
  ASSUME LifeInv, NEW s \in Sess, NEW e \in Events, EventCreate(s, e)
  PROVE  EventFine(e)'
<1> USE DEF LifeInv, LifeTypes
<1>1. EventFine(e) /\ SessInv /\ UprocInv
  BY DEF EventInv, EventFine
<1>2. \A r \in Sess : task[r].ev # e /\ ~CallOn(r, {"init", "found", "put"}, e) /\ ~CallOn(r, {"unlink"}, e)
  BY <1>1 DEF EventCreate, EventFine, UserOk
<1>3. /\ UNCHANGED <<sUproc, task, uLife>>
      /\ eLife'[e] = "LIVE" /\ eRef'[e] = 0 /\ eUproc'[e] = sUproc[s] /\ e \notin gone'
      /\ call'[s] = [op |-> "init", ev |-> e] /\ \A r \in Sess \ {s} : call'[r] = call[r]
  BY DEF EventCreate, sessVars, uprocVars
<1>4. sUproc[s] \in Uprocs /\ uLife[sUproc[s]] = "LIVE"
  BY <1>1 DEF EventCreate, Active, SessInv, UprocInv
<1>5. call'[s] # Nothing
  BY <1>3, LifeAssumption DEF EventCalls
<1>6. \A r \in Sess : /\ CallOn(r, {"init"}, e)' <=> r = s
                      /\ ~CallOn(r, {"found", "put"}, e)' /\ ~CallOn(r, {"unlink"}, e)'
                      /\ CallOn(r, {"init", "found", "put"}, e)' => r = s
  BY <1>2, <1>3, <1>5 DEF CallOn
<1>7. Recording(e)' = {} /\ Finders(e)' = {} /\ Early(e)'
  BY <1>2, <1>3, <1>5, <1>6 DEF Recording, Finders, Early, CallOn, Idle
<1>8. FirstRef(e)' = 0 /\ Cardinality(Recording(e)') = 0 /\ Cardinality(Finders(e)') = 0
  BY <1>7, FS_EmptySet DEF FirstRef
<1>9. EventOk(e)'
  BY <1>3, <1>4, <1>7, <1>8 DEF EventOk
<1>10. ASSUME NEW r \in Sess
       PROVE  UserOk(r, e)'
  BY <1>2, <1>3, <1>6 DEF UserOk, Unlinks
<1> QED
  BY <1>9, <1>10 DEF EventFine

(* Who uses e, in terms of the calls under way.                            *)
LEMMA EventsFine ==
  ASSUME LifeInv, NEW e \in Events
  PROVE  /\ EventFine(e) /\ (Early(e) <=> \E s \in Sess : CallOn(s, {"init"}, e))
         /\ \A s \in Sess : s \in Finders(e) <=> CallOn(s, {"found", "put"}, e)
         /\ \A s \in Sess : CallOn(s, {"init", "found", "put"}, e)
                              <=> CallOn(s, {"init"}, e) \/ CallOn(s, {"found", "put"}, e)
         /\ \A s \in Sess : s \in Recording(e) <=> task[s].kind # "done" /\ task[s].ev = e
BY DEF LifeInv, EventInv, EventFine, Early, Finders, Recording, CallOn, Idle

(* Who uses e afterwards, in the same terms.                               *)
LEMMA UsersAfter ==
  ASSUME NEW e
  PROVE  /\ Early(e)' <=> \E s \in Sess : CallOn(s, {"init"}, e)'
         /\ \A s \in Sess : s \in Finders(e)' <=> CallOn(s, {"found", "put"}, e)'
         /\ \A s \in Sess : CallOn(s, {"init", "found", "put"}, e)'
                              <=> CallOn(s, {"init"}, e)' \/ CallOn(s, {"found", "put"}, e)'
         /\ \A s \in Sess : s \in Recording(e)' <=> task'[s].kind # "done" /\ task'[s].ev = e
         /\ Finders(e)' \subseteq Sess /\ Recording(e)' \subseteq Sess
BY DEF Early, Finders, Recording, CallOn, Idle

(* Its count is set by the one that created it.                            *)
LEMMA InitFine ==
  ASSUME LifeInv, NEW s \in Sess, NEW e \in Events, e = call[s].ev, EventInit(s)
  PROVE  EventFine(e)'
<1> USE DEF LifeInv, LifeTypes
<1>1. EventFine(e) /\ CallOn(s, {"init"}, e)
  BY EventsFine DEF EventInit, CallOn, Idle
<1>2. \A r \in Sess : CallOn(r, {"init"}, e) => r = s
  BY <1>1 DEF EventFine, UserOk
<1>3. /\ UNCHANGED <<sUproc, task, uLife, eLife, eUproc, gone>>
      /\ eRef'[e] = 1 /\ call'[s] = Nothing /\ \A r \in Sess \ {s} : call'[r] = call[r]
  BY DEF EventInit, sessVars, uprocVars
<1>4. eLife[e] = "LIVE" /\ Early(e) /\ e \notin gone /\ Recording(e) = {} /\ Finders(e) = {}
  BY <1>1, EventsFine DEF EventFine, EventOk, UserOk
<1>5. \A r \in Sess : ~CallOn(r, {"init"}, e)' /\ ~CallOn(r, {"found", "put"}, e)' /\ ~CallOn(r, {"unlink"}, e)'
  <2>1. \A r \in Sess : ~CallOn(r, {"found", "put"}, e) /\ ~CallOn(r, {"unlink"}, e)
    <3>1. \A r \in Sess : ~CallOn(r, {"found", "put"}, e)
      BY <1>4, EventsFine
    <3>2. \A r \in Sess : ~CallOn(r, {"unlink"}, e)
      BY <1>1, <1>4 DEF EventFine, UserOk
    <3> QED
      BY <3>1, <3>2
  <2> QED
    BY <1>2, <1>3, <2>1 DEF CallOn
<1>6. ~Early(e)' /\ Finders(e)' = {} /\ Recording(e)' = {}
  BY <1>3, <1>4, <1>5, UsersAfter DEF Recording
<1>7. FirstRef(e)' = 1 /\ Cardinality(Recording(e)') = 0 /\ Cardinality(Finders(e)') = 0
  BY <1>1, <1>3, <1>4, <1>6, FS_EmptySet, LifeAssumption DEF FirstRef, EventFine, EventOk
<1>8. EventOk(e)'
  BY <1>1, <1>3, <1>4, <1>6, <1>7 DEF EventFine, EventOk
<1>9. ASSUME NEW r \in Sess
      PROVE  UserOk(r, e)'
  BY <1>1, <1>3, <1>4, <1>5, UsersAfter DEF EventFine, UserOk, Unlinks
<1> QED
  BY <1>8, <1>9 DEF EventFine

(* ioctl_event_destroy puts the first reference, once, and unlinks the     *)
(* event under the lock if no other is left.                               *)
LEMMA DestroyFine ==
  ASSUME LifeInv, Races = {}, NEW s \in Sess, NEW e \in Events, EventDestroy(s, e)
  PROVE  EventFine(e)'
<1> USE DEF LifeInv, LifeTypes
<1>1. EventFine(e) /\ e \notin gone /\ ~Early(e) /\ eLife[e] # "NONE"
  BY EventsFine DEF EventDestroy, Destroyable, ListedEvents
<1>2. eLife[e] = "LIVE" /\ FirstRef(e) = 1 /\ eRef[e] > 0
  BY <1>1, LifeAssumption DEF EventFine, EventOk, FirstRef
<1>3. /\ UNCHANGED <<sUproc, task, call, uLife, eUproc>> /\ gone' = gone \cup {e}
      /\ eRef'[e] = eRef[e] - 1 /\ eLife'[e] = IF eRef[e] = 1 THEN "NONE" ELSE "LIVE"
  BY <1>2 DEF EventDestroy, PutEventsLocked, sessVars, workVars, uprocVars
<1>4. /\ Early(e)' = Early(e) /\ Finders(e)' = Finders(e) /\ Recording(e)' = Recording(e)
      /\ \A r \in Sess : /\ CallOn(r, {"init"}, e)' = CallOn(r, {"init"}, e)
                         /\ CallOn(r, {"found", "put"}, e)' = CallOn(r, {"found", "put"}, e)
                         /\ CallOn(r, {"unlink"}, e)' = CallOn(r, {"unlink"}, e)
                         /\ Unlinks(r, e)' = Unlinks(r, e)
  BY <1>3 DEF Early, Finders, Recording, CallOn, Idle, Unlinks
<1>5. FirstRef(e)' = 0
  BY <1>3 DEF FirstRef
<1>6. eRef[e] = 1 => Finders(e) = {} /\ Recording(e) = {}
  BY <1>1, <1>2, Counted, FS_EmptySet DEF EventFine, EventOk
<1>7. EventOk(e)'
  BY <1>1, <1>2, <1>3, <1>4, <1>5, Counted DEF EventFine, EventOk
<1>8. ASSUME NEW r \in Sess
      PROVE  UserOk(r, e)'
  BY <1>1, <1>2, <1>3, <1>4, <1>6, EventsFine, UsersAfter DEF EventFine, UserOk
<1> QED
  BY <1>7, <1>8 DEF EventFine

(* kl2_event_find_and_get takes a reference of an event that has one.      *)
LEMMA FindFine ==
  ASSUME LifeInv, Races = {}, NEW s \in Sess, NEW e \in Events, EventFind(s, e)
  PROVE  EventFine(e)'
<1> USE DEF LifeInv, LifeTypes
<1>1. /\ EventFine(e) /\ ~Early(e) /\ eLife[e] = "LIVE" /\ eUproc[e] = sUproc[s] /\ call[s] = Nothing
  BY EventsFine DEF EventFind, ListedEvents, Idle
<1>2. /\ UNCHANGED <<sUproc, task, uLife, eLife, eUproc, gone>>
      /\ eRef'[e] = eRef[e] + 1 /\ call'[s] = [op |-> "found", ev |-> e]
      /\ \A r \in Sess \ {s} : call'[r] = call[r]
  BY DEF EventFind, sessVars, uprocVars
<1>3. call'[s] # Nothing
  BY <1>2, LifeAssumption DEF EventCalls
<1>4. \A r \in Sess : /\ CallOn(r, {"init"}, e)' <=> CallOn(r, {"init"}, e)
                      /\ CallOn(r, {"found", "put"}, e)' <=> CallOn(r, {"found", "put"}, e) \/ r = s
                      /\ CallOn(r, {"unlink"}, e)' <=> CallOn(r, {"unlink"}, e)
                      /\ Unlinks(r, e)' <=> Unlinks(r, e)
  BY <1>1, <1>2, <1>3 DEF CallOn, Unlinks
<1>5. s \notin Finders(e) /\ Finders(e) \subseteq Sess
  BY <1>1 DEF Finders, Idle
<1>6. Finders(e)' = Finders(e) \cup {s}
  BY <1>4, <1>5, EventsFine, UsersAfter
<1>7. Recording(e)' = Recording(e) /\ ~Early(e)' /\ FirstRef(e)' = FirstRef(e)
  BY <1>1, <1>2, <1>4, EventsFine, UsersAfter DEF Recording, FirstRef
<1>8. Cardinality(Finders(e)') = Cardinality(Finders(e)) + 1
  BY <1>5, <1>6, CountMore, Counted
<1>9. EventOk(e)'
  BY <1>1, <1>2, <1>7, <1>8, Counted DEF EventFine, EventOk, FirstRef
<1>10. ASSUME NEW r \in Sess
       PROVE  UserOk(r, e)'
  BY <1>1, <1>2, <1>4, EventsFine, UsersAfter DEF EventFine, UserOk
<1> QED
  BY <1>9, <1>10 DEF EventFine

(* The task that records an event takes a reference of its own, while the  *)
(* lookup still has one.                                                   *)
LEMMA UseFine ==
  ASSUME LifeInv, NEW s \in Sess, NEW e \in Events, e = call[s].ev, EventUse(s)
  PROVE  EventFine(e)'
<1> USE DEF LifeInv, LifeTypes
<1>1. /\ EventFine(e) /\ CallOn(s, {"found", "put"}, e) /\ call[s].op = "found"
      /\ eUproc[e] = sUproc[s] /\ task[s] = NoTask /\ call[s] # Nothing
  BY EventsFine DEF EventUse, AddTask, CallOn, Idle
<1>2. s \in Finders(e) /\ ~Early(e) /\ eLife[e] = "LIVE" /\ s \notin Recording(e)
  BY <1>1, EventsFine, LifeAssumption DEF EventFine, EventOk, UserOk, NoTask
<1>3. /\ UNCHANGED <<sUproc, uLife, eLife, eUproc, gone>>
      /\ call'[s] = [op |-> "put", ev |-> e] /\ \A r \in Sess \ {s} : call'[r] = call[r] /\ task'[r] = task[r]
      /\ \/ task'[s] = [kind |-> "task", ev |-> e] /\ eRef'[e] = eRef[e] + 1
         \/ task'[s] = [kind |-> "task", ev |-> Nothing] /\ eRef'[e] = eRef[e]
  BY DEF EventUse, AddTask, RecordGet, uprocVars
<1>4. call'[s] # Nothing
  BY <1>3, LifeAssumption DEF EventCalls
<1>5. \A r \in Sess : /\ CallOn(r, {"init"}, e)' <=> CallOn(r, {"init"}, e)
                      /\ CallOn(r, {"found", "put"}, e)' <=> CallOn(r, {"found", "put"}, e)
                      /\ CallOn(r, {"unlink"}, e)' <=> CallOn(r, {"unlink"}, e)
                      /\ Unlinks(r, e)' <=> Unlinks(r, e)
  BY <1>1, <1>3, <1>4, LifeAssumption DEF CallOn, Unlinks, NoTask
<1>6. Finders(e)' = Finders(e) /\ ~Early(e)' /\ FirstRef(e)' = FirstRef(e)
  <2>1. Finders(e) \subseteq Sess
    BY DEF Finders
  <2>2. Finders(e)' = Finders(e)
    <3>1. Finders(e)' \subseteq Finders(e) /\ Finders(e) \subseteq Finders(e)'
      BY <1>5, <2>1, EventsFine, UsersAfter
    <3> QED
      BY <3>1
  <2>3. ~Early(e)'
    BY <1>2, <1>5, EventsFine, UsersAfter
  <2> QED
    BY <1>2, <1>3, <2>2, <2>3 DEF FirstRef
<1>7. eRef'[e] - eRef[e] = Cardinality(Recording(e)') - Cardinality(Recording(e))
  <2>1. Recording(e) \subseteq Sess
    BY DEF Recording
  <2>2. CASE task'[s].ev = e
    <3>1. Recording(e)' = Recording(e) \cup {s}
      BY <1>3, <2>1, <2>2, EventsFine, UsersAfter, LifeAssumption
    <3>2. eRef'[e] = eRef[e] + 1
      BY <1>3, <2>2, LifeAssumption
    <3>3. IsFiniteSet(Recording(e)) /\ Cardinality(Recording(e)) \in Nat /\ eRef[e] \in Int
      BY Counted
    <3>4. Cardinality(Recording(e) \cup {s}) = Cardinality(Recording(e)) + 1
      BY <1>2, <3>3, CountMore
    <3>5. Cardinality(Recording(e)') = Cardinality(Recording(e)) + 1
      BY <3>1, <3>4
    <3> HIDE DEF LifeInv, LifeTypes
    <3> QED
      BY <3>2, <3>3, <3>5
  <2>3. CASE task'[s].ev # e
    <3>1. s \notin Recording(e)'
      BY <2>3, UsersAfter
    <3>2. \A r \in Sess \ {s} : r \in Recording(e)' <=> r \in Recording(e)
      BY <1>3, EventsFine, UsersAfter
    <3>3. Recording(e)' \subseteq Recording(e) /\ Recording(e) \subseteq Recording(e)'
      BY <1>2, <2>1, <3>1, <3>2, UsersAfter
    <3>4. Recording(e)' = Recording(e)
      BY <3>3
    <3>5. eRef'[e] = eRef[e] /\ eRef[e] \in Int /\ Cardinality(Recording(e)) \in Nat
      BY <1>3, <2>3, Counted
    <3> HIDE DEF LifeInv, LifeTypes
    <3> QED
      BY <3>4, <3>5
  <2> QED
    BY <2>2, <2>3
<1>8. EventOk(e)'
  <2>1. eRef'[e] >= eRef[e] /\ Cardinality(Recording(e)') \in Int
    BY <1>3, <1>7, FS_CardinalityType, FS_Subset, UsersAfter, LifeAssumption
  <2> QED
    BY <1>1, <1>2, <1>3, <1>6, <1>7, <2>1, Counted DEF EventFine, EventOk, FirstRef
<1>9. ASSUME NEW r \in Sess
      PROVE  UserOk(r, e)'
  <2>1. task'[r].ev = e => /\ r = s \/ task[r].ev = e
                           /\ r = s => task'[r].kind = "task"
                           /\ r # s => task'[r] = task[r]
    BY <1>3
  <2>2. task'[r].ev = e => eUproc[e] = sUproc[r] /\ eLife[e] = IF task'[r].kind = "done" THEN "DYING" ELSE "LIVE"
    BY <1>1, <1>2, <2>1 DEF EventFine, UserOk
  <2>3. CallOn(r, {"init", "found", "put"}, e)' => eUproc[e] = sUproc[r]
    <3>1. CallOn(r, {"init", "found", "put"}, e)' => CallOn(r, {"init", "found", "put"}, e)
      BY <1>5, EventsFine, UsersAfter
    <3> QED
      BY <1>1, <3>1 DEF EventFine, UserOk
  <2>4. ~CallOn(r, {"unlink"}, e)'
    BY <1>1, <1>2, <1>5 DEF EventFine, UserOk
  <2>5. /\ \A q \in Sess : Unlinks(q, e)' /\ Unlinks(r, e)' => q = r
        /\ \A q \in Sess : CallOn(q, {"init"}, e)' /\ CallOn(r, {"init"}, e)' => q = r
    BY <1>1, <1>5 DEF EventFine, UserOk
  <2> QED
    BY <1>2, <1>3, <2>2, <2>3, <2>4, <2>5 DEF UserOk
<1> QED
  BY <1>8, <1>9 DEF EventFine

(* The last reference of an event goes when nobody uses it any more.       *)
LEMMA LastGoes ==
  ASSUME LifeInv, NEW e \in Events, eLife[e] = "LIVE", eRef[e] = 1, ~Early(e), NEW s \in Sess
  PROVE  /\ s \in Finders(e) => e \in gone /\ Finders(e) = {s} /\ Recording(e) = {}
         /\ s \in Recording(e) => e \in gone /\ Recording(e) = {s} /\ Finders(e) = {}
<1> DEFINE F == Cardinality(Finders(e))
           R == Cardinality(Recording(e))
<1>1. 1 = FirstRef(e) + R + F /\ FirstRef(e) \in {0, 1} /\ F \in Nat /\ R \in Nat
  BY Counted DEF LifeInv, EventInv, EventOk, FirstRef
<1>2. FirstRef(e) = 0 => e \in gone
  BY LifeAssumption DEF LifeInv, EventInv, EventOk, FirstRef
<1>3. /\ s \in Finders(e) => F > 0 /\ Cardinality(Finders(e) \ {s}) = F - 1 /\ IsFiniteSet(Finders(e) \ {s})
      /\ s \in Recording(e) => R > 0 /\ Cardinality(Recording(e) \ {s}) = R - 1 /\ IsFiniteSet(Recording(e) \ {s})
  BY CountLess, Counted, FS_Subset
<1>4. /\ s \in Finders(e) => F = 1 /\ R = 0 /\ FirstRef(e) = 0
      /\ s \in Recording(e) => R = 1 /\ F = 0 /\ FirstRef(e) = 0
  BY <1>1, <1>3
<1>5. /\ s \in Finders(e) => Finders(e) \ {s} = {} /\ Recording(e) = {}
      /\ s \in Recording(e) => Recording(e) \ {s} = {} /\ Finders(e) = {}
  BY <1>3, <1>4, Counted, FS_EmptySet
<1> QED
  BY <1>2, <1>4, <1>5

(* The lookup's reference goes; the last one leaves the event to be        *)
(* unlinked by this call alone.                                            *)
LEMMA PutFine ==
  ASSUME LifeInv, NEW s \in Sess, NEW e \in Events, e = call[s].ev, EventPut(s)
  PROVE  EventFine(e)'
<1> USE DEF LifeInv, LifeTypes
<1>1. EventFine(e) /\ CallOn(s, {"found", "put"}, e) /\ call[s] # Nothing
  BY EventsFine DEF EventPut, CallOn, Idle
<1>2. s \in Finders(e) /\ ~Early(e) /\ eLife[e] = "LIVE"
  BY <1>1, EventsFine DEF EventFine, EventOk, UserOk
<1>3. \A r \in Sess : ~Unlinks(r, e)
  BY <1>1, <1>2 DEF EventFine, UserOk, Unlinks
<1>4. /\ UNCHANGED <<sUproc, task, uLife, eUproc, gone>>
      /\ eRef'[e] = eRef[e] - 1 /\ eLife'[e] = IF eRef[e] = 1 THEN "DYING" ELSE "LIVE"
      /\ call'[s] = IF eRef[e] = 1 THEN [op |-> "unlink", ev |-> e] ELSE Nothing
      /\ \A r \in Sess \ {s} : call'[r] = call[r]
  BY <1>2 DEF EventPut, PutEvent, AfterPut, sessVars, uprocVars
<1>5. [op |-> "unlink", ev |-> e] # Nothing
  BY LifeAssumption DEF EventCalls
<1>6. \A r \in Sess : /\ CallOn(r, {"init"}, e)' <=> CallOn(r, {"init"}, e)
                      /\ CallOn(r, {"found", "put"}, e)' <=> CallOn(r, {"found", "put"}, e) /\ r # s
                      /\ CallOn(r, {"unlink"}, e)' <=> r = s /\ eRef[e] = 1
                      /\ Unlinks(r, e)' <=> r = s /\ eRef[e] = 1
  BY <1>1, <1>3, <1>4, <1>5 DEF CallOn, Unlinks
<1>7. Finders(e)' = Finders(e) \ {s}
  <2>1. Finders(e) \subseteq Sess
    BY DEF Finders
  <2> QED
    BY <1>6, <2>1, EventsFine, UsersAfter
<1>8. Recording(e)' = Recording(e) /\ ~Early(e)' /\ FirstRef(e)' = FirstRef(e)
  BY <1>2, <1>4, <1>6, EventsFine, UsersAfter DEF Recording, FirstRef
<1>9. Cardinality(Finders(e)') = Cardinality(Finders(e)) - 1
  BY <1>2, <1>7, CountLess, Counted
<1>10. eRef[e] = 1 => e \in gone /\ Finders(e) = {s} /\ Recording(e) = {}
  BY <1>2, LastGoes
<1>11. EventOk(e)'
  BY <1>1, <1>2, <1>4, <1>6, <1>8, <1>9, <1>10, Counted DEF EventFine, EventOk, FirstRef
<1>12. ASSUME NEW r \in Sess
       PROVE  UserOk(r, e)'
  <2>1. eRef[e] = 1 => ~CallOn(r, {"init", "found", "put"}, e)' /\ task'[r].ev # e
    BY <1>2, <1>3, <1>4, <1>6, <1>7, <1>10, EventsFine, UsersAfter DEF Unlinks
  <2>2. eUproc[e] = sUproc[s]
    BY <1>1, EventsFine DEF EventFine, UserOk
  <2>3. CallOn(r, {"init", "found", "put"}, e)' => eUproc[e] = sUproc[r] /\ eRef[e] # 1
    <3>1. CallOn(r, {"init", "found", "put"}, e)' => CallOn(r, {"init", "found", "put"}, e)
      BY <1>6, EventsFine, UsersAfter
    <3> QED
      BY <1>1, <2>1, <3>1 DEF EventFine, UserOk
  <2>4. CallOn(r, {"unlink"}, e)' => r = s /\ eRef[e] = 1 /\ task'[r].ev # e
    BY <1>6, <2>1
  <2>5. task'[r].ev = e => eRef[e] # 1 /\ task[r] = task'[r] /\ eUproc[e] = sUproc[r] /\ task[r].kind # "done"
    BY <1>1, <1>3, <1>4, <2>1 DEF EventFine, UserOk, Unlinks
  <2>6. /\ \A q \in Sess : Unlinks(q, e)' /\ Unlinks(r, e)' => q = r
        /\ \A q \in Sess : CallOn(q, {"init"}, e)' /\ CallOn(r, {"init"}, e)' => q = r
    BY <1>1, <1>6 DEF EventFine, UserOk
  <2> QED
    BY <1>4, <2>2, <2>3, <2>4, <2>5, <2>6 DEF UserOk
<1> QED
  BY <1>11, <1>12 DEF EventFine

(* It is unlinked when nobody uses it.                                     *)
LEMMA UnlinkFine ==
  ASSUME LifeInv, NEW s \in Sess, NEW e \in Events, Unlinks(s, e),
         UNCHANGED <<sUproc, uLife, eUproc, gone>>, eLife'[e] = "NONE", ~Unlinks(s, e)',
         task'[s].ev # e, ~CallOn(s, {"init", "found", "put"}, e)',
         \A r \in Sess \ {s} : call'[r] = call[r] /\ task'[r] = task[r]
  PROVE  EventFine(e)'
<1> USE DEF LifeInv, LifeTypes
<1>1. EventFine(e) /\ eLife[e] = "DYING"
  BY EventsFine DEF EventFine, UserOk, Unlinks
<1>2. \A r \in Sess \ {s} : ~Unlinks(r, e) /\ ~CallOn(r, {"init", "found", "put"}, e) /\ task[r].ev # e
  BY <1>1 DEF EventFine, UserOk, Unlinks
<1>3. \A r \in Sess \ {s} : /\ Unlinks(r, e)' = Unlinks(r, e)
                            /\ CallOn(r, {"init", "found", "put"}, e)' = CallOn(r, {"init", "found", "put"}, e)
  BY DEF Unlinks, CallOn
<1>4. \A r \in Sess : ~Unlinks(r, e)' /\ ~CallOn(r, {"init", "found", "put"}, e)' /\ task'[r].ev # e
  BY <1>2, <1>3
<1>5. ~Early(e)'
  BY <1>4, UsersAfter
<1> QED
  BY <1>4, <1>5, UsersAfter DEF EventFine, EventOk, UserOk, Unlinks

(* finish_task puts the reference of a record as a lookup's.               *)
LEMMA FinishFine ==
  ASSUME LifeInv, NEW s \in Sess, NEW e \in Events, e = task[s].ev, FinishEvent(s)
  PROVE  EventFine(e)'
<1> USE DEF LifeInv, LifeTypes
<1>1. EventFine(e) /\ task[s].kind # "done" /\ s \in Recording(e)
  BY EventsFine DEF FinishEvent
<1>2. ~Early(e) /\ eLife[e] = "LIVE"
  BY <1>1 DEF EventFine, EventOk, UserOk
<1>3. \A r \in Sess : ~Unlinks(r, e)
  BY <1>1, <1>2 DEF EventFine, UserOk, Unlinks
<1>4. /\ UNCHANGED <<sUproc, call, uLife, eUproc, gone>>
      /\ eRef'[e] = eRef[e] - 1 /\ eLife'[e] = IF eRef[e] = 1 THEN "DYING" ELSE "LIVE"
      /\ task'[s] = [kind |-> "done", ev |-> IF eRef[e] = 1 THEN e ELSE Nothing]
      /\ \A r \in Sess \ {s} : task'[r] = task[r]
  BY <1>2 DEF FinishEvent, PutEvent, AfterPut, sessVars, uprocVars
<1>5. \A r \in Sess : /\ CallOn(r, {"init"}, e)' <=> CallOn(r, {"init"}, e)
                      /\ CallOn(r, {"found", "put"}, e)' <=> CallOn(r, {"found", "put"}, e)
                      /\ ~CallOn(r, {"unlink"}, e)'
                      /\ Unlinks(r, e)' <=> r = s /\ eRef[e] = 1
  BY <1>3, <1>4, LifeAssumption DEF CallOn, Unlinks
<1>6. Recording(e)' = Recording(e) \ {s}
  <2>1. Recording(e) \subseteq Sess
    BY DEF Recording
  <2>2. s \notin Recording(e)'
    BY <1>4, UsersAfter
  <2>3. \A r \in Sess \ {s} : r \in Recording(e)' <=> r \in Recording(e)
    BY <1>4, EventsFine, UsersAfter
  <2> QED
    BY <2>1, <2>2, <2>3, UsersAfter
<1>7. Finders(e)' = Finders(e) /\ ~Early(e)' /\ FirstRef(e)' = FirstRef(e)
  <2>1. Finders(e) \subseteq Sess
    BY DEF Finders
  <2>2. Finders(e)' = Finders(e)
    <3>1. Finders(e)' \subseteq Finders(e) /\ Finders(e) \subseteq Finders(e)'
      BY <1>5, <2>1, EventsFine, UsersAfter
    <3> QED
      BY <3>1
  <2>3. ~Early(e)'
    BY <1>2, <1>5, EventsFine, UsersAfter
  <2> QED
    BY <1>2, <1>4, <2>2, <2>3 DEF FirstRef
<1>8. Cardinality(Recording(e)') = Cardinality(Recording(e)) - 1
  BY <1>1, <1>6, CountLess, Counted
<1>9. eRef[e] = 1 => e \in gone /\ Recording(e) = {s} /\ Finders(e) = {}
  BY <1>1, <1>2, LastGoes
<1>10. EventOk(e)'
  BY <1>1, <1>2, <1>4, <1>5, <1>7, <1>8, <1>9, Counted DEF EventFine, EventOk, FirstRef
<1>11. ASSUME NEW r \in Sess
       PROVE  UserOk(r, e)'
  <2>1. eRef[e] = 1 => ~CallOn(r, {"init", "found", "put"}, e)' /\ (r # s => task'[r].ev # e)
    BY <1>2, <1>4, <1>5, <1>6, <1>7, <1>9, EventsFine, UsersAfter, <1>3 DEF Unlinks
  <2>2. CallOn(r, {"init", "found", "put"}, e)' => eUproc[e] = sUproc[r]
    <3>1. CallOn(r, {"init", "found", "put"}, e)' => CallOn(r, {"init", "found", "put"}, e)
      BY <1>5, EventsFine, UsersAfter
    <3> QED
      BY <1>1, <3>1 DEF EventFine, UserOk
  <2>3. task'[r].ev = e => eUproc[e] = sUproc[r] /\ eLife'[e] = IF task'[r].kind = "done" THEN "DYING" ELSE "LIVE"
    <3>1. CASE r = s
      BY <1>1, <1>4, <3>1, LifeAssumption DEF EventFine, UserOk
    <3>2. CASE r # s
      BY <1>1, <1>2, <1>3, <1>4, <2>1, <3>2 DEF EventFine, UserOk, Unlinks
    <3> QED
      BY <3>1, <3>2
  <2>4. /\ \A q \in Sess : Unlinks(q, e)' /\ Unlinks(r, e)' => q = r
        /\ \A q \in Sess : CallOn(q, {"init"}, e)' /\ CallOn(r, {"init"}, e)' => q = r
    BY <1>1, <1>5 DEF EventFine, UserOk
  <2> QED
    BY <1>4, <1>5, <2>1, <2>2, <2>3, <2>4 DEF UserOk
<1> QED
  BY <1>10, <1>11 DEF EventFine

(* Nobody uses the events of a process that has no session.                *)
LEMMA ListFine ==
  ASSUME LifeInv, NEW u \in Uprocs, UprocPutEvents(u)
  PROVE  EventInv'
<1> SUFFICES ASSUME NEW e \in Events
             PROVE  EventFine(e)'
  BY DEF EventInv, EventFine
<1> USE DEF LifeInv, LifeTypes
<1>1. EventFine(e) /\ SessInv /\ UprocInv /\ uLife[u] = "EVENTS"
  BY EventsFine DEF UprocPutEvents
<1>2. /\ UNCHANGED <<sUproc, task, call, eUproc, gone>> /\ uLife' = [uLife EXCEPT ![u] = "INST"]
      /\ eRef'[e] = IF e \in EventList(u) THEN eRef[e] - 1 ELSE eRef[e]
      /\ eLife'[e] = IF e \in EventList(u) /\ eRef[e] = 1 THEN "NONE" ELSE eLife[e]
  BY DEF UprocPutEvents, PutEventsLocked, sessVars, workVars
<1>3. CASE e \notin EventList(u)
  <2>1. SameUse(e)
    BY <1>2 DEF SameUse, CallOn
  <2>2. eLife[e] # "NONE" => eUproc[e] # u
    BY <1>3 DEF EventList, ListedEvents
  <2>3. Untouched(e)
    BY <1>1, <1>2, <1>3, <2>1, <2>2 DEF Untouched, EventFine, EventOk
  <2> QED
    BY <2>3, UntouchedKept
<1>4. CASE e \in EventList(u)
  <2>1. eUproc[e] = u /\ eLife[e] # "NONE"
    BY <1>4 DEF EventList, ListedEvents
  <2>2. \A s \in Sess : sUproc[s] # u
    BY <1>1, LifeAssumption DEF UprocInv
  <2>3. \A s \in Sess : /\ ~CallOn(s, {"init", "found", "put"}, e) /\ ~CallOn(s, {"unlink"}, e)
                        /\ task[s].ev # e /\ ~Unlinks(s, e)
    BY <1>1, <2>1, <2>2 DEF EventFine, UserOk, Unlinks
  <2>4. eLife[e] = "LIVE" /\ Recording(e) = {} /\ Finders(e) = {} /\ ~Early(e)
    BY <1>1, <2>1, <2>3, EventsFine DEF EventFine, EventOk, Recording, Finders
  <2>5. eRef[e] = 1
    BY <1>1, <2>4, FS_EmptySet DEF EventFine, EventOk, FirstRef
  <2>6. \A s \in Sess : /\ ~CallOn(s, {"init", "found", "put"}, e)' /\ ~CallOn(s, {"unlink"}, e)'
                        /\ task'[s].ev # e /\ ~Unlinks(s, e)'
    BY <1>2, <2>3 DEF CallOn, Unlinks
  <2>7. ~Early(e)' /\ eLife'[e] = "NONE"
    BY <1>2, <1>4, <2>5, <2>6, UsersAfter
  <2> QED
    BY <2>6, <2>7, UsersAfter DEF EventFine, EventOk, UserOk
<1> QED
  BY <1>3, <1>4

(* Every step keeps the references of the events.                          *)
LEMMA EventsKept ==
  ASSUME LifeInv, Races = {}, [Next]_lifeVars
  PROVE  EventInv'
<1> USE DEF LifeInv, LifeTypes
<1>1. CASE OthersUntouched(Nothing)
  BY <1>1, OthersKept, LifeAssumption
<1>2. ASSUME NEW s \in Sess, NEW e, EventStep(s, e), OthersUntouched(e)
      PROVE  EventInv'
  <2>1. ASSUME e \in Events
        PROVE  EventFine(e)'
    <3>1. CASE EventCreate(s, e) \/ EventDestroy(s, e) \/ EventFind(s, e)
      BY <2>1, <3>1, CreateFine, DestroyFine, FindFine
    <3>2. CASE e = call[s].ev /\ (EventInit(s) \/ EventUse(s) \/ EventPut(s))
      BY <2>1, <3>2, InitFine, UseFine, PutFine
    <3>3. CASE e = call[s].ev /\ EventUnlink(s)
      <4>1. /\ UNCHANGED <<sUproc, uLife, eUproc, gone, task>> /\ eLife'[e] = "NONE" /\ call'[s] = Nothing
            /\ \A r \in Sess \ {s} : call'[r] = call[r]
        BY <2>1, <3>3 DEF EventUnlink, Unlink, sessVars, uprocVars
      <4>2. CallOn(s, {"unlink"}, e)
        BY <3>3 DEF EventUnlink, CallOn, Idle
      <4>3. task[s].ev # e
        BY <2>1, <4>2, EventsFine DEF EventFine, UserOk
      <4>4. Unlinks(s, e) /\ ~Unlinks(s, e)' /\ ~CallOn(s, {"init", "found", "put"}, e)'
        BY <4>1, <4>2, <4>3 DEF Unlinks, CallOn
      <4> QED
        BY <2>1, <4>1, <4>3, <4>4, UnlinkFine
    <3>4. CASE e = task[s].ev /\ FinishEvent(s)
      BY <2>1, <3>4, FinishFine
    <3>5. CASE e = task[s].ev /\ FinishUnlink(s)
      <4>1. /\ UNCHANGED <<sUproc, uLife, eUproc, gone, call>> /\ eLife'[e] = "NONE" /\ task'[s].ev = Nothing
            /\ \A r \in Sess \ {s} : task'[r] = task[r]
        BY <2>1, <3>5 DEF FinishUnlink, Unlink, sessVars, uprocVars, TaskRecords
      <4>2. task[s].kind = "done" /\ e # Nothing
        BY <3>5 DEF FinishUnlink
      <4>3. ~CallOn(s, {"unlink"}, e) /\ ~CallOn(s, {"init", "found", "put"}, e)
        BY <2>1, <3>5, <4>2, EventsFine DEF EventFine, UserOk
      <4>4. ~CallOn(s, {"unlink"}, e)' /\ ~CallOn(s, {"init", "found", "put"}, e)'
        BY <4>1, <4>3 DEF CallOn
      <4>5. Unlinks(s, e) /\ ~Unlinks(s, e)' /\ task'[s].ev # e
        BY <3>5, <4>1, <4>2, <4>4 DEF Unlinks
      <4> QED
        BY <2>1, <4>1, <4>4, <4>5, UnlinkFine
    <3> QED
      BY <1>2, <3>1, <3>2, <3>3, <3>4, <3>5 DEF EventStep
  <2> QED
    BY <1>2, <2>1, OthersKept
<1>3. CASE \E u \in Uprocs : UprocPutEvents(u)
  BY <1>3, ListFine
<1> QED
  BY <1>1, <1>2, <1>3, StepTouches DEF TouchesOne

-----------------------------------------------------------------------------
(* Instances *)

(* A reference taken or put with the member or the setter that holds it.   *)
LEMMA InstTaken ==
  ASSUME LifeInv, NEW i \in Insts, iRef[i] > 0, iRef'[i] = iRef[i] + 1, NEW x,
         \/ x \notin Members(i) /\ Members(i)' = Members(i) \cup {x} /\ Setters(i)' = Setters(i)
         \/ x \notin Setters(i) /\ Setters(i)' = Setters(i) \cup {x} /\ Members(i)' = Members(i)
  PROVE  InstOk(i)'
<1>1. /\ x \notin Members(i) => Cardinality(Members(i) \cup {x}) = Cardinality(Members(i)) + 1
      /\ x \notin Setters(i) => Cardinality(Setters(i) \cup {x}) = Cardinality(Setters(i)) + 1
  BY CountMore, Counted
<1>2. iRef[i] \in Int /\ iRef[i] = 1 + Cardinality(Members(i)) + Cardinality(Setters(i))
  BY DEF LifeInv, LifeTypes, InstInv, InstOk
<1>3. CASE x \notin Members(i) /\ Members(i)' = Members(i) \cup {x} /\ Setters(i)' = Setters(i)
  <2>1. Cardinality(Members(i)') = Cardinality(Members(i)) + 1
    BY <1>1, <1>3
  <2>2. Cardinality(Setters(i)') = Cardinality(Setters(i))
    BY <1>3
  <2> QED
    BY <1>1, <1>2, <1>3, <2>1, <2>2, Counted DEF InstOk
<1>4. CASE x \notin Setters(i) /\ Setters(i)' = Setters(i) \cup {x} /\ Members(i)' = Members(i)
  <2>1. Cardinality(Setters(i)') = Cardinality(Setters(i)) + 1
    BY <1>1, <1>4
  <2>2. Cardinality(Members(i)') = Cardinality(Members(i))
    BY <1>4
  <2> QED
    BY <1>1, <1>2, <1>4, <2>1, <2>2, Counted DEF InstOk
<1> QED
  BY <1>3, <1>4

(* And put with it.                                                        *)
LEMMA InstPut ==
  ASSUME LifeInv, NEW i \in Insts, iRef'[i] = iRef[i] - 1, NEW x,
         \/ x \in Members(i) /\ Members(i)' = Members(i) \ {x} /\ Setters(i)' = Setters(i)
         \/ x \in Setters(i) /\ Setters(i)' = Setters(i) \ {x} /\ Members(i)' = Members(i)
  PROVE  InstOk(i)'
<1>1. /\ x \in Members(i) => Cardinality(Members(i) \ {x}) = Cardinality(Members(i)) - 1 /\ Cardinality(Members(i)) > 0
      /\ x \in Setters(i) => Cardinality(Setters(i) \ {x}) = Cardinality(Setters(i)) - 1 /\ Cardinality(Setters(i)) > 0
  BY CountLess, Counted
<1>2. iRef[i] > 0 /\ iRef[i] = 1 + Cardinality(Members(i)) + Cardinality(Setters(i))
  BY DEF LifeInv, LifeTypes, InstInv, InstOk
<1>3. CASE x \in Members(i) /\ Members(i)' = Members(i) \ {x} /\ Setters(i)' = Setters(i)
  <2>1. Cardinality(Members(i)') = Cardinality(Members(i)) - 1
    BY <1>1, <1>3
  <2>2. Cardinality(Setters(i)') = Cardinality(Setters(i))
    BY <1>3
  <2> QED
    BY <1>1, <1>2, <1>3, <2>1, <2>2, Counted DEF InstOk
<1>4. CASE x \in Setters(i) /\ Setters(i)' = Setters(i) \ {x} /\ Members(i)' = Members(i)
  <2>1. Cardinality(Setters(i)') = Cardinality(Setters(i)) - 1
    BY <1>1, <1>4
  <2>2. Cardinality(Members(i)') = Cardinality(Members(i))
    BY <1>4
  <2> QED
    BY <1>1, <1>2, <1>4, <2>1, <2>2, Counted DEF InstOk
<1> QED
  BY <1>3, <1>4

(* An instance whose references stay.                                      *)
LEMMA InstSame ==
  ASSUME LifeInv, NEW i \in Insts, iRef'[i] = iRef[i], Members(i)' = Members(i), Setters(i)' = Setters(i)
  PROVE  InstOk(i)'
BY DEF LifeInv, InstInv, InstOk

(* A new process joins the instance of its group, if there is one.         *)
LEMMA OpenKeepsInsts ==
  ASSUME LifeInv, NEW s \in Sess, NEW p \in Procs, NEW u \in Uprocs, Open(s, p, u)
  PROVE  InstInv'
<1> USE DEF LifeInv, LifeTypes
<1>1. \A i \in Insts : Setters(i)' = Setters(i)
  BY DEF Open, Setters
<1>2. CASE UNCHANGED <<uLife, uInst, iRef>>
  BY <1>1, <1>2, InstSame DEF Members, UprocOk, InstInv
<1>3. CASE uLife[u] = "NONE" /\ uLife' = [uLife EXCEPT ![u] = "LIVE"] /\ JoinInst(u, GroupOf[p])
  <2>1. uInst[u] = Nothing
    BY <1>3 DEF UprocOk, InstInv
  <2>2. \A v \in Uprocs : UprocOk(v)'
    BY <1>3 DEF UprocOk, JoinInst, InstInv
  <2>3. CASE uInst' = [uInst EXCEPT ![u] = Nothing] /\ UNCHANGED iRef
    BY <1>1, <2>1, <2>2, <2>3, InstSame DEF Members, InstInv
  <2>4. ASSUME NEW i \in Instances, uInst' = [uInst EXCEPT ![u] = i], iRef' = [iRef EXCEPT ![i] = @ + 1]
        PROVE  InstInv'
    <3>1. i \in Insts /\ iRef[i] > 0 /\ i # Nothing
      BY <2>4, LifeAssumption DEF Instances
    <3>2. u \notin Members(i) /\ Members(i)' = Members(i) \cup {u}
      BY <2>1, <2>4, <3>1 DEF Members
    <3>3. InstOk(i)'
      BY <1>1, <2>4, <3>1, <3>2, InstTaken
    <3>4. \A j \in Insts \ {i} : Members(j)' = Members(j) /\ iRef'[j] = iRef[j]
      BY <2>1, <2>4, <3>1, LifeAssumption DEF Members
    <3>5. \A j \in Insts \ {i} : InstOk(j)'
      BY <1>1, <3>4, InstSame
    <3> QED
      BY <2>2, <3>3, <3>5 DEF InstInv
  <2> QED
    BY <1>3, <2>3, <2>4 DEF JoinInst
<1> QED
  BY <1>2, <1>3 DEF Open

(* It leaves it when it is released.                                       *)
LEMMA ReleaseKeepsInsts ==
  ASSUME LifeInv, NEW u \in Uprocs, UprocPutInst(u)
  PROVE  InstInv'
<1> USE DEF LifeInv, LifeTypes
<1>1. /\ \A i \in Insts : Setters(i)' = Setters(i)
      /\ uInst' = [uInst EXCEPT ![u] = Nothing] /\ uLife' = [uLife EXCEPT ![u] = "NONE"]
  BY DEF UprocPutInst, Setters
<1>2. \A v \in Uprocs : UprocOk(v)'
  BY <1>1 DEF UprocOk, InstInv
<1>3. CASE uInst[u] = Nothing
  <2>1. UNCHANGED iRef
    BY <1>3 DEF UprocPutInst, instVars
  <2> QED
    BY <1>1, <1>2, <1>3, <2>1, InstSame DEF Members, InstInv
<1>4. CASE uInst[u] # Nothing
  <2>1. PICK i \in Insts : i = uInst[u] /\ iRef' = [iRef EXCEPT ![i] = @ - 1]
    BY <1>4 DEF UprocPutInst, PutInst
  <2>2. u \in Members(i) /\ Members(i)' = Members(i) \ {u} /\ iRef'[i] = iRef[i] - 1
    BY <1>1, <1>4, <2>1 DEF Members
  <2>3. InstOk(i)'
    BY <1>1, <2>2, InstPut
  <2>4. \A j \in Insts \ {i} : Members(j)' = Members(j) /\ iRef'[j] = iRef[j]
    BY <1>1, <2>1, LifeAssumption DEF Members
  <2>5. \A j \in Insts \ {i} : InstOk(j)'
    BY <1>1, <2>4, InstSame
  <2> QED
    BY <1>2, <2>3, <2>5 DEF InstInv
<1> QED
  BY <1>3, <1>4

(* A thread that sets a limit holds the instance ...                       *)
LEMMA FindKeepsInsts ==
  ASSUME LifeInv, NEW a \in Admins, NEW k \in Insts, NEW limit \in Limits \cup {Unlimited}, SetFind(a, k, limit)
  PROVE  InstInv'
<1> USE DEF LifeInv, LifeTypes
<1>1. /\ UNCHANGED <<uInst, uLife>> /\ iRef' = [iRef EXCEPT ![k] = @ + 1] /\ iRef[k] > 0
      /\ admin'[a] = [op |-> "read", inst |-> k, limit |-> limit, last |-> 0] /\ admin[a] = Nothing
      /\ \A b \in Admins \ {a} : admin'[b] = admin[b]
  BY DEF SetFind, uprocVars
<1>2. admin'[a] # Nothing
  BY <1>1, LifeAssumption DEF AdminCalls
<1>3. a \notin Setters(k) /\ Setters(k)' = Setters(k) \cup {a} /\ Members(k)' = Members(k)
  BY <1>1, <1>2 DEF Setters, Members
<1>4. \A i \in Insts \ {k} : Setters(i)' = Setters(i) /\ Members(i)' = Members(i)
  BY <1>1, <1>2 DEF Setters, Members
<1>5. InstOk(k)'
  BY <1>1, <1>3, InstTaken
<1>6. \A i \in Insts \ {k} : InstOk(i)'
  BY <1>1, <1>4, InstSame
<1> QED
  BY <1>1, <1>5, <1>6 DEF InstInv, UprocOk

(* ... while it reads and replaces the limit ...                           *)
LEMMA SetterKept ==
  ASSUME LifeInv, NEW a \in Admins, SetRead(a) \/ SetApply(a)
  PROVE  InstInv'
<1> USE DEF LifeInv, LifeTypes
<1>1. UNCHANGED <<uInst, uLife, iRef>> /\ admin[a] # Nothing /\ admin'[a].inst = admin[a].inst
  <2>1. admin[a] \in AdminCalls
    BY DEF SetRead, SetApply
  <2>2. CASE SetRead(a)
    BY <2>1, <2>2 DEF SetRead, uprocVars, instVars, AdminCalls
  <2>3. CASE SetApply(a)
    BY <2>1, <2>3 DEF SetApply, uprocVars, AdminCalls
  <2> QED
    BY <2>2, <2>3
<1>2. admin'[a] \in AdminCalls /\ \A b \in Admins \ {a} : admin'[b] = admin[b]
  <2>1. CASE SetRead(a)
    <3>1. iLimit[admin[a].inst] \in Limits \cup {Unlimited}
      BY <1>1 DEF LimitsTyped, AdminCalls
    <3> QED
      BY <1>1, <2>1, <3>1 DEF SetRead, AdminCalls, Unlimited
  <2>2. CASE SetApply(a)
    BY <1>1, <2>2 DEF SetApply, AdminCalls
  <2> QED
    BY <2>1, <2>2
<1>3. admin'[a] # Nothing
  BY <1>2, LifeAssumption
<1>4. \A i \in Insts : Setters(i)' = Setters(i) /\ Members(i)' = Members(i)
  BY <1>1, <1>2, <1>3 DEF Setters, Members
<1>5. \A i \in Insts : InstOk(i)'
  BY <1>1, <1>4, InstSame
<1> QED
  BY <1>1, <1>5 DEF InstInv, UprocOk

(* ... and until it has done.                                              *)
LEMMA SetPutKeepsInsts ==
  ASSUME LifeInv, NEW a \in Admins, SetPut(a)
  PROVE  InstInv'
<1> USE DEF LifeInv, LifeTypes
<1>1. PICK k \in Insts : k = admin[a].inst
  BY DEF SetPut, AdminCalls
<1>2. /\ UNCHANGED <<uInst, uLife>> /\ iRef' = [iRef EXCEPT ![k] = @ - 1]
      /\ admin'[a] = Nothing /\ admin[a] # Nothing /\ \A b \in Admins \ {a} : admin'[b] = admin[b]
  BY <1>1 DEF SetPut, PutInst, uprocVars
<1>3. a \in Setters(k) /\ Setters(k)' = Setters(k) \ {a} /\ Members(k)' = Members(k)
  BY <1>1, <1>2 DEF Setters, Members
<1>4. \A i \in Insts \ {k} : Setters(i)' = Setters(i) /\ Members(i)' = Members(i)
  BY <1>1, <1>2 DEF Setters, Members
<1>5. InstOk(k)'
  BY <1>2, <1>3, InstPut
<1>6. \A i \in Insts \ {k} : InstOk(i)'
  BY <1>2, <1>4, InstSame
<1> QED
  BY <1>2, <1>5, <1>6 DEF InstInv, UprocOk

(* An instance is made and destroyed by the reference nobody holds.        *)
LEMMA InstComesAndGoes ==
  ASSUME LifeInv, NEW k \in Insts, DestroyInstance(k) \/ \E token \in Groups : CreateInstance(k, token)
  PROVE  InstInv'
<1> USE DEF LifeInv, LifeTypes
<1>1. UNCHANGED <<uInst, uLife, admin>> /\ \A i \in Insts \ {k} : iRef'[i] = iRef[i]
  BY DEF DestroyInstance, CreateInstance, PutInst, uprocVars
<1>2. iRef[k] \in {0, 1} /\ iRef'[k] = 1 - iRef[k]
  BY DEF DestroyInstance, NotBusy, CreateInstance, PutInst
<1>3. \A i \in Insts : Setters(i)' = Setters(i) /\ Members(i)' = Members(i)
  BY <1>1 DEF Setters, Members
<1>4. Members(k) = {} /\ Setters(k) = {} /\ Cardinality(Members(k)) = 0 /\ Cardinality(Setters(k)) = 0
  BY <1>2, Counted, FS_EmptySet DEF InstInv, InstOk
<1>5. InstOk(k)'
  <2>1. Members(k)' = {} /\ Setters(k)' = {} /\ Cardinality(Members(k)') = 0 /\ Cardinality(Setters(k)') = 0
    BY <1>3, <1>4
  <2> QED
    BY <1>2, <2>1 DEF InstOk
<1>6. \A i \in Insts \ {k} : InstOk(i)'
  BY <1>1, <1>3, InstSame
<1> QED
  BY <1>1, <1>5, <1>6 DEF InstInv, UprocOk

(* A step that leaves instances, setters and members alone.                *)
LEMMA RefsAlone ==
  ASSUME LifeInv, UNCHANGED <<uInst, iRef, admin>>, \A u \in Uprocs : uLife[u] # "NONE" => uLife'[u] # "NONE"
  PROVE  InstInv'
<1>1. \A i \in Insts : InstOk(i)'
  BY InstSame DEF Setters, Members
<1> QED
  BY <1>1 DEF LifeInv, InstInv, UprocOk

(* Every step keeps the references of the instances.                       *)
LEMMA InstsKept ==
  ASSUME LifeInv, [Next]_lifeVars
  PROVE  InstInv'
<1>1. ASSUME NEW s \in Sess, NEW p \in Procs, NEW u \in Uprocs, Open(s, p, u)
      PROVE  InstInv'
  BY <1>1, OpenKeepsInsts
<1>2. ASSUME NEW s \in Sess, Close(s)
      PROVE  InstInv'
  BY <1>2, RefsAlone DEF Close, PutSess, ctlVars, eventVars, instVars, uprocVars, useVars,
    workVars, LifeInv, LifeTypes
<1>3. ASSUME NEW s \in Sess, Launch(s)
      PROVE  InstInv'
  BY <1>3, RefsAlone DEF Launch, AddTask, GetSess, ctlVars, eventVars, instVars, uprocVars,
    useVars, LifeInv, LifeTypes
<1>4. ASSUME NEW s \in Sess, NEW e \in Events, EventCreate(s, e)
      PROVE  InstInv'
  BY <1>4, RefsAlone DEF EventCreate, ctlVars, instVars, sessVars, uprocVars, useVars, LifeInv,
    LifeTypes
<1>5. ASSUME NEW s \in Sess, NEW e \in Events, EventDestroy(s, e)
      PROVE  InstInv'
  BY <1>5, RefsAlone DEF EventDestroy, PutEventsLocked, ctlVars, instVars, sessVars, uprocVars,
    useVars, workVars, LifeInv, LifeTypes
<1>6. ASSUME NEW s \in Sess, NEW e \in Events, EventFind(s, e)
      PROVE  InstInv'
  BY <1>6, RefsAlone DEF EventFind, ctlVars, instVars, sessVars, uprocVars, useVars, LifeInv,
    LifeTypes
<1>7. ASSUME NEW s \in Sess, NEW n \in Asks, MallocCheck(s, n)
      PROVE  InstInv'
  BY <1>7, RefsAlone DEF MallocCheck, Do, ctlVars, eventVars, instVars, sessVars, uprocVars,
    LifeInv, LifeTypes
<1>8. ASSUME NEW s \in Sess, NEW n \in Asks, Free(s, n)
      PROVE  InstInv'
  BY <1>8, RefsAlone DEF Free, ctlVars, eventVars, instVars, sessVars, uprocVars, LifeInv,
    LifeTypes
<1>9. ASSUME NEW s \in Sess, EventInit(s)
      PROVE  InstInv'
  BY <1>9, RefsAlone DEF EventInit, Idle, ctlVars, instVars, sessVars, uprocVars, useVars, LifeInv,
    LifeTypes
<1>10. ASSUME NEW s \in Sess, EventUse(s)
      PROVE  InstInv'
  BY <1>10, RefsAlone DEF EventUse, AddTask, GetSess, RecordGet, Idle, ctlVars, instVars,
    uprocVars, useVars, LifeInv, LifeTypes
<1>11. ASSUME NEW s \in Sess, EventPut(s)
      PROVE  InstInv'
  BY <1>11, RefsAlone DEF EventPut, PutEvent, AfterPut, Idle, ctlVars, instVars, sessVars,
    uprocVars, useVars, LifeInv, LifeTypes
<1>12. ASSUME NEW s \in Sess, EventUnlink(s)
      PROVE  InstInv'
  BY <1>12, RefsAlone DEF EventUnlink, Unlink, Idle, ctlVars, instVars, sessVars, uprocVars,
    useVars, LifeInv, LifeTypes
<1>13. ASSUME NEW s \in Sess, MallocCharge(s)
      PROVE  InstInv'
  BY <1>13, RefsAlone DEF MallocCharge, Do, Idle, ctlVars, eventVars, instVars, sessVars,
    uprocVars, LifeInv, LifeTypes
<1>14. ASSUME NEW s \in Sess, MallocTake(s)
      PROVE  InstInv'
  BY <1>14, RefsAlone DEF MallocTake, Do, MallocFails, Idle, ctlVars, eventVars, instVars,
    sessVars, uprocVars, LifeInv, LifeTypes
<1>15. ASSUME NEW s \in Sess, MallocStat(s)
      PROVE  InstInv'
  BY <1>15, RefsAlone DEF MallocStat, Do, Idle, ctlVars, eventVars, instVars, sessVars, uprocVars,
    LifeInv, LifeTypes
<1>16. ASSUME NEW s \in Sess, MallocReturn(s)
      PROVE  InstInv'
  BY <1>16, RefsAlone DEF MallocReturn, Idle, ctlVars, eventVars, instVars, sessVars, uprocVars,
    useVars, LifeInv, LifeTypes
<1>17. ASSUME NEW s \in Sess, FinishEvent(s)
      PROVE  InstInv'
  BY <1>17, RefsAlone DEF FinishEvent, PutEvent, AfterPut, Finishable, ctlVars, instVars, sessVars,
    uprocVars, useVars, LifeInv, LifeTypes
<1>18. ASSUME NEW s \in Sess, FinishUnlink(s)
      PROVE  InstInv'
  BY <1>18, RefsAlone DEF FinishUnlink, Unlink, ctlVars, instVars, sessVars, uprocVars, useVars,
    LifeInv, LifeTypes
<1>19. ASSUME NEW s \in Sess, FinishTask(s)
      PROVE  InstInv'
  BY <1>19, RefsAlone DEF FinishTask, PutSess, Finishable, ctlVars, eventVars, instVars, uprocVars,
    useVars, LifeInv, LifeTypes
<1>20. ASSUME NEW s \in Sess, SessUnlink(s)
      PROVE  InstInv'
  BY <1>20, RefsAlone DEF SessUnlink, ctlVars, eventVars, instVars, uprocVars, useVars, workVars,
    LifeInv, LifeTypes
<1>21. ASSUME NEW s \in Sess, SessFreeMem(s)
      PROVE  InstInv'
  BY <1>21, RefsAlone DEF SessFreeMem, ctlVars, eventVars, instVars, uprocVars, LifeInv, LifeTypes
<1>22. ASSUME NEW s \in Sess, SessPutUproc(s)
      PROVE  InstInv'
  BY <1>22, RefsAlone DEF SessPutUproc, ctlVars, eventVars, instVars, useVars, workVars, LifeInv,
    LifeTypes
<1>23. ASSUME NEW s \in Sess, Revoke(s)
      PROVE  InstInv'
  BY <1>23, RefsAlone DEF Revoke, ctlVars, instVars, useVars, LifeInv, LifeTypes
<1>24. ASSUME NEW u \in Uprocs, UprocUnlink(u)
      PROVE  InstInv'
  BY <1>24, RefsAlone DEF UprocUnlink, ctlVars, eventVars, instVars, sessVars, useVars, workVars,
    LifeInv, LifeTypes
<1>25. ASSUME NEW u \in Uprocs, UprocPutEvents(u)
      PROVE  InstInv'
  BY <1>25, RefsAlone DEF UprocPutEvents, PutEventsLocked, ctlVars, instVars, sessVars, useVars,
    workVars, LifeInv, LifeTypes
<1>26. ASSUME NEW u \in Uprocs, UprocPutInst(u)
      PROVE  InstInv'
  BY <1>26, ReleaseKeepsInsts
<1>27. ASSUME NEW i \in Insts, NEW token \in Groups, CreateInstance(i, token)
      PROVE  InstInv'
  BY <1>27, InstComesAndGoes
<1>28. ASSUME NEW i \in Insts, DestroyInstance(i)
      PROVE  InstInv'
  BY <1>28, InstComesAndGoes
<1>29. ASSUME NEW a \in Admins, NEW i \in Insts, NEW limit \in Limits \cup {Unlimited}, SetFind(a, i, limit)
      PROVE  InstInv'
  BY <1>29, FindKeepsInsts
<1>30. ASSUME NEW a \in Admins, SetRead(a)
      PROVE  InstInv'
  BY <1>30, SetterKept
<1>31. ASSUME NEW a \in Admins, SetApply(a)
      PROVE  InstInv'
  BY <1>31, SetterKept
<1>32. ASSUME NEW a \in Admins, SetPut(a)
      PROVE  InstInv'
  BY <1>32, SetPutKeepsInsts
<1>33. CASE UNCHANGED lifeVars
  BY <1>33, RefsAlone DEF lifeVars, sessVars, workVars, uprocVars, useVars, eventVars, ctlVars,
    instVars, LifeInv
<1> QED
  BY <1>1, <1>2, <1>3, <1>4, <1>5, <1>6, <1>7, <1>8, <1>9, <1>10, <1>11, <1>12, <1>13, <1>14,
    <1>15, <1>16, <1>17, <1>18, <1>19, <1>20, <1>21, <1>22, <1>23, <1>24, <1>25, <1>26, <1>27,
    <1>28, <1>29, <1>30, <1>31, <1>32, <1>33 DEF Next, UserCall, IoctlStep, QueueStep, SessRelease,
    UprocRelease, AdminStep

-----------------------------------------------------------------------------

(* The invariant holds when the driver is loaded ...                       *)
LEMMA InitLife ==
  ASSUME Init
  PROVE  LifeInv
<1> USE DEF Init
<1>1. LifeTypes /\ LimitsTyped
  BY DEF LifeTypes, LimitsTyped, TaskRecords, NoTask, Unlimited
<1>2. SessInv
  BY LifeAssumption DEF SessInv, Holding, Queued, NoTask
<1>3. UprocInv
  <2>1. \A u \in Uprocs : SessionsOf(u) = {}
    BY LifeAssumption DEF SessionsOf
  <2> QED
    BY <2>1, FS_EmptySet DEF UprocInv
<1>4. EventInv
  <2>1. \A e \in Events, s \in Sess : task[s].ev # e /\ call[s] = Nothing /\ eLife[e] = "NONE" /\ task[s].kind = "none"
    BY LifeAssumption DEF NoTask
  <2> QED
    BY <2>1 DEF EventInv, EventOk, UserOk, CallOn, Unlinks, Early, Idle
<1>5. InstInv
  <2>1. \A i \in Insts : Members(i) = {} /\ Setters(i) = {}
    BY LifeAssumption DEF Members, Setters
  <2> QED
    BY <2>1 DEF InstInv, InstOk, UprocOk
<1> QED
  BY <1>1, <1>2, <1>3, <1>4, <1>5 DEF LifeInv

(* ... and in every step that takes none of the races.                     *)
LEMMA LifeKept ==
  ASSUME LifeInv, Races = {}, [Next]_lifeVars
  PROVE  LifeInv'
<1>1. LifeTypes' /\ LimitsTyped'
  BY TypesKept, LimitsKept
<1>2. SessInv' /\ UprocInv'
  BY SessionsKept, UprocsKept
<1>3. EventInv' /\ InstInv'
  BY EventsKept, InstsKept
<1> QED
  BY <1>1, <1>2, <1>3 DEF LifeInv

(* So it holds always.                                                     *)
LEMMA LifeIsInvariant ==
  ASSUME Races = {}
  PROVE  Spec => []LifeInv
BY InitLife, LifeKept, PTL DEF Spec

(* It says that the counts match: an event without references is held by   *)
(* nobody, in all three senses.                                            *)
LEMMA MatchHere ==
  ASSUME LifeInv
  PROVE  RefsMatch
<1> USE DEF LifeInv, LifeTypes
<1>1. ASSUME NEW e \in ListedEvents
      PROVE  eRef[e] = FirstRef(e) + Cardinality(Recorders(e)) + Cardinality(Finders(e))
  <2>1. e \in Events /\ EventFine(e) /\ eLife[e] \in {"LIVE", "DYING"}
    BY EventsFine DEF ListedEvents
  <2>2. CASE eLife[e] = "LIVE"
    <3>1. Recorders(e) = Recording(e)
      BY <2>1, <2>2 DEF Recorders, Recording, EventFine, UserOk
    <3> QED
      BY <2>1, <2>2, <3>1 DEF EventFine, EventOk
  <2>3. CASE eLife[e] = "DYING"
    <3>1. Recorders(e) = {} /\ Finders(e) = {}
      BY <2>1, <2>3, EventsFine DEF Recorders, Finders, EventFine, UserOk
    <3>2. eRef[e] = 0 /\ FirstRef(e) = 0
      BY <2>1, <2>3 DEF EventFine, EventOk, FirstRef
    <3> QED
      BY <3>1, <3>2, FS_EmptySet
  <2> QED
    BY <2>1, <2>2, <2>3
<1> QED
  BY <1>1 DEF RefsMatch, SessInv, UprocInv, InstInv, InstOk, Instances

(* And that nobody dangles.                                                *)
LEMMA LinkedHere ==
  ASSUME LifeInv
  PROVE  NobodyDangles
<1> USE DEF LifeInv, LifeTypes
<1>1. ASSUME NEW s \in Sess
      PROVE  /\ (sFile[s] \/ task[s] # NoTask) => sLife[s] = "LIVE"
             /\ sLife[s] # "NONE" => sUproc[s] # Nothing /\ uLife[sUproc[s]] = "LIVE"
             /\ task[s].ev # Nothing => task[s].ev \in ListedEvents
  BY EventsFine DEF SessInv, UprocInv, ListedEvents, EventFine, UserOk, TaskRecords
<1>2. ASSUME NEW e \in Events, Finders(e) # {}
      PROVE  eLife[e] = "LIVE"
  <2>1. PICK s \in Sess : s \in Finders(e)
    BY <1>2 DEF Finders
  <2> QED
    BY <2>1, EventsFine DEF EventFine, UserOk
<1>3. \A e \in ListedEvents : uLife[eUproc[e]] \in {"LIVE", "UNLINK", "EVENTS"}
  BY DEF ListedEvents, EventInv, EventOk
<1>4. ASSUME NEW u \in Uprocs, uInst[u] # Nothing
      PROVE  uInst[u] \in Instances
  <2>1. uInst[u] \in Insts /\ Members(uInst[u]) # {}
    BY <1>4 DEF Members
  <2> QED
    BY <2>1 DEF Instances, InstInv, InstOk
<1>5. \A i \in Insts : Setters(i) # {} => i \in Instances
  BY DEF Instances, InstInv, InstOk
<1> QED
  BY <1>1, <1>2, <1>3, <1>4, <1>5 DEF NobodyDangles

(* kl2/session.c, kl2/event.c, kl_cxpu.c: without the races, every count   *)
(* of references of a session, a process, an event and an instance is the  *)
(* number of those who will still put it, for any number of each, over     *)
(* opens, releases, records, waits, destroys, exceptions and limits.       *)
THEOREM RefsAlwaysMatch ==
  ASSUME Races = {}
  PROVE  Spec => []RefsMatch
BY LifeIsInvariant, MatchHere, PTL

(* Without the races, no file, task, lookup, process or thread of the      *)
(* control device is left with a pointer to what is released, for any      *)
(* number of each.                                                         *)
THEOREM NobodyEverDangles ==
  ASSUME Races = {}
  PROVE  Spec => []NobodyDangles
BY LifeIsInvariant, LinkedHere, PTL

-----------------------------------------------------------------------------
(* Sums *)

Pick(T) == CHOOSE x \in T : TRUE

(* g is the sum of f over each part of S, added up as MapThenSumSet does.  *)
SumsOver(g, f, S) ==
  g = [T \in SUBSET S |-> IF T = {} THEN 0 ELSE f[Pick(T)] + g[T \ {Pick(T)}]]

SumOf(f, S) == (CHOOSE g : SumsOver(g, f, S))[S]

(* Among parts of a finite set one is smallest: induction over such parts. *)
LEMMA SmallestPart ==
  ASSUME NEW S, IsFiniteSet(S), NEW B \in SUBSET SUBSET S, B # {}
  PROVE  \E T \in B : \A U \in B : U \subseteq T => U = T
<1>1. B \subseteq FiniteSubsetsOf(S)
  BY FS_Subset DEF FiniteSubsetsOf
<1>2. IsWellFoundedOn(StrictSubsetOrdering(S), FiniteSubsetsOf(S))
  BY FS_StrictSubsetOrderingWellFounded
<1>3. PICK T \in B : \A U \in B : ~ (<<U, T>> \in StrictSubsetOrdering(S))
  BY <1>1, <1>2, WFMin
<1>4. \A U \in B : U \subseteq T => U = T
  BY <1>3 DEF StrictSubsetOrdering
<1> QED
  BY <1>4

(* Its value at a part.                                                   *)
LEMMA SumsStep ==
  ASSUME NEW S, NEW f, NEW g, SumsOver(g, f, S), NEW T \in SUBSET S
  PROVE  g[T] = IF T = {} THEN 0 ELSE f[Pick(T)] + g[T \ {Pick(T)}]
BY DEF SumsOver

(* A sum depends on nothing but what is added up.                          *)
LEMMA SumsAgree ==
  ASSUME NEW S, NEW R, NEW f, NEW e, NEW g, NEW h, SumsOver(g, f, S), SumsOver(h, e, R),
         NEW T \in SUBSET (S \cap R), IsFiniteSet(T), \A x \in T : f[x] = e[x]
  PROVE  g[T] = h[T]
<1> DEFINE B == {U \in SUBSET T : g[U] # h[U]}
<1> SUFFICES ASSUME B # {} PROVE FALSE
  OBVIOUS
<1>1. PICK U \in B : \A V \in B : V \subseteq U => V = U
    <2>1. B \in SUBSET SUBSET T
      OBVIOUS
    <2> HIDE DEF B
    <2> QED
      BY <2>1, SmallestPart
<1>2. CASE U = {}
  <2>1. {} \in SUBSET S /\ {} \in SUBSET R
    OBVIOUS
  <2>2. g[{}] = 0 /\ h[{}] = 0
    BY <2>1, SumsStep
  <2> QED
    BY <1>1, <1>2, <2>2
<1>3. CASE U # {}
  <2> DEFINE p == Pick(U)
  <2>1. p \in U
    BY <1>3 DEF Pick
  <2> HIDE DEF p
  <2>2. U \ {p} \notin B /\ U \ {p} \in SUBSET T
    BY <1>1, <2>1
  <2>3. g[U \ {p}] = h[U \ {p}]
    BY <2>2
  <2>4. g[U] = f[p] + g[U \ {p}] /\ h[U] = e[p] + h[U \ {p}]
    BY <1>3 DEF SumsOver, p
  <2> QED
    BY <1>1, <2>1, <2>3, <2>4
<1> QED
  BY <1>2, <1>3

(* There is one. *)
LEMMA SumsExist ==
  ASSUME NEW S, IsFiniteSet(S), NEW f
  PROVE  \E g : SumsOver(g, f, S)
<1> DEFINE B == {T \in SUBSET S : ~ \E g : SumsOver(g, f, T)}
<1> SUFFICES ASSUME B # {} PROVE FALSE
  OBVIOUS
<1>1. PICK T \in B : \A U \in B : U \subseteq T => U = T
    <2>1. B \in SUBSET SUBSET S
      OBVIOUS
    <2> HIDE DEF B
    <2> QED
      BY <2>1, SmallestPart
<1> DEFINE G == [U \in SUBSET T |-> IF U = {} THEN 0 ELSE f[Pick(U)] + SumOf(f, U \ {Pick(U)})]
<1>2. ASSUME NEW U \in SUBSET T, U # T
      PROVE  SumsOver(CHOOSE g : SumsOver(g, f, U), f, U)
  BY <1>1, <1>2
<1>3. ASSUME NEW U \in SUBSET T, U # T
      PROVE  G[U] = SumOf(f, U)
  <2> DEFINE h == CHOOSE g : SumsOver(g, f, U)
             W == U \ {Pick(U)}
             k == CHOOSE g : SumsOver(g, f, W)
  <2>1. SumsOver(h, f, U)
    BY <1>2, <1>3
  <2>2. CASE U = {}
    BY <2>1, <2>2 DEF SumsOver, SumOf
  <2>3. CASE U # {}
    <3>1. Pick(U) \in U /\ W \in SUBSET T /\ W # T
      BY <1>3, <2>3 DEF Pick
    <3>2. SumsOver(k, f, W)
      BY <1>2, <3>1
    <3>3. IsFiniteSet(W) /\ W \in SUBSET (U \cap W)
      BY <3>1, FS_Subset
    <3>4. h[W] = k[W]
      <4> HIDE DEF h, k, W
      <4> QED
        BY <2>1, <3>2, <3>3, SumsAgree
    <3>5. h[U] = f[Pick(U)] + h[W]
      <4> HIDE DEF h
      <4> QED
        BY <2>1, <2>3 DEF SumsOver
    <3>6. G[U] = f[Pick(U)] + k[W]
      BY <2>3 DEF SumOf
    <3> QED
      BY <3>4, <3>5, <3>6 DEF SumOf
  <2> QED
    BY <2>2, <2>3
<1>4. SumsOver(G, f, T)
  <2>1. ASSUME NEW U \in SUBSET T, U # {}
        PROVE  SumOf(f, U \ {Pick(U)}) = G[U \ {Pick(U)}]
    <3>1. Pick(U) \in U
      BY <2>1 DEF Pick
    <3>2. U \ {Pick(U)} \in SUBSET T /\ U \ {Pick(U)} # T
      BY <3>1
    <3> HIDE DEF G
    <3> QED
      BY <1>3, <3>2
  <2>2. \A U \in SUBSET T :
          G[U] = IF U = {} THEN 0 ELSE f[Pick(U)] + SumOf(f, U \ {Pick(U)})
    OBVIOUS
  <2>3. \A U \in SUBSET T :
          G[U] = IF U = {} THEN 0 ELSE f[Pick(U)] + G[U \ {Pick(U)}]
    <3> HIDE DEF G
    <3> QED BY <2>1, <2>2
  <2>4. G = [U \in SUBSET T |-> G[U]]
    OBVIOUS
  <2> HIDE DEF G
  <2> QED
    BY <2>3, <2>4 DEF SumsOver
<1> QED
  BY <1>1, <1>4

(* In whatever order. *)
LEMMA SumsSplit ==
  ASSUME NEW S, IsFiniteSet(S), NEW f, NEW g, SumsOver(g, f, S), \A x \in S : f[x] \in Int
  PROVE  \A T \in SUBSET S : g[T] \in Int /\ \A x \in T : g[T] = f[x] + g[T \ {x}]
<1> DEFINE Good(T) == g[T] \in Int /\ \A x \in T : g[T] = f[x] + g[T \ {x}]
           B == {T \in SUBSET S : ~ Good(T)}
<1> SUFFICES ASSUME B # {} PROVE FALSE
  OBVIOUS
<1>1. PICK T \in B : \A U \in B : U \subseteq T => U = T
    <2>1. B \in SUBSET SUBSET S
      OBVIOUS
    <2> HIDE DEF B
    <2> QED
      BY <2>1, SmallestPart
<1>2. CASE T = {}
  <2>1. g[T] = 0
    BY <1>2 DEF SumsOver
  <2> QED
    BY <1>1, <1>2, <2>1
<1>3. CASE T # {}
  <2> DEFINE p == Pick(T)
  <2>1. p \in T
    BY <1>3 DEF Pick
  <2>2. g[T] = f[p] + g[T \ {p}]
    BY <1>3 DEF SumsOver
  <2> HIDE DEF p
  <2>3. \A U \in SUBSET T : U # T => Good(U)
    BY <1>1
  <2>4. \A x \in T : g[T \ {x}] \in Int /\ f[x] \in Int
    <3>1. \A x \in T : T \ {x} \in SUBSET T /\ T \ {x} # T
      OBVIOUS
    <3> QED
      BY <2>3, <3>1
  <2>5. ASSUME NEW x \in T, x # p
        PROVE  g[T] = f[x] + g[T \ {x}]
    <3>1. T \ {p} \in SUBSET T /\ T \ {p} # T /\ T \ {x} \in SUBSET T /\ T \ {x} # T
          /\ x \in T \ {p} /\ p \in T \ {x}
      BY <2>1, <2>5
    <3>2. g[T \ {p}] = f[x] + g[(T \ {p}) \ {x}] /\ g[T \ {x}] = f[p] + g[(T \ {x}) \ {p}]
      BY <2>3, <3>1
    <3>3. (T \ {p}) \ {x} = (T \ {x}) \ {p}
      OBVIOUS
    <3>4. (T \ {p}) \ {x} \in SUBSET T /\ (T \ {p}) \ {x} # T
      BY <2>1
    <3>5. g[(T \ {p}) \ {x}] \in Int
      BY <2>3, <3>4
    <3>6. g[T \ {p}] \in Int /\ g[T \ {x}] \in Int /\ f[p] \in Int /\ f[x] \in Int
      BY <2>1, <2>4
    <3> DEFINE a == g[(T \ {p}) \ {x}]
    <3>7. g[T \ {p}] = f[x] + a /\ g[T \ {x}] = f[p] + a /\ a \in Int
      BY <3>2, <3>3, <3>5
    <3> HIDE DEF a
    <3> QED
      BY <2>2, <3>6, <3>7
  <2>6. g[T] \in Int
    BY <2>1, <2>2, <2>4
  <2>7. \A x \in T : g[T] = f[x] + g[T \ {x}]
    BY <2>2, <2>5
  <2> QED
    BY <1>1, <2>6, <2>7
<1> QED
  BY <1>2, <1>3

(* A sum over more, ... *)
LEMMA SumMore ==
  ASSUME NEW S, IsFiniteSet(S), NEW f, \A y \in S : f[y] \in Int
  PROVE  /\ SumOf(f, S) \in Int
         /\ S = {} => SumOf(f, S) = 0
         /\ \A x \in S : SumOf(f, S) = f[x] + SumOf(f, S \ {x})
<1>1. PICK g : SumsOver(g, f, S)
  BY SumsExist
<1>2. ASSUME NEW T \in SUBSET S
      PROVE  SumOf(f, T) = g[T]
  <2> DEFINE h == CHOOSE k : SumsOver(k, f, T)
  <2>1. IsFiniteSet(T) /\ T \in SUBSET (T \cap S)
    BY FS_Subset
  <2>2. SumsOver(h, f, T)
    BY <2>1, SumsExist
  <2>3. h[T] = g[T]
    <3> HIDE DEF h
    <3> QED
      BY <1>1, <2>1, <2>2, SumsAgree
  <2> QED
    BY <2>3 DEF SumOf
<1>3. \A T \in SUBSET S : g[T] \in Int /\ \A x \in T : g[T] = f[x] + g[T \ {x}]
  <2>1. \A x \in S : f[x] \in Int
    OBVIOUS
  <2> QED
    BY <1>1, <2>1, SumsSplit
<1>4. S = {} => g[S] = 0
  BY <1>1 DEF SumsOver
<1>5. \A x \in S : S \ {x} \in SUBSET S
  OBVIOUS
<1>6. S \in SUBSET S
  OBVIOUS
<1>7. SumOf(f, S) = g[S] /\ \A x \in S : SumOf(f, S \ {x}) = g[S \ {x}]
  BY <1>2, <1>5, <1>6
<1>8. g[S] \in Int /\ \A x \in S : g[S] = f[x] + g[S \ {x}]
  BY <1>3, <1>6
<1> QED
  BY <1>4, <1>7, <1>8

(* ... of the same ... *)
LEMMA SumSame ==
  ASSUME NEW S, IsFiniteSet(S), NEW f, NEW e, \A x \in S : f[x] = e[x]
  PROVE  SumOf(f, S) = SumOf(e, S)
<1> DEFINE g == CHOOSE k : SumsOver(k, f, S)
           h == CHOOSE k : SumsOver(k, e, S)
<1>1. SumsOver(g, f, S) /\ SumsOver(h, e, S)
  BY SumsExist
<1>2. S \in SUBSET (S \cap S)
  OBVIOUS
<1>3. g[S] = h[S]
  <2> HIDE DEF g, h
  <2> QED
    BY <1>1, <1>2, SumsAgree
<1> QED
  BY <1>3 DEF SumOf

(* With one term changed, come or gone.                                    *)
Part(f, S, x) == IF x \in S THEN f[x] ELSE 0

(* The rest of the sum is the same.                                        *)
LEMMA SumMoved ==
  ASSUME NEW S, IsFiniteSet(S), NEW R, IsFiniteSet(R), NEW f, NEW e, NEW x, S \ {x} = R \ {x},
         \A y \in S : f[y] \in Int, \A y \in R : e[y] \in Int, \A y \in S \ {x} : f[y] = e[y]
  PROVE  /\ SumOf(f, S) \in Int /\ SumOf(e, R) \in Int
         /\ SumOf(e, R) - Part(e, R, x) = SumOf(f, S) - Part(f, S, x)
<1> DEFINE T == S \ {x}
<1>1. IsFiniteSet(T) /\ \A y \in T : f[y] = e[y] /\ f[y] \in Int
  BY FS_Subset
<1>2. SumOf(f, T) = SumOf(e, T) /\ SumOf(f, T) \in Int
  <2> HIDE DEF T
  <2> QED
    BY <1>1, SumSame, SumMore
<1>3. SumOf(f, S) \in Int /\ SumOf(f, S) = Part(f, S, x) + SumOf(f, T)
  <2>1. SumOf(f, S) \in Int /\ (x \in S => SumOf(f, S) = f[x] + SumOf(f, S \ {x}))
    BY SumMore
  <2>2. x \notin S => S = T
    OBVIOUS
  <2> HIDE DEF T
  <2>3. CASE x \in S
    BY <2>1, <2>3 DEF Part, T
  <2>4. CASE x \notin S
    <3>1. S = T /\ Part(f, S, x) = 0
      BY <2>2, <2>4 DEF Part
    <3> QED
      BY <1>2, <2>1, <3>1
  <2> QED
    BY <2>3, <2>4
<1>4. SumOf(e, R) \in Int /\ SumOf(e, R) = Part(e, R, x) + SumOf(e, T)
  <2>1. SumOf(e, R) \in Int /\ (x \in R => SumOf(e, R) = e[x] + SumOf(e, R \ {x}))
    BY SumMore
  <2>2. R \ {x} = T /\ (x \notin R => R = T)
    OBVIOUS
  <2> HIDE DEF T
  <2>3. CASE x \in R
    BY <1>2, <2>1, <2>2, <2>3 DEF Part
  <2>4. CASE x \notin R
    <3>1. R = T /\ Part(e, R, x) = 0
      BY <2>2, <2>4 DEF Part
    <3> QED
      BY <1>2, <2>1, <3>1
  <2> QED
    BY <2>3, <2>4
<1>5. Part(f, S, x) \in Int /\ Part(e, R, x) \in Int
  BY DEF Part
<1> QED
  BY <1>2, <1>3, <1>4, <1>5

(* A sum of naturals is one, and no less than any of its terms. *)
LEMMA SumNat ==
  ASSUME NEW S, IsFiniteSet(S), NEW f, \A x \in S : f[x] \in Nat
  PROVE  SumOf(f, S) \in Nat /\ \A x \in S : f[x] <= SumOf(f, S)
<1> DEFINE B == {T \in SUBSET S : ~ (SumOf(f, T) >= 0)}
<1>1. \A T \in SUBSET S : IsFiniteSet(T) /\ \A x \in T : f[x] \in Int
  BY FS_Subset
<1>2. B = {}
  <2> SUFFICES ASSUME B # {} PROVE FALSE
    OBVIOUS
  <2>1. PICK T \in B : \A U \in B : U \subseteq T => U = T
      <3>1. B \in SUBSET SUBSET S
        OBVIOUS
      <3> HIDE DEF B
      <3> QED
        BY <3>1, SmallestPart
  <2>2. T # {}
    <3> SUFFICES ASSUME T = {} PROVE FALSE
      OBVIOUS
    <3>1. SumOf(f, T) = 0
      BY <1>1, SumMore
    <3> QED
      BY <2>1, <3>1
  <2>3. PICK x \in T : TRUE
    BY <2>2
  <2>4. T \ {x} \in SUBSET S /\ T \ {x} \notin B
    BY <2>1
  <2>5. SumOf(f, T \ {x}) >= 0 /\ SumOf(f, T \ {x}) \in Int
    BY <1>1, <2>4, SumMore
  <2>6. SumOf(f, T) = f[x] + SumOf(f, T \ {x})
    BY <1>1, SumMore
  <2>7. f[x] \in Nat
    OBVIOUS
  <2> QED
    BY <2>1, <2>5, <2>6, <2>7
<1>3. ASSUME NEW T \in SUBSET S
      PROVE  SumOf(f, T) \in Nat
  <2>1. SumOf(f, T) \in Int
    BY <1>1, SumMore
  <2>2. SumOf(f, T) >= 0
    BY <1>2
  <2> QED
    BY <2>1, <2>2
<1>4. \A x \in S : SumOf(f, S) = f[x] + SumOf(f, S \ {x}) /\ S \ {x} \in SUBSET S
  BY SumMore
<1>5. SumOf(f, S) \in Nat
  <2>1. S \in SUBSET S
    OBVIOUS
  <2> QED
    BY <1>3, <2>1
<1>6. ASSUME NEW x \in S
      PROVE  f[x] <= SumOf(f, S)
  <2>1. SumOf(f, S \ {x}) \in Nat /\ f[x] \in Nat
    BY <1>3, <1>4
  <2> QED
    BY <1>4, <1>5, <2>1
<1> QED
  BY <1>5, <1>6

-----------------------------------------------------------------------------
(* Memory *)

(* The sessions whose process is in instance i.                            *)
SessionsIn(i) == {s \in Sess : sUproc[s] # Nothing /\ uInst[sUproc[s]] = i}

NotedBy   == [s \in Sess |-> Noted(s)]
ChargedBy == [s \in Sess |-> Charged(s)]

(* A session gives its pages back before it lets go of its process, and a  *)
(* call never undoes more than it did.                                     *)
PagesOk(s) ==
  /\ sLife[s] \in {"NONE", "PUT"} => pages[s] = 0
  /\ call[s] # Nothing /\ call[s].op \in {"stat", "copy"} => call[s].n <= pages[s]
  /\ call[s] # Nothing /\ call[s].op \in {"charge", "alloc"} => pages[s] + call[s].n <= MaxPages

UseTypes ==
  /\ pages \in [Sess -> 0 .. MaxPages]
  /\ uUsed \in [Uprocs -> Int]
  /\ iUsed \in [Insts -> Int]

(* Also for a process or an instance that is not there.                    *)
UseMatches ==
  /\ \A u \in Uprocs : uUsed[u] = SumOf(NotedBy, SessionsOf(u))
  /\ \A i \in Insts : iUsed[i] = SumOf(ChargedBy, SessionsIn(i))

UseInv == UseTypes /\ (\A s \in Sess : PagesOk(s)) /\ UseMatches

(* What a session holds is counted in integers.                            *)
LEMMA UseCounted ==
  ASSUME LifeInv, UseTypes
  PROVE  /\ \A s \in Sess : NotedBy[s] \in Int /\ ChargedBy[s] \in Int
         /\ \A s \in Sess : NotedBy[s] = Noted(s) /\ ChargedBy[s] = Charged(s)
<1>1. \A s \in Sess : call[s] # Nothing /\ call[s].op \in {"alloc", "stat"} => call[s].n \in Nat
  BY LifeAssumption DEF LifeInv, LifeTypes, EventCalls, MemoryCalls
<1> QED
  BY <1>1, LifeAssumption DEF NotedBy, ChargedBy, Noted, Charged, PendingIn, Idle, UseTypes

(* A step that changes what one session holds, or whose it is, and what is *)
(* noted by as much.                                                       *)
NotedFor(u, s)   == IF sUproc[s] = u THEN Noted(s) ELSE 0
ChargedFor(i, s) == IF sUproc[s] # Nothing /\ uInst[sUproc[s]] = i THEN Charged(s) ELSE 0

(* Then what is used still matches what is held.                           *)
LEMMA UseMoved ==
  ASSUME LifeInv, LifeTypes', UseInv, UseTypes', NEW s \in Sess,
         \A r \in Sess \ {s} : Noted(r)' = Noted(r) /\ Charged(r)' = Charged(r),
         \A r \in Sess \ {s} : sUproc'[r] = sUproc[r],
         \A r \in Sess \ {s} : sUproc[r] # Nothing => uInst'[sUproc[r]] = uInst[sUproc[r]],
         \A u \in Uprocs : uUsed'[u] - NotedFor(u, s)' = uUsed[u] - NotedFor(u, s),
         \A i \in Insts : iUsed'[i] - ChargedFor(i, s)' = iUsed[i] - ChargedFor(i, s)
  PROVE  UseMatches'
<1>1. \A r \in Sess : NotedBy[r] \in Int /\ ChargedBy[r] \in Int
                      /\ NotedBy[r] = Noted(r) /\ ChargedBy[r] = Charged(r)
  BY UseCounted DEF UseInv
<1>2. \A r \in Sess : NotedBy'[r] = Noted(r)' /\ ChargedBy'[r] = Charged(r)'
  BY DEF NotedBy, ChargedBy
<1>3. \A r \in Sess : call'[r] # Nothing /\ call'[r].op \in {"alloc", "stat"} => call'[r].n \in Nat
  BY LifeAssumption DEF LifeTypes, EventCalls, MemoryCalls
<1>4. \A r \in Sess : NotedBy'[r] \in Int /\ ChargedBy'[r] \in Int
  BY <1>2, <1>3, LifeAssumption DEF Noted, Charged, PendingIn, Idle, UseTypes
<1>5. ASSUME NEW u \in Uprocs
      PROVE  uUsed'[u] = SumOf(NotedBy', SessionsOf(u)')
  <2> DEFINE S == SessionsOf(u)
             R == SessionsOf(u)'
  <2>1. S \subseteq Sess /\ R \subseteq Sess /\ S \ {s} = R \ {s}
    BY DEF SessionsOf
  <2>2. IsFiniteSet(S) /\ IsFiniteSet(R)
    BY <2>1, LifeAssumption, FS_Subset
  <2>3. Part(NotedBy, S, s) = NotedFor(u, s) /\ Part(NotedBy', R, s) = NotedFor(u, s)'
    BY <1>1, <1>2 DEF Part, NotedFor, SessionsOf
  <2>4. uUsed[u] = SumOf(NotedBy, S)
    BY DEF UseInv, UseMatches
  <2>5. \A r \in S \ {s} : NotedBy[r] = NotedBy'[r]
    BY <1>1, <1>2, <2>1
  <2> HIDE DEF S, R
  <2>6. /\ SumOf(NotedBy, S) \in Int /\ SumOf(NotedBy', R) \in Int
        /\ SumOf(NotedBy', R) - Part(NotedBy', R, s) = SumOf(NotedBy, S) - Part(NotedBy, S, s)
    BY <1>1, <1>4, <2>1, <2>2, <2>5, SumMoved
  <2>7. Part(NotedBy, S, s) \in Int /\ Part(NotedBy', R, s) \in Int
    BY <1>1, <1>4 DEF Part
  <2>8. uUsed'[u] \in Int
    BY DEF UseTypes
  <2>9. uUsed'[u] - NotedFor(u, s)' = uUsed[u] - NotedFor(u, s)
    OBVIOUS
  <2>10. uUsed'[u] - Part(NotedBy', R, s) = SumOf(NotedBy, S) - Part(NotedBy, S, s)
    BY <2>3, <2>4, <2>9
  <2>11. uUsed'[u] = SumOf(NotedBy', R)
    <3> DEFINE a == uUsed'[u]
               b == Part(NotedBy', R, s)
               c == SumOf(NotedBy, S)
               d == Part(NotedBy, S, s)
               n == SumOf(NotedBy', R)
    <3>1. a \in Int /\ b \in Int /\ c \in Int /\ d \in Int /\ n \in Int
      BY <2>6, <2>7, <2>8
    <3>2. a - b = c - d /\ n - b = c - d
      BY <2>6, <2>10
    <3>3. a = n
      <4> HIDE DEF a, b, c, d, n
      <4> QED
        BY <3>1, <3>2
    <3> QED
      BY <3>3
  <2> QED
    BY <2>11 DEF R
<1>6. ASSUME NEW i \in Insts
      PROVE  iUsed'[i] = SumOf(ChargedBy', SessionsIn(i)')
  <2> DEFINE S == SessionsIn(i)
             R == SessionsIn(i)'
  <2>1. S \subseteq Sess /\ R \subseteq Sess /\ S \ {s} = R \ {s}
    BY DEF SessionsIn
  <2>2. IsFiniteSet(S) /\ IsFiniteSet(R)
    BY <2>1, LifeAssumption, FS_Subset
  <2>3. Part(ChargedBy, S, s) = ChargedFor(i, s) /\ Part(ChargedBy', R, s) = ChargedFor(i, s)'
    BY <1>1, <1>2 DEF Part, ChargedFor, SessionsIn
  <2>4. iUsed[i] = SumOf(ChargedBy, S)
    BY DEF UseInv, UseMatches
  <2>5. \A r \in S \ {s} : ChargedBy[r] = ChargedBy'[r]
    BY <1>1, <1>2, <2>1
  <2> HIDE DEF S, R
  <2>6. /\ SumOf(ChargedBy, S) \in Int /\ SumOf(ChargedBy', R) \in Int
        /\ SumOf(ChargedBy', R) - Part(ChargedBy', R, s) = SumOf(ChargedBy, S) - Part(ChargedBy, S, s)
    BY <1>1, <1>4, <2>1, <2>2, <2>5, SumMoved
  <2>7. Part(ChargedBy, S, s) \in Int /\ Part(ChargedBy', R, s) \in Int
    BY <1>1, <1>4 DEF Part
  <2>8. iUsed'[i] \in Int
    BY DEF UseTypes
  <2>9. iUsed'[i] - ChargedFor(i, s)' = iUsed[i] - ChargedFor(i, s)
    OBVIOUS
  <2>10. iUsed'[i] - Part(ChargedBy', R, s) = SumOf(ChargedBy, S) - Part(ChargedBy, S, s)
    BY <2>3, <2>4, <2>9
  <2>11. iUsed'[i] = SumOf(ChargedBy', R)
    <3> DEFINE a == iUsed'[i]
               b == Part(ChargedBy', R, s)
               c == SumOf(ChargedBy, S)
               d == Part(ChargedBy, S, s)
               n == SumOf(ChargedBy', R)
    <3>1. a \in Int /\ b \in Int /\ c \in Int /\ d \in Int /\ n \in Int
      BY <2>6, <2>7, <2>8
    <3>2. a - b = c - d /\ n - b = c - d
      BY <2>6, <2>10
    <3>3. a = n
      <4> HIDE DEF a, b, c, d, n
      <4> QED
        BY <3>1, <3>2
    <3> QED
      BY <3>3
  <2> QED
    BY <2>11 DEF R
<1> QED
  BY <1>5, <1>6 DEF UseMatches

(* A step that leaves all that alone.                                      *)
UseSame ==
  /\ UNCHANGED <<pages, uUsed, iUsed>>
  /\ \A s \in Sess : Noted(s)' = Noted(s) /\ Charged(s)' = Charged(s)
  /\ \A u \in Uprocs : SessionsOf(u)' = SessionsOf(u)
  /\ \A i \in Insts : SessionsIn(i)' = SessionsIn(i)

(* Then what is used matches as before.                                    *)
LEMMA UseStays ==
  ASSUME LifeInv, UseInv, UseSame
  PROVE  UseTypes' /\ UseMatches'
<1>1. UseTypes'
  BY DEF UseInv, UseTypes, UseSame
<1>2. NotedBy' = NotedBy /\ ChargedBy' = ChargedBy
  BY DEF NotedBy, ChargedBy, UseSame
<1> QED
  BY <1>1, <1>2 DEF UseInv, UseMatches, UseSame


(* What a session has to do, in pages. *)
LEMMA Pending ==
  ASSUME NEW s \in Sess
  PROVE  /\ call[s] = Nothing => Noted(s) = pages[s] - 0 /\ Charged(s) = pages[s] + 0
         /\ call[s] # Nothing =>
              /\ Noted(s) = pages[s] - IF call[s].op = "stat" THEN call[s].n ELSE 0
              /\ Charged(s) = pages[s] + IF call[s].op = "alloc" THEN call[s].n ELSE 0
BY DEF Noted, Charged, PendingIn, Idle

(* The same after a step.                                                  *)
LEMMA PendingNext ==
  ASSUME NEW s \in Sess
  PROVE  /\ call'[s] = Nothing => Noted(s)' = pages'[s] - 0 /\ Charged(s)' = pages'[s] + 0
         /\ call'[s] # Nothing =>
              /\ Noted(s)' = pages'[s] - IF call'[s].op = "stat" THEN call'[s].n ELSE 0
              /\ Charged(s)' = pages'[s] + IF call'[s].op = "alloc" THEN call'[s].n ELSE 0
BY DEF Noted, Charged, PendingIn, Idle

(* No call but of memory is made or ends, and nobody goes.                 *)
Quiet ==
  /\ UNCHANGED <<pages, uUsed, iUsed, sUproc, uInst>>
  /\ \A s \in Sess : call'[s] = call[s] \/ (call[s] \notin MemoryCalls /\ call'[s] \notin MemoryCalls)
  /\ \A s \in Sess : sLife'[s] \in {"NONE", "PUT"} => sLife[s] \in {"NONE", "PUT"}

(* Such a step keeps the books.                                            *)
LEMMA QuietKeeps ==
  ASSUME LifeInv, LifeTypes', UseInv, Quiet
  PROVE  UseInv'
<1>1. \A s \in Sess : call[s] \in EventCalls \cup MemoryCalls \cup {Nothing}
                      /\ call'[s] \in EventCalls \cup MemoryCalls \cup {Nothing}
  BY DEF LifeInv, LifeTypes
<1>2. \A c \in EventCalls : c.op \notin {"charge", "alloc", "stat", "copy"}
  BY DEF EventCalls
<1>3. \A s \in Sess : Noted(s)' = Noted(s) /\ Charged(s)' = Charged(s)
  <2> SUFFICES ASSUME NEW s \in Sess
               PROVE  Noted(s)' = Noted(s) /\ Charged(s)' = Charged(s)
    OBVIOUS
  <2>1. pages'[s] = pages[s]
    BY DEF Quiet
  <2>2. CASE call'[s] = call[s]
    BY <2>1, <2>2 DEF Noted, Charged, PendingIn, Idle
  <2>3. CASE call[s] \notin MemoryCalls /\ call'[s] \notin MemoryCalls
    BY <1>1, <1>2, <2>1, <2>3 DEF Noted, Charged, PendingIn, Idle
  <2> QED
    BY <2>2, <2>3 DEF Quiet
<1>4. UseSame
  BY <1>3 DEF Quiet, UseSame, SessionsOf, SessionsIn
<1>5. ASSUME NEW s \in Sess
      PROVE  PagesOk(s)'
  <2>1. pages'[s] = pages[s] /\ PagesOk(s)
    BY DEF Quiet, UseInv
  <2>2. CASE call'[s] = call[s]
    BY <2>1, <2>2 DEF Quiet, PagesOk
  <2>3. CASE call'[s] \notin MemoryCalls
    BY <1>1, <1>2, <2>1, <2>3 DEF Quiet, PagesOk
  <2> QED
    BY <2>2, <2>3 DEF Quiet
<1> QED
  BY <1>4, <1>5, UseStays DEF UseInv

(* A step of one session that keeps its process and its instance.          *)
LEMMA OwnStep ==
  ASSUME LifeInv, LifeTypes', UseInv, NEW s \in Sess, UNCHANGED <<sUproc, uInst>>, UseTypes',
         sUproc[s] \in Uprocs, NEW a \in Int, NEW b \in Int,
         \A r \in Sess \ {s} : pages'[r] = pages[r] /\ call'[r] = call[r] /\ sLife'[r] = sLife[r],
         PagesOk(s)',
         Noted(s)' = Noted(s) + a, Charged(s)' = Charged(s) + b,
         \A u \in Uprocs : uUsed'[u] = IF u = sUproc[s] THEN uUsed[u] + a ELSE uUsed[u],
         \A i \in Insts : iUsed'[i] = IF i = InstOf(s) THEN iUsed[i] + b ELSE iUsed[i]
  PROVE  UseInv'
<1>1. \A r \in Sess \ {s} : Noted(r)' = Noted(r) /\ Charged(r)' = Charged(r)
  BY DEF Noted, Charged, PendingIn, Idle
<1>2. \A r \in Sess \ {s} : PagesOk(r)'
  BY DEF UseInv, PagesOk
<1>3. Noted(s) \in Int /\ Charged(s) \in Int
  BY UseCounted DEF UseInv
<1>4. \A u \in Uprocs : uUsed'[u] - NotedFor(u, s)' = uUsed[u] - NotedFor(u, s)
  BY <1>3 DEF NotedFor, UseInv, UseTypes
<1>5. sUproc[s] # Nothing
  BY LifeAssumption
<1>6. \A i \in Insts : iUsed'[i] - ChargedFor(i, s)' = iUsed[i] - ChargedFor(i, s)
  BY <1>3, <1>5 DEF ChargedFor, InstOf, UseInv, UseTypes
<1>7. UseMatches'
  BY <1>1, <1>4, <1>6, UseMoved
<1> QED
  BY <1>2, <1>7 DEF UseInv

(* Of a call: whose it is, and how many pages it is about.                 *)
LEMMA Caller ==
  ASSUME LifeInv, NEW s \in Sess, call[s] # Nothing \/ Active(s) \/ sLife[s] = "MEM"
  PROVE  /\ sUproc[s] \in Uprocs /\ sUproc[s] # Nothing
         /\ sLife[s] \in {"LIVE", "MEM"} /\ (sLife[s] = "MEM" => call[s] = Nothing)
         /\ InstOf(s) \in Insts \cup {Nothing}
         /\ call[s] # Nothing /\ call[s].op \in {"charge", "alloc", "stat", "copy"} =>
              call[s].n \in Nat /\ call[s].n \in Asks
<1>1. sLife[s] \in {"LIVE", "MEM"} /\ (sLife[s] = "MEM" => call[s] = Nothing)
  BY DEF LifeInv, SessInv, Active
<1>2. sUproc[s] \in Uprocs /\ sUproc[s] # Nothing
  BY <1>1, LifeAssumption DEF LifeInv, SessInv, LifeTypes
<1>3. call[s] # Nothing /\ call[s].op \in {"charge", "alloc", "stat", "copy"} =>
        call[s].n \in Nat /\ call[s].n \in Asks
  BY LifeAssumption DEF LifeInv, LifeTypes, EventCalls, MemoryCalls
<1> QED
  BY <1>1, <1>2, <1>3 DEF LifeInv, LifeTypes, InstOf

(* The limit is checked: nothing is charged yet.                           *)
LEMMA CheckUse ==
  ASSUME LifeInv, LifeTypes', UseInv, NEW s \in Sess, NEW n \in Asks, MallocCheck(s, n)
  PROVE  UseInv'
<1>1. call[s] = Nothing /\ call' = [call EXCEPT ![s] = [op |-> "charge", n |-> n]]
      /\ UNCHANGED <<pages, sLife, sUproc, uInst, uUsed, iUsed>> /\ pages[s] + n <= MaxPages /\ Active(s)
  BY DEF MallocCheck, Idle, Do, sessVars, uprocVars
<1>2. call'[s] = [op |-> "charge", n |-> n] /\ call'[s] # Nothing /\ n \in Nat /\ pages[s] \in Nat
      /\ sLife[s] = "LIVE" /\ call'[s].op = "charge" /\ call'[s].n = n
  BY <1>1, LifeAssumption DEF LifeInv, LifeTypes, MemoryCalls, UseInv, UseTypes, Active
<1>3. Noted(s)' = Noted(s) + 0 /\ Charged(s)' = Charged(s) + 0
  BY <1>1, <1>2, Pending, PendingNext
<1>4. PagesOk(s)' /\ UseTypes'
  BY <1>1, <1>2 DEF PagesOk, UseInv, UseTypes
<1>5. /\ \A u \in Uprocs : uUsed'[u] = IF u = sUproc[s] THEN uUsed[u] + 0 ELSE uUsed[u]
      /\ \A i \in Insts : iUsed'[i] = IF i = InstOf(s) THEN iUsed[i] + 0 ELSE iUsed[i]
  BY <1>1 DEF UseInv, UseTypes
<1>6. \A r \in Sess \ {s} : pages'[r] = pages[r] /\ call'[r] = call[r] /\ sLife'[r] = sLife[r]
  BY <1>1 DEF LifeInv, LifeTypes
<1>7. sUproc[s] \in Uprocs
  BY <1>1, Caller
<1>8. 0 \in Int
  OBVIOUS
<1> QED
  BY <1>1, <1>3, <1>4, <1>5, <1>6, <1>7, <1>8, OwnStep

(* The instance is charged for what will be taken.                         *)
LEMMA ChargeUse ==
  ASSUME LifeInv, LifeTypes', UseInv, NEW s \in Sess, MallocCharge(s)
  PROVE  UseInv'
<1> DEFINE n == call[s].n
<1>1. call[s] # Nothing /\ call[s].op = "charge"
      /\ call' = [call EXCEPT ![s] = [op |-> "alloc", n |-> n]]
      /\ UNCHANGED <<pages, sLife, sUproc, uInst, uUsed>> /\ AddInstUsed(s, n)
  BY DEF MallocCharge, Idle, Do, sessVars, uprocVars
<1>2. n \in Asks /\ n \in Nat /\ sUproc[s] \in Uprocs /\ sLife[s] \in {"LIVE", "MEM"}
      /\ InstOf(s) \in Insts \cup {Nothing}
  BY <1>1, Caller
<1> HIDE DEF n
<1>3. call'[s] # Nothing /\ pages[s] \in Nat /\ call'[s].op = "alloc" /\ call'[s].n = n
  BY <1>1, <1>2, LifeAssumption DEF LifeInv, LifeTypes, MemoryCalls, UseInv, UseTypes
<1>4. Noted(s)' = Noted(s) + 0 /\ Charged(s)' = Charged(s) + n
  BY <1>1, <1>2, <1>3, Pending, PendingNext
<1>5. PagesOk(s)'
  BY <1>1, <1>2, <1>3 DEF PagesOk, UseInv, n
<1>6. UseTypes' /\ \A i \in Insts : iUsed'[i] = IF i = InstOf(s) THEN iUsed[i] + n ELSE iUsed[i]
  BY <1>1, <1>2, LifeAssumption DEF AddInstUsed, UseInv, UseTypes
<1>7. \A u \in Uprocs : uUsed'[u] = IF u = sUproc[s] THEN uUsed[u] + 0 ELSE uUsed[u]
  BY <1>1 DEF UseInv, UseTypes
<1>8. \A r \in Sess \ {s} : pages'[r] = pages[r] /\ call'[r] = call[r] /\ sLife'[r] = sLife[r]
  BY <1>1 DEF LifeInv, LifeTypes
<1>9. 0 \in Int /\ n \in Int
  BY <1>2
<1> QED
  BY <1>1, <1>2, <1>4, <1>5, <1>6, <1>7, <1>8, <1>9, OwnStep

(* Pages are taken, or the charge is taken back.                           *)
LEMMA TakeUse ==
  ASSUME LifeInv, LifeTypes', UseInv, NEW s \in Sess, MallocTake(s)
  PROVE  UseInv'
<1> DEFINE n == call[s].n
<1>1. call[s] # Nothing /\ call[s].op = "alloc" /\ UNCHANGED <<sLife, sUproc, uInst, uUsed>>
  BY DEF MallocTake, Idle, sessVars, uprocVars
<1>2. n \in Asks /\ n \in Nat /\ sUproc[s] \in Uprocs /\ sLife[s] \in {"LIVE", "MEM"}
      /\ InstOf(s) \in Insts \cup {Nothing}
  BY <1>1, Caller
<1>3. \/ /\ pages' = [pages EXCEPT ![s] = @ + n] /\ UNCHANGED iUsed
         /\ call' = [call EXCEPT ![s] = [op |-> "stat", n |-> n]]
      \/ UNCHANGED pages /\ AddInstUsed(s, -n) /\ call' = [call EXCEPT ![s] = Nothing]
  BY DEF MallocTake, MallocFails, Do
<1>4. pages[s] + n <= MaxPages
  BY <1>1 DEF UseInv, PagesOk
<1> HIDE DEF n
<1>5. \A u \in Uprocs : uUsed'[u] = IF u = sUproc[s] THEN uUsed[u] + 0 ELSE uUsed[u]
  BY <1>1 DEF UseInv, UseTypes
<1>6. \A r \in Sess \ {s} : pages'[r] = pages[r] /\ call'[r] = call[r] /\ sLife'[r] = sLife[r]
  BY <1>1, <1>3 DEF LifeInv, LifeTypes, UseInv, UseTypes
<1>7. pages[s] \in Nat /\ Noted(s) = pages[s] /\ Charged(s) = pages[s] + n
  BY <1>1, <1>2, Pending DEF UseInv, UseTypes, n
<1>8. CASE pages' = [pages EXCEPT ![s] = @ + n] /\ UNCHANGED iUsed
           /\ call' = [call EXCEPT ![s] = [op |-> "stat", n |-> n]]
  <2>1. pages'[s] = pages[s] + n /\ call'[s] # Nothing /\ call'[s].op = "stat" /\ call'[s].n = n
    BY <1>2, <1>8, LifeAssumption DEF LifeInv, LifeTypes, MemoryCalls, UseInv, UseTypes
  <2>2. Noted(s)' = Noted(s) + 0 /\ Charged(s)' = Charged(s) + 0
    BY <1>2, <1>7, <2>1, PendingNext
  <2>3. PagesOk(s)'
    BY <1>1, <1>2, <1>7, <2>1 DEF PagesOk
  <2>4. UseTypes'
    BY <1>1, <1>2, <1>4, <1>8, LifeAssumption DEF UseInv, UseTypes
  <2>5. \A i \in Insts : iUsed'[i] = IF i = InstOf(s) THEN iUsed[i] + 0 ELSE iUsed[i]
    BY <1>8 DEF UseInv, UseTypes
  <2>6. 0 \in Int
    OBVIOUS
  <2> QED
    BY <1>1, <1>2, <1>5, <1>6, <2>2, <2>3, <2>4, <2>5, <2>6, OwnStep
<1>9. CASE UNCHANGED pages /\ AddInstUsed(s, -n) /\ call' = [call EXCEPT ![s] = Nothing]
  <2>1. pages'[s] = pages[s] /\ call'[s] = Nothing
    BY <1>9 DEF LifeInv, LifeTypes
  <2>2. Noted(s)' = Noted(s) + 0 /\ Charged(s)' = Charged(s) + (-n)
    BY <1>2, <1>7, <2>1, PendingNext
  <2>3. PagesOk(s)'
    BY <1>1, <1>2, <1>7, <2>1 DEF PagesOk
  <2>4. UseTypes' /\ \A i \in Insts : iUsed'[i] = IF i = InstOf(s) THEN iUsed[i] + (-n) ELSE iUsed[i]
    BY <1>1, <1>2, <1>9, LifeAssumption DEF AddInstUsed, UseInv, UseTypes
  <2>5. 0 \in Int /\ -n \in Int
    BY <1>2
  <2> QED
    BY <1>1, <1>2, <1>5, <1>6, <2>2, <2>3, <2>4, <2>5, OwnStep
<1> QED
  BY <1>3, <1>8, <1>9

(* The process is charged for what was taken.                              *)
LEMMA StatUse ==
  ASSUME LifeInv, LifeTypes', UseInv, NEW s \in Sess, MallocStat(s)
  PROVE  UseInv'
<1> DEFINE n == call[s].n
<1>1. call[s] # Nothing /\ call[s].op = "stat" /\ UNCHANGED <<pages, sLife, sUproc, uInst, iUsed>>
      /\ call' = [call EXCEPT ![s] = [op |-> "copy", n |-> n]]
      /\ uUsed' = [uUsed EXCEPT ![sUproc[s]] = @ + n]
  BY DEF MallocStat, Idle, Do, sessVars, uprocVars
<1>2. n \in Asks /\ n \in Nat /\ sUproc[s] \in Uprocs /\ sLife[s] \in {"LIVE", "MEM"}
      /\ InstOf(s) \in Insts \cup {Nothing}
  BY <1>1, Caller
<1> HIDE DEF n
<1>3. call'[s] # Nothing /\ pages[s] \in Nat /\ call'[s].op = "copy" /\ call'[s].n = n
  BY <1>1, <1>2, LifeAssumption DEF LifeInv, LifeTypes, MemoryCalls, UseInv, UseTypes
<1>4. Noted(s)' = Noted(s) + n /\ Charged(s)' = Charged(s) + 0
  BY <1>1, <1>2, <1>3, Pending, PendingNext DEF n
<1>5. PagesOk(s)'
  BY <1>1, <1>2, <1>3 DEF PagesOk, UseInv, n
<1>6. UseTypes' /\ \A u \in Uprocs : uUsed'[u] = IF u = sUproc[s] THEN uUsed[u] + n ELSE uUsed[u]
  BY <1>1, <1>2 DEF UseInv, UseTypes
<1>7. \A i \in Insts : iUsed'[i] = IF i = InstOf(s) THEN iUsed[i] + 0 ELSE iUsed[i]
  BY <1>1 DEF UseInv, UseTypes
<1>8. \A r \in Sess \ {s} : pages'[r] = pages[r] /\ call'[r] = call[r] /\ sLife'[r] = sLife[r]
  BY <1>1 DEF LifeInv, LifeTypes
<1>9. 0 \in Int /\ n \in Int
  BY <1>2
<1> QED
  BY <1>1, <1>2, <1>4, <1>5, <1>6, <1>7, <1>8, <1>9, OwnStep

(* Pages given back, by a free, by a copy that failed, by a release.       *)
LEMMA GivenBack ==
  ASSUME LifeInv, LifeTypes', UseInv, NEW s \in Sess, NEW n \in Nat, n <= pages[s],
         UNCHANGED <<sUproc, uInst>>, \A r \in Sess \ {s} : call'[r] = call[r] /\ sLife'[r] = sLife[r],
         call[s] # Nothing \/ Active(s) \/ sLife[s] = "MEM",
         call[s] # Nothing => call[s].op = "copy", call'[s] = Nothing,
         sLife'[s] \in {"NONE", "PUT"} => n = pages[s],
         pages' = [pages EXCEPT ![s] = @ - n], Uncharge(sUproc[s], n)
  PROVE  UseInv'
<1>1. sUproc[s] \in Uprocs /\ InstOf(s) \in Insts \cup {Nothing}
  BY Caller
<1>2. pages[s] \in Nat /\ pages'[s] = pages[s] - n /\ pages'[s] \in 0 .. MaxPages
  BY LifeAssumption DEF UseInv, UseTypes
<1>3. Noted(s)' = Noted(s) + (-n) /\ Charged(s)' = Charged(s) + (-n)
  BY <1>2, Pending, PendingNext
<1>4. PagesOk(s)'
  BY <1>2 DEF PagesOk
<1>5. /\ UseTypes'
      /\ \A u \in Uprocs : uUsed'[u] = IF u = sUproc[s] THEN uUsed[u] + (-n) ELSE uUsed[u]
      /\ \A i \in Insts : iUsed'[i] = IF i = InstOf(s) THEN iUsed[i] + (-n) ELSE iUsed[i]
  BY <1>1, <1>2, LifeAssumption DEF Uncharge, InstOf, UseInv, UseTypes
<1>6. \A r \in Sess \ {s} : pages'[r] = pages[r] /\ call'[r] = call[r] /\ sLife'[r] = sLife[r]
  BY DEF UseInv, UseTypes
<1>7. -n \in Int
  OBVIOUS
<1> QED
  BY <1>1, <1>3, <1>4, <1>5, <1>6, <1>7, OwnStep

(* The call ends, or gives back what it took.                              *)
LEMMA ReturnUse ==
  ASSUME LifeInv, LifeTypes', UseInv, NEW s \in Sess, MallocReturn(s)
  PROVE  UseInv'
<1> DEFINE n == call[s].n
<1>1. call[s] # Nothing /\ call[s].op = "copy" /\ UNCHANGED <<sLife, sUproc, uInst>>
      /\ call' = [call EXCEPT ![s] = Nothing]
  BY DEF MallocReturn, Idle, sessVars, uprocVars
<1>2. n \in Nat /\ sUproc[s] \in Uprocs /\ sLife[s] \in {"LIVE", "MEM"} /\ (sLife[s] = "MEM" => call[s] = Nothing)
  BY <1>1, Caller
<1>3. call'[s] = Nothing /\ \A r \in Sess \ {s} : call'[r] = call[r]
  BY <1>1 DEF LifeInv, LifeTypes
<1>4. CASE UNCHANGED <<pages, useVars>>
  <2>1. Noted(s)' = Noted(s) + 0 /\ Charged(s)' = Charged(s) + 0
    <3>1. pages'[s] = pages[s] /\ pages[s] \in Nat
      BY <1>4 DEF UseInv, UseTypes
    <3> QED
      BY <1>1, <1>3, <3>1, Pending, PendingNext
  <2>2. PagesOk(s)' /\ UseTypes'
    BY <1>1, <1>2, <1>3, <1>4 DEF PagesOk, UseInv, UseTypes, useVars
  <2>3. /\ \A u \in Uprocs : uUsed'[u] = IF u = sUproc[s] THEN uUsed[u] + 0 ELSE uUsed[u]
        /\ \A i \in Insts : iUsed'[i] = IF i = InstOf(s) THEN iUsed[i] + 0 ELSE iUsed[i]
    BY <1>4 DEF UseInv, UseTypes, useVars
  <2>4. \A r \in Sess \ {s} : pages'[r] = pages[r] /\ call'[r] = call[r] /\ sLife'[r] = sLife[r]
    BY <1>1, <1>3, <1>4
  <2>5. 0 \in Int
    OBVIOUS
  <2> QED
    BY <1>1, <1>2, <2>1, <2>2, <2>3, <2>4, <2>5, OwnStep
<1>5. CASE pages' = [pages EXCEPT ![s] = @ - n] /\ Uncharge(sUproc[s], n)
  <2>1. n <= pages[s] /\ sLife'[s] \notin {"NONE", "PUT"}
    BY <1>1, <1>2 DEF UseInv, PagesOk
  <2>2. \A r \in Sess \ {s} : call'[r] = call[r] /\ sLife'[r] = sLife[r]
    BY <1>1, <1>3
  <2> HIDE DEF n
  <2> QED
    BY <1>1, <1>2, <1>3, <1>5, <2>1, <2>2, GivenBack
<1> QED
  BY <1>4, <1>5 DEF MallocReturn

(* Pages are freed by their session.                                       *)
LEMMA FreeUse ==
  ASSUME LifeInv, LifeTypes', UseInv, NEW s \in Sess, NEW n \in Asks, Free(s, n)
  PROVE  UseInv'
<1>1. Active(s) /\ call[s] = Nothing /\ UNCHANGED <<sLife, sUproc, uInst, call>> /\ n <= pages[s]
      /\ pages' = [pages EXCEPT ![s] = @ - n] /\ Uncharge(sUproc[s], n) /\ n \in Nat
  BY LifeAssumption DEF Free, Idle, sessVars, uprocVars
<1>2. sLife'[s] \notin {"NONE", "PUT"}
  BY <1>1 DEF Active
<1> QED
  BY <1>1, <1>2, GivenBack

(* All pages of a session are freed when it goes.                          *)
LEMMA ReleaseUse ==
  ASSUME LifeInv, LifeTypes', UseInv, NEW s \in Sess, SessFreeMem(s)
  PROVE  UseInv'
<1> DEFINE n == pages[s]
<1>1. sLife[s] = "MEM" /\ UNCHANGED <<sUproc, uInst, call>> /\ Uncharge(sUproc[s], n)
      /\ pages' = [pages EXCEPT ![s] = 0] /\ sLife' = [sLife EXCEPT ![s] = "PUT"]
  BY DEF SessFreeMem, uprocVars
<1>2. call[s] = Nothing /\ n \in Nat
  BY <1>1, Caller DEF UseInv, UseTypes
<1>3. pages' = [pages EXCEPT ![s] = @ - n]
  <2>1. pages[s] - n = 0
    BY <1>2
  <2> QED
    BY <1>1, <2>1
<1>4. \A r \in Sess \ {s} : call'[r] = call[r] /\ sLife'[r] = sLife[r]
  BY <1>1 DEF LifeInv, LifeTypes
<1>5. n <= pages[s] /\ n = pages[s] /\ call'[s] = Nothing
  BY <1>1, <1>2
<1> HIDE DEF n
<1> QED
  BY <1>1, <1>2, <1>3, <1>4, <1>5, GivenBack

(* A session that holds nothing comes to a process, or leaves one.         *)
LEMMA OpenUse ==
  ASSUME LifeInv, LifeTypes', UseInv, NEW s \in Sess, NEW p \in Procs, NEW u \in Uprocs, Open(s, p, u)
  PROVE  UseInv'
<1>1. sLife[s] = "NONE" /\ UNCHANGED <<pages, call, iUsed>>
      /\ sUproc' = [sUproc EXCEPT ![s] = u] /\ sLife' = [sLife EXCEPT ![s] = "LIVE"]
  BY DEF Open, workVars
<1>2. call[s] = Nothing /\ pages[s] = 0 /\ sUproc[s] = Nothing
  BY <1>1 DEF LifeInv, SessInv, UseInv, PagesOk
<1>3. UNCHANGED <<uUsed, uInst>>
      \/ (SessionsOf(u) = {} /\ uUsed' = [uUsed EXCEPT ![u] = 0] /\ \A v \in Uprocs \ {u} : uInst'[v] = uInst[v])
  <2>1. CASE UNCHANGED <<uUsed, uInst>>
    BY <2>1
  <2>2. CASE uLife[u] = "NONE" /\ uUsed' = [uUsed EXCEPT ![u] = 0] /\ JoinInst(u, GroupOf[p])
    <3>1. SessionsOf(u) = {}
      BY <2>2, LifeAssumption DEF LifeInv, UprocInv, SessionsOf
    <3>2. \A v \in Uprocs \ {u} : uInst'[v] = uInst[v]
      BY <2>2 DEF JoinInst, LifeInv, LifeTypes
    <3> QED
      BY <2>2, <3>1, <3>2
  <2> QED
    BY <2>1, <2>2 DEF Open
<1>4. uUsed' = uUsed
  <2>1. CASE SessionsOf(u) = {} /\ uUsed' = [uUsed EXCEPT ![u] = 0]
    <3>1. uUsed[u] = SumOf(NotedBy, SessionsOf(u)) /\ IsFiniteSet({}) /\ \A y \in {} : NotedBy[y] \in Int
      BY FS_EmptySet DEF UseInv, UseMatches
    <3>2. uUsed[u] = 0
      BY <2>1, <3>1, SumMore
    <3> QED
      BY <2>1, <3>2 DEF UseInv, UseTypes
  <2> QED
    BY <1>3, <2>1
<1>5. UseTypes' /\ \A r \in Sess : PagesOk(r)'
  BY <1>1, <1>2, <1>4 DEF UseInv, UseTypes, PagesOk
<1>6. \A r \in Sess : Noted(r)' = Noted(r) /\ Charged(r)' = Charged(r)
  BY <1>1 DEF Noted, Charged, PendingIn, Idle
<1>7. Noted(s) = 0 /\ Charged(s) = 0
  BY <1>2, Pending
<1>8. \A r \in Sess \ {s} : sUproc'[r] = sUproc[r]
  BY <1>1 DEF LifeInv, LifeTypes
<1>9. \A r \in Sess \ {s} : sUproc[r] # Nothing => uInst'[sUproc[r]] = uInst[sUproc[r]]
  BY <1>3 DEF SessionsOf, LifeInv, LifeTypes
<1>10. /\ \A v \in Uprocs : uUsed'[v] - NotedFor(v, s)' = uUsed[v] - NotedFor(v, s)
       /\ \A i \in Insts : iUsed'[i] - ChargedFor(i, s)' = iUsed[i] - ChargedFor(i, s)
  BY <1>1, <1>4, <1>6, <1>7 DEF NotedFor, ChargedFor
<1>11. UseMatches'
  BY <1>5, <1>6, <1>8, <1>9, <1>10, UseMoved DEF UseInv
<1> QED
  BY <1>5, <1>11 DEF UseInv

(* A session that goes leaves nothing on the books.                        *)
LEMMA LeaveUse ==
  ASSUME LifeInv, LifeTypes', UseInv, NEW s \in Sess, SessPutUproc(s)
  PROVE  UseInv'
<1>1. sLife[s] = "PUT" /\ UNCHANGED <<pages, call, uInst, uUsed, iUsed>>
      /\ sUproc' = [sUproc EXCEPT ![s] = Nothing] /\ sLife' = [sLife EXCEPT ![s] = "NONE"]
  BY DEF SessPutUproc, workVars, useVars
<1>2. call[s] = Nothing /\ pages[s] = 0
  BY <1>1 DEF LifeInv, SessInv, UseInv, PagesOk
<1>3. UseTypes' /\ \A r \in Sess : PagesOk(r)'
  BY <1>1, <1>2 DEF UseInv, UseTypes, PagesOk, LifeInv, LifeTypes
<1>4. \A r \in Sess : Noted(r)' = Noted(r) /\ Charged(r)' = Charged(r)
  BY <1>1 DEF Noted, Charged, PendingIn, Idle
<1>5. Noted(s) = 0 /\ Charged(s) = 0
  BY <1>2, Pending
<1>6. \A r \in Sess \ {s} : sUproc'[r] = sUproc[r]
  BY <1>1 DEF LifeInv, LifeTypes
<1>7. \A r \in Sess \ {s} : sUproc[r] # Nothing => uInst'[sUproc[r]] = uInst[sUproc[r]]
  BY <1>1
<1>8. /\ \A v \in Uprocs : uUsed'[v] - NotedFor(v, s)' = uUsed[v] - NotedFor(v, s)
      /\ \A i \in Insts : iUsed'[i] - ChargedFor(i, s)' = iUsed[i] - ChargedFor(i, s)
  BY <1>1, <1>4, <1>5 DEF NotedFor, ChargedFor
<1>9. UseMatches'
  BY <1>3, <1>4, <1>6, <1>7, <1>8, UseMoved DEF UseInv
<1> QED
  BY <1>3, <1>9 DEF UseInv

(* The record of a process without sessions leaves its instance.           *)
LEMMA UprocLeavesUse ==
  ASSUME LifeInv, LifeTypes', UseInv, NEW u \in Uprocs, UprocPutInst(u)
  PROVE  UseInv'
<1>1. uLife[u] = "INST" /\ UNCHANGED <<pages, call, uUsed, iUsed, sUproc, sLife>>
      /\ uInst' = [uInst EXCEPT ![u] = Nothing]
  BY DEF UprocPutInst, sessVars, workVars, useVars
<1>2. \A s \in Sess : sUproc[s] # Nothing => sUproc[s] # u /\ sUproc[s] \in Uprocs
  BY <1>1 DEF LifeInv, UprocInv, LifeTypes
<1>3. \A s \in Sess : sUproc[s] # Nothing => uInst'[sUproc[s]] = uInst[sUproc[s]]
  BY <1>1, <1>2 DEF LifeInv, LifeTypes
<1>4. \A i \in Insts : SessionsIn(i)' = SessionsIn(i)
  BY <1>1, <1>3 DEF SessionsIn
<1>5. UseSame
  BY <1>1, <1>4 DEF UseSame, SessionsOf, Noted, Charged, PendingIn, Idle
<1>6. \A s \in Sess : PagesOk(s)'
  BY <1>1 DEF UseInv, PagesOk
<1> QED
  BY <1>5, <1>6, UseStays DEF UseInv

(* An instance that comes has no sessions.                                 *)
LEMMA CreateUse ==
  ASSUME LifeInv, LifeTypes', UseInv, NEW i \in Insts, NEW token \in Groups, CreateInstance(i, token)
  PROVE  UseInv'
<1>1. iRef[i] = 0 /\ iUsed' = [iUsed EXCEPT ![i] = 0] /\ UNCHANGED <<pages, uUsed, sUproc, uInst, call, sLife>>
  BY DEF CreateInstance, sessVars, workVars, uprocVars
<1>2. SessionsIn(i) = {}
  <2>1. Members(i) = {}
    BY <1>1 DEF LifeInv, InstInv, InstOk
  <2>2. \A s \in Sess : sUproc[s] # Nothing => sUproc[s] \in Uprocs
    BY DEF LifeInv, LifeTypes
  <2> QED
    BY <2>1, <2>2 DEF Members, SessionsIn
<1>3. iUsed[i] = SumOf(ChargedBy, SessionsIn(i)) /\ IsFiniteSet({}) /\ \A y \in {} : ChargedBy[y] \in Int
  BY FS_EmptySet DEF UseInv, UseMatches
<1>4. iUsed[i] = 0
  BY <1>2, <1>3, SumMore
<1>5. iUsed' = iUsed
  BY <1>1, <1>4 DEF UseInv, UseTypes
<1> QED
  BY <1>1, <1>5, QuietKeeps DEF Quiet

(* Calls about memory have their own steps.                                *)
LEMMA MemoryOps ==
  /\ \A c \in MemoryCalls : c.op \in {"charge", "alloc", "stat", "copy"} /\ c # Nothing
  /\ \A c \in EventCalls : c.op \in {"init", "found", "put", "unlink"} /\ c # Nothing /\ c \notin MemoryCalls
BY LifeAssumption DEF EventCalls, MemoryCalls

(* What is charged is what is held, in every step.                         *)
LEMMA UseKept ==
  ASSUME LifeInv, LifeTypes', UseInv, [Next]_lifeVars
  PROVE  UseInv'
<1>1. ASSUME NEW s \in Sess, NEW p \in Procs, NEW u \in Uprocs, Open(s, p, u)
      PROVE  UseInv'
  BY <1>1, OpenUse
<1>2. ASSUME NEW s \in Sess, Close(s)
      PROVE  UseInv'
  BY <1>2, QuietKeeps, MemoryOps DEF Close, PutSess, ctlVars, eventVars, instVars, uprocVars,
    useVars, workVars, Quiet, LifeInv, LifeTypes
<1>3. ASSUME NEW s \in Sess, Launch(s)
      PROVE  UseInv'
  BY <1>3, QuietKeeps, MemoryOps DEF Launch, AddTask, GetSess, ctlVars, eventVars, instVars,
    uprocVars, useVars, Quiet, Idle, workVars, LifeInv, LifeTypes
<1>4. ASSUME NEW s \in Sess, NEW e \in Events, EventCreate(s, e)
      PROVE  UseInv'
  BY <1>4, QuietKeeps, MemoryOps DEF EventCreate, ctlVars, instVars, sessVars, uprocVars, useVars,
    Quiet, Idle, workVars, LifeInv, LifeTypes
<1>5. ASSUME NEW s \in Sess, NEW e \in Events, EventDestroy(s, e)
      PROVE  UseInv'
  BY <1>5, QuietKeeps, MemoryOps DEF EventDestroy, PutEventsLocked, ctlVars, instVars, sessVars,
    uprocVars, useVars, workVars, Quiet, LifeInv, LifeTypes
<1>6. ASSUME NEW s \in Sess, NEW e \in Events, EventFind(s, e)
      PROVE  UseInv'
  BY <1>6, QuietKeeps, MemoryOps DEF EventFind, ctlVars, instVars, sessVars, uprocVars, useVars,
    Quiet, Idle, workVars, LifeInv, LifeTypes
<1>7. ASSUME NEW s \in Sess, NEW n \in Asks, MallocCheck(s, n)
      PROVE  UseInv'
  BY <1>7, CheckUse
<1>8. ASSUME NEW s \in Sess, NEW n \in Asks, Free(s, n)
      PROVE  UseInv'
  BY <1>8, FreeUse
<1>9. ASSUME NEW s \in Sess, EventInit(s)
      PROVE  UseInv'
  BY <1>9, QuietKeeps, MemoryOps DEF EventInit, Idle, ctlVars, instVars, sessVars, uprocVars,
    useVars, Quiet, Idle, workVars, LifeInv, LifeTypes
<1>10. ASSUME NEW s \in Sess, EventUse(s)
      PROVE  UseInv'
  BY <1>10, QuietKeeps, MemoryOps DEF EventUse, AddTask, GetSess, RecordGet, Idle, ctlVars,
    instVars, uprocVars, useVars, Quiet, Idle, workVars, LifeInv, LifeTypes
<1>11. ASSUME NEW s \in Sess, EventPut(s)
      PROVE  UseInv'
  BY <1>11, QuietKeeps, MemoryOps DEF EventPut, PutEvent, AfterPut, Idle, ctlVars, instVars,
    sessVars, uprocVars, useVars, Quiet, Idle, workVars, LifeInv, LifeTypes
<1>12. ASSUME NEW s \in Sess, EventUnlink(s)
      PROVE  UseInv'
  BY <1>12, QuietKeeps, MemoryOps DEF EventUnlink, Unlink, Idle, ctlVars, instVars, sessVars,
    uprocVars, useVars, Quiet, Idle, workVars, LifeInv, LifeTypes
<1>13. ASSUME NEW s \in Sess, MallocCharge(s)
      PROVE  UseInv'
  BY <1>13, ChargeUse
<1>14. ASSUME NEW s \in Sess, MallocTake(s)
      PROVE  UseInv'
  BY <1>14, TakeUse
<1>15. ASSUME NEW s \in Sess, MallocStat(s)
      PROVE  UseInv'
  BY <1>15, StatUse
<1>16. ASSUME NEW s \in Sess, MallocReturn(s)
      PROVE  UseInv'
  BY <1>16, ReturnUse
<1>17. ASSUME NEW s \in Sess, FinishEvent(s)
      PROVE  UseInv'
  BY <1>17, QuietKeeps, MemoryOps DEF FinishEvent, PutEvent, AfterPut, Finishable, ctlVars,
    instVars, sessVars, uprocVars, useVars, Quiet, Idle, workVars, LifeInv, LifeTypes
<1>18. ASSUME NEW s \in Sess, FinishUnlink(s)
      PROVE  UseInv'
  BY <1>18, QuietKeeps, MemoryOps DEF FinishUnlink, Unlink, ctlVars, instVars, sessVars,
    uprocVars, useVars, Quiet, Idle, workVars, LifeInv, LifeTypes
<1>19. ASSUME NEW s \in Sess, FinishTask(s)
      PROVE  UseInv'
  BY <1>19, QuietKeeps, MemoryOps DEF FinishTask, PutSess, Finishable, ctlVars, eventVars,
    instVars, uprocVars, useVars, Quiet, Idle, workVars, LifeInv, LifeTypes
<1>20. ASSUME NEW s \in Sess, SessUnlink(s)
      PROVE  UseInv'
  BY <1>20, QuietKeeps, MemoryOps DEF SessUnlink, ctlVars, eventVars, instVars, uprocVars,
    useVars, workVars, Quiet, LifeInv, LifeTypes
<1>21. ASSUME NEW s \in Sess, SessFreeMem(s)
      PROVE  UseInv'
  BY <1>21, ReleaseUse
<1>22. ASSUME NEW s \in Sess, SessPutUproc(s)
      PROVE  UseInv'
  BY <1>22, LeaveUse
<1>23. ASSUME NEW s \in Sess, Revoke(s)
      PROVE  UseInv'
  BY <1>23, QuietKeeps, MemoryOps DEF Revoke, ctlVars, instVars, useVars, Quiet, workVars,
    LifeInv, LifeTypes
<1>24. ASSUME NEW u \in Uprocs, UprocUnlink(u)
      PROVE  UseInv'
  BY <1>24, QuietKeeps, MemoryOps DEF UprocUnlink, ctlVars, eventVars, instVars, sessVars,
    useVars, workVars, Quiet, LifeInv, LifeTypes
<1>25. ASSUME NEW u \in Uprocs, UprocPutEvents(u)
      PROVE  UseInv'
  BY <1>25, QuietKeeps, MemoryOps DEF UprocPutEvents, PutEventsLocked, ctlVars, instVars,
    sessVars, useVars, workVars, Quiet, LifeInv, LifeTypes
<1>26. ASSUME NEW u \in Uprocs, UprocPutInst(u)
      PROVE  UseInv'
  BY <1>26, UprocLeavesUse
<1>27. ASSUME NEW i \in Insts, NEW token \in Groups, CreateInstance(i, token)
      PROVE  UseInv'
  BY <1>27, CreateUse
<1>28. ASSUME NEW i \in Insts, DestroyInstance(i)
      PROVE  UseInv'
  BY <1>28, QuietKeeps, MemoryOps DEF DestroyInstance, PutInst, eventVars, sessVars, uprocVars,
    useVars, workVars, Quiet, LifeInv, LifeTypes
<1>29. ASSUME NEW a \in Admins, NEW i \in Insts, NEW limit \in Limits \cup {Unlimited}, SetFind(a,
  i, limit)
      PROVE  UseInv'
  BY <1>29, QuietKeeps, MemoryOps DEF SetFind, eventVars, sessVars, uprocVars, useVars, workVars,
    Quiet, LifeInv, LifeTypes
<1>30. ASSUME NEW a \in Admins, SetRead(a)
      PROVE  UseInv'
  BY <1>30, QuietKeeps, MemoryOps DEF SetRead, eventVars, instVars, sessVars, uprocVars, useVars,
    workVars, Quiet, LifeInv, LifeTypes
<1>31. ASSUME NEW a \in Admins, SetApply(a)
      PROVE  UseInv'
  BY <1>31, QuietKeeps, MemoryOps DEF SetApply, eventVars, sessVars, uprocVars, useVars, workVars,
    Quiet, LifeInv, LifeTypes
<1>32. ASSUME NEW a \in Admins, SetPut(a)
      PROVE  UseInv'
  BY <1>32, QuietKeeps, MemoryOps DEF SetPut, PutInst, eventVars, sessVars, uprocVars, useVars,
    workVars, Quiet, LifeInv, LifeTypes
<1>33. CASE UNCHANGED lifeVars
  BY <1>33, QuietKeeps DEF Quiet, lifeVars, sessVars, workVars, uprocVars, useVars
<1> QED
  BY <1>1, <1>2, <1>3, <1>4, <1>5, <1>6, <1>7, <1>8, <1>9, <1>10, <1>11, <1>12, <1>13, <1>14,
    <1>15, <1>16, <1>17, <1>18, <1>19, <1>20, <1>21, <1>22, <1>23, <1>24, <1>25, <1>26, <1>27,
    <1>28, <1>29, <1>30, <1>31, <1>32, <1>33 DEF Next, UserCall, IoctlStep, QueueStep,
    SessRelease, UprocRelease, AdminStep

(* The other types.                                                        *)
OtherTypes ==
  /\ sErr \in [Sess -> BOOLEAN]
  /\ uPid \in [Uprocs -> Procs]
  /\ uErr \in [Uprocs -> BOOLEAN]
  /\ uLock \in [Uprocs -> Sess \cup {Nothing}]
  /\ eState \in [Events -> {"NORMAL", "DESTROYED", "REVOKED"}]
  /\ iToken \in [Insts -> Groups]
  /\ mix \in Mixes

(* They stay in every step.                                                *)
LEMMA OthersTyped ==
  ASSUME LifeInv, OtherTypes, [Next]_lifeVars
  PROVE  OtherTypes'
<1>1. ASSUME NEW s \in Sess, NEW p \in Procs, NEW u \in Uprocs, Open(s, p, u)
      PROVE  OtherTypes'
  BY <1>1 DEF Open, JoinInst, eventVars, workVars, Uncharge, useVars, sessVars, uprocVars,
    ctlVars, instVars, OtherTypes, Groups
<1>2. ASSUME NEW s \in Sess, Close(s)
      PROVE  OtherTypes'
  BY <1>2 DEF Close, PutSess, ctlVars, eventVars, instVars, uprocVars, useVars, workVars,
    Uncharge, sessVars, OtherTypes, Groups
<1>3. ASSUME NEW s \in Sess, Launch(s)
      PROVE  OtherTypes'
  BY <1>3 DEF Launch, AddTask, GetSess, ctlVars, eventVars, instVars, uprocVars, useVars,
    Uncharge, workVars, sessVars, OtherTypes, Groups
<1>4. ASSUME NEW s \in Sess, NEW e \in Events, EventCreate(s, e)
      PROVE  OtherTypes'
  BY <1>4 DEF EventCreate, ctlVars, instVars, sessVars, uprocVars, useVars, Uncharge, workVars,
    eventVars, OtherTypes, Groups
<1>5. ASSUME NEW s \in Sess, NEW e \in Events, EventDestroy(s, e)
      PROVE  OtherTypes'
  BY <1>5 DEF EventDestroy, PutEventsLocked, ctlVars, instVars, sessVars, uprocVars, useVars,
    workVars, Uncharge, eventVars, OtherTypes, Groups
<1>6. ASSUME NEW s \in Sess, NEW e \in Events, EventFind(s, e)
      PROVE  OtherTypes'
  BY <1>6 DEF EventFind, ctlVars, instVars, sessVars, uprocVars, useVars, Uncharge, workVars,
    eventVars, OtherTypes, Groups
<1>7. ASSUME NEW s \in Sess, NEW n \in Asks, MallocCheck(s, n)
      PROVE  OtherTypes'
  BY <1>7 DEF MallocCheck, Do, ctlVars, eventVars, instVars, sessVars, uprocVars, Uncharge,
    workVars, useVars, OtherTypes, Groups
<1>8. ASSUME NEW s \in Sess, NEW n \in Asks, Free(s, n)
      PROVE  OtherTypes'
  BY <1>8 DEF Free, ctlVars, eventVars, instVars, sessVars, uprocVars, Uncharge, workVars,
    useVars, OtherTypes, Groups
<1>9. ASSUME NEW s \in Sess, EventInit(s)
      PROVE  OtherTypes'
  BY <1>9 DEF EventInit, Idle, ctlVars, instVars, sessVars, uprocVars, useVars, Uncharge,
    workVars, eventVars, OtherTypes, Groups
<1>10. ASSUME NEW s \in Sess, EventUse(s)
      PROVE  OtherTypes'
  BY <1>10 DEF EventUse, AddTask, GetSess, RecordGet, Idle, ctlVars, instVars, uprocVars, useVars,
    Uncharge, workVars, sessVars, eventVars, OtherTypes, Groups
<1>11. ASSUME NEW s \in Sess, EventPut(s)
      PROVE  OtherTypes'
  BY <1>11 DEF EventPut, PutEvent, AfterPut, Idle, ctlVars, instVars, sessVars, uprocVars,
    useVars, Uncharge, workVars, eventVars, OtherTypes, Groups
<1>12. ASSUME NEW s \in Sess, EventUnlink(s)
      PROVE  OtherTypes'
  BY <1>12 DEF EventUnlink, Unlink, Idle, ctlVars, instVars, sessVars, uprocVars, useVars,
    Uncharge, workVars, eventVars, OtherTypes, Groups
<1>13. ASSUME NEW s \in Sess, MallocCharge(s)
      PROVE  OtherTypes'
  BY <1>13 DEF MallocCharge, Do, Idle, ctlVars, eventVars, instVars, sessVars, uprocVars,
    Uncharge, workVars, useVars, OtherTypes, Groups
<1>14. ASSUME NEW s \in Sess, MallocTake(s)
      PROVE  OtherTypes'
  BY <1>14 DEF MallocTake, Do, MallocFails, Idle, ctlVars, eventVars, instVars, sessVars,
    uprocVars, Uncharge, workVars, useVars, OtherTypes, Groups
<1>15. ASSUME NEW s \in Sess, MallocStat(s)
      PROVE  OtherTypes'
  BY <1>15 DEF MallocStat, Do, Idle, ctlVars, eventVars, instVars, sessVars, uprocVars, Uncharge,
    workVars, useVars, OtherTypes, Groups
<1>16. ASSUME NEW s \in Sess, MallocReturn(s)
      PROVE  OtherTypes'
  BY <1>16 DEF MallocReturn, Idle, ctlVars, eventVars, instVars, sessVars, uprocVars, useVars,
    Uncharge, workVars, OtherTypes, Groups
<1>17. ASSUME NEW s \in Sess, FinishEvent(s)
      PROVE  OtherTypes'
  BY <1>17 DEF FinishEvent, PutEvent, AfterPut, Finishable, ctlVars, instVars, sessVars,
    uprocVars, useVars, Uncharge, workVars, eventVars, OtherTypes, Groups
<1>18. ASSUME NEW s \in Sess, FinishUnlink(s)
      PROVE  OtherTypes'
  BY <1>18 DEF FinishUnlink, Unlink, ctlVars, instVars, sessVars, uprocVars, useVars, Uncharge,
    workVars, eventVars, OtherTypes, Groups
<1>19. ASSUME NEW s \in Sess, FinishTask(s)
      PROVE  OtherTypes'
  BY <1>19 DEF FinishTask, PutSess, Finishable, ctlVars, eventVars, instVars, uprocVars, useVars,
    Uncharge, workVars, sessVars, OtherTypes, Groups
<1>20. ASSUME NEW s \in Sess, SessUnlink(s)
      PROVE  OtherTypes'
  BY <1>20 DEF SessUnlink, ctlVars, eventVars, instVars, uprocVars, useVars, workVars, Uncharge,
    sessVars, OtherTypes, Groups
<1>21. ASSUME NEW s \in Sess, SessFreeMem(s)
      PROVE  OtherTypes'
  BY <1>21 DEF SessFreeMem, ctlVars, eventVars, instVars, uprocVars, Uncharge, workVars, useVars,
    sessVars, OtherTypes, Groups
<1>22. ASSUME NEW s \in Sess, SessPutUproc(s)
      PROVE  OtherTypes'
  BY <1>22 DEF SessPutUproc, ctlVars, eventVars, instVars, useVars, workVars, Uncharge, sessVars,
    uprocVars, OtherTypes, Groups
<1>23. ASSUME NEW s \in Sess, Revoke(s)
      PROVE  OtherTypes'
  BY <1>23 DEF Revoke, ctlVars, instVars, useVars, Uncharge, workVars, sessVars, uprocVars,
    eventVars, OtherTypes, Groups
<1>24. ASSUME NEW u \in Uprocs, UprocUnlink(u)
      PROVE  OtherTypes'
  BY <1>24 DEF UprocUnlink, ctlVars, eventVars, instVars, sessVars, useVars, workVars, Uncharge,
    uprocVars, OtherTypes, Groups
<1>25. ASSUME NEW u \in Uprocs, UprocPutEvents(u)
      PROVE  OtherTypes'
  BY <1>25 DEF UprocPutEvents, PutEventsLocked, ctlVars, instVars, sessVars, useVars, workVars,
    Uncharge, uprocVars, eventVars, OtherTypes, Groups
<1>26. ASSUME NEW u \in Uprocs, UprocPutInst(u)
      PROVE  OtherTypes'
  BY <1>26 DEF UprocPutInst, PutInst, eventVars, instVars, sessVars, useVars, workVars, Uncharge,
    uprocVars, ctlVars, OtherTypes, Groups
<1>27. ASSUME NEW i \in Insts, NEW token \in Groups, CreateInstance(i, token)
      PROVE  OtherTypes'
  BY <1>27 DEF CreateInstance, eventVars, sessVars, uprocVars, workVars, Uncharge, useVars,
    ctlVars, instVars, OtherTypes, Groups
<1>28. ASSUME NEW i \in Insts, DestroyInstance(i)
      PROVE  OtherTypes'
  BY <1>28 DEF DestroyInstance, PutInst, eventVars, sessVars, uprocVars, useVars, workVars,
    Uncharge, ctlVars, instVars, OtherTypes, Groups
<1>29. ASSUME NEW a \in Admins, NEW i \in Insts, NEW limit \in Limits \cup {Unlimited}, SetFind(a,
  i, limit)
      PROVE  OtherTypes'
  BY <1>29 DEF SetFind, eventVars, sessVars, uprocVars, useVars, workVars, Uncharge, ctlVars,
    instVars, OtherTypes, Groups
<1>30. ASSUME NEW a \in Admins, SetRead(a)
      PROVE  OtherTypes'
  BY <1>30 DEF SetRead, eventVars, instVars, sessVars, uprocVars, useVars, workVars, Uncharge,
    ctlVars, OtherTypes, Groups
<1>31. ASSUME NEW a \in Admins, SetApply(a)
      PROVE  OtherTypes'
  BY <1>31 DEF SetApply, eventVars, sessVars, uprocVars, useVars, workVars, Uncharge, ctlVars,
    instVars, OtherTypes, Groups
<1>32. ASSUME NEW a \in Admins, SetPut(a)
      PROVE  OtherTypes'
  BY <1>32 DEF SetPut, PutInst, eventVars, sessVars, uprocVars, useVars, workVars, Uncharge,
    ctlVars, instVars, OtherTypes, Groups
<1>33. CASE UNCHANGED lifeVars
  BY <1>33 DEF lifeVars, sessVars, workVars, uprocVars, useVars, eventVars, ctlVars, instVars,
    OtherTypes
<1> QED
  BY <1>1, <1>2, <1>3, <1>4, <1>5, <1>6, <1>7, <1>8, <1>9, <1>10, <1>11, <1>12, <1>13, <1>14,
    <1>15, <1>16, <1>17, <1>18, <1>19, <1>20, <1>21, <1>22, <1>23, <1>24, <1>25, <1>26, <1>27,
    <1>28, <1>29, <1>30, <1>31, <1>32, <1>33 DEF Next, UserCall, IoctlStep, QueueStep,
    SessRelease, UprocRelease, AdminStep

(* An event that is not there has no references.                           *)
NoneHeld == \A e \in Events : eLife[e] = "NONE" => eRef[e] = 0

(* So it stays: the last reference goes first.                             *)
LEMMA NoneKept ==
  ASSUME LifeInv, NoneHeld, [Next]_lifeVars
  PROVE  NoneHeld'
<1>1. ASSUME NEW s \in Sess, NEW p \in Procs, NEW u \in Uprocs, Open(s, p, u)
      PROVE  NoneHeld'
  BY <1>1, EventsFine DEF Open, JoinInst, eventVars, workVars, NoneHeld, LifeInv, LifeTypes,
    EventFine, EventOk, UserOk, CallOn, Unlinks, EventList, ListedEvents
<1>2. ASSUME NEW s \in Sess, Close(s)
      PROVE  NoneHeld'
  BY <1>2, EventsFine DEF Close, PutSess, ctlVars, eventVars, instVars, uprocVars, useVars,
    workVars, NoneHeld, LifeInv, LifeTypes, EventFine, EventOk, UserOk, CallOn, Unlinks,
    EventList, ListedEvents
<1>3. ASSUME NEW s \in Sess, Launch(s)
      PROVE  NoneHeld'
  BY <1>3, EventsFine DEF Launch, AddTask, GetSess, ctlVars, eventVars, instVars, uprocVars,
    useVars, workVars, NoneHeld, LifeInv, LifeTypes, EventFine, EventOk, UserOk, CallOn, Unlinks,
    EventList, ListedEvents
<1>4. ASSUME NEW s \in Sess, NEW e \in Events, EventCreate(s, e)
      PROVE  NoneHeld'
  BY <1>4, EventsFine DEF EventCreate, ctlVars, instVars, sessVars, uprocVars, useVars, eventVars,
    workVars, NoneHeld, LifeInv, LifeTypes, EventFine, EventOk, UserOk, CallOn, Unlinks,
    EventList, ListedEvents
<1>5. ASSUME NEW s \in Sess, NEW e \in Events, EventDestroy(s, e)
      PROVE  NoneHeld'
  BY <1>5, EventsFine DEF EventDestroy, Destroyable, PutEventsLocked, ctlVars, instVars, sessVars, uprocVars,
    useVars, workVars, eventVars, NoneHeld, LifeInv, LifeTypes, EventFine, EventOk, UserOk,
    CallOn, Unlinks, EventList, ListedEvents
<1>6. ASSUME NEW s \in Sess, NEW e \in Events, EventFind(s, e)
      PROVE  NoneHeld'
  BY <1>6, EventsFine DEF EventFind, ctlVars, instVars, sessVars, uprocVars, useVars, eventVars,
    workVars, NoneHeld, LifeInv, LifeTypes, EventFine, EventOk, UserOk, CallOn, Unlinks,
    EventList, ListedEvents
<1>7. ASSUME NEW s \in Sess, NEW n \in Asks, MallocCheck(s, n)
      PROVE  NoneHeld'
  BY <1>7, EventsFine DEF MallocCheck, Do, ctlVars, eventVars, instVars, sessVars, uprocVars,
    workVars, NoneHeld, LifeInv, LifeTypes, EventFine, EventOk, UserOk, CallOn, Unlinks,
    EventList, ListedEvents
<1>8. ASSUME NEW s \in Sess, NEW n \in Asks, Free(s, n)
      PROVE  NoneHeld'
  BY <1>8, EventsFine DEF Free, ctlVars, eventVars, instVars, sessVars, uprocVars, workVars,
    NoneHeld, LifeInv, LifeTypes, EventFine, EventOk, UserOk, CallOn, Unlinks, EventList,
    ListedEvents
<1>9. ASSUME NEW s \in Sess, EventInit(s)
      PROVE  NoneHeld'
  BY <1>9, EventsFine DEF EventInit, Idle, ctlVars, instVars, sessVars, uprocVars, useVars,
    eventVars, workVars, NoneHeld, LifeInv, LifeTypes, EventFine, EventOk, UserOk, CallOn,
    Unlinks, EventList, ListedEvents
<1>10. ASSUME NEW s \in Sess, EventUse(s)
      PROVE  NoneHeld'
  BY <1>10, EventsFine DEF EventUse, AddTask, GetSess, RecordGet, Idle, ctlVars, instVars,
    uprocVars, useVars, eventVars, workVars, NoneHeld, LifeInv, LifeTypes, EventFine, EventOk,
    UserOk, CallOn, Unlinks, EventList, ListedEvents
<1>11. ASSUME NEW s \in Sess, EventPut(s)
      PROVE  NoneHeld'
  BY <1>11, EventsFine DEF EventPut, PutEvent, AfterPut, Idle, ctlVars, instVars, sessVars,
    uprocVars, useVars, eventVars, workVars, NoneHeld, LifeInv, LifeTypes, EventFine, EventOk,
    UserOk, CallOn, Unlinks, EventList, ListedEvents
<1>12. ASSUME NEW s \in Sess, EventUnlink(s)
      PROVE  NoneHeld'
  BY <1>12, EventsFine DEF EventUnlink, Unlink, Idle, ctlVars, instVars, sessVars, uprocVars,
    useVars, eventVars, workVars, NoneHeld, LifeInv, LifeTypes, EventFine, EventOk, UserOk,
    CallOn, Unlinks, EventList, ListedEvents
<1>13. ASSUME NEW s \in Sess, MallocCharge(s)
      PROVE  NoneHeld'
  BY <1>13, EventsFine DEF MallocCharge, Do, Idle, ctlVars, eventVars, instVars, sessVars,
    uprocVars, workVars, NoneHeld, LifeInv, LifeTypes, EventFine, EventOk, UserOk, CallOn,
    Unlinks, EventList, ListedEvents
<1>14. ASSUME NEW s \in Sess, MallocTake(s)
      PROVE  NoneHeld'
  BY <1>14, EventsFine DEF MallocTake, Do, MallocFails, Idle, ctlVars, eventVars, instVars,
    sessVars, uprocVars, workVars, NoneHeld, LifeInv, LifeTypes, EventFine, EventOk, UserOk,
    CallOn, Unlinks, EventList, ListedEvents
<1>15. ASSUME NEW s \in Sess, MallocStat(s)
      PROVE  NoneHeld'
  BY <1>15, EventsFine DEF MallocStat, Do, Idle, ctlVars, eventVars, instVars, sessVars,
    uprocVars, workVars, NoneHeld, LifeInv, LifeTypes, EventFine, EventOk, UserOk, CallOn,
    Unlinks, EventList, ListedEvents
<1>16. ASSUME NEW s \in Sess, MallocReturn(s)
      PROVE  NoneHeld'
  BY <1>16, EventsFine DEF MallocReturn, Idle, ctlVars, eventVars, instVars, sessVars, uprocVars,
    useVars, workVars, NoneHeld, LifeInv, LifeTypes, EventFine, EventOk, UserOk, CallOn, Unlinks,
    EventList, ListedEvents
<1>17. ASSUME NEW s \in Sess, FinishEvent(s)
      PROVE  NoneHeld'
  BY <1>17, EventsFine DEF FinishEvent, PutEvent, AfterPut, Finishable, ctlVars, instVars,
    sessVars, uprocVars, useVars, eventVars, workVars, NoneHeld, LifeInv, LifeTypes, EventFine,
    EventOk, UserOk, CallOn, Unlinks, EventList, ListedEvents
<1>18. ASSUME NEW s \in Sess, FinishUnlink(s)
      PROVE  NoneHeld'
  BY <1>18, EventsFine DEF FinishUnlink, Unlink, ctlVars, instVars, sessVars, uprocVars, useVars,
    eventVars, workVars, NoneHeld, LifeInv, LifeTypes, EventFine, EventOk, UserOk, CallOn,
    Unlinks, EventList, ListedEvents
<1>19. ASSUME NEW s \in Sess, FinishTask(s)
      PROVE  NoneHeld'
  BY <1>19, EventsFine DEF FinishTask, PutSess, Finishable, ctlVars, eventVars, instVars,
    uprocVars, useVars, workVars, NoneHeld, LifeInv, LifeTypes, EventFine, EventOk, UserOk,
    CallOn, Unlinks, EventList, ListedEvents
<1>20. ASSUME NEW s \in Sess, SessUnlink(s)
      PROVE  NoneHeld'
  BY <1>20, EventsFine DEF SessUnlink, ctlVars, eventVars, instVars, uprocVars, useVars, workVars,
    NoneHeld, LifeInv, LifeTypes, EventFine, EventOk, UserOk, CallOn, Unlinks, EventList,
    ListedEvents
<1>21. ASSUME NEW s \in Sess, SessFreeMem(s)
      PROVE  NoneHeld'
  BY <1>21, EventsFine DEF SessFreeMem, ctlVars, eventVars, instVars, uprocVars, workVars,
    NoneHeld, LifeInv, LifeTypes, EventFine, EventOk, UserOk, CallOn, Unlinks, EventList,
    ListedEvents
<1>22. ASSUME NEW s \in Sess, SessPutUproc(s)
      PROVE  NoneHeld'
  BY <1>22, EventsFine DEF SessPutUproc, ctlVars, eventVars, instVars, useVars, workVars,
    NoneHeld, LifeInv, LifeTypes, EventFine, EventOk, UserOk, CallOn, Unlinks, EventList,
    ListedEvents
<1>23. ASSUME NEW s \in Sess, Revoke(s)
      PROVE  NoneHeld'
  BY <1>23, EventsFine DEF Revoke, ctlVars, instVars, useVars, eventVars, workVars, NoneHeld,
    LifeInv, LifeTypes, EventFine, EventOk, UserOk, CallOn, Unlinks, EventList, ListedEvents
<1>24. ASSUME NEW u \in Uprocs, UprocUnlink(u)
      PROVE  NoneHeld'
  BY <1>24, EventsFine DEF UprocUnlink, ctlVars, eventVars, instVars, sessVars, useVars, workVars,
    NoneHeld, LifeInv, LifeTypes, EventFine, EventOk, UserOk, CallOn, Unlinks, EventList,
    ListedEvents
<1>25. ASSUME NEW u \in Uprocs, UprocPutEvents(u)
      PROVE  NoneHeld'
  BY <1>25, EventsFine DEF UprocPutEvents, PutEventsLocked, ctlVars, instVars, sessVars, useVars,
    workVars, eventVars, NoneHeld, LifeInv, LifeTypes, EventFine, EventOk, UserOk, CallOn,
    Unlinks, EventList, ListedEvents
<1>26. ASSUME NEW u \in Uprocs, UprocPutInst(u)
      PROVE  NoneHeld'
  BY <1>26, EventsFine DEF UprocPutInst, PutInst, eventVars, instVars, sessVars, useVars,
    workVars, NoneHeld, LifeInv, LifeTypes, EventFine, EventOk, UserOk, CallOn, Unlinks,
    EventList, ListedEvents
<1>27. ASSUME NEW i \in Insts, NEW token \in Groups, CreateInstance(i, token)
      PROVE  NoneHeld'
  BY <1>27, EventsFine DEF CreateInstance, eventVars, sessVars, uprocVars, workVars, NoneHeld,
    LifeInv, LifeTypes, EventFine, EventOk, UserOk, CallOn, Unlinks, EventList, ListedEvents
<1>28. ASSUME NEW i \in Insts, DestroyInstance(i)
      PROVE  NoneHeld'
  BY <1>28, EventsFine DEF DestroyInstance, PutInst, eventVars, sessVars, uprocVars, useVars,
    workVars, NoneHeld, LifeInv, LifeTypes, EventFine, EventOk, UserOk, CallOn, Unlinks,
    EventList, ListedEvents
<1>29. ASSUME NEW a \in Admins, NEW i \in Insts, NEW limit \in Limits \cup {Unlimited}, SetFind(a,
  i, limit)
      PROVE  NoneHeld'
  BY <1>29, EventsFine DEF SetFind, eventVars, sessVars, uprocVars, useVars, workVars, NoneHeld,
    LifeInv, LifeTypes, EventFine, EventOk, UserOk, CallOn, Unlinks, EventList, ListedEvents
<1>30. ASSUME NEW a \in Admins, SetRead(a)
      PROVE  NoneHeld'
  BY <1>30, EventsFine DEF SetRead, eventVars, instVars, sessVars, uprocVars, useVars, workVars,
    NoneHeld, LifeInv, LifeTypes, EventFine, EventOk, UserOk, CallOn, Unlinks, EventList,
    ListedEvents
<1>31. ASSUME NEW a \in Admins, SetApply(a)
      PROVE  NoneHeld'
  BY <1>31, EventsFine DEF SetApply, eventVars, sessVars, uprocVars, useVars, workVars, NoneHeld,
    LifeInv, LifeTypes, EventFine, EventOk, UserOk, CallOn, Unlinks, EventList, ListedEvents
<1>32. ASSUME NEW a \in Admins, SetPut(a)
      PROVE  NoneHeld'
  BY <1>32, EventsFine DEF SetPut, PutInst, eventVars, sessVars, uprocVars, useVars, workVars,
    NoneHeld, LifeInv, LifeTypes, EventFine, EventOk, UserOk, CallOn, Unlinks, EventList,
    ListedEvents
<1>33. CASE UNCHANGED lifeVars
  BY <1>33 DEF lifeVars, eventVars, NoneHeld
<1> QED
  BY <1>1, <1>2, <1>3, <1>4, <1>5, <1>6, <1>7, <1>8, <1>9, <1>10, <1>11, <1>12, <1>13, <1>14,
    <1>15, <1>16, <1>17, <1>18, <1>19, <1>20, <1>21, <1>22, <1>23, <1>24, <1>25, <1>26, <1>27,
    <1>28, <1>29, <1>30, <1>31, <1>32, <1>33 DEF Next, UserCall, IoctlStep, QueueStep,
    SessRelease, UprocRelease, AdminStep

-----------------------------------------------------------------------------
(* Pages assigned to instances, when limits are set by one thread at a     *)
(* time: two of them may both read the limit they replace (kl_cxpu.c:542). *)
OneSetter == \A a, b \in Admins : a = b

Limited == {i \in Instances : iLimit[i] # Unlimited}
LimitNow(i) == IF iLimit[i] = Unlimited THEN 0 ELSE iLimit[i]

AssignedInv ==
  /\ assigned \in 0 .. Total
  /\ assigned = SumOf(iLimit, Limited)
  /\ \A a \in Admins : admin[a] # Nothing /\ admin[a].op = "apply" => admin[a].last = LimitNow(admin[a].inst)

(* The limits that are added up.                                           *)
LEMMA LimitedFinite ==
  ASSUME LifeInv
  PROVE  IsFiniteSet(Limited) /\ Limited \subseteq Insts /\ \A i \in Limited : iLimit[i] \in Nat
<1>1. Limited \subseteq Insts /\ \A i \in Limited : iLimit[i] # Unlimited
  BY DEF Limited, Instances
<1>2. \A i \in Insts : iLimit[i] \in Nat \/ iLimit[i] = Unlimited
  BY LifeAssumption DEF LifeInv, LimitsTyped
<1> QED
  BY <1>1, <1>2, LifeAssumption, FS_Subset

(* The same after a step.                                                  *)
LEMMA LimitedNext ==
  ASSUME LifeTypes', LimitsTyped'
  PROVE  IsFiniteSet(Limited') /\ Limited' \subseteq Insts /\ \A i \in Limited' : iLimit'[i] \in Nat
<1>1. Limited' \subseteq Insts /\ \A i \in Limited' : iLimit'[i] # Unlimited
  BY DEF Limited, Instances
<1>2. \A i \in Insts : iLimit'[i] \in Nat \/ iLimit'[i] = Unlimited
  BY LifeAssumption DEF LimitsTyped
<1> QED
  BY <1>1, <1>2, LifeAssumption, FS_Subset

(* A step that leaves limits alone, and does not apply one.                *)
SameLimits ==
  /\ UNCHANGED <<iLimit, assigned>>
  /\ Instances' = Instances
  /\ \A a \in Admins : admin'[a] # Nothing /\ admin'[a].op = "apply" =>
       admin[a] # Nothing /\ admin[a].op = "apply" /\ admin'[a] = admin[a]

(* Such a step keeps what is assigned.                                     *)
LEMMA LimitsStay ==
  ASSUME AssignedInv, SameLimits
  PROVE  AssignedInv'
<1>1. Limited' = Limited
  BY DEF Limited, SameLimits
<1> QED
  BY <1>1 DEF AssignedInv, SameLimits, LimitNow

(* An instance is put back; the last reference gives its limit back.       *)
LEMMA PutAssigned ==
  ASSUME LifeInv, LifeTypes', LimitsTyped', AssignedInv, NEW i \in Insts, iRef[i] > 0, PutInst(i),
         \A a \in Admins : admin'[a] = admin[a] \/ admin'[a] = Nothing
  PROVE  AssignedInv'
<1>1. iRef' = [iRef EXCEPT ![i] = @ - 1] /\ iLimit' = iLimit /\ iRef[i] \in Int
      /\ assigned' = IF iRef[i] = 1 /\ iLimit[i] # Unlimited THEN assigned - iLimit[i] ELSE assigned
  BY DEF PutInst, LifeInv, LifeTypes
<1>2. (\A a \in Admins : admin[a] # Nothing /\ admin[a].op = "apply" => admin[a].last = LimitNow(admin[a].inst))'
  BY <1>1 DEF AssignedInv, LimitNow
<1>3. CASE iRef[i] = 1 /\ iLimit[i] # Unlimited
  <2>1. i \in Limited /\ Limited' = Limited \ {i}
    BY <1>1, <1>3 DEF Limited, Instances, LifeInv, LifeTypes
  <2>2. SumOf(iLimit, Limited) = iLimit[i] + SumOf(iLimit, Limited \ {i})
    BY <2>1, LimitedFinite, SumMore
  <2>3. SumOf(iLimit, Limited \ {i}) \in Nat
    <3>1. IsFiniteSet(Limited') /\ \A j \in Limited' : iLimit[j] \in Nat
      BY <1>1, LimitedNext
    <3> QED
      BY <2>1, <3>1, SumNat
  <2>4. iLimit[i] \in Nat
    BY <2>1, LimitedFinite
  <2>5. assigned' = SumOf(iLimit', Limited') /\ assigned' \in 0 .. Total
    <3> DEFINE c == SumOf(iLimit, Limited \ {i})
               d == iLimit[i]
    <3>1. assigned = d + c /\ assigned' = assigned - d /\ c \in Nat /\ d \in Nat /\ assigned \in 0 .. Total
      BY <1>1, <1>3, <2>2, <2>3, <2>4 DEF AssignedInv
    <3>2. assigned' = c /\ assigned' \in 0 .. Total
      <4> HIDE DEF c, d
      <4> QED
        BY <3>1, LifeAssumption
    <3> QED
      BY <1>1, <2>1, <3>2
  <2> QED
    BY <1>2, <2>5 DEF AssignedInv
<1>4. CASE ~ (iRef[i] = 1 /\ iLimit[i] # Unlimited)
  <2>1. Limited' = Limited
    BY <1>1, <1>4 DEF Limited, Instances, LifeInv, LifeTypes
  <2> QED
    BY <1>1, <1>2, <1>4, <2>1 DEF AssignedInv
<1> QED
  BY <1>3, <1>4

(* An instance comes, without a limit.                                     *)
LEMMA CreateAssigned ==
  ASSUME LifeInv, AssignedInv, NEW i \in Insts, NEW token \in Groups, CreateInstance(i, token)
  PROVE  AssignedInv'
<1>1. iRef[i] = 0 /\ iRef' = [iRef EXCEPT ![i] = 1] /\ iLimit' = [iLimit EXCEPT ![i] = Unlimited]
      /\ UNCHANGED <<assigned, admin>>
  BY DEF CreateInstance
<1>2. i \notin Limited /\ Limited' = Limited
  BY <1>1 DEF Limited, Instances, LifeInv, LifeTypes, LimitsTyped
<1>3. \A j \in Limited : iLimit'[j] = iLimit[j]
  BY <1>1, <1>2 DEF Limited, Instances, LifeInv, LimitsTyped
<1>4. SumOf(iLimit', Limited) = SumOf(iLimit, Limited)
  BY <1>3, LimitedFinite, SumSame
<1>5. \A a \in Admins : admin[a] # Nothing => admin[a].inst # i
  BY <1>1 DEF LifeInv, InstInv, InstOk, Setters
<1>6. \A a \in Admins : admin[a] # Nothing => admin[a].inst \in Insts
  BY DEF LifeInv, LifeTypes, AdminCalls
<1>7. \A a \in Admins : admin[a] # Nothing => LimitNow(admin[a].inst)' = LimitNow(admin[a].inst)
  BY <1>1, <1>5, <1>6 DEF LimitNow, LifeInv, LimitsTyped
<1> QED
  BY <1>1, <1>2, <1>4, <1>7 DEF AssignedInv

(* What the instance had is given back when the new limit is taken.        *)
LEMMA ApplyAssigned ==
  ASSUME LifeInv, LifeTypes', LimitsTyped', OneSetter, AssignedInv, NEW a \in Admins, SetApply(a)
  PROVE  AssignedInv'
<1> DEFINE i == admin[a].inst
           last == admin[a].last
           limit == admin[a].limit
<1>1. admin[a] \in AdminCalls /\ admin[a] # Nothing /\ admin[a].op = "apply"
      /\ admin' = [admin EXCEPT ![a].op = "put"] /\ iRef' = iRef
      /\ IF limit = Unlimited \/ limit <= Available(last)
         THEN assigned' = Reassigned(last, limit) /\ iLimit' = [iLimit EXCEPT ![i] = limit]
         ELSE UNCHANGED <<assigned, iLimit>>
  BY DEF SetApply, LifeInv, LifeTypes
<1>2. i \in Insts /\ limit \in Limits \cup {Unlimited} /\ last = LimitNow(i) /\ iRef[i] > 0
  <2>1. i \in Insts /\ limit \in Limits \cup {Unlimited}
    BY <1>1 DEF AdminCalls
  <2>2. a \in Setters(i)
    BY <1>1 DEF Setters
  <2>3. iRef[i] > 0
    BY <2>1, <2>2 DEF LifeInv, InstInv, InstOk, LifeTypes
  <2> QED
    BY <1>1, <2>1, <2>3 DEF AssignedInv
<1>3. \A b \in Admins : b = a
  BY DEF OneSetter
<1>4. admin'[a].op = "put"
  BY <1>1 DEF AdminCalls, LifeInv, LifeTypes
<1>5. \A b \in Admins : ~ (admin'[b] # Nothing /\ admin'[b].op = "apply")
  BY <1>3, <1>4
<1> HIDE DEF i, last, limit
<1>6. CASE limit = Unlimited \/ limit <= Available(last)
  <2> DEFINE new == IF limit = Unlimited THEN 0 ELSE limit
  <2>1. assigned' = assigned - last + new /\ iLimit' = [iLimit EXCEPT ![i] = limit]
    BY <1>1, <1>6 DEF Reassigned
  <2>2. Limited \ {i} = Limited' \ {i}
    BY <1>1, <1>2, <2>1 DEF Limited, Instances, LifeInv, LimitsTyped
  <2>3. Part(iLimit, Limited, i) = last /\ Part(iLimit', Limited', i) = new
    BY <1>1, <1>2, <2>1 DEF Part, Limited, Instances, LimitNow, LifeInv, LimitsTyped
  <2>4. \A j \in Limited \ {i} : iLimit[j] = iLimit'[j]
    BY <1>2, <2>1, LimitedFinite DEF LifeInv, LimitsTyped
  <2>5. IsFiniteSet(Limited) /\ IsFiniteSet(Limited') /\ (\A j \in Limited : iLimit[j] \in Int)
        /\ \A j \in Limited' : iLimit'[j] \in Int
    BY LimitedFinite, LimitedNext
  <2>6. /\ SumOf(iLimit, Limited) \in Int /\ SumOf(iLimit', Limited') \in Int
        /\ SumOf(iLimit', Limited') - Part(iLimit', Limited', i) = SumOf(iLimit, Limited) - Part(iLimit, Limited, i)
    BY <2>2, <2>4, <2>5, SumMoved
  <2>7. SumOf(iLimit', Limited') \in Nat
    BY LimitedNext, SumNat
  <2>8. last \in Nat /\ new \in Nat
    BY <1>2, LifeAssumption DEF LimitNow, LifeInv, LimitsTyped
  <2>9. assigned \in 0 .. Total /\ assigned = SumOf(iLimit, Limited)
    BY DEF AssignedInv
  <2>10. limit # Unlimited => new = limit /\ limit <= Total + last - assigned
    BY <1>6 DEF Available
  <2>11. limit = Unlimited => new = 0
    OBVIOUS
  <2>12. assigned' = SumOf(iLimit', Limited') /\ assigned' \in 0 .. Total
    <3> DEFINE c == SumOf(iLimit', Limited')
    <3>1. c \in Nat /\ c - new = assigned - last
      BY <2>3, <2>6, <2>7, <2>9
    <3> HIDE DEF c, new
    <3>2. assigned' = c
      BY <2>1, <2>8, <2>9, <3>1
    <3>3. last <= assigned
      <4>1. CASE i \in Limited
        <5>1. iLimit[i] <= SumOf(iLimit, Limited) /\ iLimit[i] = last
          BY <2>3, <4>1, LimitedFinite, SumNat DEF Part
        <5> QED
          BY <2>9, <5>1
      <4>2. CASE i \notin Limited
        BY <2>3, <2>9, <4>2 DEF Part
      <4> QED
        BY <4>1, <4>2
    <3>4. assigned - last + new <= Total
      BY <2>8, <2>9, <2>10, <2>11, <3>3, LifeAssumption
    <3>5. assigned' \in 0 .. Total
      BY <2>1, <2>8, <2>9, <3>3, <3>4, LifeAssumption
    <3> QED
      BY <3>2, <3>5 DEF c
  <2> QED
    BY <1>5, <2>12 DEF AssignedInv
<1>7. CASE ~ (limit = Unlimited \/ limit <= Available(last))
  <2>1. Limited' = Limited /\ UNCHANGED <<assigned, iLimit>>
    BY <1>1, <1>7 DEF Limited, Instances
  <2> QED
    BY <1>5, <2>1 DEF AssignedInv
<1> QED
  BY <1>6, <1>7

(* The limit that is replaced is read.                                     *)
LEMMA ReadAssigned ==
  ASSUME LifeInv, AssignedInv, NEW a \in Admins, SetRead(a)
  PROVE  AssignedInv'
<1>1. admin[a] \in AdminCalls /\ UNCHANGED <<iRef, iLimit, assigned>>
      /\ admin' = [admin EXCEPT ![a] = [@ EXCEPT !.op = "apply", !.last = LimitNow(admin[a].inst)]]
  BY DEF SetRead, LifeInv, LifeTypes, LimitNow, instVars
<1>2. admin'[a].last = LimitNow(admin[a].inst) /\ admin'[a].inst = admin[a].inst
  BY <1>1 DEF AdminCalls, LifeInv, LifeTypes
<1>3. \A b \in Admins \ {a} : admin'[b] = admin[b]
  BY <1>1 DEF LifeInv, LifeTypes
<1>4. Limited' = Limited /\ \A i : LimitNow(i)' = LimitNow(i)
  BY <1>1 DEF Limited, Instances, LimitNow
<1> QED
  BY <1>1, <1>2, <1>3, <1>4 DEF AssignedInv

(* An instance that a process joins, or whose limit is to be set, is there *)
(* already.                                                                *)
LEMMA OpenAssigned ==
  ASSUME LifeInv, AssignedInv, NEW s \in Sess, NEW p \in Procs, NEW u \in Uprocs, Open(s, p, u)
  PROVE  AssignedInv'
<1>1. UNCHANGED <<iLimit, assigned, admin>>
  BY DEF Open
<1>2. Instances' = Instances
  <2>1. CASE UNCHANGED iRef
    BY <2>1 DEF Instances
  <2>2. CASE JoinInst(u, GroupOf[p])
    BY <2>2 DEF JoinInst, Instances, LifeInv, LifeTypes
  <2> QED
    BY <2>1, <2>2 DEF Open
<1> QED
  BY <1>1, <1>2, LimitsStay DEF SameLimits

(* A setter finds an instance that is there.                               *)
LEMMA FindAssigned ==
  ASSUME LifeInv, AssignedInv, NEW a \in Admins, NEW i \in Insts, NEW limit \in Limits \cup {Unlimited},
         SetFind(a, i, limit)
  PROVE  AssignedInv'
<1>1. UNCHANGED <<iLimit, assigned>> /\ iRef[i] > 0 /\ iRef' = [iRef EXCEPT ![i] = @ + 1]
      /\ admin' = [admin EXCEPT ![a] = [op |-> "read", inst |-> i, limit |-> limit, last |-> 0]]
  BY DEF SetFind
<1>2. Instances' = Instances
  BY <1>1 DEF Instances, LifeInv, LifeTypes
<1>3. \A b \in Admins : admin'[b] = admin[b] \/ admin'[b].op = "read"
  BY <1>1 DEF LifeInv, LifeTypes
<1> QED
  BY <1>1, <1>2, <1>3, LimitsStay DEF SameLimits

(* A reference that a process or a setter holds counts.                    *)
LEMMA LeaveAssigned ==
  ASSUME LifeInv, LifeTypes', LimitsTyped', AssignedInv, NEW u \in Uprocs, UprocPutInst(u)
  PROVE  AssignedInv'
<1>1. UNCHANGED admin
  BY DEF UprocPutInst
<1>2. CASE uInst[u] = Nothing
  BY <1>1, <1>2, LimitsStay DEF UprocPutInst, instVars, SameLimits, Instances
<1>3. CASE uInst[u] # Nothing
  <2>1. uInst[u] \in Insts /\ PutInst(uInst[u]) /\ Members(uInst[u]) # {}
    BY <1>3 DEF UprocPutInst, LifeInv, LifeTypes, Members
  <2>2. iRef[uInst[u]] > 0
    BY <2>1 DEF LifeInv, InstInv, InstOk, LifeTypes
  <2> QED
    BY <1>1, <2>1, <2>2, PutAssigned
<1> QED
  BY <1>2, <1>3

(* And lets go of it.                                                      *)
LEMMA SetPutAssigned ==
  ASSUME LifeInv, LifeTypes', LimitsTyped', AssignedInv, NEW a \in Admins, SetPut(a)
  PROVE  AssignedInv'
<1> DEFINE i == admin[a].inst
<1>1. admin[a] # Nothing /\ i \in Insts /\ PutInst(i) /\ admin' = [admin EXCEPT ![a] = Nothing]
  BY DEF SetPut, LifeInv, LifeTypes, AdminCalls
<1>2. a \in Setters(i)
  BY <1>1 DEF Setters
<1>3. iRef[i] > 0
  BY <1>1, <1>2 DEF LifeInv, InstInv, InstOk, LifeTypes
<1>4. \A b \in Admins : admin'[b] = admin[b] \/ admin'[b] = Nothing
  BY <1>1 DEF LifeInv, LifeTypes
<1> HIDE DEF i
<1> QED
  BY <1>1, <1>3, <1>4, PutAssigned

(* An instance that is destroyed gives its limit back.                     *)
LEMMA DestroyAssigned ==
  ASSUME LifeInv, LifeTypes', LimitsTyped', AssignedInv, NEW i \in Insts, DestroyInstance(i)
  PROVE  AssignedInv'
<1>1. iRef[i] > 0 /\ PutInst(i) /\ UNCHANGED admin
  BY DEF DestroyInstance, NotBusy
<1> QED
  BY <1>1, PutAssigned

(* So what is assigned is what the limits say, in every step.              *)
LEMMA AssignedKept ==
  ASSUME LifeInv, LifeTypes', LimitsTyped', OneSetter, AssignedInv, [Next]_lifeVars
  PROVE  AssignedInv'
<1>1. ASSUME NEW s \in Sess, NEW p \in Procs, NEW u \in Uprocs, Open(s, p, u)
      PROVE  AssignedInv'
  BY <1>1, OpenAssigned
<1>2. ASSUME NEW s \in Sess, Close(s)
      PROVE  AssignedInv'
  BY <1>2, LimitsStay DEF Close, PutSess, ctlVars, eventVars, instVars, uprocVars, useVars,
    workVars, SameLimits, Instances
<1>3. ASSUME NEW s \in Sess, Launch(s)
      PROVE  AssignedInv'
  BY <1>3, LimitsStay DEF Launch, AddTask, GetSess, ctlVars, eventVars, instVars, uprocVars,
    useVars, SameLimits, Instances
<1>4. ASSUME NEW s \in Sess, NEW e \in Events, EventCreate(s, e)
      PROVE  AssignedInv'
  BY <1>4, LimitsStay DEF EventCreate, ctlVars, instVars, sessVars, uprocVars, useVars,
    SameLimits, Instances
<1>5. ASSUME NEW s \in Sess, NEW e \in Events, EventDestroy(s, e)
      PROVE  AssignedInv'
  BY <1>5, LimitsStay DEF EventDestroy, PutEventsLocked, ctlVars, instVars, sessVars, uprocVars,
    useVars, workVars, SameLimits, Instances
<1>6. ASSUME NEW s \in Sess, NEW e \in Events, EventFind(s, e)
      PROVE  AssignedInv'
  BY <1>6, LimitsStay DEF EventFind, ctlVars, instVars, sessVars, uprocVars, useVars, SameLimits,
    Instances
<1>7. ASSUME NEW s \in Sess, NEW n \in Asks, MallocCheck(s, n)
      PROVE  AssignedInv'
  BY <1>7, LimitsStay DEF MallocCheck, Do, ctlVars, eventVars, instVars, sessVars, uprocVars,
    SameLimits, Instances
<1>8. ASSUME NEW s \in Sess, NEW n \in Asks, Free(s, n)
      PROVE  AssignedInv'
  BY <1>8, LimitsStay DEF Free, ctlVars, eventVars, instVars, sessVars, uprocVars, SameLimits,
    Instances
<1>9. ASSUME NEW s \in Sess, EventInit(s)
      PROVE  AssignedInv'
  BY <1>9, LimitsStay DEF EventInit, Idle, ctlVars, instVars, sessVars, uprocVars, useVars,
    SameLimits, Instances
<1>10. ASSUME NEW s \in Sess, EventUse(s)
      PROVE  AssignedInv'
  BY <1>10, LimitsStay DEF EventUse, AddTask, GetSess, RecordGet, Idle, ctlVars, instVars,
    uprocVars, useVars, SameLimits, Instances
<1>11. ASSUME NEW s \in Sess, EventPut(s)
      PROVE  AssignedInv'
  BY <1>11, LimitsStay DEF EventPut, PutEvent, AfterPut, Idle, ctlVars, instVars, sessVars,
    uprocVars, useVars, SameLimits, Instances
<1>12. ASSUME NEW s \in Sess, EventUnlink(s)
      PROVE  AssignedInv'
  BY <1>12, LimitsStay DEF EventUnlink, Unlink, Idle, ctlVars, instVars, sessVars, uprocVars,
    useVars, SameLimits, Instances
<1>13. ASSUME NEW s \in Sess, MallocCharge(s)
      PROVE  AssignedInv'
  BY <1>13, LimitsStay DEF MallocCharge, Do, Idle, ctlVars, eventVars, instVars, sessVars,
    uprocVars, SameLimits, Instances
<1>14. ASSUME NEW s \in Sess, MallocTake(s)
      PROVE  AssignedInv'
  BY <1>14, LimitsStay DEF MallocTake, Do, MallocFails, Idle, ctlVars, eventVars, instVars,
    sessVars, uprocVars, SameLimits, Instances
<1>15. ASSUME NEW s \in Sess, MallocStat(s)
      PROVE  AssignedInv'
  BY <1>15, LimitsStay DEF MallocStat, Do, Idle, ctlVars, eventVars, instVars, sessVars,
    uprocVars, SameLimits, Instances
<1>16. ASSUME NEW s \in Sess, MallocReturn(s)
      PROVE  AssignedInv'
  BY <1>16, LimitsStay DEF MallocReturn, Idle, ctlVars, eventVars, instVars, sessVars, uprocVars,
    useVars, SameLimits, Instances
<1>17. ASSUME NEW s \in Sess, FinishEvent(s)
      PROVE  AssignedInv'
  BY <1>17, LimitsStay DEF FinishEvent, PutEvent, AfterPut, Finishable, ctlVars, instVars,
    sessVars, uprocVars, useVars, SameLimits, Instances
<1>18. ASSUME NEW s \in Sess, FinishUnlink(s)
      PROVE  AssignedInv'
  BY <1>18, LimitsStay DEF FinishUnlink, Unlink, ctlVars, instVars, sessVars, uprocVars, useVars,
    SameLimits, Instances
<1>19. ASSUME NEW s \in Sess, FinishTask(s)
      PROVE  AssignedInv'
  BY <1>19, LimitsStay DEF FinishTask, PutSess, Finishable, ctlVars, eventVars, instVars,
    uprocVars, useVars, SameLimits, Instances
<1>20. ASSUME NEW s \in Sess, SessUnlink(s)
      PROVE  AssignedInv'
  BY <1>20, LimitsStay DEF SessUnlink, ctlVars, eventVars, instVars, uprocVars, useVars, workVars,
    SameLimits, Instances
<1>21. ASSUME NEW s \in Sess, SessFreeMem(s)
      PROVE  AssignedInv'
  BY <1>21, LimitsStay DEF SessFreeMem, ctlVars, eventVars, instVars, uprocVars, SameLimits,
    Instances
<1>22. ASSUME NEW s \in Sess, SessPutUproc(s)
      PROVE  AssignedInv'
  BY <1>22, LimitsStay DEF SessPutUproc, ctlVars, eventVars, instVars, useVars, workVars,
    SameLimits, Instances
<1>23. ASSUME NEW s \in Sess, Revoke(s)
      PROVE  AssignedInv'
  BY <1>23, LimitsStay DEF Revoke, ctlVars, instVars, useVars, SameLimits, Instances
<1>24. ASSUME NEW u \in Uprocs, UprocUnlink(u)
      PROVE  AssignedInv'
  BY <1>24, LimitsStay DEF UprocUnlink, ctlVars, eventVars, instVars, sessVars, useVars, workVars,
    SameLimits, Instances
<1>25. ASSUME NEW u \in Uprocs, UprocPutEvents(u)
      PROVE  AssignedInv'
  BY <1>25, LimitsStay DEF UprocPutEvents, PutEventsLocked, ctlVars, instVars, sessVars, useVars,
    workVars, SameLimits, Instances
<1>26. ASSUME NEW u \in Uprocs, UprocPutInst(u)
      PROVE  AssignedInv'
  BY <1>26, LeaveAssigned
<1>27. ASSUME NEW i \in Insts, NEW token \in Groups, CreateInstance(i, token)
      PROVE  AssignedInv'
  BY <1>27, CreateAssigned
<1>28. ASSUME NEW i \in Insts, DestroyInstance(i)
      PROVE  AssignedInv'
  BY <1>28, DestroyAssigned
<1>29. ASSUME NEW a \in Admins, NEW i \in Insts, NEW limit \in Limits \cup {Unlimited}, SetFind(a,
  i, limit)
      PROVE  AssignedInv'
  BY <1>29, FindAssigned
<1>30. ASSUME NEW a \in Admins, SetRead(a)
      PROVE  AssignedInv'
  BY <1>30, ReadAssigned
<1>31. ASSUME NEW a \in Admins, SetApply(a)
      PROVE  AssignedInv'
  BY <1>31, ApplyAssigned
<1>32. ASSUME NEW a \in Admins, SetPut(a)
      PROVE  AssignedInv'
  BY <1>32, SetPutAssigned
<1>33. CASE UNCHANGED lifeVars
  BY <1>33, LimitsStay DEF lifeVars, SameLimits, Instances, ctlVars, instVars
<1> QED
  BY <1>1, <1>2, <1>3, <1>4, <1>5, <1>6, <1>7, <1>8, <1>9, <1>10, <1>11, <1>12, <1>13, <1>14,
    <1>15, <1>16, <1>17, <1>18, <1>19, <1>20, <1>21, <1>22, <1>23, <1>24, <1>25, <1>26, <1>27,
    <1>28, <1>29, <1>30, <1>31, <1>32, <1>33 DEF Next, UserCall, IoctlStep, QueueStep,
    SessRelease, UprocRelease, AdminStep

-----------------------------------------------------------------------------
(* What MapThenSumSet computes is such a sum, for what a session has noted *)
(* and is charged for, and for limits.                                     *)
LEMMA SumComputed ==
  ASSUME NEW S, IsFiniteSet(S), NEW f, NEW g, SumsOver(g, f, S)
  PROVE  g[S] = SumOf(f, S)
<1> DEFINE h == CHOOSE k : SumsOver(k, f, S)
<1>1. SumsOver(h, f, S)
  OBVIOUS
<1>2. S \in SUBSET (S \cap S)
  OBVIOUS
<1>3. g[S] = h[S]
  <2> HIDE DEF h
  <2> QED
    BY <1>1, <1>2, SumsAgree
<1> QED
  BY <1>3 DEF SumOf

(* For what a process is charged with,                                     *)
LEMMA NotedSum ==
  ASSUME NEW S \in SUBSET Sess, IsFiniteSet(S)
  PROVE  MapThenSumSet(Noted, S) = SumOf(NotedBy, S)
<1> DEFINE iter[T \in SUBSET S] ==
             IF T = {} THEN 0 ELSE LET x == CHOOSE x \in T : TRUE IN Noted(x) + iter[T \ {x}]
<1>1. \A x \in Sess : NotedBy[x] = Noted(x)
  BY DEF NotedBy
<1> HIDE DEF Noted
<1>2. MapThenSumSet(Noted, S) = iter[S]
  BY DEF MapThenSumSet, MapThenFoldSet
<1>3. \A T \in SUBSET S : T # {} => Pick(T) \in Sess
  BY DEF Pick
<1>4. PICK g : SumsOver(g, NotedBy, S)
  BY SumsExist
<1>5. g = [T \in SUBSET S |-> IF T = {} THEN 0
                ELSE Noted(CHOOSE x \in T : TRUE) + g[T \ {CHOOSE x \in T : TRUE}]]
  BY <1>1, <1>3, <1>4 DEF SumsOver, Pick
<1>6. iter = [T \in SUBSET S |-> IF T = {} THEN 0
                ELSE Noted(CHOOSE x \in T : TRUE) + iter[T \ {CHOOSE x \in T : TRUE}]]
  BY <1>5 DEF iter
<1> HIDE DEF iter
<1>7. SumsOver(iter, NotedBy, S)
  BY <1>1, <1>3, <1>6 DEF SumsOver, Pick
<1> QED
  BY <1>2, <1>7, SumComputed

(* for what an instance is charged with,                                   *)
LEMMA ChargedSum ==
  ASSUME NEW S \in SUBSET Sess, IsFiniteSet(S)
  PROVE  MapThenSumSet(Charged, S) = SumOf(ChargedBy, S)
<1> DEFINE iter[T \in SUBSET S] ==
             IF T = {} THEN 0 ELSE LET x == CHOOSE x \in T : TRUE IN Charged(x) + iter[T \ {x}]
<1>1. \A x \in Sess : ChargedBy[x] = Charged(x)
  BY DEF ChargedBy
<1> HIDE DEF Charged
<1>2. MapThenSumSet(Charged, S) = iter[S]
  BY DEF MapThenSumSet, MapThenFoldSet
<1>3. \A T \in SUBSET S : T # {} => Pick(T) \in Sess
  BY DEF Pick
<1>4. PICK g : SumsOver(g, ChargedBy, S)
  BY SumsExist
<1>5. g = [T \in SUBSET S |-> IF T = {} THEN 0
                ELSE Charged(CHOOSE x \in T : TRUE) + g[T \ {CHOOSE x \in T : TRUE}]]
  BY <1>1, <1>3, <1>4 DEF SumsOver, Pick
<1>6. iter = [T \in SUBSET S |-> IF T = {} THEN 0
                ELSE Charged(CHOOSE x \in T : TRUE) + iter[T \ {CHOOSE x \in T : TRUE}]]
  BY <1>5 DEF iter
<1> HIDE DEF iter
<1>7. SumsOver(iter, ChargedBy, S)
  BY <1>1, <1>3, <1>6 DEF SumsOver, Pick
<1> QED
  BY <1>2, <1>7, SumComputed

(* and for limits.                                                         *)
LEMMA LimitsSum ==
  ASSUME NEW S \in SUBSET Insts, IsFiniteSet(S)
  PROVE  MapThenSumSet(LimitOf, S) = SumOf(iLimit, S)
<1> DEFINE iter[T \in SUBSET S] ==
             IF T = {} THEN 0 ELSE LET x == CHOOSE x \in T : TRUE IN LimitOf(x) + iter[T \ {x}]
<1>1. \A x \in Insts : iLimit[x] = LimitOf(x)
  BY DEF LimitOf
<1> HIDE DEF LimitOf
<1>2. MapThenSumSet(LimitOf, S) = iter[S]
  BY DEF MapThenSumSet, MapThenFoldSet
<1>3. \A T \in SUBSET S : T # {} => Pick(T) \in Insts
  BY DEF Pick
<1>4. PICK g : SumsOver(g, iLimit, S)
  BY SumsExist
<1>5. g = [T \in SUBSET S |-> IF T = {} THEN 0
                ELSE LimitOf(CHOOSE x \in T : TRUE) + g[T \ {CHOOSE x \in T : TRUE}]]
  BY <1>1, <1>3, <1>4 DEF SumsOver, Pick
<1>6. iter = [T \in SUBSET S |-> IF T = {} THEN 0
                ELSE LimitOf(CHOOSE x \in T : TRUE) + iter[T \ {CHOOSE x \in T : TRUE}]]
  BY <1>5 DEF iter
<1> HIDE DEF iter
<1>7. SumsOver(iter, iLimit, S)
  BY <1>1, <1>3, <1>6 DEF SumsOver, Pick
<1> QED
  BY <1>2, <1>7, SumComputed

-----------------------------------------------------------------------------
(* All of it holds at first, and always.                                   *)
LEMMA InitUse ==
  ASSUME Init
  PROVE  UseInv /\ OtherTypes /\ NoneHeld /\ AssignedInv
<1> USE DEF Init
<1>1. UseTypes /\ (\A s \in Sess : PagesOk(s)) /\ NoneHeld
  BY LifeAssumption DEF UseTypes, PagesOk, NoneHeld
<1>2. OtherTypes
  <2>1. (CHOOSE p \in Procs : TRUE) \in Procs /\ (CHOOSE g \in Groups : TRUE) \in Groups
    BY LifeAssumption DEF Groups
  <2> QED
    BY <2>1 DEF OtherTypes
<1>3. IsFiniteSet({}) /\ \A f : (\A y \in {} : f[y] \in Int) /\ SumOf(f, {}) = 0
  BY FS_EmptySet, SumMore
<1>4. UseMatches
  <2>1. \A u \in Uprocs : SessionsOf(u) = {}
    BY LifeAssumption DEF SessionsOf
  <2>2. \A i \in Insts : SessionsIn(i) = {}
    BY DEF SessionsIn
  <2> QED
    BY <1>3, <2>1, <2>2 DEF UseMatches
<1>5. AssignedInv
  <2>1. Limited = {}
    BY DEF Limited, Instances
  <2>2. 0 \in 0 .. Total
    BY LifeAssumption
  <2> QED
    BY <1>3, <2>1, <2>2 DEF AssignedInv
<1> QED
  BY <1>1, <1>2, <1>4, <1>5 DEF UseInv

(* Use is accounted for in every reachable state,                          *)
LEMMA UseIsInvariant ==
  ASSUME Races = {}
  PROVE  Spec => [](LifeInv /\ UseInv /\ OtherTypes /\ NoneHeld)
<1> DEFINE Inv == LifeInv /\ UseInv /\ OtherTypes /\ NoneHeld
<1>1. Init => Inv
  BY InitLife, InitUse
<1>2. Inv /\ [Next]_lifeVars => Inv'
  <2> SUFFICES ASSUME Inv, [Next]_lifeVars PROVE Inv'
    OBVIOUS
  <2>1. LifeInv' /\ LifeTypes'
    BY LifeKept, TypesKept
  <2> QED
    BY <2>1, UseKept, OthersTyped, NoneKept
<1> QED
  BY <1>1, <1>2, PTL DEF Spec

(* and so is what is assigned, when limits are set one at a time.          *)
LEMMA AssignedIsInvariant ==
  ASSUME Races = {}, OneSetter
  PROVE  Spec => [](LifeInv /\ AssignedInv)
<1> DEFINE Inv == LifeInv /\ AssignedInv
<1>1. Init => Inv
  BY InitLife, InitUse
<1>2. Inv /\ [Next]_lifeVars => Inv'
  <2> SUFFICES ASSUME Inv, [Next]_lifeVars PROVE Inv'
    OBVIOUS
  <2>1. LifeInv' /\ LifeTypes' /\ LimitsTyped'
    BY LifeKept, TypesKept, LimitsKept
  <2> QED
    BY <2>1, AssignedKept
<1> QED
  BY <1>1, <1>2, PTL DEF Spec

(* What is used is what sessions hold, as MemoryAccounted says it.         *)
UseAccounted ==
  /\ \A u \in Uprocs : uUsed[u] = MapThenSumSet(Noted, SessionsOf(u))
  /\ \A i \in Insts : iUsed[i] = MapThenSumSet(Charged, UNION {SessionsOf(u) : u \in Members(i)})

(* Which is what MemoryAccounted says of use,                              *)
LEMMA AccountedHere ==
  ASSUME LifeInv, UseInv
  PROVE  UseAccounted
<1>1. ASSUME NEW u \in Uprocs
      PROVE  uUsed[u] = MapThenSumSet(Noted, SessionsOf(u))
  <2>1. SessionsOf(u) \in SUBSET Sess /\ IsFiniteSet(SessionsOf(u))
    BY Counted DEF SessionsOf
  <2> QED
    BY <2>1, NotedSum DEF UseInv, UseMatches
<1>2. ASSUME NEW i \in Insts
      PROVE  iUsed[i] = MapThenSumSet(Charged, UNION {SessionsOf(u) : u \in Members(i)})
  <2>1. UNION {SessionsOf(u) : u \in Members(i)} = SessionsIn(i)
    BY LifeAssumption DEF SessionsOf, SessionsIn, Members, LifeInv, LifeTypes
  <2>2. SessionsIn(i) \in SUBSET Sess /\ IsFiniteSet(SessionsIn(i))
    BY LifeAssumption, FS_Subset DEF SessionsIn
  <2>3. iUsed[i] = SumOf(ChargedBy, SessionsIn(i))
    BY DEF UseInv, UseMatches
  <2> QED
    BY <2>1, <2>2, <2>3, ChargedSum
<1> QED
  BY <1>1, <1>2 DEF UseAccounted

(* and of what is assigned.                                                *)
LEMMA AssignedHere ==
  ASSUME LifeInv, AssignedInv
  PROVE  AssignedMatches
<1>1. Limited \in SUBSET Insts /\ IsFiniteSet(Limited)
  BY LimitedFinite
<1>2. assigned = SumOf(iLimit, Limited)
  BY DEF AssignedInv
<1> QED
  BY <1>1, <1>2, LimitsSum DEF AssignedMatches, Limited

(* Every variable has its type: no count and no use falls below nothing,   *)
(* and a session stays within the bound.                                   *)
LEMMA TypedHere ==
  ASSUME LifeInv, UseInv, OtherTypes, NoneHeld, AssignedInv
  PROVE  LifeTypeOK
<1>1. sRef \in [Sess -> 0 .. 2]
  BY DEF LifeInv, LifeTypes, SessInv, Holding, Queued
<1>2. uRef \in [Uprocs -> 0 .. Cardinality(Sess)]
  <2>1. \A u \in Uprocs : uRef[u] \in 0 .. Cardinality(Sess)
    <3> TAKE u \in Uprocs
    <3>1. SessionsOf(u) \subseteq Sess /\ IsFiniteSet(Sess)
      BY LifeAssumption DEF SessionsOf
    <3>2. Cardinality(SessionsOf(u)) <= Cardinality(Sess) /\ Cardinality(SessionsOf(u)) \in Nat
          /\ Cardinality(Sess) \in Nat
      BY <3>1, FS_Subset, FS_CardinalityType
    <3>3. uRef[u] = Cardinality(SessionsOf(u))
      BY DEF LifeInv, UprocInv
    <3> QED
      BY <3>2, <3>3
  <2> QED
    BY <2>1 DEF LifeInv, LifeTypes
<1>3. eRef \in [Events -> Nat]
  <2>1. ASSUME NEW e \in Events
        PROVE  eRef[e] \in Nat
    <3>1. EventFine(e) /\ Cardinality(Recording(e)) \in Nat /\ Cardinality(Finders(e)) \in Nat
      BY EventsFine, Counted DEF LifeInv
    <3>2. FirstRef(e) \in Nat
      BY DEF FirstRef
    <3>3. eLife[e] = "LIVE" => eRef[e] = FirstRef(e) + Cardinality(Recording(e)) + Cardinality(Finders(e))
      BY <3>1 DEF EventFine, EventOk
    <3>4. eLife[e] \in {"NONE", "DYING"} => eRef[e] = 0
      BY <3>1 DEF EventFine, EventOk, NoneHeld
    <3>5. eLife[e] \in {"NONE", "LIVE", "DYING"}
      BY DEF LifeInv, LifeTypes
    <3> QED
      BY <3>1, <3>2, <3>3, <3>4, <3>5
  <2> QED
    BY <2>1 DEF LifeInv, LifeTypes
<1>4. iRef \in [Insts -> Nat]
  BY DEF LifeInv, LifeTypes, InstInv, InstOk
<1>5. \A s \in Sess : NotedBy[s] \in Nat /\ ChargedBy[s] \in Nat
  <2> TAKE s \in Sess
  <2>1. pages[s] \in Nat /\ PagesOk(s)
    BY LifeAssumption DEF UseInv, UseTypes
  <2>2. call[s] # Nothing /\ call[s].op \in {"alloc", "stat"} => call[s].n \in Nat
    BY LifeAssumption DEF LifeInv, LifeTypes, EventCalls, MemoryCalls
  <2>3. NotedBy[s] = Noted(s) /\ ChargedBy[s] = Charged(s)
    BY DEF NotedBy, ChargedBy
  <2> QED
    BY <2>1, <2>2, <2>3, Pending DEF PagesOk
<1>6. uUsed \in [Uprocs -> Nat]
  <2>1. ASSUME NEW u \in Uprocs
        PROVE  uUsed[u] \in Nat
    <3>1. IsFiniteSet(SessionsOf(u)) /\ \A s \in SessionsOf(u) : NotedBy[s] \in Nat
      BY <1>5, Counted DEF SessionsOf
    <3> QED
      BY <3>1, SumNat DEF UseInv, UseMatches
  <2> QED
    BY <2>1 DEF UseInv, UseTypes
<1>7. iUsed \in [Insts -> Nat]
  <2>1. ASSUME NEW i \in Insts
        PROVE  iUsed[i] \in Nat
    <3>1. IsFiniteSet(SessionsIn(i)) /\ \A s \in SessionsIn(i) : ChargedBy[s] \in Nat
      BY <1>5, LifeAssumption, FS_Subset DEF SessionsIn
    <3> QED
      BY <3>1, SumNat DEF UseInv, UseMatches
  <2> QED
    BY <2>1 DEF UseInv, UseTypes
<1>8. pages \in [Sess -> 0 .. MaxPages] /\ assigned \in 0 .. Total
  BY DEF UseInv, UseTypes, AssignedInv
<1> QED
  BY <1>1, <1>2, <1>3, <1>4, <1>6, <1>7, <1>8 DEF LifeTypeOK, LifeInv, LifeTypes, LimitsTyped, OtherTypes, TaskRecords

(* kl2/ioctl.c, kl2/device.c: what is charged to a process and to a        *)
(* container instance is what their sessions hold or are about to, for any *)
(* number of each, whatever allocations fail and sessions are released,    *)
(* and however many threads set limits.                                    *)
THEOREM UseAlwaysAccounted ==
  ASSUME Races = {}
  PROVE  Spec => []UseAccounted
BY UseIsInvariant, AccountedHere, PTL

(* So is all of MemoryAccounted, the pages assigned to instances included, *)
(* when one thread at a time sets limits.                                  *)
THEOREM MemoryAlwaysAccounted ==
  ASSUME Races = {}, OneSetter
  PROVE  Spec => []MemoryAccounted
<1>1. UseAccounted /\ AssignedMatches => MemoryAccounted
  BY DEF UseAccounted, MemoryAccounted, Instances
<1> QED
  BY <1>1, UseIsInvariant, AccountedHere, AssignedIsInvariant, AssignedHere, PTL

(* And every variable keeps its type, so that no count of references, of   *)
(* pages used or of pages assigned goes below nothing, nor the assigned    *)
(* ones above what there is.                                               *)
THEOREM LifeTypeCorrect ==
  ASSUME Races = {}, OneSetter
  PROVE  Spec => []LifeTypeOK
BY UseIsInvariant, AssignedIsInvariant, TypedHere, PTL
===============================================================================
