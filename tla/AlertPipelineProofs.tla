------------------------- MODULE AlertPipelineProofs -------------------------
(***************************************************************************)
(* Proofs about AlertPipeline, for any number of threads, processes, rows, *)
(* responses and outside events.                                           *)
(*                                                                         *)
(* Two inductive invariants carry everything: Base (types, and that every  *)
(* reference a thread or a task holds is to an issued row), and on top of  *)
(* it one invariant per property.                                          *)
(***************************************************************************)
EXTENDS AlertPipeline, ClassifierProofs

(* Threads and tasks only refer to rows that were issued, a row that was issued
   and is gone is disturbed, and a claimed task belongs to one worker. *)
References ==
    /\ \A r \in Requests : req[r].pc \in {"hook", "save", "enqueue", "patch"}
                              => req[r].alert \in issued
    /\ \A r \in Requests : req[r].pc \in {"check", "classify", "insert", "hook", "save"}
                              => req[r].kind # "patch"
    /\ \A w \in Workers : wrk[w].pc \notin {"down", "idle"} =>
          wrk[w].task \in Tasks /\ tasks[wrk[w].task].status = "RUNNING"
    /\ \A w, v \in Workers : wrk[w].task = wrk[v].task => \/ w = v
                                \/ wrk[w].pc \in {"down", "idle"}
                                \/ wrk[v].pc \in {"down", "idle"}
    /\ \A t \in Tasks : tasks[t].status # "free" => tasks[t].alert \in issued
    /\ \A x \in Alerts : alerts[x].status # "absent" => x \in issued
    /\ \A x \in issued : alerts[x].status = "absent" => x \in disturbed

Base == TypeOK /\ References

-------------------------------------------------------------------------------
(* The record a request thread holds when it has nothing to do. *)
LEMMA NoRequestType == NoRequest \in Request
  BY PipelineAssumption, KeysAssumption DEF NoRequest, Request, Statuses

(* The record of a worker between tasks. *)
LEMMA RestingType == ASSUME NEW pc \in {"down", "idle"} PROVE Resting(pc) \in Worker
  BY KeysAssumption DEF Resting, Worker, Rows, NoRows

(* Counting an outside event keeps the counters natural numbers. *)
LEMMA SpendType ==
    ASSUME spent \in [Events -> Nat], NEW e \in Events, Spend(e)
    PROVE  spent' \in [Events -> Nat]
  BY DEF Spend

(* Writing one outcome keeps the log well typed. *)
LEMMA LogType ==
    ASSUME NEW Out, NEW f \in [Tasks -> [Definitions -> Out]], NEW t, NEW d, NEW o \in Out
    PROVE  [f EXCEPT ![t] = [f[t] EXCEPT ![d] = o]] \in [Tasks -> [Definitions -> Out]]
  OBVIOUS

(* The initial state satisfies the base invariant. *)
LEMMA BaseInit == ASSUME Init PROVE Base
<1>1. TypeOK
  <2>1. req \in [Requests -> Request]
    BY NoRequestType DEF Init
  <2>2. wrk \in [Workers -> Worker]
    BY RestingType DEF Init
  <2> QED
    BY <2>1, <2>2, PipelineAssumption, KeysAssumption
    DEF Init, TypeOK, AlertRow, TaskRow, Rows, NoRows
<1>2. References
  <2>1. /\ \A r \in Requests : req[r].pc = "idle"
        /\ \A w \in Workers : wrk[w].pc = "down"
    BY DEF Init, NoRequest, Resting
  <2>2. /\ \A t \in Tasks : tasks[t].status = "free"
        /\ \A x \in Alerts : alerts[x].status = "absent"
        /\ issued = {}
    BY DEF Init
  <2> QED
    BY <2>1, <2>2 DEF References
<1> QED
  BY <1>1, <1>2 DEF Base

(* Every step keeps the types. *)
LEMMA TypeStep ==
    ASSUME TypeOK, References, [Next]_vars
    PROVE  TypeOK'
<1>1. ASSUME NEW r \in Requests, Receive(r) PROVE TypeOK'
  <2>1. \A wid \in WazuhIds \cup {NoId}, desc \in Descriptions :
          [NoRequest EXCEPT !.pc = "check", !.wid = wid, !.desc = desc] \in Request
    BY NoRequestType DEF NoRequest, Request
  <2> QED
    BY <1>1, <2>1 DEF Receive, TypeOK
<1>2. ASSUME NEW r \in Requests, Post(r) PROVE TypeOK'
  <2>1. \A wid \in WazuhIds \cup {NoId}, desc \in Descriptions, status \in Statuses :
          [NoRequest EXCEPT !.pc = "check", !.kind = "post", !.wid = wid,
                            !.desc = desc, !.was = status] \in Request
    BY NoRequestType DEF NoRequest, Request
  <2>2. spent' \in [Events -> Nat]
    BY <1>2, SpendType DEF Post, TypeOK, Events
  <2>3. PICK q \in Request : req' = [req EXCEPT ![r] = q]
    BY <1>2, <2>1 DEF Post
  <2> QED
    BY <1>2, <2>2, <2>3 DEF Post, TypeOK
<1>3. ASSUME NEW r \in Requests, PatchRead(r) PROVE TypeOK'
  <2>1. \A x \in Alerts, status \in Statuses : Present(x) =>
          [NoRequest EXCEPT !.pc = "patch", !.kind = "patch", !.alert = x,
              !.wid = alerts[x].wid, !.type = alerts[x].type,
              !.was = alerts[x].status, !.now = status] \in Request
    <3>1. \A x \in Alerts : Present(x) =>
            /\ alerts[x].wid \in WazuhIds \cup {NoId} /\ alerts[x].type \in Keys
            /\ alerts[x].status \in Statuses
      BY DEF TypeOK, AlertRow, Present
    <3> QED
      BY <3>1, NoRequestType DEF NoRequest, Request
  <2>2. spent' \in [Events -> Nat]
    BY <1>3, SpendType DEF PatchRead, TypeOK, Events
  <2>3. req' \in [Requests -> Request]
    BY <1>3, <2>1 DEF PatchRead, TypeOK
  <2> QED
    BY <1>3, <2>2, <2>3 DEF PatchRead, TypeOK
<1>4. ASSUME NEW r \in Requests, Check(r) PROVE TypeOK'
  <2>1. \A pc \in {"classify", "insert"} : [req[r] EXCEPT !.pc = pc] \in Request
    BY DEF TypeOK, Request
  <2> QED
    BY <1>4, <2>1, NoRequestType DEF Check, TypeOK
<1>5. ASSUME NEW r \in Requests, Classify(r) PROVE TypeOK'
  <2>1. [req[r] EXCEPT !.pc = "insert"] \in Request
    BY DEF TypeOK, Request
  <2> QED
    BY <1>5, <2>1, NoRequestType DEF Classify, TypeOK
<1>6. ASSUME NEW r \in Requests, Insert(r) PROVE TypeOK'
  <2>1. \A x \in Alerts : [req[r] EXCEPT !.pc = "hook", !.alert = x] \in Request
    BY DEF TypeOK, Request
  <2>2. [status |-> req[r].was, type |-> Unknown, wid |-> req[r].wid] \in AlertRow
    BY KeysAssumption DEF TypeOK, Request, AlertRow
  <2> QED
    BY <1>6, <2>1, <2>2 DEF Insert, TypeOK
<1>7. ASSUME NEW r \in Requests, InsertRaises(r) PROVE TypeOK'
  <2>1. spent' \in [Events -> Nat]
    BY <1>7, SpendType DEF InsertRaises, TypeOK, Events
  <2> QED
    BY <1>7, <2>1, NoRequestType DEF InsertRaises, TypeOK
<1>8. ASSUME NEW r \in Requests, Hook(r) PROVE TypeOK'
  <2>1. ClassifyDescription(types, req[r].desc).key \in Keys
    BY ClassifyType DEF TypeOK
  <2>2. [req[r] EXCEPT !.pc = "save",
           !.type = ClassifyDescription(types, req[r].desc).key] \in Request
    BY <2>1 DEF TypeOK, Request
  <2> QED
    BY <1>8, <2>2 DEF Hook, TypeOK
<1>9. ASSUME NEW r \in Requests, SaveProcessing(r) PROVE TypeOK'
  <2>1. [req[r] EXCEPT !.pc = "enqueue"] \in Request
    BY DEF TypeOK, Request
  <2>2. [status |-> "processing", type |-> req[r].type, wid |-> req[r].wid] \in AlertRow
    BY DEF TypeOK, Request, AlertRow, Statuses
  <2> QED
    BY <1>9, <2>1, <2>2, NoRequestType DEF SaveProcessing, TypeOK
<1>10. ASSUME NEW r \in Requests, HookRaises(r) PROVE TypeOK'
  <2>1. spent' \in [Events -> Nat]
    BY <1>10, SpendType DEF HookRaises, TypeOK, Events
  <2>2. req[r].alert \in issued
    BY <1>10 DEF HookRaises, References
  <2> QED
    BY <1>10, <2>1, <2>2, NoRequestType DEF HookRaises, TypeOK
<1>11. ASSUME NEW r \in Requests, Enqueue(r) PROVE TypeOK'
  <2>1. req[r].alert \in Alerts
    BY <1>11 DEF Enqueue, References, TypeOK
  <2> QED
    BY <1>11, <2>1, NoRequestType DEF Enqueue, TypeOK, TaskRow
<1>12. ASSUME NEW r \in Requests, EnqueueRaises(r) PROVE TypeOK'
  <2>1. spent' \in [Events -> Nat]
    BY <1>12, SpendType DEF EnqueueRaises, TypeOK, Events
  <2>2. req[r].alert \in issued
    BY <1>12 DEF EnqueueRaises, References
  <2> QED
    BY <1>12, <2>1, <2>2, NoRequestType DEF EnqueueRaises, TypeOK
<1>13. ASSUME NEW r \in Requests, PatchSave(r) PROVE TypeOK'
  <2>1. [req[r] EXCEPT !.pc = "enqueue"] \in Request
    BY DEF TypeOK, Request
  <2>2. [status |-> req[r].now, type |-> req[r].type, wid |-> req[r].wid] \in AlertRow
    BY DEF TypeOK, Request, AlertRow
  <2>3. req[r].alert \in Alerts
    BY <1>13 DEF PatchSave, References, TypeOK
  <2> QED
    BY <1>13, <2>1, <2>2, <2>3, NoRequestType DEF PatchSave, TypeOK
<1>14. ASSUME NEW r \in Requests, PatchRaises(r) PROVE TypeOK'
  <2>1. spent' \in [Events -> Nat]
    BY <1>14, SpendType DEF PatchRaises, TypeOK, Events
  <2> QED
    BY <1>14, <2>1, NoRequestType DEF PatchRaises, TypeOK
<1>15. ASSUME NEW w \in Workers, StartWorker(w) PROVE TypeOK'
  BY <1>15, RestingType DEF StartWorker, TypeOK
<1>16. ASSUME NEW w \in Workers, Claim(w) PROVE TypeOK'
  <2>1. \A t \in Tasks : [wrk[w] EXCEPT !.pc = "load", !.task = t] \in Worker
    BY DEF TypeOK, Worker
  <2>2. \A t \in Tasks : [tasks[t] EXCEPT !.status = "RUNNING"] \in TaskRow
    BY DEF TypeOK, TaskRow
  <2> QED
    BY <1>16, <2>1, <2>2 DEF Claim, TypeOK
<1>17. ASSUME NEW w \in Workers, Load(w) PROVE TypeOK'
  <2>1. AlertOf(w) \in Alerts
    BY <1>17 DEF Load, AlertOf, References, TypeOK
  <2>2. [wrk[w] EXCEPT !.pc = "plan", !.type = alerts[AlertOf(w)].type] \in Worker
    BY <2>1 DEF TypeOK, Worker, AlertRow
  <2>3. [wrk[w] EXCEPT !.pc = "finish"] \in Worker
    BY DEF TypeOK, Worker
  <2> QED
    BY <1>17, <2>2, <2>3 DEF Load, TypeOK
<1>18. ASSUME NEW w \in Workers, Plan(w) PROVE TypeOK'
  <2> DEFINE todo == mapped[wrk[w].type]
  <2>2. todo \in Rows
    BY DEF TypeOK, Worker
  <2>1. [wrk[w] EXCEPT !.pc = "next", !.todo = todo] \in Worker
    BY <2>2 DEF TypeOK, Worker
  <2> HIDE DEF todo
  <2>3. /\ wrk' = [wrk EXCEPT ![w] = [wrk[w] EXCEPT !.pc = "next", !.todo = todo]]
        /\ planned' = [planned EXCEPT ![wrk[w].task] = todo]
    BY <1>18 DEF Plan, todo
  <2> QED
    BY <1>18, <2>1, <2>2, <2>3 DEF Plan, TypeOK
<1>19. ASSUME NEW w \in Workers, BeginResponse(w) PROVE TypeOK'
  <2>1. \A d \in Definitions : [wrk[w] EXCEPT !.pc = "act", !.cur = d] \in Worker
    BY DEF TypeOK, Worker
  <2>2. PICK d \in Definitions :
          /\ wrk' = [wrk EXCEPT ![w] = [wrk[w] EXCEPT !.pc = "act", !.cur = d]]
          /\ log' = [log EXCEPT ![wrk[w].task] = [log[wrk[w].task] EXCEPT ![d] = "pending"]]
    BY <1>19 DEF BeginResponse, Left
  <2>3. wrk' \in [Workers -> Worker]
    BY <2>1, <2>2 DEF TypeOK
  <2>4. log' \in [Tasks -> [Definitions -> {"none", "pending", "executed", "failed"}]]
    BY <2>2, LogType DEF TypeOK
  <2> QED
    BY <1>19, <2>3, <2>4 DEF BeginResponse, TypeOK
<1>20. ASSUME NEW w \in Workers, EndResponse(w) PROVE TypeOK'
  <2> DEFINE todo == [wrk[w].todo EXCEPT ![wrk[w].cur] = Off]
  <2>6. todo \in Rows
    BY DEF TypeOK, Worker, Rows
  <2> HIDE DEF todo
  <2>1. [wrk[w] EXCEPT !.pc = "next", !.todo = todo, !.cur = NoDefinition] \in Worker
    BY <2>6 DEF TypeOK, Worker
  <2>2. wrk' = [wrk EXCEPT ![w] = [wrk[w] EXCEPT !.pc = "next", !.todo = todo,
                                                 !.cur = NoDefinition]]
    BY <1>20 DEF EndResponse, Outcomes, todo
  <2>3. wrk' \in [Workers -> Worker]
    BY <2>1, <2>2 DEF TypeOK
  <2>4. PICK outcome \in {"executed", "failed"} :
          log' = [log EXCEPT ![wrk[w].task] = [log[wrk[w].task] EXCEPT ![wrk[w].cur] = outcome]]
    BY <1>20 DEF EndResponse, Outcomes
  <2>5. log' \in [Tasks -> [Definitions -> {"none", "pending", "executed", "failed"}]]
    BY <2>4, LogType DEF TypeOK
  <2> QED
    BY <1>20, <2>3, <2>5 DEF EndResponse, TypeOK
<1>21. ASSUME NEW w \in Workers, Resolve(w) PROVE TypeOK'
  <2>1. [wrk[w] EXCEPT !.pc = "finish"] \in Worker
    BY DEF TypeOK, Worker
  <2>2. \A x \in Alerts : [alerts[x] EXCEPT !.status = "resolved"] \in AlertRow
    BY DEF TypeOK, AlertRow, Statuses
  <2> QED
    BY <1>21, <2>1, <2>2 DEF Resolve, TypeOK
<1>22. ASSUME NEW w \in Workers, Finish(w) PROVE TypeOK'
  <2>1. \A t \in Tasks : [tasks[t] EXCEPT !.status = "SUCCEEDED"] \in TaskRow
    BY DEF TypeOK, TaskRow
  <2> QED
    BY <1>22, <2>1, RestingType DEF Finish, TypeOK
<1>23. ASSUME NEW w \in Workers, TaskRaises(w) PROVE TypeOK'
  <2>1. \A t \in Tasks : [tasks[t] EXCEPT !.status = "FAILED"] \in TaskRow
    BY DEF TypeOK, TaskRow
  <2>2. spent' \in [Events -> Nat]
    BY <1>23, SpendType DEF TaskRaises, TypeOK, Events
  <2>3. AlertOf(w) \in Alerts
    BY <1>23 DEF TaskRaises, Serving, AlertOf, References, TypeOK
  <2> QED
    BY <1>23, <2>1, <2>2, <2>3, RestingType DEF TaskRaises, TypeOK
<1>24. ASSUME NEW w \in Workers, LoopCrash(w) PROVE TypeOK'
  <2>1. spent' \in [Events -> Nat]
    BY <1>24, SpendType DEF LoopCrash, TypeOK, Events
  <2>2. Serving(w) => AlertOf(w) \in Alerts
    BY DEF Serving, AlertOf, References, TypeOK
  <2> QED
    BY <1>24, <2>1, <2>2, RestingType DEF LoopCrash, TypeOK
<1>25. ASSUME NEW x \in Alerts, DestroyAlert(x) PROVE TypeOK'
  <2>1. spent' \in [Events -> Nat]
    BY <1>25, SpendType DEF DestroyAlert, TypeOK, Events
  <2>2. [alerts[x] EXCEPT !.status = "absent"] \in AlertRow
    BY DEF TypeOK, AlertRow
  <2>3. log' \in [Tasks -> [Definitions -> {"none", "pending", "executed", "failed"}]]
    BY <1>25 DEF DestroyAlert, TypeOK
  <2> QED
    BY <1>25, <2>1, <2>2, <2>3 DEF DestroyAlert, TypeOK
<1>26. ASSUME NEW p \in Processes, Crash(p) PROVE TypeOK'
  <2>1. spent' \in [Events -> Nat]
    BY <1>26, SpendType DEF Crash, TypeOK, Events
  <2>2. \A v \in Workers : Serving(v) => AlertOf(v) \in Alerts
    BY DEF Serving, AlertOf, References, TypeOK
  <2>3. \A q \in Requests : Owed(q) => req[q].alert \in Alerts
    BY DEF Owed, References, TypeOK
  <2>4. disturbed' \subseteq Alerts
    BY <1>26, <2>2, <2>3 DEF Crash, TypeOK
  <2>5. wrk' \in [Workers -> Worker]
    BY <1>26, RestingType DEF Crash, TypeOK
  <2> QED
    BY <1>26, <2>1, <2>4, <2>5, NoRequestType DEF Crash, TypeOK
<1>27. ASSUME NEW k \in AdminKeys, EditType(k) PROVE TypeOK'
  <2>1. spent' \in [Events -> Nat]
    BY <1>27, SpendType DEF EditType, TypeOK, Events
  <2> QED
    BY <1>27, <2>1, PipelineAssumption DEF EditType, TypeOK
<1>28. ASSUME NEW k \in AdminKeys, NEW d \in Definitions, EditMap(k, d) PROVE TypeOK'
  <2>1. spent' \in [Events -> Nat]
    BY <1>28, SpendType DEF EditMap, TypeOK, Events
  <2>2. PICK order \in Orders \cup {Off} :
          mapped' = [mapped EXCEPT ![k] = [mapped[k] EXCEPT ![d] = order]]
    BY <1>28 DEF EditMap
  <2>3. mapped[k] \in Rows /\ order \in Nat \cup {Off}
    BY PipelineAssumption DEF TypeOK
  <2>4. mapped' \in [Keys -> Rows]
    BY <2>2, <2>3 DEF TypeOK, Rows
  <2> QED
    BY <1>28, <2>1, <2>4 DEF EditMap, TypeOK
<1>29. CASE UNCHANGED vars
  BY <1>29 DEF vars, TypeOK
<1>30. ASSUME NEW w \in Workers, Hang(w) PROVE TypeOK'
  <2>1. spent' \in [Events -> Nat]
    BY <1>30, SpendType DEF Hang, TypeOK, Events
  <2>2. AlertOf(w) \in Alerts
    BY <1>30 DEF Hang, AlertOf, References, TypeOK
  <2>3. [wrk[w] EXCEPT !.pc = "hung"] \in Worker
    BY DEF TypeOK, Worker
  <2> QED
    BY <1>30, <2>1, <2>2, <2>3 DEF Hang, TypeOK
<1> QED
  BY <1>1, <1>2, <1>3, <1>4, <1>5, <1>6, <1>7, <1>8, <1>9, <1>10, <1>11,
     <1>12, <1>13, <1>14, <1>15, <1>16, <1>17, <1>18, <1>19, <1>20, <1>21,
     <1>22, <1>23, <1>24, <1>25, <1>26, <1>27, <1>28, <1>29, <1>30 DEF Next,
     Serve, Work

(* Every step keeps the references sound. *)
LEMMA ReferencesStep ==
    ASSUME TypeOK, References, [Next]_vars
    PROVE  References'
<1>1. ASSUME NEW r \in Requests, Receive(r) PROVE References'
  BY <1>1 DEF Receive, References, TypeOK, NoRequest, Request, AlertRow,
     Statuses, Present
<1>2. ASSUME NEW r \in Requests, Post(r) PROVE References'
  BY <1>2 DEF Post, References, TypeOK, NoRequest, Request, AlertRow,
     Statuses, Present
<1>3. ASSUME NEW r \in Requests, PatchRead(r) PROVE References'
  BY <1>3 DEF PatchRead, References, TypeOK, NoRequest, Request, AlertRow,
     Statuses, Present
<1>4. ASSUME NEW r \in Requests, Check(r) PROVE References'
  BY <1>4 DEF Check, References, TypeOK, NoRequest, Request, AlertRow,
     Statuses, Present
<1>5. ASSUME NEW r \in Requests, Classify(r) PROVE References'
  BY <1>5 DEF Classify, References, TypeOK, NoRequest, Request, AlertRow,
     Statuses, Present
<1>6. ASSUME NEW r \in Requests, Insert(r) PROVE References'
  BY <1>6 DEF Insert, References, TypeOK, NoRequest, Request, AlertRow,
     Statuses, Present
<1>7. ASSUME NEW r \in Requests, InsertRaises(r) PROVE References'
  BY <1>7 DEF InsertRaises, References, TypeOK, NoRequest, Request, AlertRow,
     Statuses, Present
<1>8. ASSUME NEW r \in Requests, Hook(r) PROVE References'
  BY <1>8 DEF Hook, References, TypeOK, NoRequest, Request, AlertRow,
     Statuses, Present
<1>9. ASSUME NEW r \in Requests, SaveProcessing(r) PROVE References'
  BY <1>9 DEF SaveProcessing, References, TypeOK, NoRequest, Request,
     AlertRow, Statuses, Present
<1>10. ASSUME NEW r \in Requests, HookRaises(r) PROVE References'
  BY <1>10 DEF HookRaises, References, TypeOK, NoRequest, Request, AlertRow,
     Statuses, Present
<1>11. ASSUME NEW r \in Requests, Enqueue(r) PROVE References'
  BY <1>11 DEF Enqueue, References, TypeOK, NoRequest, Request, AlertRow,
     Statuses, Present
<1>12. ASSUME NEW r \in Requests, EnqueueRaises(r) PROVE References'
  BY <1>12 DEF EnqueueRaises, References, TypeOK, NoRequest, Request,
     AlertRow, Statuses, Present
<1>13. ASSUME NEW r \in Requests, PatchSave(r) PROVE References'
  <2>1. PICK y \in Alerts : y = req[r].alert /\ y \in issued
    BY <1>13 DEF PatchSave, References, TypeOK
  <2>2. \A x \in Alerts : alerts'[x].status = IF x = y THEN req[r].now ELSE alerts[x].status
    BY <1>13, <2>1 DEF PatchSave, TypeOK
  <2>3. req[r].now # "absent"
    BY DEF TypeOK, Request, Statuses
  <2>4. \A q \in Requests :
          /\ q # r => req'[q] = req[q]
          /\ req'[r].pc \in {"idle", "enqueue"}
          /\ req'[r].pc = "enqueue" => req'[r].alert = y
    BY <1>13, <2>1 DEF PatchSave, TypeOK, NoRequest, Request
  <2>5. \A q \in Requests :
          /\ req'[q].pc \in {"hook", "save", "enqueue", "patch"} => req'[q].alert \in issued
          /\ req'[q].pc \in {"check", "classify", "insert", "hook", "save"}
               => req'[q].kind # "patch"
    BY <2>1, <2>4 DEF References
  <2>6. \A x \in Alerts : alerts'[x].status # "absent" => x \in issued
    BY <2>1, <2>2 DEF References
  <2>7. \A x \in issued : alerts'[x].status = "absent" => x \in disturbed
    BY <2>2, <2>3 DEF References, TypeOK
  <2>8. /\ wrk' = wrk /\ tasks' = tasks /\ issued' = issued
        /\ disturbed \subseteq disturbed'
    BY <1>13 DEF PatchSave
  <2> QED
    BY <2>5, <2>6, <2>7, <2>8 DEF References
<1>14. ASSUME NEW r \in Requests, PatchRaises(r) PROVE References'
  BY <1>14 DEF PatchRaises, References, TypeOK, NoRequest, Request, AlertRow,
     Statuses, Present
<1>15. ASSUME NEW w \in Workers, StartWorker(w) PROVE References'
  BY <1>15 DEF StartWorker, References, TypeOK, Resting, Worker, AlertRow,
     TaskRow, Present, Serving, AlertOf
<1>16. ASSUME NEW w \in Workers, Claim(w) PROVE References'
  BY <1>16 DEF Claim, References, TypeOK, Resting, Worker, AlertRow, TaskRow,
     Present, Serving, AlertOf
<1>17. ASSUME NEW w \in Workers, Load(w) PROVE References'
  BY <1>17 DEF Load, References, TypeOK, Resting, Worker, AlertRow, TaskRow,
     Present, Serving, AlertOf
<1>18. ASSUME NEW w \in Workers, Plan(w) PROVE References'
  BY <1>18 DEF Plan, References, TypeOK, Resting, Worker, AlertRow, TaskRow,
     Present, Serving, AlertOf
<1>19. ASSUME NEW w \in Workers, BeginResponse(w) PROVE References'
  BY <1>19 DEF BeginResponse, References, TypeOK, Resting, Worker, AlertRow,
     TaskRow, Present, Serving, AlertOf
<1>20. ASSUME NEW w \in Workers, EndResponse(w) PROVE References'
  BY <1>20 DEF EndResponse, References, TypeOK, Resting, Worker, AlertRow,
     TaskRow, Present, Serving, AlertOf
<1>21. ASSUME NEW w \in Workers, Resolve(w) PROVE References'
  BY <1>21 DEF Resolve, References, TypeOK, Resting, Worker, AlertRow,
     TaskRow, Present, Serving, AlertOf
<1>22. ASSUME NEW w \in Workers, Finish(w) PROVE References'
  <2>1. /\ wrk' = [wrk EXCEPT ![w] = Resting("idle")]
        /\ tasks' = [tasks EXCEPT ![wrk[w].task] = [tasks[wrk[w].task] EXCEPT !.status = "SUCCEEDED"]]
        /\ req' = req /\ issued' = issued /\ alerts' = alerts
        /\ disturbed \subseteq disturbed'
    BY <1>22 DEF Finish
  <2>2. \A v \in Workers : wrk'[v].pc \notin {"down", "idle"} =>
          wrk'[v] = wrk[v] /\ v # w
    BY <2>1 DEF TypeOK, Resting
  <2>3. /\ wrk[w].task \in Tasks
        /\ \A v \in Workers : wrk'[v].pc \notin {"down", "idle"} =>
              wrk[v].task # wrk[w].task
    BY <1>22, <2>2 DEF Finish, Serving, References
  <2>4. \A t \in Tasks :
          /\ t # wrk[w].task => tasks'[t] = tasks[t]
          /\ tasks'[t].alert = tasks[t].alert
          /\ tasks'[t].status # "free" => tasks[t].status # "free"
    BY <1>22, <2>1, <2>3 DEF Finish, Serving, TypeOK, TaskRow, References
  <2>5. \A v \in Workers : wrk'[v].pc \notin {"down", "idle"} =>
          wrk'[v].task \in Tasks /\ tasks'[wrk'[v].task].status = "RUNNING"
    <3> SUFFICES ASSUME NEW v \in Workers, wrk'[v].pc \notin {"down", "idle"}
                 PROVE  wrk[v].task \in Tasks /\ tasks'[wrk[v].task].status = "RUNNING"
      BY <2>2
    <3>1. wrk[v].task \in Tasks /\ tasks[wrk[v].task].status = "RUNNING"
      BY <2>2 DEF References
    <3> QED
      BY <3>1, <2>3, <2>4
  <2>6. \A u, v \in Workers : wrk'[u].task = wrk'[v].task =>
          u = v \/ wrk'[u].pc \in {"down", "idle"} \/ wrk'[v].pc \in {"down", "idle"}
    BY <2>2 DEF References
  <2> QED
    <3>1. \A t \in Tasks : tasks'[t].status # "free" => tasks'[t].alert \in issued'
      BY <2>1, <2>4 DEF References
    <3> QED
      BY <3>1, <2>1, <2>5, <2>6 DEF References
<1>23. ASSUME NEW w \in Workers, TaskRaises(w) PROVE References'
  <2>1. /\ wrk' = [wrk EXCEPT ![w] = Resting("idle")]
        /\ tasks' = [tasks EXCEPT ![wrk[w].task] = [tasks[wrk[w].task] EXCEPT !.status = "FAILED"]]
        /\ req' = req /\ issued' = issued /\ alerts' = alerts
        /\ disturbed \subseteq disturbed'
    BY <1>23 DEF TaskRaises
  <2>2. \A v \in Workers : wrk'[v].pc \notin {"down", "idle"} =>
          wrk'[v] = wrk[v] /\ v # w
    BY <2>1 DEF TypeOK, Resting
  <2>3. /\ wrk[w].task \in Tasks
        /\ \A v \in Workers : wrk'[v].pc \notin {"down", "idle"} =>
              wrk[v].task # wrk[w].task
    BY <1>23, <2>2 DEF TaskRaises, Serving, References
  <2>4. \A t \in Tasks :
          /\ t # wrk[w].task => tasks'[t] = tasks[t]
          /\ tasks'[t].alert = tasks[t].alert
          /\ tasks'[t].status # "free" => tasks[t].status # "free"
    BY <1>23, <2>1, <2>3 DEF TaskRaises, Serving, TypeOK, TaskRow, References
  <2>5. \A v \in Workers : wrk'[v].pc \notin {"down", "idle"} =>
          wrk'[v].task \in Tasks /\ tasks'[wrk'[v].task].status = "RUNNING"
    <3> SUFFICES ASSUME NEW v \in Workers, wrk'[v].pc \notin {"down", "idle"}
                 PROVE  wrk[v].task \in Tasks /\ tasks'[wrk[v].task].status = "RUNNING"
      BY <2>2
    <3>1. wrk[v].task \in Tasks /\ tasks[wrk[v].task].status = "RUNNING"
      BY <2>2 DEF References
    <3> QED
      BY <3>1, <2>3, <2>4
  <2>6. \A u, v \in Workers : wrk'[u].task = wrk'[v].task =>
          u = v \/ wrk'[u].pc \in {"down", "idle"} \/ wrk'[v].pc \in {"down", "idle"}
    BY <2>2 DEF References
  <2> QED
    <3>1. \A t \in Tasks : tasks'[t].status # "free" => tasks'[t].alert \in issued'
      BY <2>1, <2>4 DEF References
    <3> QED
      BY <3>1, <2>1, <2>5, <2>6 DEF References
<1>24. ASSUME NEW w \in Workers, LoopCrash(w) PROVE References'
  <2>1. /\ wrk' = [wrk EXCEPT ![w] = Resting("down")]
        /\ tasks' = tasks
        /\ req' = req /\ issued' = issued /\ alerts' = alerts
        /\ disturbed \subseteq disturbed'
    BY <1>24 DEF LoopCrash
  <2>2. \A v \in Workers : wrk'[v].pc \notin {"down", "idle"} =>
          wrk'[v] = wrk[v] /\ v # w
    BY <2>1 DEF TypeOK, Resting
  <2> QED
    BY <2>1, <2>2 DEF References
<1>25. ASSUME NEW x \in Alerts, DestroyAlert(x) PROVE References'
  BY <1>25 DEF DestroyAlert, References, TypeOK, AlertRow
<1>26. ASSUME NEW p \in Processes, Crash(p) PROVE References'
  <2>1. /\ \A q \in Requests : req'[q] = req[q] \/ req'[q].pc = "idle"
        /\ \A v \in Workers : wrk'[v] = wrk[v] \/ wrk'[v].pc = "down"
        /\ tasks' = tasks /\ issued' = issued /\ alerts' = alerts
        /\ disturbed \subseteq disturbed'
    BY <1>26 DEF Crash, NoRequest, Resting
  <2> QED
    BY <2>1 DEF References
<1>27. ASSUME NEW k \in AdminKeys, EditType(k) PROVE References'
  BY <1>27 DEF EditType, References
<1>28. ASSUME NEW k \in AdminKeys, NEW d \in Definitions, EditMap(k, d) PROVE References'
  BY <1>28 DEF EditMap, References
<1>29. CASE UNCHANGED vars
  BY <1>29 DEF vars, References
<1>30. ASSUME NEW w \in Workers, Hang(w) PROVE References'
  <2>1. /\ wrk' = [wrk EXCEPT ![w] = [wrk[w] EXCEPT !.pc = "hung"]]
        /\ tasks' = tasks /\ req' = req /\ issued' = issued /\ alerts' = alerts
        /\ disturbed \subseteq disturbed' /\ wrk[w].pc = "act"
    BY <1>30 DEF Hang
  <2>2. \A v \in Workers : /\ wrk'[v].task = wrk[v].task
                          /\ wrk'[v].pc \in {"down", "idle"} <=> wrk[v].pc \in {"down", "idle"}
    BY <2>1 DEF TypeOK, Worker
  <2> QED
    BY <2>1, <2>2 DEF References
<1> QED
  BY <1>1, <1>2, <1>3, <1>4, <1>5, <1>6, <1>7, <1>8, <1>9, <1>10, <1>11,
     <1>12, <1>13, <1>14, <1>15, <1>16, <1>17, <1>18, <1>19, <1>20, <1>21,
     <1>22, <1>23, <1>24, <1>25, <1>26, <1>27, <1>28, <1>29, <1>30 DEF Next,
     Serve, Work

(* The base invariant is inductive. *)
LEMMA BaseInvariant == Spec => []Base
<1>1. Base /\ [Next]_vars => Base'
  BY TypeStep, ReferencesStep DEF Base
<1> QED
  BY BaseInit, <1>1, PTL DEF Spec

(* Every reachable state is well typed. *)
THEOREM TypeCorrect == Spec => []TypeOK
<1>1. Base => TypeOK
  BY DEF Base
<1> QED
  BY BaseInvariant, <1>1, PTL
-------------------------------------------------------------------------------
(* A row that its creator stored as 'processing' counts as disturbed at once:
   on_create_classify will see no change of status and queue nothing. *)
Unhooked ==
    \A r \in Requests :
        req[r].kind # "patch" /\ req[r].pc \in {"hook", "save"} /\ req[r].was = "processing"
            => req[r].alert \in disturbed

(* Every step keeps it. *)
LEMMA UnhookedStep ==
    ASSUME Base, Unhooked, [Next]_vars
    PROVE  Unhooked'
<1>1. ASSUME NEW r \in Requests, Receive(r) PROVE Unhooked'
  BY <1>1 DEF Receive, Unhooked, Base, TypeOK, NoRequest, Request
<1>2. ASSUME NEW r \in Requests, Post(r) PROVE Unhooked'
  BY <1>2 DEF Post, Unhooked, Base, TypeOK, NoRequest, Request
<1>3. ASSUME NEW r \in Requests, PatchRead(r) PROVE Unhooked'
  BY <1>3 DEF PatchRead, Unhooked, Base, TypeOK, NoRequest, Request
<1>4. ASSUME NEW r \in Requests, Check(r) PROVE Unhooked'
  BY <1>4 DEF Check, Unhooked, Base, TypeOK, NoRequest, Request
<1>5. ASSUME NEW r \in Requests, Classify(r) PROVE Unhooked'
  BY <1>5 DEF Classify, Unhooked, Base, TypeOK, NoRequest, Request
<1>6. ASSUME NEW r \in Requests, Insert(r) PROVE Unhooked'
  BY <1>6 DEF Insert, Unhooked, Base, TypeOK, NoRequest, Request
<1>7. ASSUME NEW r \in Requests, InsertRaises(r) PROVE Unhooked'
  BY <1>7 DEF InsertRaises, Unhooked, Base, TypeOK, NoRequest, Request
<1>8. ASSUME NEW r \in Requests, Hook(r) PROVE Unhooked'
  BY <1>8 DEF Hook, Unhooked, Base, TypeOK, NoRequest, Request
<1>9. ASSUME NEW r \in Requests, SaveProcessing(r) PROVE Unhooked'
  BY <1>9 DEF SaveProcessing, Unhooked, Base, TypeOK, NoRequest, Request
<1>10. ASSUME NEW r \in Requests, HookRaises(r) PROVE Unhooked'
  BY <1>10 DEF HookRaises, Unhooked, Base, TypeOK, NoRequest, Request
<1>11. ASSUME NEW r \in Requests, Enqueue(r) PROVE Unhooked'
  BY <1>11 DEF Enqueue, Unhooked, Base, TypeOK, NoRequest, Request
<1>12. ASSUME NEW r \in Requests, EnqueueRaises(r) PROVE Unhooked'
  BY <1>12 DEF EnqueueRaises, Unhooked, Base, TypeOK, NoRequest, Request
<1>13. ASSUME NEW r \in Requests, PatchSave(r) PROVE Unhooked'
  BY <1>13 DEF PatchSave, Unhooked, Base, TypeOK, NoRequest, Request
<1>14. ASSUME NEW r \in Requests, PatchRaises(r) PROVE Unhooked'
  BY <1>14 DEF PatchRaises, Unhooked, Base, TypeOK, NoRequest, Request
<1>15. ASSUME NEW w \in Workers, StartWorker(w) PROVE Unhooked'
  BY <1>15 DEF StartWorker, Unhooked
<1>16. ASSUME NEW w \in Workers, Claim(w) PROVE Unhooked'
  BY <1>16 DEF Claim, Unhooked
<1>17. ASSUME NEW w \in Workers, Load(w) PROVE Unhooked'
  BY <1>17 DEF Load, Unhooked
<1>18. ASSUME NEW w \in Workers, Plan(w) PROVE Unhooked'
  BY <1>18 DEF Plan, Unhooked
<1>19. ASSUME NEW w \in Workers, BeginResponse(w) PROVE Unhooked'
  BY <1>19 DEF BeginResponse, Unhooked
<1>20. ASSUME NEW w \in Workers, EndResponse(w) PROVE Unhooked'
  BY <1>20 DEF EndResponse, Unhooked
<1>21. ASSUME NEW w \in Workers, Resolve(w) PROVE Unhooked'
  BY <1>21 DEF Resolve, Unhooked
<1>22. ASSUME NEW w \in Workers, Finish(w) PROVE Unhooked'
  BY <1>22 DEF Finish, Unhooked
<1>23. ASSUME NEW w \in Workers, TaskRaises(w) PROVE Unhooked'
  BY <1>23 DEF TaskRaises, Unhooked
<1>24. ASSUME NEW w \in Workers, LoopCrash(w) PROVE Unhooked'
  BY <1>24 DEF LoopCrash, Unhooked
<1>25. ASSUME NEW x \in Alerts, DestroyAlert(x) PROVE Unhooked'
  BY <1>25 DEF DestroyAlert, Unhooked
<1>26. ASSUME NEW p \in Processes, Crash(p) PROVE Unhooked'
  BY <1>26 DEF Crash, Unhooked, Base, TypeOK, NoRequest, Request
<1>27. ASSUME NEW k \in AdminKeys, EditType(k) PROVE Unhooked'
  BY <1>27 DEF EditType, Unhooked
<1>28. ASSUME NEW k \in AdminKeys, NEW d \in Definitions, EditMap(k, d) PROVE Unhooked'
  BY <1>28 DEF EditMap, Unhooked
<1>29. CASE UNCHANGED vars
  BY <1>29 DEF vars, Unhooked
<1>30. ASSUME NEW w \in Workers, Hang(w) PROVE Unhooked'
  BY <1>30 DEF Hang, Unhooked
<1> QED
  BY <1>1, <1>2, <1>3, <1>4, <1>5, <1>6, <1>7, <1>8, <1>9, <1>10, <1>11,
     <1>12, <1>13, <1>14, <1>15, <1>16, <1>17, <1>18, <1>19, <1>20, <1>21,
     <1>22, <1>23, <1>24, <1>25, <1>26, <1>27, <1>28, <1>29, <1>30 DEF Next,
     Serve, Work

(* Every step keeps it: a step that takes an alert's only carrier away either
   hands the alert to another one, resolves it, or disturbs it. *)
LEMMA LossStep ==
    ASSUME Base, Unhooked, NoSilentLoss, [Next]_vars
    PROVE  NoSilentLoss'
<1>1. ASSUME NEW r \in Requests, Receive(r) PROVE NoSilentLoss'
  BY <1>1 DEF Receive, NoSilentLoss, InHook, Enqueuing, Queued, Served,
     Serving, AlertOf, Base, TypeOK, NoRequest, Request
<1>2. ASSUME NEW r \in Requests, Post(r) PROVE NoSilentLoss'
  BY <1>2 DEF Post, NoSilentLoss, InHook, Enqueuing, Queued, Served, Serving,
     AlertOf, Base, TypeOK, NoRequest, Request
<1>3. ASSUME NEW r \in Requests, PatchRead(r) PROVE NoSilentLoss'
  BY <1>3 DEF PatchRead, NoSilentLoss, InHook, Enqueuing, Queued, Served,
     Serving, AlertOf, Base, TypeOK, NoRequest, Request
<1>4. ASSUME NEW r \in Requests, Check(r) PROVE NoSilentLoss'
  BY <1>4 DEF Check, NoSilentLoss, InHook, Enqueuing, Queued, Served, Serving,
     AlertOf, Base, TypeOK, Request
<1>5. ASSUME NEW r \in Requests, Classify(r) PROVE NoSilentLoss'
  BY <1>5 DEF Classify, NoSilentLoss, InHook, Enqueuing, Queued, Served,
     Serving, AlertOf, Base, TypeOK, Request
<1>6. ASSUME NEW r \in Requests, Insert(r) PROVE NoSilentLoss'
  <2>1. PICK y \in Alerts \ issued :
          /\ alerts' = [alerts EXCEPT ![y] = [status |-> req[r].was, type |-> Unknown,
                                              wid |-> req[r].wid]]
          /\ req' = [req EXCEPT ![r] = [req[r] EXCEPT !.pc = "hook", !.alert = y]]
          /\ disturbed' = IF req[r].was = "processing" THEN disturbed \cup {y} ELSE disturbed
    BY <1>6 DEF Insert
  <2>2. \A x \in Alerts : (Queued(x) => Queued(x)') /\ (Served(x) => Served(x)')
    BY <1>6 DEF Insert, Queued, Served, Serving, AlertOf
  <2>3. \A x \in Alerts : (InHook(x) => InHook(x)') /\ (Enqueuing(x) => Enqueuing(x)')
    BY <1>6, <2>1 DEF Insert, InHook, Enqueuing, Base, TypeOK
  <2>4. InHook(y)'
    <3>1. req[r].kind # "patch"
      BY <1>6 DEF Insert, Base, References
    <3>2. req'[r].alert = y /\ req'[r].kind = req[r].kind /\ req'[r].pc = "hook"
      BY <2>1 DEF Base, TypeOK, Request
    <3> QED
      BY <3>1, <3>2 DEF InHook
  <2> QED
    BY <2>1, <2>2, <2>3, <2>4 DEF NoSilentLoss, Base, TypeOK, AlertRow
<1>7. ASSUME NEW r \in Requests, InsertRaises(r) PROVE NoSilentLoss'
  BY <1>7 DEF InsertRaises, NoSilentLoss, InHook, Enqueuing, Queued, Served,
     Serving, AlertOf, Base, TypeOK, NoRequest, Request
<1>8. ASSUME NEW r \in Requests, Hook(r) PROVE NoSilentLoss'
  BY <1>8 DEF Hook, NoSilentLoss, InHook, Enqueuing, Queued, Served, Serving,
     AlertOf, Base, TypeOK, Request
<1>9. ASSUME NEW r \in Requests, SaveProcessing(r) PROVE NoSilentLoss'
  <2>1. PICK y \in Alerts : y = req[r].alert /\ y \in issued
    BY <1>9 DEF SaveProcessing, Base, References, TypeOK
  <2>2. \A x \in Alerts : alerts'[x].status = IF x = y THEN "processing" ELSE alerts[x].status
    BY <1>9, <2>1 DEF SaveProcessing, Base, TypeOK
  <2>3. \A x \in Alerts : (Queued(x) => Queued(x)') /\ (Served(x) => Served(x)')
    BY <1>9 DEF SaveProcessing, Queued, Served, Serving, AlertOf
  <2>4. \A q \in Requests : q # r => req'[q] = req[q]
    BY <1>9 DEF SaveProcessing, Base, TypeOK
  <2>5. ASSUME NEW x \in Alerts, x # y, InHook(x) PROVE InHook(x)'
    BY <2>1, <2>4, <2>5 DEF InHook
  <2>6. ASSUME NEW x \in Alerts, x # y, Enqueuing(x) PROVE Enqueuing(x)'
    BY <2>1, <2>4, <2>6 DEF Enqueuing
  <2>7. ASSUME y \notin disturbed PROVE Enqueuing(y)'
    <3>1. req[r].kind # "patch"
      BY <1>9 DEF SaveProcessing, Base, References
    <3>3. req[r].was # "processing"
      BY <1>9, <2>1, <2>7, <3>1 DEF SaveProcessing, Unhooked
    <3>2. req'[r].pc = "enqueue" /\ req'[r].alert = y
      BY <1>9, <2>1, <3>3 DEF SaveProcessing, Base, TypeOK, Request
    <3> QED
      BY <3>2 DEF Enqueuing
  <2> QED
    BY <1>9, <2>2, <2>3, <2>5, <2>6, <2>7 DEF SaveProcessing, NoSilentLoss
<1>10. ASSUME NEW r \in Requests, HookRaises(r) PROVE NoSilentLoss'
  BY <1>10 DEF HookRaises, NoSilentLoss, InHook, Enqueuing, Queued, Served,
     Serving, AlertOf, Base, TypeOK, NoRequest, Request
<1>11. ASSUME NEW r \in Requests, Enqueue(r) PROVE NoSilentLoss'
  <2>1. PICK t \in Tasks :
          /\ tasks[t].status = "free"
          /\ tasks' = [tasks EXCEPT ![t] = [status |-> "READY", alert |-> req[r].alert,
                         origin |-> IF req[r].kind = "patch" THEN "patch" ELSE "create"]]
    BY <1>11 DEF Enqueue
  <2>2. \A q \in Requests : q # r => req'[q] = req[q]
    BY <1>11 DEF Enqueue, Base, TypeOK
  <2>3. \A s \in Tasks : s # t => tasks'[s] = tasks[s]
    BY <2>1 DEF Base, TypeOK
  <2>4. \A x : x = req[r].alert => Queued(x)'
    BY <2>1 DEF Queued, Base, TypeOK
  <2>5. ASSUME NEW x \in Alerts, InHook(x) PROVE InHook(x)'
    BY <1>11, <2>2, <2>5 DEF Enqueue, InHook
  <2>6. ASSUME NEW x \in Alerts, Enqueuing(x) PROVE Enqueuing(x)' \/ Queued(x)'
    BY <1>11, <2>2, <2>4, <2>6 DEF Enqueuing
  <2>7. ASSUME NEW x \in Alerts, Queued(x) PROVE Queued(x)'
    BY <2>1, <2>3, <2>7 DEF Queued
  <2>8. ASSUME NEW x \in Alerts, Served(x) PROVE Served(x)'
    <3>1. PICK v \in Workers : Serving(v) /\ AlertOf(v) = x
      BY <2>8 DEF Served
    <3>2. wrk[v].task \in Tasks /\ wrk[v].task # t
      BY <2>1, <3>1 DEF Serving, Base, References
    <3>3. Serving(v)' /\ AlertOf(v)' = x
      BY <1>11, <3>1, <3>2, <2>3 DEF Enqueue, Serving, AlertOf
    <3> QED
      BY <3>3 DEF Served
  <2> QED
    BY <1>11, <2>5, <2>6, <2>7, <2>8 DEF Enqueue, NoSilentLoss
<1>12. ASSUME NEW r \in Requests, EnqueueRaises(r) PROVE NoSilentLoss'
  BY <1>12 DEF EnqueueRaises, NoSilentLoss, InHook, Enqueuing, Queued, Served,
     Serving, AlertOf, Base, TypeOK, NoRequest, Request
<1>13. ASSUME NEW r \in Requests, PatchSave(r) PROVE NoSilentLoss'
  BY <1>13 DEF PatchSave, NoSilentLoss, InHook, Enqueuing, Queued, Served,
     Serving, AlertOf, Base, TypeOK, Request, AlertRow, References, NoRequest,
     Responds
<1>14. ASSUME NEW r \in Requests, PatchRaises(r) PROVE NoSilentLoss'
  BY <1>14 DEF PatchRaises, NoSilentLoss, InHook, Enqueuing, Queued, Served,
     Serving, AlertOf, Base, TypeOK, NoRequest, Request
<1>15. ASSUME NEW w \in Workers, StartWorker(w) PROVE NoSilentLoss'
  <2>1. \A x \in Alerts :
          /\ InHook(x) => InHook(x)'
          /\ Enqueuing(x) => Enqueuing(x)'
          /\ Queued(x) => Queued(x)'
    BY <1>15 DEF StartWorker, InHook, Enqueuing, Queued
  <2>2. ASSUME NEW x \in Alerts \ disturbed, Served(x) PROVE Served(x)'
    <3>1. PICK v \in Workers : Serving(v) /\ AlertOf(v) = x
      BY <2>2 DEF Served
    <3>2. Serving(v)' /\ AlertOf(v)' = x
      BY <1>15, <3>1 DEF StartWorker, Serving, AlertOf, Base, TypeOK
    <3> QED
      BY <3>2 DEF Served
  <2> QED
    BY <1>15, <2>1, <2>2 DEF StartWorker, NoSilentLoss
<1>16. ASSUME NEW w \in Workers, Claim(w) PROVE NoSilentLoss'
  <2>1. \A x \in Alerts :
          /\ InHook(x) => InHook(x)'
          /\ Enqueuing(x) => Enqueuing(x)'
    BY <1>16 DEF Claim, InHook, Enqueuing
  <2>2. PICK t \in Tasks :
          /\ tasks[t].status = "READY"
          /\ tasks' = [tasks EXCEPT ![t] = [tasks[t] EXCEPT !.status = "RUNNING"]]
          /\ wrk' = [wrk EXCEPT ![w] = [wrk[w] EXCEPT !.pc = "load", !.task = t]]
    BY <1>16 DEF Claim
  <2>3. \A s \in Tasks : tasks'[s].alert = tasks[s].alert
    BY <2>2 DEF Base, TypeOK, TaskRow
  <2>4. ASSUME NEW x \in Alerts, Queued(x) PROVE Queued(x)' \/ Served(x)'
    <3>1. PICK s \in Tasks : tasks[s].alert = x /\ tasks[s].status = "READY"
      BY <2>4 DEF Queued
    <3>2. CASE s # t
      BY <2>2, <3>1, <3>2 DEF Queued, Base, TypeOK
    <3>3. CASE s = t
      <4>1. wrk'[w].pc = "load" /\ wrk'[w].task = t
        BY <2>2 DEF Base, TypeOK, Worker
      <4>2. Serving(w)' /\ AlertOf(w)' = x
        BY <4>1, <2>3, <3>1, <3>3 DEF Serving, AlertOf
      <4> QED
        BY <4>2 DEF Served
    <3> QED
      BY <3>2, <3>3
  <2>5. ASSUME NEW x \in Alerts, Served(x) PROVE Served(x)'
    <3>1. PICK v \in Workers : Serving(v) /\ AlertOf(v) = x
      BY <2>5 DEF Served
    <3>2. v # w /\ wrk'[v] = wrk[v] /\ wrk[v].task \in Tasks
      BY <1>16, <2>2, <3>1 DEF Claim, Serving, Base, TypeOK, References
    <3>3. Serving(v)' /\ AlertOf(v)' = x
      BY <3>1, <3>2, <2>3 DEF Serving, AlertOf
    <3> QED
      BY <3>3 DEF Served
  <2> QED
    BY <1>16, <2>1, <2>4, <2>5 DEF Claim, NoSilentLoss
<1>17. ASSUME NEW w \in Workers, Load(w) PROVE NoSilentLoss'
  <2>1. \A x \in Alerts :
          /\ InHook(x) => InHook(x)'
          /\ Enqueuing(x) => Enqueuing(x)'
          /\ Queued(x) => Queued(x)'
    BY <1>17 DEF Load, InHook, Enqueuing, Queued
  <2>2. ASSUME NEW x \in Alerts \ disturbed, Served(x) PROVE Served(x)'
    <3>1. PICK v \in Workers : Serving(v) /\ AlertOf(v) = x
      BY <2>2 DEF Served
    <3>2. Serving(v)' /\ AlertOf(v)' = x
      <4>1. CASE v # w
        BY <1>17, <3>1, <4>1 DEF Load, Serving, AlertOf, Base, TypeOK
      <4>2. CASE v = w
        <5>1. x \in issued
          BY <3>1, <4>2 DEF Serving, AlertOf, Base, References
        <5>2. Present(x)
          BY <5>1 DEF Present, Base, References
        <5> QED
          BY <1>17, <3>1, <4>2, <5>2 DEF Load, Serving, AlertOf, Base, TypeOK
      <4> QED
        BY <4>1, <4>2
    <3> QED
      BY <3>2 DEF Served
  <2> QED
    BY <1>17, <2>1, <2>2 DEF Load, NoSilentLoss
<1>18. ASSUME NEW w \in Workers, Plan(w) PROVE NoSilentLoss'
  <2>1. \A x \in Alerts :
          /\ InHook(x) => InHook(x)'
          /\ Enqueuing(x) => Enqueuing(x)'
          /\ Queued(x) => Queued(x)'
    BY <1>18 DEF Plan, InHook, Enqueuing, Queued
  <2>2. ASSUME NEW x \in Alerts \ disturbed, Served(x) PROVE Served(x)'
    <3>1. PICK v \in Workers : Serving(v) /\ AlertOf(v) = x
      BY <2>2 DEF Served
    <3>2. Serving(v)' /\ AlertOf(v)' = x
      BY <1>18, <3>1 DEF Plan, Serving, AlertOf, Base, TypeOK
    <3> QED
      BY <3>2 DEF Served
  <2> QED
    BY <1>18, <2>1, <2>2 DEF Plan, NoSilentLoss
<1>19. ASSUME NEW w \in Workers, BeginResponse(w) PROVE NoSilentLoss'
  <2>1. \A x \in Alerts :
          /\ InHook(x) => InHook(x)'
          /\ Enqueuing(x) => Enqueuing(x)'
          /\ Queued(x) => Queued(x)'
    BY <1>19 DEF BeginResponse, InHook, Enqueuing, Queued
  <2>2. ASSUME NEW x \in Alerts \ disturbed, Served(x) PROVE Served(x)'
    <3>1. PICK v \in Workers : Serving(v) /\ AlertOf(v) = x
      BY <2>2 DEF Served
    <3>2. Serving(v)' /\ AlertOf(v)' = x
      BY <1>19, <3>1 DEF BeginResponse, Serving, AlertOf, Base, TypeOK
    <3> QED
      BY <3>2 DEF Served
  <2> QED
    BY <1>19, <2>1, <2>2 DEF BeginResponse, NoSilentLoss
<1>20. ASSUME NEW w \in Workers, EndResponse(w) PROVE NoSilentLoss'
  <2>1. \A x \in Alerts :
          /\ InHook(x) => InHook(x)'
          /\ Enqueuing(x) => Enqueuing(x)'
          /\ Queued(x) => Queued(x)'
    BY <1>20 DEF EndResponse, InHook, Enqueuing, Queued
  <2>2. ASSUME NEW x \in Alerts \ disturbed, Served(x) PROVE Served(x)'
    <3>1. PICK v \in Workers : Serving(v) /\ AlertOf(v) = x
      BY <2>2 DEF Served
    <3>2. Serving(v)' /\ AlertOf(v)' = x
      BY <1>20, <3>1 DEF EndResponse, Serving, AlertOf, Base, TypeOK
    <3> QED
      BY <3>2 DEF Served
  <2> QED
    BY <1>20, <2>1, <2>2 DEF EndResponse, NoSilentLoss
<1>21. ASSUME NEW w \in Workers, Resolve(w) PROVE NoSilentLoss'
  <2>1. \A x \in Alerts :
          /\ InHook(x) => InHook(x)'
          /\ Enqueuing(x) => Enqueuing(x)'
          /\ Queued(x) => Queued(x)'
    BY <1>21 DEF Resolve, InHook, Enqueuing, Queued
  <2>2. \A x \in Alerts : alerts'[x].status = IF x = AlertOf(w) /\ Present(x)
                                            THEN "resolved" ELSE alerts[x].status
    BY <1>21 DEF Resolve, Base, TypeOK, AlertRow
  <2>3. ASSUME NEW x \in Alerts \ disturbed, Served(x), x # AlertOf(w) PROVE Served(x)'
    <3>1. PICK v \in Workers : Serving(v) /\ AlertOf(v) = x
      BY <2>3 DEF Served
    <3>2. Serving(v)' /\ AlertOf(v)' = x
      BY <1>21, <2>3, <3>1 DEF Resolve, Serving, AlertOf, Base, TypeOK
    <3> QED
      BY <3>2 DEF Served
  <2> QED
    BY <1>21, <2>1, <2>2, <2>3 DEF Resolve, NoSilentLoss, Present
<1>22. ASSUME NEW w \in Workers, Finish(w) PROVE NoSilentLoss'
  <2>1. /\ tasks' = [tasks EXCEPT ![wrk[w].task] = [tasks[wrk[w].task] EXCEPT !.status = "SUCCEEDED"]]
        /\ wrk' = [wrk EXCEPT ![w] = Resting("idle")]
        /\ wrk[w].task \in Tasks /\ tasks[wrk[w].task].status = "RUNNING"
    BY <1>22 DEF Finish, Serving, Base, References
  <2>2. \A t \in Tasks :
          /\ tasks'[t].alert = tasks[t].alert
          /\ tasks[t].status = "READY" => tasks'[t] = tasks[t]
    BY <2>1 DEF Base, TypeOK, TaskRow
  <2>3. \A x \in Alerts :
          /\ InHook(x) => InHook(x)'
          /\ Enqueuing(x) => Enqueuing(x)'
          /\ Queued(x) => Queued(x)'
    BY <1>22, <2>2 DEF Finish, InHook, Enqueuing, Queued
  <2>4. ASSUME NEW x \in Alerts, x \notin disturbed', Served(x) PROVE Served(x)'
    <3>1. PICK v \in Workers : Serving(v) /\ AlertOf(v) = x
      BY <2>4 DEF Served
    <3>2. v # w
      BY <1>22, <2>4, <3>1 DEF Finish, Serving
    <3>3. wrk'[v] = wrk[v] /\ wrk[v].task \in Tasks
      BY <2>1, <3>1, <3>2 DEF Serving, Base, TypeOK, References
    <3>4. Serving(v)' /\ AlertOf(v)' = x
      BY <3>1, <3>3, <2>2 DEF Serving, AlertOf
    <3> QED
      BY <3>4 DEF Served
  <2> QED
    BY <1>22, <2>3, <2>4 DEF Finish, NoSilentLoss
<1>23. ASSUME NEW w \in Workers, TaskRaises(w) PROVE NoSilentLoss'
  <2>1. /\ tasks' = [tasks EXCEPT ![wrk[w].task] = [tasks[wrk[w].task] EXCEPT !.status = "FAILED"]]
        /\ wrk' = [wrk EXCEPT ![w] = Resting("idle")]
        /\ wrk[w].task \in Tasks /\ tasks[wrk[w].task].status = "RUNNING"
    BY <1>23 DEF TaskRaises, Serving, Base, References
  <2>2. \A t \in Tasks :
          /\ tasks'[t].alert = tasks[t].alert
          /\ tasks[t].status = "READY" => tasks'[t] = tasks[t]
    BY <2>1 DEF Base, TypeOK, TaskRow
  <2>3. \A x \in Alerts :
          /\ InHook(x) => InHook(x)'
          /\ Enqueuing(x) => Enqueuing(x)'
          /\ Queued(x) => Queued(x)'
    BY <1>23, <2>2 DEF TaskRaises, InHook, Enqueuing, Queued
  <2>4. ASSUME NEW x \in Alerts, x \notin disturbed', Served(x) PROVE Served(x)'
    <3>1. PICK v \in Workers : Serving(v) /\ AlertOf(v) = x
      BY <2>4 DEF Served
    <3>2. v # w
      BY <1>23, <2>4, <3>1 DEF TaskRaises, Serving
    <3>3. wrk'[v] = wrk[v] /\ wrk[v].task \in Tasks
      BY <2>1, <3>1, <3>2 DEF Serving, Base, TypeOK, References
    <3>4. Serving(v)' /\ AlertOf(v)' = x
      BY <3>1, <3>3, <2>2 DEF Serving, AlertOf
    <3> QED
      BY <3>4 DEF Served
  <2> QED
    BY <1>23, <2>3, <2>4 DEF TaskRaises, NoSilentLoss
<1>24. ASSUME NEW w \in Workers, LoopCrash(w) PROVE NoSilentLoss'
  <2>1. tasks' = tasks /\ wrk' = [wrk EXCEPT ![w] = Resting("down")]
    BY <1>24 DEF LoopCrash
  <2>2. \A t \in Tasks : tasks'[t] = tasks[t]
    BY <2>1
  <2>3. \A x \in Alerts :
          /\ InHook(x) => InHook(x)'
          /\ Enqueuing(x) => Enqueuing(x)'
          /\ Queued(x) => Queued(x)'
    BY <1>24, <2>2 DEF LoopCrash, InHook, Enqueuing, Queued
  <2>4. ASSUME NEW x \in Alerts, x \notin disturbed', Served(x) PROVE Served(x)'
    <3>1. PICK v \in Workers : Serving(v) /\ AlertOf(v) = x
      BY <2>4 DEF Served
    <3>2. v # w
      BY <1>24, <2>4, <3>1 DEF LoopCrash, Serving
    <3>3. wrk'[v] = wrk[v] /\ wrk[v].task \in Tasks
      BY <2>1, <3>1, <3>2 DEF Serving, Base, TypeOK, References
    <3>4. Serving(v)' /\ AlertOf(v)' = x
      BY <3>1, <3>3, <2>2 DEF Serving, AlertOf
    <3> QED
      BY <3>4 DEF Served
  <2> QED
    BY <1>24, <2>3, <2>4 DEF LoopCrash, NoSilentLoss
<1>25. ASSUME NEW x \in Alerts, DestroyAlert(x) PROVE NoSilentLoss'
  BY <1>25 DEF DestroyAlert, NoSilentLoss, InHook, Enqueuing, Queued, Served,
     Serving, AlertOf, Base, TypeOK, AlertRow
<1>26. ASSUME NEW p \in Processes, Crash(p) PROVE NoSilentLoss'
  BY <1>26 DEF Crash, NoSilentLoss, InHook, Enqueuing, Queued, Served,
     Serving, AlertOf, Base, TypeOK, NoRequest, Resting, Owed
<1>27. ASSUME NEW k \in AdminKeys, EditType(k) PROVE NoSilentLoss'
  BY <1>27 DEF EditType, NoSilentLoss, InHook, Enqueuing, Queued, Served,
     Serving, AlertOf
<1>28. ASSUME NEW k \in AdminKeys, NEW d \in Definitions, EditMap(k, d) PROVE NoSilentLoss'
  BY <1>28 DEF EditMap, NoSilentLoss, InHook, Enqueuing, Queued, Served,
     Serving, AlertOf
<1>29. CASE UNCHANGED vars
  BY <1>29 DEF vars, NoSilentLoss, InHook, Enqueuing, Queued, Served, Serving,
     AlertOf
<1>30. ASSUME NEW w \in Workers, Hang(w) PROVE NoSilentLoss'
  <2>1. /\ tasks' = tasks /\ wrk[w].pc = "act" /\ AlertOf(w) \in disturbed'
        /\ \A v \in Workers : v # w => wrk'[v] = wrk[v]
    BY <1>30 DEF Hang, Base, TypeOK
  <2>2. \A x \in Alerts :
          /\ InHook(x) => InHook(x)'
          /\ Enqueuing(x) => Enqueuing(x)'
          /\ Queued(x) => Queued(x)'
    BY <1>30 DEF Hang, InHook, Enqueuing, Queued
  <2>3. ASSUME NEW x \in Alerts, x \notin disturbed', Served(x) PROVE Served(x)'
    BY <2>1, <2>3 DEF Served, Serving, AlertOf
  <2> QED
    BY <1>30, <2>2, <2>3 DEF Hang, NoSilentLoss
<1> QED
  BY <1>1, <1>2, <1>3, <1>4, <1>5, <1>6, <1>7, <1>8, <1>9, <1>10, <1>11,
     <1>12, <1>13, <1>14, <1>15, <1>16, <1>17, <1>18, <1>19, <1>20, <1>21,
     <1>22, <1>23, <1>24, <1>25, <1>26, <1>27, <1>28, <1>29, <1>30 DEF Next,
     Serve, Work

(* Spec => []NoSilentLoss, for any number of requests, workers, rows and faults:
   no interleaving of the hook, the nested save, the queue and the executor
   forgets an alert that neither a fault nor an operator disturbed. *)
THEOREM NothingIsLost == Spec => []NoSilentLoss
<1>1. Init => Unhooked /\ NoSilentLoss
  BY DEF Init, Unhooked, NoSilentLoss, NoRequest
<1>2. Base /\ Unhooked /\ NoSilentLoss /\ [Next]_vars => (Unhooked /\ NoSilentLoss)'
  BY UnhookedStep, LossStep
<1> QED
  BY BaseInvariant, <1>1, <1>2, PTL DEF Spec

-------------------------------------------------------------------------------
(* What the unique constraint of the column sees to, used below: no two stored
   rows carry the same Wazuh id. *)
UniqueIds ==
    \A x, y \in Alerts : x # y /\ Present(x) /\ Present(y) /\ alerts[x].wid # NoId
        => alerts[x].wid # alerts[y].wid

(* Every write of a row meets the constraint, also the nested save and the PATCH
   that bring a deleted row back. *)
LEMMA UniqueStep ==
    ASSUME Base, UniqueIds, [Next]_vars
    PROVE  UniqueIds'
<1>1. ASSUME NEW r \in Requests, Receive(r) PROVE UniqueIds'
  BY <1>1 DEF Receive, UniqueIds, Present
<1>2. ASSUME NEW r \in Requests, Post(r) PROVE UniqueIds'
  BY <1>2 DEF Post, UniqueIds, Present
<1>3. ASSUME NEW r \in Requests, PatchRead(r) PROVE UniqueIds'
  BY <1>3 DEF PatchRead, UniqueIds, Present
<1>4. ASSUME NEW r \in Requests, Check(r) PROVE UniqueIds'
  BY <1>4 DEF Check, UniqueIds, Present
<1>5. ASSUME NEW r \in Requests, Classify(r) PROVE UniqueIds'
  BY <1>5 DEF Classify, UniqueIds, Present
<1>6. ASSUME NEW r \in Requests, Insert(r) PROVE UniqueIds'
  <2>1. PICK y \in Alerts :
          /\ CanWrite(y, req[r].wid)
          /\ alerts' = [alerts EXCEPT ![y] = [status |-> req[r].was, type |-> Unknown,
                                              wid |-> req[r].wid]]
    BY <1>6 DEF Insert
  <2>2. \A x \in Alerts : IF x = y THEN alerts'[x].wid = req[r].wid
                                    ELSE alerts'[x] = alerts[x]
    BY <2>1 DEF Base, TypeOK
  <2> QED
    BY <2>1, <2>2 DEF UniqueIds, CanWrite, Present
<1>7. ASSUME NEW r \in Requests, InsertRaises(r) PROVE UniqueIds'
  BY <1>7 DEF InsertRaises, UniqueIds, Present
<1>8. ASSUME NEW r \in Requests, Hook(r) PROVE UniqueIds'
  BY <1>8 DEF Hook, UniqueIds, Present
<1>9. ASSUME NEW r \in Requests, SaveProcessing(r) PROVE UniqueIds'
  <2>1. PICK y \in Alerts : y = req[r].alert /\ CanWrite(y, req[r].wid)
    BY <1>9 DEF SaveProcessing, Base, References, TypeOK
  <2>2. \A x \in Alerts : IF x = y THEN alerts'[x].wid = req[r].wid
                                    ELSE alerts'[x] = alerts[x]
    BY <1>9, <2>1 DEF SaveProcessing, Base, TypeOK
  <2> QED
    BY <2>1, <2>2 DEF UniqueIds, CanWrite, Present
<1>10. ASSUME NEW r \in Requests, HookRaises(r) PROVE UniqueIds'
  BY <1>10 DEF HookRaises, UniqueIds, Present
<1>11. ASSUME NEW r \in Requests, Enqueue(r) PROVE UniqueIds'
  BY <1>11 DEF Enqueue, UniqueIds, Present
<1>12. ASSUME NEW r \in Requests, EnqueueRaises(r) PROVE UniqueIds'
  BY <1>12 DEF EnqueueRaises, UniqueIds, Present
<1>13. ASSUME NEW r \in Requests, PatchSave(r) PROVE UniqueIds'
  <2>1. PICK y \in Alerts : y = req[r].alert /\ CanWrite(y, req[r].wid)
    BY <1>13 DEF PatchSave, Base, References, TypeOK
  <2>2. \A x \in Alerts : IF x = y THEN alerts'[x].wid = req[r].wid
                                    ELSE alerts'[x] = alerts[x]
    BY <1>13, <2>1 DEF PatchSave, Base, TypeOK
  <2> QED
    BY <2>1, <2>2 DEF UniqueIds, CanWrite, Present
<1>14. ASSUME NEW r \in Requests, PatchRaises(r) PROVE UniqueIds'
  BY <1>14 DEF PatchRaises, UniqueIds, Present
<1>15. ASSUME NEW w \in Workers, StartWorker(w) PROVE UniqueIds'
  BY <1>15 DEF StartWorker, UniqueIds, Present
<1>16. ASSUME NEW w \in Workers, Claim(w) PROVE UniqueIds'
  BY <1>16 DEF Claim, UniqueIds, Present
<1>17. ASSUME NEW w \in Workers, Load(w) PROVE UniqueIds'
  BY <1>17 DEF Load, UniqueIds, Present
<1>18. ASSUME NEW w \in Workers, Plan(w) PROVE UniqueIds'
  BY <1>18 DEF Plan, UniqueIds, Present
<1>19. ASSUME NEW w \in Workers, BeginResponse(w) PROVE UniqueIds'
  BY <1>19 DEF BeginResponse, UniqueIds, Present
<1>20. ASSUME NEW w \in Workers, EndResponse(w) PROVE UniqueIds'
  BY <1>20 DEF EndResponse, UniqueIds, Present
<1>21. ASSUME NEW w \in Workers, Resolve(w) PROVE UniqueIds'
  <2>1. \A y \in Alerts : /\ alerts'[y].wid = alerts[y].wid
                          /\ alerts'[y].status # "absent" => alerts[y].status # "absent"
    BY <1>21 DEF Resolve, Base, TypeOK, AlertRow, Present
  <2> QED
    BY <2>1 DEF UniqueIds, Present
<1>22. ASSUME NEW w \in Workers, Finish(w) PROVE UniqueIds'
  BY <1>22 DEF Finish, UniqueIds, Present
<1>23. ASSUME NEW w \in Workers, TaskRaises(w) PROVE UniqueIds'
  BY <1>23 DEF TaskRaises, UniqueIds, Present
<1>24. ASSUME NEW w \in Workers, LoopCrash(w) PROVE UniqueIds'
  BY <1>24 DEF LoopCrash, UniqueIds, Present
<1>25. ASSUME NEW x \in Alerts, DestroyAlert(x) PROVE UniqueIds'
  <2>1. \A y \in Alerts : /\ alerts'[y].wid = alerts[y].wid
                          /\ alerts'[y].status # "absent" => alerts[y].status # "absent"
    BY <1>25 DEF DestroyAlert, Base, TypeOK, AlertRow
  <2> QED
    BY <2>1 DEF UniqueIds, Present
<1>26. ASSUME NEW p \in Processes, Crash(p) PROVE UniqueIds'
  BY <1>26 DEF Crash, UniqueIds, Present
<1>27. ASSUME NEW k \in AdminKeys, EditType(k) PROVE UniqueIds'
  BY <1>27 DEF EditType, UniqueIds, Present
<1>28. ASSUME NEW k \in AdminKeys, NEW d \in Definitions, EditMap(k, d) PROVE UniqueIds'
  BY <1>28 DEF EditMap, UniqueIds, Present
<1>29. CASE UNCHANGED vars
  BY <1>29 DEF vars, UniqueIds, Present
<1>30. ASSUME NEW w \in Workers, Hang(w) PROVE UniqueIds'
  BY <1>30 DEF Hang, UniqueIds, Present
<1> QED
  BY <1>1, <1>2, <1>3, <1>4, <1>5, <1>6, <1>7, <1>8, <1>9, <1>10, <1>11,
     <1>12, <1>13, <1>14, <1>15, <1>16, <1>17, <1>18, <1>19, <1>20, <1>21,
     <1>22, <1>23, <1>24, <1>25, <1>26, <1>27, <1>28, <1>29, <1>30 DEF Next,
     Serve, Work

LEMMA UniqueIdsInvariant == Spec => []UniqueIds
<1>1. Init => UniqueIds
  BY DEF Init, UniqueIds, Present
<1>2. Base /\ UniqueIds /\ [Next]_vars => UniqueIds'
  BY UniqueStep
<1> QED
  BY BaseInvariant, <1>1, <1>2, PTL DEF Spec

(* What makes a response unique to its row: a PATCH never passes for a creation,
   the thread that creates a row is the only one that may queue its automatic
   response, and does so once. *)
Creating(r) == req[r].kind # "patch" /\ req[r].pc \in {"hook", "save", "enqueue"}
Created(t)  == tasks[t].status # "free" /\ tasks[t].origin = "create"
Once ==
    /\ \A r \in Requests : req[r].pc = "patch" => req[r].kind = "patch"
    /\ \A r, q \in Requests :
          r # q /\ Creating(r) /\ Creating(q) => req[r].alert # req[q].alert
    /\ \A r \in Requests, t \in Tasks :
          Creating(r) /\ Created(t) => tasks[t].alert # req[r].alert
    /\ \A s, t \in Tasks :
          s # t /\ Created(s) /\ Created(t) => tasks[s].alert # tasks[t].alert

(* Every step keeps it. *)
LEMMA OnceStep ==
    ASSUME Base, Once, [Next]_vars
    PROVE  Once'
<1>1. ASSUME NEW r \in Requests, Receive(r) PROVE Once'
  BY <1>1 DEF Receive, Once, Creating, Created, Base, TypeOK, NoRequest,
     Request
<1>2. ASSUME NEW r \in Requests, Post(r) PROVE Once'
  BY <1>2 DEF Post, Once, Creating, Created, Base, TypeOK, NoRequest, Request
<1>3. ASSUME NEW r \in Requests, PatchRead(r) PROVE Once'
  BY <1>3 DEF PatchRead, Once, Creating, Created, Base, TypeOK, NoRequest,
     Request
<1>4. ASSUME NEW r \in Requests, Check(r) PROVE Once'
  BY <1>4 DEF Check, Once, Creating, Created, Base, TypeOK, NoRequest, Request
<1>5. ASSUME NEW r \in Requests, Classify(r) PROVE Once'
  BY <1>5 DEF Classify, Once, Creating, Created, Base, TypeOK, NoRequest,
     Request
<1>6. ASSUME NEW r \in Requests, Insert(r) PROVE Once'
  <2>1. PICK y \in Alerts \ issued :
          req' = [req EXCEPT ![r] = [req[r] EXCEPT !.pc = "hook", !.alert = y]]
    BY <1>6 DEF Insert
  <2>2. \A q \in Requests : q # r => req'[q] = req[q]
    BY <2>1 DEF Base, TypeOK
  <2>3. req'[r].alert = y /\ req'[r].pc = "hook"
    BY <2>1 DEF Base, TypeOK, Request
  <2>4. /\ \A q \in Requests : Creating(q) => req[q].alert # y
        /\ \A t \in Tasks : Created(t) => tasks[t].alert # y
    BY <2>1 DEF Creating, Created, Base, References
  <2>5. tasks' = tasks
    BY <1>6 DEF Insert
  <2> QED
    BY <2>2, <2>3, <2>4, <2>5 DEF Once, Creating, Created
<1>7. ASSUME NEW r \in Requests, InsertRaises(r) PROVE Once'
  BY <1>7 DEF InsertRaises, Once, Creating, Created, Base, TypeOK, NoRequest,
     Request
<1>8. ASSUME NEW r \in Requests, Hook(r) PROVE Once'
  BY <1>8 DEF Hook, Once, Creating, Created, Base, TypeOK, NoRequest, Request
<1>9. ASSUME NEW r \in Requests, SaveProcessing(r) PROVE Once'
  BY <1>9 DEF SaveProcessing, Once, Creating, Created, Base, TypeOK,
     NoRequest, Request
<1>10. ASSUME NEW r \in Requests, HookRaises(r) PROVE Once'
  BY <1>10 DEF HookRaises, Once, Creating, Created, Base, TypeOK, NoRequest,
     Request
<1>11. ASSUME NEW r \in Requests, Enqueue(r) PROVE Once'
  <2>1. PICK u \in Tasks :
          /\ tasks[u].status = "free"
          /\ tasks' = [tasks EXCEPT ![u] = [status |-> "READY", alert |-> req[r].alert,
                         origin |-> IF req[r].kind = "patch" THEN "patch" ELSE "create"]]
    BY <1>11 DEF Enqueue
  <2>2. \A q \in Requests : IF q = r THEN req'[q].pc = "idle" ELSE req'[q] = req[q]
    BY <1>11 DEF Enqueue, Base, TypeOK, NoRequest
  <2>3. \A t \in Tasks : t # u => tasks'[t] = tasks[t]
    BY <2>1 DEF Base, TypeOK
  <2>4. tasks'[u].alert = req[r].alert /\ (tasks'[u].origin = "create" => Creating(r))
    BY <1>11, <2>1 DEF Enqueue, Creating, Base, TypeOK
  <2>5. \A q \in Requests : Creating(q)' => q # r /\ Creating(q)
    BY <2>2 DEF Creating
  <2>6. ASSUME NEW t \in Tasks, Created(t)'
        PROVE  IF t = u THEN Creating(r) ELSE Created(t)
    <3>1. CASE t = u
      BY <2>4, <2>6, <3>1 DEF Created
    <3>2. CASE t # u
      BY <2>3, <2>6, <3>2 DEF Created
    <3> QED
      BY <3>1, <3>2
  <2> QED
    BY <2>2, <2>3, <2>4, <2>5, <2>6 DEF Once
<1>12. ASSUME NEW r \in Requests, EnqueueRaises(r) PROVE Once'
  BY <1>12 DEF EnqueueRaises, Once, Creating, Created, Base, TypeOK,
     NoRequest, Request
<1>13. ASSUME NEW r \in Requests, PatchSave(r) PROVE Once'
  BY <1>13 DEF PatchSave, Once, Creating, Created, Base, TypeOK, NoRequest,
     Request
<1>14. ASSUME NEW r \in Requests, PatchRaises(r) PROVE Once'
  BY <1>14 DEF PatchRaises, Once, Creating, Created, Base, TypeOK, NoRequest,
     Request
<1>15. ASSUME NEW w \in Workers, StartWorker(w) PROVE Once'
  BY <1>15 DEF StartWorker, Once, Creating, Created
<1>16. ASSUME NEW w \in Workers, Claim(w) PROVE Once'
  <2>1. \A t \in Tasks : /\ tasks'[t].alert = tasks[t].alert
                         /\ tasks'[t].origin = tasks[t].origin
                         /\ tasks'[t].status # "free" => tasks[t].status # "free"
    BY <1>16 DEF Claim, Serving, Base, References, TypeOK, TaskRow
  <2>2. req' = req
    BY <1>16 DEF Claim
  <2> QED
    BY <2>1, <2>2 DEF Once, Creating, Created
<1>17. ASSUME NEW w \in Workers, Load(w) PROVE Once'
  BY <1>17 DEF Load, Once, Creating, Created
<1>18. ASSUME NEW w \in Workers, Plan(w) PROVE Once'
  BY <1>18 DEF Plan, Once, Creating, Created
<1>19. ASSUME NEW w \in Workers, BeginResponse(w) PROVE Once'
  BY <1>19 DEF BeginResponse, Once, Creating, Created
<1>20. ASSUME NEW w \in Workers, EndResponse(w) PROVE Once'
  BY <1>20 DEF EndResponse, Once, Creating, Created
<1>21. ASSUME NEW w \in Workers, Resolve(w) PROVE Once'
  BY <1>21 DEF Resolve, Once, Creating, Created
<1>22. ASSUME NEW w \in Workers, Finish(w) PROVE Once'
  <2>1. \A t \in Tasks : /\ tasks'[t].alert = tasks[t].alert
                         /\ tasks'[t].origin = tasks[t].origin
                         /\ tasks'[t].status # "free" => tasks[t].status # "free"
    BY <1>22 DEF Finish, Serving, Base, References, TypeOK, TaskRow
  <2>2. req' = req
    BY <1>22 DEF Finish
  <2> QED
    BY <2>1, <2>2 DEF Once, Creating, Created
<1>23. ASSUME NEW w \in Workers, TaskRaises(w) PROVE Once'
  <2>1. \A t \in Tasks : /\ tasks'[t].alert = tasks[t].alert
                         /\ tasks'[t].origin = tasks[t].origin
                         /\ tasks'[t].status # "free" => tasks[t].status # "free"
    BY <1>23 DEF TaskRaises, Serving, Base, References, TypeOK, TaskRow
  <2>2. req' = req
    BY <1>23 DEF TaskRaises
  <2> QED
    BY <2>1, <2>2 DEF Once, Creating, Created
<1>24. ASSUME NEW w \in Workers, LoopCrash(w) PROVE Once'
  BY <1>24 DEF LoopCrash, Once, Creating, Created
<1>25. ASSUME NEW x \in Alerts, DestroyAlert(x) PROVE Once'
  BY <1>25 DEF DestroyAlert, Once, Creating, Created
<1>26. ASSUME NEW p \in Processes, Crash(p) PROVE Once'
  BY <1>26 DEF Crash, Once, Creating, Created, NoRequest
<1>27. ASSUME NEW k \in AdminKeys, EditType(k) PROVE Once'
  BY <1>27 DEF EditType, Once, Creating, Created
<1>28. ASSUME NEW k \in AdminKeys, NEW d \in Definitions, EditMap(k, d) PROVE Once'
  BY <1>28 DEF EditMap, Once, Creating, Created
<1>29. CASE UNCHANGED vars
  BY <1>29 DEF vars, Once, Creating, Created
<1>30. ASSUME NEW w \in Workers, Hang(w) PROVE Once'
  BY <1>30 DEF Hang, Once, Creating, Created
<1> QED
  BY <1>1, <1>2, <1>3, <1>4, <1>5, <1>6, <1>7, <1>8, <1>9, <1>10, <1>11,
     <1>12, <1>13, <1>14, <1>15, <1>16, <1>17, <1>18, <1>19, <1>20, <1>21,
     <1>22, <1>23, <1>24, <1>25, <1>26, <1>27, <1>28, <1>29, <1>30 DEF Next,
     Serve, Work

(* Spec => []OneResponsePerEvent: two automatic responses are for two rows, and
   two rows of one event exist only when one of them was disturbed. *)
THEOREM ResponsesAreUnique == Spec => []OneResponsePerEvent
<1>1. Init => Once
  BY DEF Init, Once, Creating, Created, NoRequest
<1>2. Base /\ Once /\ [Next]_vars => Once'
  BY OnceStep
<1>3. ASSUME Base, Once, UniqueIds PROVE OneResponsePerEvent
  <2>1. \A t \in Tasks : Created(t) =>
          /\ tasks[t].alert \in Alerts
          /\ ~Present(tasks[t].alert) => tasks[t].alert \in disturbed
    BY <1>3 DEF Created, Present, Base, TypeOK, References
  <2> QED
    BY <1>3, <2>1 DEF Once, Created, UniqueIds, OneResponsePerEvent
<1> QED
  BY BaseInvariant, UniqueIdsInvariant, <1>1, <1>2, <1>3, PTL DEF Spec

-------------------------------------------------------------------------------
(* No dashboard edit, no POST and no PATCH so far. *)
Quiet == \A e \in {"edit", "post", "patch"} : spent[e] = 0

(* What passed the task's filter is what the hook will see, for each thread,
   for each queued row and for each stored alert. *)
CleanRequest(r) ==
    /\ req[r].kind = "ingest" /\ req[r].was = "new" /\ req[r].pc # "patch"
    /\ req[r].pc \in {"insert", "hook"}
         => ClassifyDescription(types, req[r].desc).key # Unknown
    /\ req[r].pc = "save" => req[r].type # Unknown
    /\ req[r].pc = "enqueue" => alerts[req[r].alert].type # Unknown
CleanTask(t) == tasks[t].status # "free" => alerts[tasks[t].alert].type # Unknown
CleanAlert(x) == alerts[x].status \in {"processing", "resolved"} => alerts[x].type # Unknown
Clean == /\ \A r \in Requests : CleanRequest(r)
         /\ \A t \in Tasks : CleanTask(t)
         /\ \A x \in Alerts : CleanAlert(x)
Relevant == Quiet => Clean

\* No issued row is given the type 'unknown'.
KeepsTypes == \A x \in issued : alerts[x].type # Unknown => alerts'[x].type # Unknown

(* Counters only grow: what has not happened had not happened before. *)
LEMMA CountersGrow ==
    ASSUME TypeOK, [Next]_vars, NEW f \in Events, spent'[f] = 0 PROVE spent[f] = 0
<1>1. ASSUME NEW e \in Events, Spend(e) PROVE spent[f] = 0
  BY <1>1 DEF Spend, TypeOK
<1>2. CASE spent' = spent
  BY <1>2
<1>3. spent' = spent \/ \E e \in Events : Spend(e)
  <2>1. ASSUME NEW r \in Requests, Receive(r) \/ Post(r) \/ PatchRead(r) \/ Serve(r)
        PROVE  spent' = spent \/ \E e \in Events : Spend(e)
    BY <2>1 DEF Serve, Receive, Post, PatchRead, Check, Classify, Insert, InsertRaises, Hook,
       SaveProcessing, HookRaises, Enqueue, EnqueueRaises, PatchSave, PatchRaises, Events
  <2>2. ASSUME NEW w \in Workers, Work(w) \/ Hang(w) \/ LoopCrash(w)
        PROVE  spent' = spent \/ \E e \in Events : Spend(e)
    BY <2>2 DEF Work, StartWorker, Claim, Load, Plan, BeginResponse, EndResponse, Resolve,
       Finish, TaskRaises, Hang, LoopCrash, Events
  <2>3. ASSUME \/ \E x \in Alerts : DestroyAlert(x)
               \/ \E p \in Processes : Crash(p)
               \/ \E k \in AdminKeys : EditType(k) \/ \E d \in Definitions : EditMap(k, d)
        PROVE  spent' = spent \/ \E e \in Events : Spend(e)
    BY <2>3 DEF DestroyAlert, Crash, EditType, EditMap, Events
  <2> QED
    BY <2>1, <2>2, <2>3 DEF Next, vars
<1> QED
  BY <1>1, <1>2, <1>3

(* A quiet state comes from a quiet one. *)
LEMMA QuietBefore ==
    ASSUME TypeOK, Quiet', [Next]_vars PROVE Quiet
<1>1. \A e \in {"edit", "post", "patch"} : e \in Events
  BY DEF Events
<1> QED
  BY <1>1, CountersGrow DEF Quiet

(* A thread that a step leaves alone, or sends home, stays clean. *)
LEMMA CleanFrame ==
    ASSUME NEW r \in Requests, CleanRequest(r), References, KeepsTypes, types' = types,
           req'[r] \in {req[r], NoRequest}
    PROVE  CleanRequest(r)'
<1>1. req[r].pc = "enqueue" => req[r].alert \in issued
  BY DEF References
<1>2. NoRequest.kind = "ingest" /\ NoRequest.was = "new" /\ NoRequest.pc = "idle"
  BY DEF NoRequest
<1>3. CASE req'[r] = NoRequest
  BY <1>2, <1>3 DEF CleanRequest
<1>4. CASE req'[r] = req[r]
  <2>1. CASE req[r].pc = "enqueue"
    BY <1>1, <1>4, <2>1 DEF CleanRequest, KeepsTypes
  <2>2. CASE req[r].pc # "enqueue"
    BY <1>4, <2>2 DEF CleanRequest
  <2> QED
    BY <2>1, <2>2
<1> QED
  BY <1>3, <1>4

(* The queue stays clean when its rows keep their alerts. *)
LEMMA CleanQueueFrame ==
    ASSUME \A t \in Tasks : CleanTask(t), References, KeepsTypes,
           \A t \in Tasks : /\ tasks'[t].alert = tasks[t].alert
                            /\ tasks'[t].status # "free" => tasks[t].status # "free"
    PROVE  \A t \in Tasks : CleanTask(t)'
  BY DEF CleanTask, References, KeepsTypes

(* A thread that ends up clean and writes no table leaves everything clean. *)
LEMMA CleanThread ==
    ASSUME Base, Clean, types' = types, alerts' = alerts, tasks' = tasks,
           NEW r \in Requests, CleanRequest(r)',
           \A q \in Requests : q # r => req'[q] = req[q]
    PROVE  Clean'
<1>1. KeepsTypes
  BY DEF KeepsTypes
<1>2. (\A t \in Tasks : CleanTask(t)') /\ (\A x \in Alerts : CleanAlert(x)')
  BY DEF Clean, CleanTask, CleanAlert
<1>3. \A q \in Requests : q # r => CleanRequest(q)'
  BY <1>1, CleanFrame DEF Clean, Base
<1> QED
  BY <1>2, <1>3 DEF Clean

(* A thread's own step keeps everything clean. *)
LEMMA CleanServe ==
    ASSUME Base, Clean, types' = types, NEW r \in Requests, Receive(r) \/ Serve(r)
    PROVE  Clean'
<1>0. /\ req \in [Requests -> Request] /\ tasks \in [Tasks -> TaskRow]
      /\ alerts \in [Alerts -> AlertRow]
      /\ req[r].kind = "ingest" /\ req[r].was = "new" /\ req[r].pc # "patch"
      /\ CleanRequest(r) /\ References
  BY DEF Base, TypeOK, Clean, CleanRequest
<1>r. /\ NoRequest.kind = "ingest" /\ NoRequest.was = "new" /\ NoRequest.pc = "idle"
      /\ \A rec : rec = NoRequest /\ req'[r] = rec => CleanRequest(r)'
  BY DEF NoRequest, CleanRequest
<1>1. CASE Receive(r)
  <2>1. CleanRequest(r)'
    BY <1>1, <1>0 DEF Receive, CleanRequest, NoRequest
  <2>2. \A q \in Requests : q # r => req'[q] = req[q]
    BY <1>1, <1>0 DEF Receive
  <2> QED
    BY <1>1, <2>1, <2>2, CleanThread DEF Receive
<1>2. CASE Check(r)
  <2>1. CleanRequest(r)'
    <3>1. req'[r] = NoRequest \/ req'[r] = [req[r] EXCEPT !.pc = "classify"]
      BY <1>2, <1>0 DEF Check
    <3>2. CASE req'[r] = [req[r] EXCEPT !.pc = "classify"]
      BY <3>2, <1>0 DEF CleanRequest, Request
    <3> QED
      BY <3>1, <3>2, <1>r
  <2>2. \A q \in Requests : q # r => req'[q] = req[q]
    BY <1>2, <1>0 DEF Check
  <2> QED
    BY <1>2, <2>1, <2>2, CleanThread DEF Check
<1>3. CASE Classify(r)
  <2>1. CleanRequest(r)'
    <3>1. \/ req'[r] = NoRequest
          \/ /\ ClassifyDescription(types, req[r].desc).key # Unknown
             /\ req'[r] = [req[r] EXCEPT !.pc = "insert"]
      BY <1>3, <1>0 DEF Classify
    <3>2. CASE /\ ClassifyDescription(types, req[r].desc).key # Unknown
               /\ req'[r] = [req[r] EXCEPT !.pc = "insert"]
      <4>1. req'[r].desc = req[r].desc /\ req'[r].pc = "insert" /\ req'[r].kind = "ingest"
            /\ req'[r].was = "new"
        BY <3>2, <1>0 DEF Request
      <4> QED
        BY <3>2, <4>1 DEF CleanRequest
    <3> QED
      BY <3>1, <3>2, <1>r
  <2>2. \A q \in Requests : q # r => req'[q] = req[q]
    BY <1>3, <1>0 DEF Classify
  <2> QED
    BY <1>3, <2>1, <2>2, CleanThread DEF Classify
<1>4. CASE InsertRaises(r)
  <2>1. CleanRequest(r)'
    BY <1>4, <1>0, <1>r DEF InsertRaises
  <2>2. \A q \in Requests : q # r => req'[q] = req[q]
    BY <1>4, <1>0 DEF InsertRaises
  <2> QED
    BY <1>4, <2>1, <2>2, CleanThread DEF InsertRaises
<1>5. CASE HookRaises(r)
  <2>1. CleanRequest(r)'
    BY <1>5, <1>0, <1>r DEF HookRaises
  <2>2. \A q \in Requests : q # r => req'[q] = req[q]
    BY <1>5, <1>0 DEF HookRaises
  <2> QED
    BY <1>5, <2>1, <2>2, CleanThread DEF HookRaises
<1>6. CASE EnqueueRaises(r)
  <2>1. CleanRequest(r)'
    BY <1>6, <1>0, <1>r DEF EnqueueRaises
  <2>2. \A q \in Requests : q # r => req'[q] = req[q]
    BY <1>6, <1>0 DEF EnqueueRaises
  <2> QED
    BY <1>6, <2>1, <2>2, CleanThread DEF EnqueueRaises
<1>7. CASE Hook(r)
  <2>1. CleanRequest(r)'
    <3>1. ClassifyDescription(types, req[r].desc).key # Unknown
      BY <1>7, <1>0 DEF Hook, CleanRequest
    <3>2. /\ req'[r].type = ClassifyDescription(types, req[r].desc).key
          /\ req'[r].pc = "save" /\ req'[r].kind = "ingest" /\ req'[r].was = "new"
      BY <1>7, <1>0 DEF Hook, Request
    <3> QED
      BY <3>1, <3>2 DEF CleanRequest
  <2>2. \A q \in Requests : q # r => req'[q] = req[q]
    BY <1>7, <1>0 DEF Hook
  <2> QED
    BY <1>7, <2>1, <2>2, CleanThread DEF Hook
<1>8. CASE PatchSave(r)
  BY <1>8, <1>0 DEF PatchSave
<1>9. CASE PatchRaises(r)
  BY <1>9, <1>0 DEF PatchRaises
<1>10. CASE Insert(r)
  <2>1. PICK x \in Alerts \ issued :
          /\ alerts' = [alerts EXCEPT ![x] = [status |-> req[r].was, type |-> Unknown,
                                              wid |-> req[r].wid]]
          /\ req' = [req EXCEPT ![r] = [req[r] EXCEPT !.pc = "hook", !.alert = x]]
    BY <1>10 DEF Insert
  <2>2. tasks' = tasks /\ (\A q \in Requests : q # r => req'[q] = req[q])
    BY <1>10, <2>1 DEF Insert
  <2>3. \A y \in Alerts : IF y = x THEN alerts'[y].status = "new" ELSE alerts'[y] = alerts[y]
    BY <2>1, <1>0
  <2>4. KeepsTypes
    BY <2>1, <2>3 DEF KeepsTypes, Base, TypeOK
  <2>5. CleanRequest(r)'
    <3>1. ClassifyDescription(types, req[r].desc).key # Unknown
      BY <1>10, <1>0 DEF Insert, CleanRequest
    <3>2. /\ req'[r].desc = req[r].desc
          /\ req'[r].pc = "hook" /\ req'[r].kind = "ingest" /\ req'[r].was = "new"
      BY <2>1, <1>0 DEF Request
    <3> QED
      BY <3>1, <3>2 DEF CleanRequest
  <2>6. \A q \in Requests : q # r => CleanRequest(q)'
    BY <2>2, <2>4, <1>0, CleanFrame DEF Clean
  <2>7. \A t \in Tasks : CleanTask(t)'
    BY <2>2, <2>4, <1>0, CleanQueueFrame DEF Clean
  <2>8. \A y \in Alerts : CleanAlert(y)'
    BY <2>3 DEF Clean, CleanAlert
  <2> QED
    BY <2>5, <2>6, <2>7, <2>8 DEF Clean
<1>11. CASE SaveProcessing(r)
  <2>1. PICK x \in Alerts : x = req[r].alert
    BY <1>11, <1>0 DEF SaveProcessing, References, Base, TypeOK
  <2>2. req[r].type # Unknown
    BY <1>11, <1>0 DEF SaveProcessing, CleanRequest
  <2>3. /\ tasks' = tasks /\ (\A q \in Requests : q # r => req'[q] = req[q])
        /\ req'[r] = [req[r] EXCEPT !.pc = "enqueue"]
    BY <1>11, <1>0 DEF SaveProcessing
  <2>4. \A y \in Alerts : IF y = x THEN alerts'[y].type # Unknown ELSE alerts'[y] = alerts[y]
    BY <1>11, <2>1, <2>2, <1>0 DEF SaveProcessing
  <2>5. KeepsTypes
    BY <2>4 DEF KeepsTypes, Base, TypeOK
  <2>6. CleanRequest(r)'
    <3>1. /\ req'[r].alert = x /\ req'[r].pc = "enqueue"
          /\ req'[r].kind = "ingest" /\ req'[r].was = "new"
      BY <2>1, <2>3, <1>0 DEF Request
    <3> QED
      BY <3>1, <2>4 DEF CleanRequest
  <2>7. \A q \in Requests : q # r => CleanRequest(q)'
    BY <2>3, <2>5, <1>0, CleanFrame DEF Clean
  <2>8. \A t \in Tasks : CleanTask(t)'
    BY <2>3, <2>5, <1>0, CleanQueueFrame DEF Clean
  <2>9. \A y \in Alerts : CleanAlert(y)'
    BY <2>4 DEF Clean, CleanAlert
  <2> QED
    BY <2>6, <2>7, <2>8, <2>9 DEF Clean
<1>12. CASE Enqueue(r)
  <2>1. PICK t \in Tasks : \E o \in {"create", "patch"} :
          tasks' = [tasks EXCEPT ![t] = [status |-> "READY", alert |-> req[r].alert,
                                         origin |-> o]]
    BY <1>12 DEF Enqueue
  <2>2. alerts' = alerts /\ req'[r] = NoRequest /\ (\A q \in Requests : q # r => req'[q] = req[q])
    BY <1>12, <1>0 DEF Enqueue
  <2>3. \A s \in Tasks : IF s = t THEN tasks'[s].alert = req[r].alert ELSE tasks'[s] = tasks[s]
    BY <2>1, <1>0
  <2>4. alerts[req[r].alert].type # Unknown
    BY <1>12, <1>0 DEF Enqueue, CleanRequest
  <2>5. \A s \in Tasks : CleanTask(s)'
    BY <2>2, <2>3, <2>4 DEF Clean, CleanTask
  <2>6. KeepsTypes /\ \A x \in Alerts : CleanAlert(x)'
    BY <2>2 DEF KeepsTypes, Clean, CleanAlert
  <2>7. \A q \in Requests : CleanRequest(q)'
    BY <2>2, <2>6, <1>0, <1>r, CleanFrame DEF Clean
  <2> QED
    BY <2>5, <2>6, <2>7 DEF Clean
<1> QED
  BY <1>1, <1>2, <1>3, <1>4, <1>5, <1>6, <1>7, <1>8, <1>9, <1>10, <1>11, <1>12 DEF Serve

(* So does every other step. *)
LEMMA CleanWork ==
    ASSUME Base, Clean, types' = types, NEW w \in Workers, Work(w) \/ Hang(w) \/ LoopCrash(w)
    PROVE  Clean'
<1>0. /\ tasks \in [Tasks -> TaskRow] /\ alerts \in [Alerts -> AlertRow] /\ References
  BY DEF Base, TypeOK
<1>1. req' = req
  BY DEF Work, StartWorker, Claim, Load, Plan, BeginResponse, EndResponse, Resolve,
     Finish, TaskRaises, Hang, LoopCrash
<1>2. KeepsTypes /\ \A x \in Alerts : CleanAlert(x)'
  <2>1. CASE alerts' = alerts
    BY <2>1 DEF KeepsTypes, Clean, CleanAlert
  <2>2. CASE Resolve(w) /\ alerts' # alerts
    <3>1. PICK t \in Tasks : t = wrk[w].task /\ tasks[t].status = "RUNNING"
      BY <2>2, <1>0 DEF Resolve, References
    <3>2. PICK x \in Alerts : x = tasks[t].alert
      BY <3>1, <1>0 DEF References, Base, TypeOK
    <3>3. alerts[x].type # Unknown
      BY <3>1, <3>2 DEF Clean, CleanTask
    <3>4. alerts' = [alerts EXCEPT ![x] = [alerts[x] EXCEPT !.status = "resolved"]]
      BY <2>2, <3>1, <3>2 DEF Resolve, AlertOf
    <3>5. \A y \in Alerts : /\ alerts'[y].type = alerts[y].type
                            /\ y # x => alerts'[y] = alerts[y]
      BY <3>4, <1>0 DEF AlertRow
    <3> QED
      BY <3>3, <3>5 DEF KeepsTypes, Clean, CleanAlert, Base, TypeOK
  <2>3. ~Resolve(w) => alerts' = alerts
    BY DEF Work, StartWorker, Claim, Load, Plan, BeginResponse, EndResponse,
       Finish, TaskRaises, Hang, LoopCrash
  <2> QED
    BY <2>1, <2>2, <2>3
<1>3. \A t \in Tasks : CleanTask(t)'
  <2>1. \A t \in Tasks : /\ tasks'[t].alert = tasks[t].alert
                         /\ tasks'[t].status # "free" => tasks[t].status # "free"
    <3>1. CASE Claim(w)
      BY <3>1, <1>0 DEF Claim, TaskRow
    <3>2. CASE Finish(w)
      BY <3>2, <1>0 DEF Finish, TaskRow, References
    <3>3. CASE TaskRaises(w)
      BY <3>3, <1>0 DEF TaskRaises, TaskRow, References, Serving
    <3>4. ~Claim(w) /\ ~Finish(w) /\ ~TaskRaises(w) => tasks' = tasks
      BY DEF Work, StartWorker, Load, Plan, BeginResponse, EndResponse, Resolve, Hang, LoopCrash
    <3> QED
      BY <3>1, <3>2, <3>3, <3>4
  <2> QED
    BY <2>1, <1>0, <1>2, CleanQueueFrame DEF Clean
<1>4. \A r \in Requests : CleanRequest(r)'
  BY <1>0, <1>1, <1>2, CleanFrame DEF Clean
<1> QED
  BY <1>2, <1>3, <1>4 DEF Clean

(* Every step keeps what the classifier said relevant while it is quiet. *)
LEMMA RelevantStep ==
    ASSUME Base, Relevant, [Next]_vars
    PROVE  Relevant'
<1> SUFFICES ASSUME Quiet' PROVE Clean'
  BY DEF Relevant
<1>1. Quiet /\ Clean
  BY QuietBefore DEF Relevant, Base
<1>2. \A e \in {"edit", "post", "patch"} : e \in Events /\ spent[e] = 0 /\ spent'[e] = 0
  BY <1>1 DEF Quiet, Events
<1>3. \A e \in {"edit", "post", "patch"} : ~Spend(e)
  BY <1>2 DEF Spend, Base, TypeOK
<1>4. ~(\E k \in AdminKeys : EditType(k) \/ \E d \in Definitions : EditMap(k, d))
  BY <1>3 DEF EditType, EditMap
<1>5. types' = types
  BY <1>4 DEF Next, vars, Serve, Work, Receive, Post, PatchRead, Check, Classify, Insert,
     InsertRaises, Hook, SaveProcessing, HookRaises, Enqueue, EnqueueRaises, PatchSave,
     PatchRaises, StartWorker, Claim, Load, Plan, BeginResponse, EndResponse, Resolve,
     Finish, TaskRaises, Hang, LoopCrash, DestroyAlert, Crash
<1>6. ASSUME NEW r \in Requests, Receive(r) \/ Post(r) \/ PatchRead(r) \/ Serve(r)
      PROVE  Clean'
  BY <1>1, <1>3, <1>5, <1>6, CleanServe DEF Post, PatchRead
<1>7. ASSUME NEW w \in Workers, Work(w) \/ Hang(w) \/ LoopCrash(w) PROVE Clean'
  BY <1>1, <1>5, <1>7, CleanWork
<1>8. ASSUME NEW x \in Alerts, DestroyAlert(x) PROVE Clean'
  <2>1. \A y \in Alerts : /\ alerts'[y].type = alerts[y].type
                          /\ alerts'[y].status \in {alerts[y].status, "absent"}
    BY <1>8 DEF DestroyAlert, Base, TypeOK, AlertRow
  <2>2. KeepsTypes /\ \A y \in Alerts : CleanAlert(y)'
    BY <1>1, <2>1 DEF KeepsTypes, Clean, CleanAlert, Base, TypeOK
  <2>3. req' = req /\ tasks' = tasks
    BY <1>8 DEF DestroyAlert
  <2>4. \A r \in Requests : CleanRequest(r)'
    BY <1>1, <1>5, <2>2, <2>3, CleanFrame DEF Clean, Base
  <2>5. \A t \in Tasks : CleanTask(t)'
    BY <1>1, <2>2, <2>3, CleanQueueFrame DEF Clean, Base
  <2> QED
    BY <2>2, <2>4, <2>5 DEF Clean
<1>9. ASSUME NEW p \in Processes, Crash(p) PROVE Clean'
  <2>1. alerts' = alerts /\ tasks' = tasks /\ \A r \in Requests : req'[r] \in {req[r], NoRequest}
    BY <1>9 DEF Crash
  <2>2. KeepsTypes
    BY <2>1 DEF KeepsTypes
  <2>3. \A r \in Requests : CleanRequest(r)'
    BY <1>1, <1>5, <2>1, <2>2, CleanFrame DEF Clean, Base
  <2> QED
    BY <1>1, <2>1, <2>3 DEF Clean, CleanTask, CleanAlert
<1>10. CASE UNCHANGED vars
  BY <1>1, <1>10 DEF vars, Clean, CleanRequest, CleanTask, CleanAlert
<1> QED
  BY <1>4, <1>6, <1>7, <1>8, <1>9, <1>10 DEF Next

(* Spec => []NoiseIsDropped: without a dashboard edit, a POST or a PATCH, an
   unrecognised event is never responded to, in any interleaving and after any
   fault. *)
THEOREM NoiseIsNeverServed == Spec => []NoiseIsDropped
<1>1. Init => Relevant
  BY DEF Init, Relevant, Clean, CleanRequest, CleanTask, CleanAlert, NoRequest
<1>2. Base /\ Relevant /\ [Next]_vars => Relevant'
  BY RelevantStep
<1>3. Relevant => NoiseIsDropped
  BY DEF Relevant, Quiet, Clean, CleanAlert, NoiseIsDropped
<1> QED
  BY BaseInvariant, <1>1, <1>2, <1>3, PTL DEF Spec

-------------------------------------------------------------------------------
(* The responses of a task: order, completeness and pending rows.  The invariant
   Executing says where each worker stands. *)
Final == {"executed", "failed"}
Untouched(t) == \A d \in Definitions : log[t][d] = "none"
Done(t) == \A d \in Definitions : IF planned[t][d] # Off THEN log[t][d] \in Final
                                  ELSE log[t][d] = "none"

(* Where a worker stands in its task: what it has still to do is planned and
   unlogged, what it has done has an outcome, and nothing logged comes later in
   the order than what is still to do. *)
Progress(w) ==
    LET t == wrk[w].task
    IN  /\ wrk[w].pc \in {"load", "plan"} => Untouched(t)
        /\ wrk[w].pc \in {"next", "act"} =>
             /\ \A d \in Definitions : wrk[w].todo[d] \in {planned[t][d], Off}
             /\ \A d \in Definitions : planned[t][d] = Off => log[t][d] = "none"
             /\ \A d \in Definitions : planned[t][d] # Off /\ wrk[w].todo[d] = Off =>
                   log[t][d] \in Final \/ AlertOf(w) \in disturbed
             /\ \A d, e \in Definitions : wrk[w].todo[d] # Off /\ log[t][e] # "none" =>
                   planned[t][e] <= planned[t][d]
        /\ wrk[w].pc = "act" =>
             /\ wrk[w].cur \in Definitions /\ wrk[w].todo[wrk[w].cur] # Off
             /\ \A d \in Definitions : wrk[w].todo[d] # Off =>
                   planned[t][wrk[w].cur] <= planned[t][d]
        /\ wrk[w].pc = "finish" => Done(t) \/ AlertOf(w) \in disturbed

Executing ==
    /\ \A t \in Tasks : tasks[t].status \in {"free", "READY"} => Untouched(t)
    /\ \A w \in Workers : Progress(w)
    /\ SucceededIsComplete

(* A worker whose task and record nobody touched stands where it stood. *)
LEMMA ProgressFrame ==
    ASSUME NEW w \in Workers, Progress(w), disturbed \subseteq disturbed',
           wrk'[w] = wrk[w],
           wrk[w].pc \notin {"down", "idle"} =>
             /\ tasks'[wrk[w].task].alert = tasks[wrk[w].task].alert
             /\ log'[wrk[w].task] = log[wrk[w].task]
             /\ planned'[wrk[w].task] = planned[wrk[w].task]
    PROVE  Progress(w)'
  BY DEF Progress, Untouched, Done, AlertOf

(* A worker between tasks stands nowhere. *)
LEMMA ProgressRest ==
    ASSUME NEW w \in Workers, wrk'[w].pc \in {"down", "idle", "hung"} PROVE Progress(w)'
  BY DEF Progress

(* Steps that leave the queue, the log and the workers alone. *)
LEMMA ExecutingFrame ==
    ASSUME Executing, disturbed \subseteq disturbed',
           tasks' = tasks, log' = log, wrk' = wrk, planned' = planned
    PROVE  Executing'
<1>1. \A w \in Workers : Progress(w)'
  BY ProgressFrame DEF Executing
<1> QED
  BY <1>1 DEF Executing, Untouched, SucceededIsComplete

(* A step of one worker that leaves the other workers' tasks alone. *)
LEMMA ExecutingOther ==
    ASSUME Base, Executing, NEW w \in Workers, wrk[w].pc \notin {"down", "idle"},
           NEW k \in Tasks, k = wrk[w].task, disturbed \subseteq disturbed',
           \A v \in Workers : v # w => wrk'[v] = wrk[v],
           \A t \in Tasks : tasks'[t].alert = tasks[t].alert,
           \A t \in Tasks : t # k =>
              /\ log'[t] = log[t] /\ planned'[t] = planned[t]
              /\ tasks'[t].status = tasks[t].status,
           tasks'[k].status \in {"RUNNING", "FAILED"}
             \/ (tasks'[k].status = "SUCCEEDED"
                 /\ (Done(k)' \/ AlertOf(w) \in disturbed)),
           Progress(w)'
    PROVE  Executing'
<1>1. ASSUME NEW v \in Workers PROVE Progress(v)'
  <2>1. CASE v = w
    BY <2>1
  <2>2. CASE v # w /\ wrk[v].pc \in {"down", "idle"}
    BY <2>2, ProgressRest
  <2>3. CASE v # w /\ wrk[v].pc \notin {"down", "idle"}
    <3>1. wrk[v].task \in Tasks /\ wrk[v].task # k
      BY <2>3 DEF Base, References
    <3> QED
      BY <2>3, <3>1, ProgressFrame DEF Executing
  <2> QED
    BY <2>1, <2>2, <2>3
<1>2. ASSUME NEW t \in Tasks, tasks'[t].status \in {"free", "READY"} PROVE Untouched(t)'
  <2>1. t # k
    BY <1>2
  <2> QED
    BY <1>2, <2>1 DEF Executing, Untouched
<1>3. SucceededIsComplete'
  <2>1. ASSUME NEW t \in Tasks, tasks'[t].status = "SUCCEEDED", tasks'[t].alert \notin disturbed'
        PROVE  Done(t)'
    <3>1. CASE t = k
      BY <2>1, <3>1 DEF AlertOf
    <3>2. CASE t # k
      BY <2>1, <3>2 DEF Executing, SucceededIsComplete, Done, Final
    <3> QED
      BY <3>1, <3>2
  <2> QED
    BY <2>1 DEF SucceededIsComplete, Done, Final
<1> QED
  BY <1>1, <1>2, <1>3 DEF Executing

LEMMA ExecutingInit == ASSUME Init PROVE Executing
<1>1. /\ \A t \in Tasks : tasks[t].status = "free" /\ Untouched(t)
      /\ \A w \in Workers : wrk[w].pc = "down"
  BY DEF Init, Untouched, Resting
<1> QED
  BY <1>1 DEF Executing, Progress, SucceededIsComplete

(* Every step keeps it. *)
LEMMA ExecutingStep ==
    ASSUME Base, Executing, [Next]_vars
    PROVE  Executing'
<1>1. ASSUME tasks' = tasks, log' = log, wrk' = wrk, planned' = planned,
             disturbed \subseteq disturbed'
      PROVE  Executing'
  BY <1>1, ExecutingFrame
<1>2. ASSUME NEW r \in Requests, Enqueue(r) PROVE Executing'
  <2>1. PICK u \in Tasks :
          /\ tasks[u].status = "free"
          /\ tasks' = [tasks EXCEPT ![u] = [status |-> "READY", alert |-> req[r].alert,
                         origin |-> IF req[r].kind = "patch" THEN "patch" ELSE "create"]]
    BY <1>2 DEF Enqueue
  <2>2. /\ tasks'[u].status = "READY"
        /\ \A t \in Tasks : t # u => tasks'[t] = tasks[t]
        /\ log' = log /\ wrk' = wrk /\ planned' = planned /\ disturbed' = disturbed
    BY <1>2, <2>1 DEF Enqueue, Base, TypeOK
  <2>3. ASSUME NEW w \in Workers PROVE Progress(w)'
    <3>1. wrk[w].pc \notin {"down", "idle"} => wrk[w].task \in Tasks /\ wrk[w].task # u
      BY <2>1 DEF Base, References
    <3> QED
      BY <2>2, <3>1, ProgressFrame DEF Executing
  <2>4. ASSUME NEW t \in Tasks, tasks'[t].status \in {"free", "READY"} PROVE Untouched(t)'
    BY <2>1, <2>2, <2>4 DEF Executing, Untouched
  <2>5. SucceededIsComplete'
    BY <2>1, <2>2 DEF Executing, SucceededIsComplete
  <2> QED
    BY <2>3, <2>4, <2>5 DEF Executing
<1>3. ASSUME NEW w \in Workers, StartWorker(w) PROVE Executing'
  <2>1. /\ tasks' = tasks /\ log' = log /\ planned' = planned /\ disturbed' = disturbed
        /\ \A v \in Workers : v # w => wrk'[v] = wrk[v]
        /\ wrk'[w].pc = "idle"
    BY <1>3 DEF StartWorker, Resting, Base, TypeOK
  <2>2. \A v \in Workers : Progress(v)'
    BY <2>1, ProgressFrame, ProgressRest DEF Executing
  <2> QED
    BY <2>1, <2>2 DEF Executing, Untouched, SucceededIsComplete
<1>4. ASSUME NEW w \in Workers, Claim(w) PROVE Executing'
  <2>1. PICK u \in Tasks :
          /\ tasks[u].status = "READY"
          /\ tasks' = [tasks EXCEPT ![u] = [tasks[u] EXCEPT !.status = "RUNNING"]]
          /\ wrk' = [wrk EXCEPT ![w] = [wrk[w] EXCEPT !.pc = "load", !.task = u]]
    BY <1>4 DEF Claim
  <2>2. /\ tasks'[u].status = "RUNNING"
        /\ \A t \in Tasks : tasks'[t].alert = tasks[t].alert
        /\ \A t \in Tasks : t # u => tasks'[t] = tasks[t]
        /\ \A v \in Workers : v # w => wrk'[v] = wrk[v]
        /\ wrk'[w].pc = "load" /\ wrk'[w].task = u
    BY <2>1 DEF Base, TypeOK, TaskRow, Worker
  <2>3. log' = log /\ planned' = planned /\ disturbed' = disturbed
    BY <1>4 DEF Claim
  <2>4. ASSUME NEW v \in Workers PROVE Progress(v)'
    <3>1. CASE v = w
      BY <2>1, <2>2, <2>3, <3>1 DEF Progress, Executing, Untouched
    <3>2. CASE v # w
      <4>1. wrk[v].pc \notin {"down", "idle"} => wrk[v].task \in Tasks /\ wrk[v].task # u
        BY <2>1 DEF Base, References
      <4> QED
        BY <2>2, <2>3, <3>2, <4>1, ProgressFrame DEF Executing
    <3> QED
      BY <3>1, <3>2
  <2>5. ASSUME NEW t \in Tasks, tasks'[t].status \in {"free", "READY"} PROVE Untouched(t)'
    BY <2>2, <2>3, <2>5 DEF Executing, Untouched
  <2>6. SucceededIsComplete'
    BY <2>2, <2>3 DEF Executing, SucceededIsComplete
  <2> QED
    BY <2>4, <2>5, <2>6 DEF Executing
<1>5. ASSUME NEW w \in Workers, NEW k \in Tasks, k = wrk[w].task,
             tasks[k].status = "RUNNING", wrk[w].pc \notin {"down", "idle"},
             \A v \in Workers : v # w => wrk'[v] = wrk[v],
             \A t \in Tasks : t # k => log'[t] = log[t] /\ planned'[t] = planned[t],
             tasks' = tasks, disturbed' = disturbed, Progress(w)'
      PROVE  Executing'
  BY <1>5, ExecutingOther
<1>6. ASSUME NEW w \in Workers, wrk[w].pc \notin {"down", "idle"}
      PROVE  \E k \in Tasks : k = wrk[w].task /\ tasks[k].status = "RUNNING"
  BY <1>6 DEF Base, References
<1>7. ASSUME NEW w \in Workers, Load(w) PROVE Executing'
  <2>1. PICK k \in Tasks : k = wrk[w].task /\ tasks[k].status = "RUNNING"
    BY <1>6, <1>7 DEF Load
  <2>2. /\ tasks' = tasks /\ log' = log /\ planned' = planned /\ disturbed' = disturbed
        /\ \A v \in Workers : v # w => wrk'[v] = wrk[v]
    BY <1>7 DEF Load, Base, TypeOK
  <2>3. /\ wrk'[w].task = k
        /\ IF Present(tasks[k].alert) THEN wrk'[w].pc = "plan" ELSE wrk'[w].pc = "finish"
    BY <1>7, <2>1 DEF Load, AlertOf, Base, TypeOK, Worker
  <2>4. ~Present(tasks[k].alert) => tasks[k].alert \in disturbed
    BY <2>1 DEF Present, Base, References
  <2>5. Progress(w)'
    BY <1>7, <2>1, <2>2, <2>3, <2>4 DEF Load, Executing, Progress, Untouched, AlertOf
  <2> QED
    BY <1>5, <1>7, <2>1, <2>2, <2>5 DEF Load
<1>8. ASSUME NEW w \in Workers, Plan(w) PROVE Executing'
  <2>1. PICK k \in Tasks : k = wrk[w].task /\ tasks[k].status = "RUNNING"
    BY <1>6, <1>8 DEF Plan
  <2> DEFINE todo == mapped[wrk[w].type]
  <2>2. /\ tasks' = tasks /\ log' = log /\ disturbed' = disturbed
        /\ wrk' = [wrk EXCEPT ![w] = [wrk[w] EXCEPT !.pc = "next", !.todo = todo]]
        /\ planned' = [planned EXCEPT ![k] = todo]
    BY <1>8, <2>1 DEF Plan
  <2>6. todo \in Rows
    BY DEF Base, TypeOK, Worker
  <2> HIDE DEF todo
  <2>3. /\ \A v \in Workers : v # w => wrk'[v] = wrk[v]
        /\ \A t \in Tasks : t # k => planned'[t] = planned[t]
        /\ wrk'[w].task = k /\ wrk'[w].pc = "next" /\ wrk'[w].todo = todo
        /\ planned'[k] = todo
    BY <2>1, <2>2 DEF Base, TypeOK, Worker
  <2>4. \A d \in Definitions : log[k][d] = "none"
    BY <1>8, <2>1 DEF Plan, Executing, Progress, Untouched
  <2>5. Progress(w)'
    BY <2>2, <2>3, <2>4, <2>6 DEF Progress
  <2> QED
    BY <1>5, <1>8, <2>1, <2>2, <2>3, <2>5 DEF Plan
<1>9. ASSUME NEW w \in Workers, BeginResponse(w) PROVE Executing'
  <2>1. PICK k \in Tasks : k = wrk[w].task /\ tasks[k].status = "RUNNING"
    BY <1>6, <1>9 DEF BeginResponse
  <2>2. PICK c \in Left(w) :
          /\ \A e \in Left(w) : wrk[w].todo[c] <= wrk[w].todo[e]
          /\ wrk' = [wrk EXCEPT ![w] = [wrk[w] EXCEPT !.pc = "act", !.cur = c]]
          /\ log' = [log EXCEPT ![k] = [log[k] EXCEPT ![c] = "pending"]]
    BY <1>9, <2>1 DEF BeginResponse
  <2>3. /\ c \in Definitions /\ wrk[w].todo[c] # Off
        /\ \A e \in Definitions : wrk[w].todo[e] # Off => wrk[w].todo[c] <= wrk[w].todo[e]
    BY <2>2 DEF Left
  <2>4. /\ \A v \in Workers : v # w => wrk'[v] = wrk[v]
        /\ wrk'[w].task = k /\ wrk'[w].pc = "act" /\ wrk'[w].todo = wrk[w].todo
        /\ wrk'[w].cur = c
    BY <2>1, <2>2 DEF Base, TypeOK, Worker
  <2>5. /\ \A t \in Tasks : t # k => log'[t] = log[t]
        /\ \A d \in Definitions : log'[k][d] = IF d = c THEN "pending" ELSE log[k][d]
    BY <2>2, <2>3 DEF Base, TypeOK
  <2>6. tasks' = tasks /\ planned' = planned /\ disturbed' = disturbed
    BY <1>9 DEF BeginResponse
  <2>7. /\ \A d \in Definitions : wrk[w].todo[d] \in {planned[k][d], Off}
        /\ \A d \in Definitions : planned[k][d] = Off => log[k][d] = "none"
        /\ \A d \in Definitions : planned[k][d] # Off /\ wrk[w].todo[d] = Off =>
              log[k][d] \in Final \/ tasks[k].alert \in disturbed
        /\ \A d, e \in Definitions : wrk[w].todo[d] # Off /\ log[k][e] # "none" =>
              planned[k][e] <= planned[k][d]
    BY <1>9, <2>1 DEF BeginResponse, Executing, Progress, AlertOf
  <2>9. \A d \in Definitions : planned[k][d] \in Int
    BY DEF Base, TypeOK, Rows, Off
  <2>10. /\ planned[k][c] = wrk[w].todo[c]
         /\ \A d \in Definitions : wrk[w].todo[d] # Off => planned[k][c] <= planned[k][d]
    BY <2>3, <2>7
  <2>8. Progress(w)'
    BY <2>3, <2>4, <2>5, <2>6, <2>7, <2>9, <2>10 DEF Progress, AlertOf
  <2> QED
    BY <1>5, <1>9, <2>1, <2>4, <2>5, <2>6, <2>8 DEF BeginResponse
<1>10. ASSUME NEW w \in Workers, EndResponse(w) PROVE Executing'
  <2>1. PICK k \in Tasks : k = wrk[w].task /\ tasks[k].status = "RUNNING"
    BY <1>6, <1>10 DEF EndResponse, Outcomes
  <2>2. PICK c : c = wrk[w].cur
    OBVIOUS
  <2>3. /\ c \in Definitions /\ wrk[w].todo[c] # Off
        /\ \A d \in Definitions : wrk[w].todo[d] # Off => planned[k][c] <= planned[k][d]
        /\ \A d \in Definitions : wrk[w].todo[d] \in {planned[k][d], Off}
        /\ \A d \in Definitions : planned[k][d] = Off => log[k][d] = "none"
        /\ \A d \in Definitions : planned[k][d] # Off /\ wrk[w].todo[d] = Off =>
              log[k][d] \in Final \/ tasks[k].alert \in disturbed
        /\ \A d, e \in Definitions : wrk[w].todo[d] # Off /\ log[k][e] # "none" =>
              planned[k][e] <= planned[k][d]
    BY <1>10, <2>1, <2>2 DEF EndResponse, Executing, Progress, AlertOf
  <2>4. PICK outcome \in Final :
          log' = [log EXCEPT ![k] = [log[k] EXCEPT ![c] = outcome]]
    BY <1>10, <2>1, <2>2 DEF EndResponse, Outcomes, Final
  <2>5. wrk' = [wrk EXCEPT ![w] = [wrk[w] EXCEPT !.pc = "next",
                       !.todo = [wrk[w].todo EXCEPT ![c] = Off], !.cur = NoDefinition]]
    BY <1>10, <2>2 DEF EndResponse
  <2>6. /\ \A v \in Workers : v # w => wrk'[v] = wrk[v]
        /\ wrk'[w].task = k /\ wrk'[w].pc = "next"
        /\ \A d \in Definitions :
              wrk'[w].todo[d] = IF d = c THEN Off ELSE wrk[w].todo[d]
    BY <2>1, <2>3, <2>5 DEF Base, TypeOK, Worker, Rows
  <2>7. /\ \A t \in Tasks : t # k => log'[t] = log[t]
        /\ \A d \in Definitions : log'[k][d] = IF d = c THEN outcome ELSE log[k][d]
    BY <2>3, <2>4 DEF Base, TypeOK
  <2>8. tasks' = tasks /\ planned' = planned /\ disturbed' = disturbed
    BY <1>10 DEF EndResponse
  <2>9. Progress(w)'
    BY <2>3, <2>6, <2>7, <2>8 DEF Progress, AlertOf
  <2> QED
    BY <1>5, <1>10, <2>1, <2>6, <2>7, <2>8, <2>9 DEF EndResponse
<1>11. ASSUME NEW w \in Workers, Resolve(w) PROVE Executing'
  <2>1. PICK k \in Tasks : k = wrk[w].task /\ tasks[k].status = "RUNNING"
    BY <1>6, <1>11 DEF Resolve
  <2>2. /\ tasks' = tasks /\ log' = log /\ planned' = planned /\ disturbed' = disturbed
        /\ \A v \in Workers : v # w => wrk'[v] = wrk[v]
        /\ wrk'[w].task = k /\ wrk'[w].pc = "finish"
    BY <1>11, <2>1 DEF Resolve, Base, TypeOK, Worker
  <2>3. Done(k) \/ tasks[k].alert \in disturbed
    BY <1>11, <2>1 DEF Resolve, Executing, Progress, AlertOf, Done, Left
  <2>4. Progress(w)'
    BY <2>2, <2>3 DEF Progress, AlertOf, Done
  <2> QED
    BY <1>5, <1>11, <2>1, <2>2, <2>4 DEF Resolve
<1>12. ASSUME NEW w \in Workers, Finish(w) \/ TaskRaises(w) PROVE Executing'
  <2>1. PICK k \in Tasks : k = wrk[w].task /\ tasks[k].status = "RUNNING"
    BY <1>6, <1>12 DEF Finish, TaskRaises, Serving
  <2>2. PICK status \in {"SUCCEEDED", "FAILED"} :
          /\ tasks' = [tasks EXCEPT ![k] = [tasks[k] EXCEPT !.status = status]]
          /\ status = "SUCCEEDED" => wrk[w].pc = "finish"
    BY <1>12, <2>1 DEF Finish, TaskRaises
  <2>3. /\ tasks'[k].status = status
        /\ \A t \in Tasks : tasks'[t].alert = tasks[t].alert
        /\ \A t \in Tasks : t # k => tasks'[t] = tasks[t]
    BY <2>2 DEF Base, TypeOK, TaskRow
  <2>4. /\ log' = log /\ planned' = planned /\ disturbed \subseteq disturbed'
        /\ \A v \in Workers : v # w => wrk'[v] = wrk[v]
        /\ wrk'[w].pc = "idle" /\ wrk[w].pc \notin {"down", "idle"}
    BY <1>12 DEF Finish, TaskRaises, Serving, Resting, Base, TypeOK
  <2>5. status = "SUCCEEDED" => Done(k) \/ AlertOf(w) \in disturbed
    BY <2>1, <2>2 DEF Executing, Progress
  <2>6. status = "SUCCEEDED" => Done(k)' \/ AlertOf(w) \in disturbed
    BY <2>4, <2>5 DEF Done
  <2>7. Progress(w)'
    BY <2>4, ProgressRest
  <2> QED
    BY <2>1, <2>2, <2>3, <2>4, <2>6, <2>7, ExecutingOther
<1>13. ASSUME tasks' = tasks, log' = log, planned' = planned, disturbed \subseteq disturbed',
              \A v \in Workers : wrk'[v] = wrk[v] \/ wrk'[v].pc \in {"down", "hung"}
       PROVE  Executing'
  <2>1. \A v \in Workers : Progress(v)'
    BY <1>13, ProgressFrame, ProgressRest DEF Executing
  <2> QED
    BY <1>13, <2>1 DEF Executing, Untouched, SucceededIsComplete
<1>14. ASSUME NEW w \in Workers, LoopCrash(w) \/ Hang(w) PROVE Executing'
  <2>1. \A v \in Workers : wrk'[v] = wrk[v] \/ wrk'[v].pc \in {"down", "hung"}
    BY <1>14 DEF LoopCrash, Hang, Resting, Base, TypeOK, Worker
  <2> QED
    BY <1>13, <1>14, <2>1 DEF LoopCrash, Hang
<1>15. ASSUME NEW p \in Processes, Crash(p) PROVE Executing'
  BY <1>13, <1>15 DEF Crash, Resting, Base, TypeOK
<1>16. ASSUME NEW x \in Alerts, DestroyAlert(x) PROVE Executing'
  <2>1. /\ tasks' = tasks /\ planned' = planned /\ wrk' = wrk
        /\ disturbed' = disturbed \cup {x}
        /\ \A t \in Tasks : tasks[t].alert # x => log'[t] = log[t]
        /\ \A t \in Tasks, d \in Definitions :
              tasks[t].alert = x => log'[t][d] = "none"
    BY <1>16 DEF DestroyAlert, Base, TypeOK
  <2>2. ASSUME NEW w \in Workers PROVE Progress(w)'
    <3>1. CASE wrk[w].pc \in {"down", "idle", "hung"}
      BY <2>1, <3>1, ProgressRest
    <3>2. CASE wrk[w].pc \notin {"down", "idle", "hung"}
      <4>1. PICK k \in Tasks : k = wrk[w].task
        BY <1>6, <3>2
      <4>2. CASE tasks[k].alert # x
        BY <2>1, <4>1, <4>2, ProgressFrame DEF Executing
      <4>3. CASE tasks[k].alert = x
        BY <2>1, <4>1, <4>3 DEF Executing, Progress, Untouched, AlertOf, Done
      <4> QED
        BY <4>2, <4>3
    <3> QED
      BY <3>1, <3>2
  <2>3. ASSUME NEW t \in Tasks, tasks'[t].status \in {"free", "READY"} PROVE Untouched(t)'
    BY <2>1, <2>3 DEF Executing, Untouched
  <2>4. SucceededIsComplete'
    BY <2>1 DEF Executing, SucceededIsComplete
  <2> QED
    BY <2>2, <2>3, <2>4 DEF Executing
<1>17. ASSUME NEW r \in Requests,
              \/ Receive(r) \/ Post(r) \/ PatchRead(r) \/ Check(r) \/ Classify(r)
              \/ Insert(r) \/ InsertRaises(r) \/ Hook(r) \/ SaveProcessing(r)
              \/ HookRaises(r) \/ EnqueueRaises(r) \/ PatchSave(r) \/ PatchRaises(r)
       PROVE  Executing'
  BY <1>1, <1>17 DEF Receive, Post, PatchRead, Check, Classify, Insert, InsertRaises,
     Hook, SaveProcessing, HookRaises, EnqueueRaises, PatchSave, PatchRaises
<1>18. ASSUME NEW k \in AdminKeys, EditType(k) \/ \E d \in Definitions : EditMap(k, d)
       PROVE  Executing'
  BY <1>1, <1>18 DEF EditType, EditMap
<1>19. CASE UNCHANGED vars
  BY <1>1, <1>19 DEF vars
<1> QED
  BY <1>2, <1>3, <1>4, <1>7, <1>8, <1>9, <1>10, <1>11, <1>12, <1>14, <1>15, <1>16,
     <1>17, <1>18, <1>19 DEF Next, Serve, Work

(* Executing is an invariant. *)
LEMMA ExecutingInvariant == Spec => []Executing
<1>1. Base /\ Executing /\ [Next]_vars => Executing'
  BY ExecutingStep
<1> QED
  BY BaseInvariant, ExecutingInit, <1>1, PTL DEF Spec

(* Spec => []SucceededIsComplete: crashes, errors, edits of the mapping table and
   deletions notwithstanding, SUCCEEDED means that exactly the planned responses
   ran and each has an outcome, unless the alert was disturbed. *)
THEOREM SuccessIsComplete == Spec => []SucceededIsComplete
<1>1. Executing => SucceededIsComplete
  BY DEF Executing
<1> QED
  BY ExecutingInvariant, <1>1, PTL

(* Spec => ResponsesInOrder: no response is begun after one that was to come later
   when its task planned them, whatever rows of the mapping are reordered, switched
   off or added meanwhile. *)
THEOREM OrderIsKept == Spec => ResponsesInOrder
<1> DEFINE Ordered == \A t \in Tasks, d, e \in Definitions :
         log[t][d] = "none" /\ log'[t][d] = "pending" /\ planned[t][e] > planned[t][d]
           => log[t][e] = "none"
<1>1. ASSUME Base, Executing, Next PROVE Ordered
  <2>1. ASSUME NEW w \in Workers, BeginResponse(w) PROVE Ordered
    <3>1. PICK k \in Tasks : k = wrk[w].task
      BY <2>1, <1>1 DEF BeginResponse, Base, References
    <3>2. PICK c \in Definitions :
            /\ wrk[w].todo[c] # Off
            /\ log' = [log EXCEPT ![k] = [log[k] EXCEPT ![c] = "pending"]]
      BY <2>1, <3>1 DEF BeginResponse, Left
    <3>3. \A e \in Definitions : log[k][e] # "none" => planned[k][e] <= planned[k][c]
      BY <2>1, <3>1, <3>2, <1>1 DEF BeginResponse, Executing, Progress
    <3>4. \A t \in Tasks, d \in Definitions :
            log[t][d] = "none" /\ log'[t][d] = "pending" => t = k /\ d = c
      BY <3>2, <1>1 DEF Base, TypeOK
    <3>5. \A d, e \in Definitions : planned[k][e] <= planned[k][d]
                                    => ~(planned[k][e] > planned[k][d])
      BY <1>1 DEF Base, TypeOK, Rows, Off
    <3> QED
      BY <3>3, <3>4, <3>5
  <2>2. ASSUME NEW w \in Workers, EndResponse(w) PROVE Ordered
    BY <1>1, <2>2 DEF EndResponse, Outcomes, Base, TypeOK
  <2>3. ASSUME NEW x \in Alerts, DestroyAlert(x) PROVE Ordered
    BY <1>1, <2>3 DEF DestroyAlert, Base, TypeOK
  <2>4. CASE log' = log
    BY <2>4
  <2>5. ASSUME NEW r \in Requests, Receive(r) \/ Post(r) \/ PatchRead(r) \/ Serve(r)
        PROVE  log' = log
    BY <2>5 DEF Serve, Receive, Post, PatchRead, Check, Classify, Insert, InsertRaises,
       Hook, SaveProcessing, HookRaises, Enqueue, EnqueueRaises, PatchSave, PatchRaises
  <2>6. ASSUME NEW w \in Workers,
               \/ StartWorker(w) \/ Claim(w) \/ Load(w) \/ Plan(w) \/ Resolve(w)
               \/ Finish(w) \/ TaskRaises(w) \/ Hang(w) \/ LoopCrash(w)
        PROVE  log' = log
    BY <2>6 DEF StartWorker, Claim, Load, Plan, Resolve, Finish, TaskRaises, Hang, LoopCrash
  <2>7. ASSUME NEW p \in Processes, Crash(p) PROVE log' = log
    BY <2>7 DEF Crash
  <2>8. ASSUME NEW k \in AdminKeys, EditType(k) \/ \E d \in Definitions : EditMap(k, d)
        PROVE  log' = log
    BY <2>8 DEF EditType, EditMap
  <2> QED
    BY <1>1, <2>1, <2>2, <2>3, <2>4, <2>5, <2>6, <2>7, <2>8 DEF Next, Work
<1>2. Base /\ Executing /\ [Next]_vars => [Ordered]_vars
  BY <1>1
<1> QED
  BY BaseInvariant, ExecutingInvariant, <1>2, PTL DEF Spec, ResponsesInOrder

(* Only the worker that runs a task has a pending row in it; every step that
   takes the worker away saves the outcome or disturbs the alert. *)
LEMMA PendingStep ==
    ASSUME Base, Executing, PendingIsInProgress, [Next]_vars
    PROVE  PendingIsInProgress'
<1>1. ASSUME log' = log, disturbed \subseteq disturbed',
             \A t \in Tasks : tasks'[t].alert = tasks[t].alert,
             \A w \in Workers : wrk[w].pc = "act" =>
                wrk'[w] = wrk[w] \/ tasks[wrk[w].task].alert \in disturbed'
      PROVE  PendingIsInProgress'
  BY <1>1 DEF PendingIsInProgress
<1>2. ASSUME NEW r \in Requests, Enqueue(r) PROVE PendingIsInProgress'
  <2>1. PICK u \in Tasks :
          /\ tasks[u].status = "free"
          /\ tasks' = [tasks EXCEPT ![u] = [status |-> "READY", alert |-> req[r].alert,
                         origin |-> IF req[r].kind = "patch" THEN "patch" ELSE "create"]]
    BY <1>2 DEF Enqueue
  <2>2. \A d \in Definitions : log[u][d] # "pending"
    BY <2>1 DEF Executing, Untouched
  <2>3. /\ \A t \in Tasks : t # u => tasks'[t] = tasks[t]
        /\ log' = log /\ wrk' = wrk /\ disturbed' = disturbed
    BY <1>2, <2>1 DEF Enqueue, Base, TypeOK
  <2> QED
    BY <2>2, <2>3 DEF PendingIsInProgress
<1>3. ASSUME NEW w \in Workers, Claim(w) PROVE PendingIsInProgress'
  <2>1. /\ log' = log /\ disturbed' = disturbed /\ wrk[w].pc # "act"
        /\ \A t \in Tasks : tasks'[t].alert = tasks[t].alert
        /\ \A v \in Workers : v # w => wrk'[v] = wrk[v]
    BY <1>3 DEF Claim, Base, TypeOK, TaskRow
  <2> QED
    BY <1>1, <2>1
<1>4. ASSUME NEW w \in Workers,
             StartWorker(w) \/ Load(w) \/ Plan(w) \/ Resolve(w)
      PROVE  PendingIsInProgress'
  <2>1. /\ log' = log /\ disturbed' = disturbed /\ wrk[w].pc # "act" /\ tasks' = tasks
        /\ \A v \in Workers : v # w => wrk'[v] = wrk[v]
    BY <1>4 DEF StartWorker, Load, Plan, Resolve, Base, TypeOK
  <2> QED
    BY <1>1, <2>1
<1>5. ASSUME NEW w \in Workers, Finish(w) \/ TaskRaises(w) \/ LoopCrash(w) \/ Hang(w)
      PROVE  PendingIsInProgress'
  <2>1. /\ log' = log /\ disturbed \subseteq disturbed'
        /\ wrk[w].pc = "act" => tasks[wrk[w].task].alert \in disturbed'
        /\ \A v \in Workers : v # w => wrk'[v] = wrk[v]
    BY <1>5 DEF Finish, TaskRaises, LoopCrash, Hang, Serving, AlertOf, Base, TypeOK
  <2>2. \A t \in Tasks : tasks'[t].alert = tasks[t].alert
    <3>1. CASE LoopCrash(w) \/ Hang(w)
      BY <3>1 DEF LoopCrash, Hang
    <3>2. CASE Finish(w) \/ TaskRaises(w)
      <4>1. PICK status \in {"SUCCEEDED", "FAILED"} :
              tasks' = [tasks EXCEPT ![wrk[w].task] =
                          [tasks[wrk[w].task] EXCEPT !.status = status]]
        BY <3>2 DEF Finish, TaskRaises
      <4> QED
        BY <4>1 DEF Base, TypeOK, TaskRow
    <3> QED
      BY <1>5, <3>1, <3>2
  <2> QED
    BY <1>1, <2>1, <2>2
<1>6. ASSUME NEW p \in Processes, Crash(p) PROVE PendingIsInProgress'
  <2>1. /\ log' = log /\ disturbed \subseteq disturbed' /\ tasks' = tasks
        /\ \A w \in Workers : wrk[w].pc = "act" =>
              wrk'[w] = wrk[w] \/ tasks[wrk[w].task].alert \in disturbed'
    BY <1>6 DEF Crash, Serving, AlertOf
  <2> QED
    BY <1>1, <2>1
<1>7. ASSUME NEW w \in Workers, BeginResponse(w) PROVE PendingIsInProgress'
  <2>1. PICK k \in Tasks : k = wrk[w].task
    BY <1>7 DEF BeginResponse, Base, References
  <2>2. PICK c \in Left(w) :
          /\ wrk' = [wrk EXCEPT ![w] = [wrk[w] EXCEPT !.pc = "act", !.cur = c]]
          /\ log' = [log EXCEPT ![k] = [log[k] EXCEPT ![c] = "pending"]]
    BY <1>7, <2>1 DEF BeginResponse
  <2>3. /\ tasks' = tasks /\ disturbed' = disturbed /\ wrk[w].pc # "act"
        /\ wrk'[w].task = k /\ wrk'[w].pc = "act" /\ wrk'[w].cur = c
        /\ \A v \in Workers : v # w => wrk'[v] = wrk[v]
    BY <1>7, <2>1, <2>2 DEF BeginResponse, Base, TypeOK, Worker
  <2>4. \A t \in Tasks, d \in Definitions :
          log'[t][d] = "pending" => log[t][d] = "pending" \/ (t = k /\ d = c)
    BY <2>2 DEF Base, TypeOK
  <2> QED
    BY <2>3, <2>4 DEF PendingIsInProgress
<1>8. ASSUME NEW w \in Workers, EndResponse(w) PROVE PendingIsInProgress'
  <2>1. PICK k \in Tasks : k = wrk[w].task
    BY <1>8 DEF EndResponse, Base, References
  <2>2. PICK c \in Definitions : c = wrk[w].cur
    BY <1>8 DEF EndResponse, Executing, Progress
  <2>3. PICK outcome \in Final :
          log' = [log EXCEPT ![k] = [log[k] EXCEPT ![c] = outcome]]
    BY <1>8, <2>1, <2>2 DEF EndResponse, Outcomes, Final
  <2>4. /\ tasks' = tasks /\ disturbed' = disturbed
        /\ \A v \in Workers : v # w => wrk'[v] = wrk[v]
    BY <1>8 DEF EndResponse, Base, TypeOK
  <2>5. \A t \in Tasks, d \in Definitions :
          log'[t][d] = "pending" => log[t][d] = "pending" /\ ~(t = k /\ d = c)
    BY <2>3 DEF Base, TypeOK, Final
  <2> QED
    BY <2>1, <2>2, <2>4, <2>5 DEF PendingIsInProgress
<1>9. ASSUME NEW x \in Alerts, DestroyAlert(x) PROVE PendingIsInProgress'
  <2>1. /\ tasks' = tasks /\ wrk' = wrk /\ disturbed \subseteq disturbed'
        /\ \A t \in Tasks, d \in Definitions : log'[t][d] \in {log[t][d], "none"}
    BY <1>9 DEF DestroyAlert, Base, TypeOK
  <2> QED
    BY <2>1 DEF PendingIsInProgress
<1>10. ASSUME NEW r \in Requests,
              \/ Receive(r) \/ Post(r) \/ PatchRead(r) \/ Check(r) \/ Classify(r)
              \/ Insert(r) \/ InsertRaises(r) \/ Hook(r) \/ SaveProcessing(r)
              \/ HookRaises(r) \/ EnqueueRaises(r) \/ PatchSave(r) \/ PatchRaises(r)
       PROVE  PendingIsInProgress'
  BY <1>1, <1>10 DEF Receive, Post, PatchRead, Check, Classify, Insert, InsertRaises,
     Hook, SaveProcessing, HookRaises, EnqueueRaises, PatchSave, PatchRaises
<1>11. ASSUME NEW k \in AdminKeys, EditType(k) \/ \E d \in Definitions : EditMap(k, d)
       PROVE  PendingIsInProgress'
  BY <1>1, <1>11 DEF EditType, EditMap
<1>12. CASE UNCHANGED vars
  BY <1>1, <1>12 DEF vars
<1> QED
  BY <1>2, <1>3, <1>4, <1>5, <1>6, <1>7, <1>8, <1>9, <1>10, <1>11, <1>12
  DEF Next, Serve, Work

(* Spec => []PendingIsInProgress: no crash, error or deletion leaves a response
   pending that nobody runs, unless it disturbs the alert. *)
THEOREM PendingIsRun == Spec => []PendingIsInProgress
<1>1. Init => PendingIsInProgress
  BY DEF Init, PendingIsInProgress
<1>2. Base /\ Executing /\ PendingIsInProgress /\ [Next]_vars => PendingIsInProgress'
  BY PendingStep
<1> QED
  BY BaseInvariant, ExecutingInvariant, <1>1, <1>2, PTL DEF Spec

-------------------------------------------------------------------------------
(* What 'resolved' says of the responses while no administrator edits and no REST
   client writes. *)
HandsOff == \A e \in {"edit", "post", "patch", "delete"} : spent[e] = 0

(* Every request is a delivery; a running worker works for the type its alert has,
   has an outcome for what that type is mapped to and is not still to do, and none
   yet for what is; a resolved alert is answered. *)
Delivering(r) == req[r].kind = "ingest" /\ req[r].was = "new" /\ req[r].pc # "patch"
Answering(w) ==
    LET t == wrk[w].task
    IN  /\ wrk[w].pc \in {"plan", "next", "act"} => wrk[w].type = alerts[tasks[t].alert].type
        /\ wrk[w].pc \in {"next", "act"} =>
             \A d \in Definitions :
                IF wrk[w].todo[d] # Off THEN log[t][d] \notin Final
                ELSE mapped[wrk[w].type][d] # Off => log[t][d] \in Final
Answer(x) ==
    \A d \in Definitions :
        alerts[x].status = "resolved" /\ mapped[alerts[x].type][d] # Off =>
            \E t \in Tasks : tasks[t].alert = x /\ log[t][d] \in Final
Answered ==
    /\ \A r \in Requests : Delivering(r)
    /\ \A t \in Tasks : tasks[t].status # "free" => tasks[t].origin = "create"
    /\ \A w \in Workers : Answering(w)
    /\ \A x \in Alerts : Answer(x)

(* An answered alert stays answered while outcomes and tasks stay. *)
LEMMA AnswerFrame ==
    ASSUME NEW x \in Alerts, Answer(x), Executing, mapped' = mapped,
           alerts'[x].status = "resolved" =>
              alerts[x].status = "resolved" /\ alerts'[x].type = alerts[x].type,
           \A t \in Tasks : tasks[t].status # "free" => tasks'[t].alert = tasks[t].alert,
           \A t \in Tasks, d \in Definitions : log[t][d] \in Final => log'[t][d] \in Final
    PROVE  Answer(x)'
<1>1. \A t \in Tasks, d \in Definitions : log[t][d] \in Final => tasks[t].status # "free"
  BY DEF Executing, Untouched, Final
<1> QED
  BY <1>1 DEF Answer

(* A worker whose record, task and alert's type nobody touched goes on as it did. *)
LEMMA AnsweringFrame ==
    ASSUME NEW w \in Workers, Answering(w), mapped' = mapped, wrk'[w] = wrk[w],
           wrk[w].pc \in {"plan", "next", "act"} =>
              /\ tasks'[wrk[w].task].alert = tasks[wrk[w].task].alert
              /\ alerts'[tasks[wrk[w].task].alert].type = alerts[tasks[wrk[w].task].alert].type
              /\ log'[wrk[w].task] = log[wrk[w].task]
    PROVE  Answering(w)'
  BY DEF Answering

(* A worker that is not in the middle of a task owes nothing here. *)
LEMMA AnsweringRest ==
    ASSUME NEW w \in Workers, wrk'[w].pc \notin {"plan", "next", "act"} PROVE Answering(w)'
  BY DEF Answering

(* Steps of request threads, which never touch a log row. *)
LEMMA AnsweredByRequest ==
    ASSUME Base, Once, Executing, Answered, NEW r \in Requests, Receive(r) \/ Serve(r)
    PROVE  Answered'
<1>0. /\ req \in [Requests -> Request] /\ tasks \in [Tasks -> TaskRow]
      /\ alerts \in [Alerts -> AlertRow] /\ References
      /\ Delivering(r)
  BY DEF Base, TypeOK, Answered
<1>1. mapped' = mapped /\ log' = log /\ wrk' = wrk
  BY DEF Serve, Receive, Check, Classify, Insert, InsertRaises, Hook, SaveProcessing,
     HookRaises, Enqueue, EnqueueRaises, PatchSave, PatchRaises
<1>2. ~PatchSave(r) /\ ~PatchRaises(r)
  BY <1>0 DEF Delivering, PatchSave, PatchRaises
<1>3. \A q \in Requests : Delivering(q)'
  <2>1. \A q \in Requests : q # r => req'[q] = req[q]
    BY <1>0, <1>2 DEF Serve, Receive, Check, Classify, Insert, InsertRaises, Hook,
       SaveProcessing, HookRaises, Enqueue, EnqueueRaises
  <2>2. Delivering(r)'
    <3>1. NoRequest.kind = "ingest" /\ NoRequest.was = "new" /\ NoRequest.pc = "idle"
      BY DEF NoRequest
    <3>2. CASE Receive(r)
      BY <1>0, <3>2 DEF Receive, Delivering, NoRequest
    <3>3. CASE InsertRaises(r) \/ HookRaises(r) \/ Enqueue(r) \/ EnqueueRaises(r)
      BY <1>0, <3>1, <3>3 DEF InsertRaises, HookRaises, Enqueue, EnqueueRaises, Delivering
    <3>4. CASE Check(r) \/ Classify(r)
      BY <1>0, <3>1, <3>4 DEF Check, Classify, Delivering, Request
    <3>5. CASE Insert(r) \/ Hook(r) \/ SaveProcessing(r)
      BY <1>0, <3>1, <3>5 DEF Insert, Hook, SaveProcessing, Delivering, Request
    <3> QED
      BY <1>2, <3>2, <3>3, <3>4, <3>5 DEF Serve
  <2> QED
    BY <2>1, <2>2 DEF Answered, Delivering
<1>4. CASE Insert(r)
  <2>1. PICK y \in Alerts \ issued :
          alerts' = [alerts EXCEPT ![y] = [status |-> req[r].was, type |-> Unknown,
                                           wid |-> req[r].wid]]
    BY <1>4 DEF Insert
  <2>2. \A x \in Alerts : IF x = y THEN alerts'[x].status = "new" ELSE alerts'[x] = alerts[x]
    BY <1>0, <2>1 DEF Delivering
  <2>3. tasks' = tasks
    BY <1>4 DEF Insert
  <2>4. \A x \in Alerts : Answer(x)'
    BY <1>1, <2>2, <2>3, AnswerFrame DEF Answered
  <2>5. \A t \in Tasks : tasks[t].status # "free" => tasks[t].alert \in Alerts \ {y}
    BY <1>0, <2>1 DEF References, Base, TypeOK
  <2>6. ASSUME NEW w \in Workers PROVE Answering(w)'
    <3>1. wrk[w].pc \in {"plan", "next", "act"} => tasks[wrk[w].task].alert \in Alerts \ {y}
      BY <1>0, <2>5 DEF References
    <3> QED
      BY <1>1, <2>2, <2>3, <3>1, AnsweringFrame DEF Answered
  <2> QED
    BY <1>3, <2>3, <2>4, <2>6 DEF Answered
<1>5. CASE SaveProcessing(r)
  <2>1. PICK y \in Alerts : y = req[r].alert
    BY <1>0, <1>5 DEF SaveProcessing, References, Base, TypeOK
  <2>2. \A x \in Alerts :
          IF x = y THEN alerts'[x].status = "processing" ELSE alerts'[x] = alerts[x]
    BY <1>0, <1>5, <2>1 DEF SaveProcessing
  <2>3. tasks' = tasks
    BY <1>5 DEF SaveProcessing
  <2>4. \A x \in Alerts : Answer(x)'
    BY <1>1, <2>2, <2>3, AnswerFrame DEF Answered
  <2>5. ASSUME NEW t \in Tasks, tasks[t].status # "free" PROVE tasks[t].alert \in Alerts \ {y}
    <3>1. Created(t) /\ tasks[t].alert \in issued
      BY <1>0, <2>5 DEF Created, Answered, References
    <3>2. Creating(r)
      BY <1>0, <1>5 DEF SaveProcessing, Creating, Delivering
    <3> QED
      BY <2>1, <3>1, <3>2 DEF Once, Base, TypeOK
  <2>6. ASSUME NEW w \in Workers PROVE Answering(w)'
    <3>1. wrk[w].pc \in {"plan", "next", "act"} => tasks[wrk[w].task].alert \in Alerts \ {y}
      BY <1>0, <2>5 DEF References
    <3> QED
      BY <1>1, <2>2, <2>3, <3>1, AnsweringFrame DEF Answered
  <2> QED
    BY <1>3, <2>3, <2>4, <2>6 DEF Answered
<1>6. CASE Enqueue(r)
  <2>1. PICK u \in Tasks :
          /\ tasks[u].status = "free"
          /\ tasks' = [tasks EXCEPT ![u] = [status |-> "READY", alert |-> req[r].alert,
                                            origin |-> "create"]]
    BY <1>0, <1>6 DEF Enqueue, Delivering
  <2>2. /\ alerts' = alerts /\ tasks'[u].origin = "create"
        /\ \A t \in Tasks : t # u => tasks'[t] = tasks[t]
    BY <1>0, <1>6, <2>1 DEF Enqueue
  <2>3. \A x \in Alerts : Answer(x)'
    BY <1>1, <2>1, <2>2, AnswerFrame DEF Answered
  <2>4. ASSUME NEW w \in Workers PROVE Answering(w)'
    <3>1. wrk[w].pc \in {"plan", "next", "act"} => wrk[w].task \in Tasks /\ wrk[w].task # u
      BY <1>0, <2>1 DEF References
    <3> QED
      BY <1>1, <2>2, <3>1, AnsweringFrame DEF Answered
  <2>5. \A t \in Tasks : tasks'[t].status # "free" => tasks'[t].origin = "create"
    BY <2>2 DEF Answered
  <2> QED
    BY <1>3, <2>3, <2>4, <2>5 DEF Answered
<1>7. CASE alerts' = alerts /\ tasks' = tasks
  <2>1. \A x \in Alerts : Answer(x)'
    BY <1>1, <1>7 DEF Answered, Answer
  <2>2. \A w \in Workers : Answering(w)'
    BY <1>1, <1>7, AnsweringFrame DEF Answered
  <2> QED
    BY <1>3, <1>7, <2>1, <2>2 DEF Answered
<1>8. Insert(r) \/ SaveProcessing(r) \/ Enqueue(r) \/ (alerts' = alerts /\ tasks' = tasks)
  BY <1>2 DEF Serve, Receive, Check, Classify, InsertRaises, Hook, HookRaises, EnqueueRaises
<1> QED
  BY <1>4, <1>5, <1>6, <1>7, <1>8

(* Steps of workers. *)
LEMMA AnsweredByWorker ==
    ASSUME Base, Executing, Answered, NEW w \in Workers, Work(w) \/ Hang(w) \/ LoopCrash(w)
    PROVE  Answered'
<1>0. /\ tasks \in [Tasks -> TaskRow] /\ alerts \in [Alerts -> AlertRow]
      /\ wrk \in [Workers -> Worker] /\ References
      /\ log \in [Tasks -> [Definitions -> {"none", "pending", "executed", "failed"}]]
  BY DEF Base, TypeOK
<1>1. /\ mapped' = mapped /\ req' = req
      /\ \A v \in Workers : v # w => wrk'[v] = wrk[v]
  BY <1>0 DEF Work, StartWorker, Claim, Load, Plan, BeginResponse, EndResponse, Resolve,
     Finish, TaskRaises, Hang, LoopCrash
<1>2. \A r \in Requests : Delivering(r)'
  BY <1>1 DEF Answered, Delivering
<1>3. \A t \in Tasks : /\ tasks'[t].alert = tasks[t].alert
                       /\ tasks'[t].origin = tasks[t].origin
                       /\ tasks'[t].status # "free" => tasks[t].status # "free"
  <2>1. CASE Claim(w)
    BY <1>0, <2>1 DEF Claim, TaskRow
  <2>2. CASE Finish(w)
    BY <1>0, <2>2 DEF Finish, TaskRow, References
  <2>3. CASE TaskRaises(w)
    BY <1>0, <2>3 DEF TaskRaises, TaskRow, References, Serving
  <2>4. ~Claim(w) /\ ~Finish(w) /\ ~TaskRaises(w) => tasks' = tasks
    BY DEF Work, StartWorker, Load, Plan, BeginResponse, EndResponse, Resolve, Hang, LoopCrash
  <2> QED
    BY <2>1, <2>2, <2>3, <2>4
<1>4. \A t \in Tasks : tasks'[t].status # "free" => tasks'[t].origin = "create"
  BY <1>3 DEF Answered
<1>5. ASSUME alerts' = alerts,
             \A t \in Tasks, d \in Definitions : log[t][d] \in Final => log'[t][d] \in Final,
             \A t \in Tasks : wrk[w].task # t \/ wrk[w].pc \in {"down", "idle"} =>
                log'[t] = log[t],
             Answering(w)'
      PROVE  Answered'
  <2>1. \A x \in Alerts : Answer(x)'
    BY <1>1, <1>3, <1>5, AnswerFrame DEF Answered
  <2>2. ASSUME NEW v \in Workers PROVE Answering(v)'
    <3>1. CASE v = w
      BY <1>5, <3>1
    <3>2. CASE v # w
      <4>1. wrk[v].pc \in {"plan", "next", "act"} =>
              /\ wrk[v].task \in Tasks
              /\ wrk[w].task # wrk[v].task \/ wrk[w].pc \in {"down", "idle"}
        BY <1>0, <3>2 DEF References
      <4> QED
        BY <1>1, <1>3, <1>5, <3>2, <4>1, AnsweringFrame DEF Answered
    <3> QED
      BY <3>1, <3>2
  <2> QED
    BY <1>2, <1>4, <2>1, <2>2 DEF Answered
<1>6. CASE \/ StartWorker(w) \/ Claim(w) \/ Finish(w) \/ TaskRaises(w) \/ Hang(w)
           \/ LoopCrash(w)
  <2>1. wrk'[w].pc \notin {"plan", "next", "act"}
    <3>1. CASE StartWorker(w) \/ Finish(w) \/ TaskRaises(w) \/ LoopCrash(w)
      <4>1. PICK pc \in {"down", "idle"} : wrk' = [wrk EXCEPT ![w] = Resting(pc)]
        BY <3>1 DEF StartWorker, Finish, TaskRaises, LoopCrash
      <4>2. Resting(pc).pc = pc
        BY DEF Resting
      <4> QED
        BY <1>0, <4>1, <4>2
    <3>2. CASE Claim(w)
      <4>1. PICK k \in Tasks :
              wrk' = [wrk EXCEPT ![w] = [wrk[w] EXCEPT !.pc = "load", !.task = k]]
        BY <3>2 DEF Claim
      <4> QED
        BY <1>0, <4>1 DEF Worker
    <3>3. CASE Hang(w)
      BY <1>0, <3>3 DEF Hang, Worker
    <3> QED
      BY <1>6, <3>1, <3>2, <3>3
  <2>2. alerts' = alerts /\ log' = log
    BY <1>6 DEF StartWorker, Claim, Finish, TaskRaises, Hang, LoopCrash
  <2> QED
    BY <1>5, <2>1, <2>2, AnsweringRest
<1>7. CASE Load(w)
  <2>1. alerts' = alerts /\ log' = log /\ tasks' = tasks
    BY <1>7 DEF Load
  <2>2. /\ wrk'[w].pc \in {"plan", "finish"} /\ wrk'[w].task = wrk[w].task
        /\ wrk'[w].pc = "plan" => wrk'[w].type = alerts[AlertOf(w)].type
    BY <1>0, <1>7 DEF Load, Worker
  <2>3. Answering(w)'
    BY <2>1, <2>2 DEF Answering, AlertOf
  <2> QED
    BY <1>5, <2>1, <2>3
<1>8. CASE Plan(w)
  <2> DEFINE todo == mapped[wrk[w].type]
  <2>1. /\ alerts' = alerts /\ log' = log /\ tasks' = tasks
        /\ wrk' = [wrk EXCEPT ![w] = [wrk[w] EXCEPT !.pc = "next", !.todo = todo]]
    BY <1>8 DEF Plan
  <2> HIDE DEF todo
  <2>2. /\ wrk'[w].pc = "next" /\ wrk'[w].task = wrk[w].task
        /\ wrk'[w].type = wrk[w].type /\ wrk'[w].todo = todo
    BY <1>0, <2>1 DEF Worker
  <2>3. Untouched(wrk[w].task) /\ wrk[w].type = alerts[tasks[wrk[w].task].alert].type
    BY <1>8 DEF Plan, Executing, Progress, Answered, Answering
  <2>4. Answering(w)'
    BY <1>1, <2>1, <2>2, <2>3 DEF Answering, Untouched, Final, todo
  <2> QED
    BY <1>5, <2>1, <2>4
<1>9. CASE BeginResponse(w) \/ EndResponse(w)
  <2>1. PICK k \in Tasks : k = wrk[w].task
    BY <1>0, <1>9 DEF BeginResponse, EndResponse, References
  <2>2. PICK c \in Definitions, o \in {"pending"} \cup Final :
          /\ wrk[w].todo[c] # Off
          /\ log' = [log EXCEPT ![k] = [log[k] EXCEPT ![c] = o]]
          /\ \/ o = "pending" /\ wrk'[w].todo = wrk[w].todo
             \/ o \in Final /\ wrk'[w].todo = [wrk[w].todo EXCEPT ![c] = Off]
    <3>1. CASE BeginResponse(w)
      <4>1. PICK d \in Definitions :
              /\ wrk[w].todo[d] # Off
              /\ wrk' = [wrk EXCEPT ![w] = [wrk[w] EXCEPT !.pc = "act", !.cur = d]]
              /\ log' = [log EXCEPT ![k] = [log[k] EXCEPT ![d] = "pending"]]
        BY <2>1, <3>1 DEF BeginResponse, Left
      <4>2. wrk'[w].todo = wrk[w].todo
        BY <1>0, <4>1 DEF Worker
      <4> QED
        BY <4>1, <4>2
    <3>2. CASE EndResponse(w)
      <4>1. wrk[w].cur \in Definitions /\ wrk[w].todo[wrk[w].cur] # Off
        BY <3>2 DEF EndResponse, Executing, Progress
      <4>2. PICK o \in Final :
              log' = [log EXCEPT ![k] = [log[k] EXCEPT ![wrk[w].cur] = o]]
        BY <2>1, <3>2 DEF EndResponse, Outcomes, Final
      <4>3. wrk'[w].todo = [wrk[w].todo EXCEPT ![wrk[w].cur] = Off]
        BY <1>0, <3>2 DEF EndResponse, Worker
      <4> QED
        BY <4>1, <4>2, <4>3
    <3> QED
      BY <1>9, <3>1, <3>2
  <2>3. /\ alerts' = alerts /\ tasks' = tasks /\ wrk[w].pc \in {"next", "act"}
        /\ wrk'[w].pc \in {"next", "act"} /\ wrk'[w].task = k /\ wrk'[w].type = wrk[w].type
    <3>1. CASE BeginResponse(w)
      <4>1. PICK d \in Definitions :
              wrk' = [wrk EXCEPT ![w] = [wrk[w] EXCEPT !.pc = "act", !.cur = d]]
        BY <3>1 DEF BeginResponse, Left
      <4> QED
        BY <1>0, <2>1, <3>1, <4>1 DEF BeginResponse, Worker
    <3>2. CASE EndResponse(w)
      BY <1>0, <2>1, <3>2 DEF EndResponse, Worker
    <3> QED
      BY <1>9, <3>1, <3>2
  <2>4. /\ \A t \in Tasks : t # k => log'[t] = log[t]
        /\ \A d \in Definitions : log'[k][d] = IF d = c THEN o ELSE log[k][d]
    BY <1>0, <2>2
  <2>5. /\ log[k][c] \notin Final /\ "pending" \notin Final
        /\ wrk[w].type = alerts[tasks[k].alert].type
        /\ \A d \in Definitions :
             IF wrk[w].todo[d] # Off THEN log[k][d] \notin Final
             ELSE mapped[wrk[w].type][d] # Off => log[k][d] \in Final
    BY <2>1, <2>2, <2>3 DEF Answered, Answering, Final
  <2>6. \A t \in Tasks, d \in Definitions : log[t][d] \in Final => log'[t][d] \in Final
    BY <2>4, <2>5
  <2>7. \A d \in Definitions :
          wrk'[w].todo[d] = IF d = c /\ o \in Final THEN Off ELSE wrk[w].todo[d]
    <3>1. wrk[w].todo \in [Definitions -> Nat \cup {Off}]
      BY <1>0 DEF Worker, Rows
    <3> QED
      BY <2>2, <2>5, <3>1
  <2>8. Answering(w)'
    BY <1>1, <2>2, <2>3, <2>4, <2>5, <2>7 DEF Answering
  <2> QED
    BY <1>5, <2>1, <2>3, <2>4, <2>6, <2>8
<1>10. CASE Resolve(w)
  <2>1. PICK k \in Tasks : k = wrk[w].task /\ tasks[k].status = "RUNNING"
    BY <1>0, <1>10 DEF Resolve, References
  <2>2. PICK y \in Alerts : y = tasks[k].alert
    BY <1>0, <2>1 DEF References, Base, TypeOK
  <2>3. /\ wrk'[w].pc = "finish" /\ log' = log /\ tasks' = tasks
        /\ \A x \in Alerts : alerts'[x].type = alerts[x].type
        /\ \A x \in Alerts : x # y => alerts'[x] = alerts[x]
    BY <1>0, <1>10, <2>1, <2>2 DEF Resolve, AlertOf, Worker, AlertRow
  <2>4. \A d \in Definitions : mapped[alerts[y].type][d] # Off => log[k][d] \in Final
    BY <1>10, <2>1, <2>2 DEF Resolve, Left, Answered, Answering
  <2>5. Answer(y)'
    BY <1>1, <2>1, <2>2, <2>3, <2>4 DEF Answer
  <2>6. \A x \in Alerts : Answer(x)'
    BY <1>1, <2>3, <2>5, AnswerFrame DEF Answered
  <2>7. ASSUME NEW v \in Workers PROVE Answering(v)'
    <3>1. CASE v = w
      BY <2>3, <3>1, AnsweringRest
    <3>2. CASE v # w
      <4>1. wrk[v].pc \in {"plan", "next", "act"} => tasks[wrk[v].task].alert \in Alerts
        BY <1>0 DEF References, Base, TypeOK
      <4> QED
        BY <1>1, <2>3, <3>2, <4>1, AnsweringFrame DEF Answered
    <3> QED
      BY <3>1, <3>2
  <2> QED
    BY <1>2, <1>4, <2>6, <2>7 DEF Answered
<1> QED
  BY <1>6, <1>7, <1>8, <1>9, <1>10 DEF Work

(* Every step keeps it while nobody writes. *)
LEMMA AnsweredStep ==
    ASSUME Base, Once, Executing, HandsOff => Answered, [Next]_vars
    PROVE  (HandsOff => Answered)'
<1> SUFFICES ASSUME HandsOff' PROVE Answered'
  OBVIOUS
<1>1. \A e \in {"edit", "post", "patch", "delete"} : e \in Events /\ spent'[e] = 0
  BY DEF HandsOff, Events
<1>2. HandsOff /\ Answered
  BY <1>1, CountersGrow DEF HandsOff, Base
<1>3. \A e \in {"edit", "post", "patch", "delete"} : ~Spend(e)
  BY <1>1, <1>2 DEF HandsOff, Spend, Base, TypeOK
<1>4. /\ \A r \in Requests : ~Post(r) /\ ~PatchRead(r)
      /\ \A x \in Alerts : ~DestroyAlert(x)
      /\ ~(\E k \in AdminKeys : EditType(k) \/ \E d \in Definitions : EditMap(k, d))
  BY <1>3 DEF Post, PatchRead, DestroyAlert, EditType, EditMap
<1>5. ASSUME NEW p \in Processes, Crash(p) PROVE Answered'
  <2>1. /\ mapped' = mapped /\ alerts' = alerts /\ tasks' = tasks /\ log' = log
        /\ \A r \in Requests : req'[r] \in {req[r], NoRequest}
        /\ \A w \in Workers : wrk'[w] = wrk[w] \/ wrk'[w].pc = "down"
    BY <1>5 DEF Crash, Resting
  <2>2. \A r \in Requests : Delivering(r)'
    BY <1>2, <2>1 DEF Answered, Delivering, NoRequest
  <2>3. \A w \in Workers : Answering(w)'
    BY <1>2, <2>1, AnsweringFrame, AnsweringRest DEF Answered
  <2>4. \A x \in Alerts : Answer(x)'
    BY <1>2, <2>1 DEF Answered, Answer
  <2> QED
    BY <1>2, <2>1, <2>2, <2>3, <2>4 DEF Answered
<1>6. CASE UNCHANGED vars
  BY <1>2, <1>6 DEF vars, Answered, Delivering, Answering, Answer
<1> QED
  BY <1>2, <1>4, <1>5, <1>6, AnsweredByRequest, AnsweredByWorker DEF Next

(* Spec => []ResolvedIsAnswered: no crash, error or hang, and no interleaving of
   deliveries and workers, shows an alert as resolved that lacks the outcome of a
   response mapped for it, while no client and no administrator writes. *)
THEOREM ResolvedHasOutcomes == Spec => []ResolvedIsAnswered
<1>1. Init => (HandsOff => Answered)
  <2>1. Init => /\ \A r \in Requests : Delivering(r)
                /\ \A w \in Workers : Answering(w)
                /\ \A x \in Alerts : Answer(x)
    BY DEF Init, Delivering, Answering, Answer, NoRequest, Resting
  <2> QED
    BY <2>1 DEF Init, Answered
<1>2. Init => Once
  BY DEF Init, Once, Creating, Created, NoRequest
<1>3. Base /\ Once /\ [Next]_vars => Once'
  BY OnceStep
<1>4. Base /\ Once /\ Executing /\ (HandsOff => Answered) /\ [Next]_vars
        => (HandsOff => Answered)'
  BY AnsweredStep
<1>5. (HandsOff => Answered) => ResolvedIsAnswered
  BY DEF HandsOff, Answered, Answer, ResolvedIsAnswered, Final
<1> QED
  BY BaseInvariant, ExecutingInvariant, <1>1, <1>2, <1>3, <1>4, <1>5, PTL DEF Spec
===============================================================================
