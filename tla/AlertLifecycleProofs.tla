------------------------ MODULE AlertLifecycleProofs --------------------------
(***************************************************************************)
(* AlertPipeline implements AlertLifecycle, for any number of threads,     *)
(* processes, alerts, tasks and outside events.                            *)
(***************************************************************************)
EXTENDS AlertPipelineProofs

(* An undisturbed alert that is still 'new' has never been worked on: nobody is
   about to queue it and no task names it. *)
Fresh ==
    \A x \in Alerts \ disturbed : alerts[x].status = "new" =>
        /\ \A r \in Requests : req[r].alert = x => req[r].pc # "enqueue"
        /\ \A t \in Tasks : tasks[t].alert = x => tasks[t].status = "free"

\* With nothing lost, the phase is what the row, the queue and the workers show.
Shown(x) ==
    IF x \in disturbed THEN "disturbed"
    ELSE IF alerts[x].status = "new" THEN "stored"
    ELSE IF alerts[x].status # "processing" THEN alerts[x].status
    ELSE IF Served(x) THEN "running"
    ELSE IF Queued(x) THEN "queued" ELSE "accepted"

Safe == Base /\ Unhooked /\ NoSilentLoss /\ Fresh

-------------------------------------------------------------------------------
(* The phases, as the proofs of the steps use them. *)

LEMMA PhaseIsShown ==
    ASSUME TypeOK, NoSilentLoss, NEW x \in Alerts PROVE Phase(x) = Shown(x)
<1>1. alerts[x].status \in {"new", "processing", "resolved", "absent"}
  BY DEF TypeOK, AlertRow, Statuses
<1>2. CASE x \in disturbed
  BY <1>2 DEF Phase, Shown
<1>3. CASE x \notin disturbed
  BY <1>1, <1>3 DEF Phase, Shown, Carried, NoSilentLoss
<1> QED BY <1>2, <1>3

\* The same after a step.
LEMMA PhaseIsShownNext ==
    ASSUME TypeOK', NoSilentLoss', NEW x \in Alerts PROVE Phase(x)' = Shown(x)'
<1>1. alerts'[x].status \in {"new", "processing", "resolved", "absent"}
  BY DEF TypeOK, AlertRow, Statuses
<1>2. CASE x \in disturbed'
  BY <1>2 DEF Phase, Shown
<1>3. CASE x \notin disturbed'
  BY <1>1, <1>3 DEF Phase, Shown, Carried, NoSilentLoss
<1> QED BY <1>2, <1>3

(* What keeps an alert where it is: its row and, while it is processing, its
   tasks and the workers that run them. *)
Stays(x) ==
    /\ alerts'[x].status = alerts[x].status
    /\ alerts[x].status = "processing" =>
         (Served(x)' <=> Served(x)) /\ (Queued(x)' <=> Queued(x))

LEMMA StaysShown ==
    ASSUME NEW x \in Alerts, Stays(x), x \in disturbed <=> x \in disturbed'
    PROVE  Shown(x)' = Shown(x)
  BY DEF Stays, Shown

(* A step that moves no alert but those that it disturbs. *)
LEMMA Disturbing ==
    ASSUME TypeOK, TypeOK', NoSilentLoss, NoSilentLoss', disturbed \subseteq disturbed',
           \A x \in Alerts \ disturbed' : Stays(x)
    PROVE  Lifecycle!Next
<1>1. ASSUME NEW x \in Alerts
      PROVE  Phase(x)' = IF x \in disturbed' THEN "disturbed" ELSE Phase(x)
  <2>1. Phase(x) = Shown(x) /\ Phase(x)' = Shown(x)'
    BY PhaseIsShown, PhaseIsShownNext
  <2>2. CASE x \in disturbed'
    BY <2>1, <2>2 DEF Shown
  <2>3. CASE x \notin disturbed'
    BY <2>1, <2>3, StaysShown
  <2> QED BY <2>2, <2>3
<1>2. disturbed' \in SUBSET Alerts
  BY DEF TypeOK
<1>3. Lifecycle!Disturb(disturbed')
  BY <1>1 DEF Lifecycle!Disturb
<1> QED BY <1>2, <1>3 DEF Lifecycle!Next

(* The moves that the lifecycle has. *)
Allowed(from, to) ==
    \/ from = "absent" /\ to \in {"stored", "resolved"}
    \/ from = "stored" /\ to \in {"accepted", "resolved"}
    \/ from = "accepted" /\ to \in {"queued", "resolved"}
    \/ from = "queued" /\ to \in {"running", "resolved"}
    \/ from = "running" /\ to = "resolved"
    \/ from = "resolved" /\ to \in {"accepted", "queued", "running"}

(* A step that moves one alert. *)
LEMMA Moving ==
    ASSUME TypeOK, TypeOK', NoSilentLoss, NoSilentLoss', disturbed' = disturbed,
           NEW x \in Alerts, \A y \in Alerts \ {x} : Stays(y),
           Allowed(Shown(x), Shown(x)')
    PROVE  Lifecycle!Next
<1>1. \A y \in Alerts \ {x} : Phase(y)' = Phase(y)
  BY PhaseIsShown, PhaseIsShownNext, StaysShown
<1>2. Phase(x) = Shown(x) /\ Phase(x)' = Shown(x)'
  BY PhaseIsShown, PhaseIsShownNext
<1>3. PICK from, to : from = Phase(x) /\ to = Phase(x)'
  OBVIOUS
<1>4. Lifecycle!Moves(x, from, to)
  BY <1>1, <1>3 DEF Lifecycle!Moves
<1>5. Allowed(from, to)
  BY <1>2, <1>3
<1> QED
  BY <1>4, <1>5 DEF Allowed, Lifecycle!Next, Lifecycle!Store, Lifecycle!Accept,
     Lifecycle!Queue, Lifecycle!Run, Lifecycle!Resolve, Lifecycle!Close,
     Lifecycle!Reopen, Lifecycle!Open

-------------------------------------------------------------------------------
(* Every step keeps a new alert untouched: a task is queued only by a thread
   that has written 'processing', and going back to 'new' disturbs. *)
LEMMA FreshStep ==
    ASSUME Base, Fresh, [Next]_vars
    PROVE  Fresh'
<1>1. ASSUME NEW r \in Requests, Receive(r) PROVE Fresh'
  BY <1>1 DEF Receive, Fresh, Base, TypeOK, Request, NoRequest
<1>2. ASSUME NEW r \in Requests, Post(r) PROVE Fresh'
  BY <1>2 DEF Post, Fresh, Base, TypeOK, Request, NoRequest
<1>3. ASSUME NEW r \in Requests, PatchRead(r) PROVE Fresh'
  BY <1>3 DEF PatchRead, Fresh, Base, TypeOK, Request, NoRequest
<1>4. ASSUME NEW r \in Requests, Check(r) PROVE Fresh'
  BY <1>4 DEF Check, Fresh, Base, TypeOK, Request, NoRequest
<1>5. ASSUME NEW r \in Requests, Classify(r) PROVE Fresh'
  BY <1>5 DEF Classify, Fresh, Base, TypeOK, Request, NoRequest
<1>6. ASSUME NEW r \in Requests, InsertRaises(r) PROVE Fresh'
  BY <1>6 DEF InsertRaises, Fresh, Base, TypeOK, Request, NoRequest
<1>7. ASSUME NEW r \in Requests, Hook(r) PROVE Fresh'
  BY <1>7 DEF Hook, Fresh, Base, TypeOK, Request, NoRequest
<1>8. ASSUME NEW r \in Requests, HookRaises(r) PROVE Fresh'
  BY <1>8 DEF HookRaises, Fresh, Base, TypeOK, Request, NoRequest
<1>9. ASSUME NEW r \in Requests, EnqueueRaises(r) PROVE Fresh'
  BY <1>9 DEF EnqueueRaises, Fresh, Base, TypeOK, Request, NoRequest
<1>10. ASSUME NEW r \in Requests, PatchRaises(r) PROVE Fresh'
  BY <1>10 DEF PatchRaises, Fresh, Base, TypeOK, Request, NoRequest
<1>11. ASSUME NEW r \in Requests, Insert(r) PROVE Fresh'
  <2>1. PICK y \in Alerts \ issued :
          /\ alerts' = [alerts EXCEPT ![y] = [status |-> req[r].was, type |-> Unknown,
                                              wid |-> req[r].wid]]
          /\ req' = [req EXCEPT ![r] = [req[r] EXCEPT !.pc = "hook", !.alert = y]]
    BY <1>11 DEF Insert
  <2>2. \A q \in Requests : req[q].pc = "enqueue" => req[q].alert # y
    BY DEF Base, References
  <2>3. \A t \in Tasks : tasks[t].status # "free" => tasks[t].alert # y
    BY DEF Base, References
  <2>4. \A q \in Requests : req'[q].pc = "enqueue" => q # r /\ req'[q] = req[q]
    BY <2>1 DEF Base, TypeOK, Request
  <2>5. disturbed \subseteq disturbed' /\ tasks' = tasks
    BY <1>11 DEF Insert
  <2>6. \A x \in Alerts : x # y => alerts'[x] = alerts[x]
    BY <2>1 DEF Base, TypeOK
  <2> QED BY <2>2, <2>3, <2>4, <2>5, <2>6 DEF Fresh
<1>12. ASSUME NEW r \in Requests, SaveProcessing(r) PROVE Fresh'
  <2>1. \A x \in Alerts : alerts'[x].status = IF x = req[r].alert THEN "processing"
                                               ELSE alerts[x].status
    BY <1>12 DEF SaveProcessing, Base, TypeOK
  <2>2. \A q \in Requests : q # r => req'[q] = req[q]
    BY <1>12 DEF SaveProcessing, Base, TypeOK
  <2>3. req'[r].pc = "enqueue" => req'[r].alert = req[r].alert
    BY <1>12 DEF SaveProcessing, Base, TypeOK, Request, NoRequest
  <2>4. UNCHANGED <<tasks, disturbed>>
    BY <1>12 DEF SaveProcessing
  <2> QED BY <2>1, <2>2, <2>3, <2>4 DEF Fresh
<1>13. ASSUME NEW r \in Requests, Enqueue(r) PROVE Fresh'
  <2>1. PICK t \in Tasks :
          tasks' = [tasks EXCEPT ![t] = [status |-> "READY", alert |-> req[r].alert,
                      origin |-> IF req[r].kind = "patch" THEN "patch" ELSE "create"]]
    BY <1>13 DEF Enqueue
  <2>2. \A s \in Tasks : s # t => tasks'[s] = tasks[s]
    BY <2>1 DEF Base, TypeOK
  <2>3. tasks'[t].alert = req[r].alert
    BY <2>1 DEF Base, TypeOK
  <2>4. req[r].pc = "enqueue" /\ UNCHANGED <<alerts, disturbed>>
    BY <1>13 DEF Enqueue
  <2>5. \A q \in Requests : req'[q].pc = "enqueue" => req'[q] = req[q]
    BY <1>13 DEF Enqueue, Base, TypeOK, NoRequest
  <2> QED BY <2>2, <2>3, <2>4, <2>5 DEF Fresh
<1>14. ASSUME NEW r \in Requests, PatchSave(r) PROVE Fresh'
  <2>1. \A x \in Alerts : alerts'[x].status = IF x = req[r].alert THEN req[r].now
                                               ELSE alerts[x].status
    BY <1>14 DEF PatchSave, Base, TypeOK
  <2>2. \A q \in Requests : q # r => req'[q] = req[q]
    BY <1>14 DEF PatchSave, Base, TypeOK
  <2>3. req'[r].pc = "enqueue" => req'[r].alert = req[r].alert /\ req[r].now = "processing"
    BY <1>14 DEF PatchSave, Base, TypeOK, Request, NoRequest, Responds
  <2>4. tasks' = tasks /\ disturbed \subseteq disturbed'
    BY <1>14 DEF PatchSave
  <2>5. req[r].now = "new" /\ req[r].alert \notin disturbed'
          => alerts[req[r].alert].status = "new"
    BY <1>14 DEF PatchSave, Responds
  <2> QED BY <2>1, <2>2, <2>3, <2>4, <2>5 DEF Fresh
<1>15. ASSUME NEW w \in Workers, Claim(w) PROVE Fresh'
  <2>1. PICK t \in Tasks :
          /\ tasks[t].status = "READY"
          /\ tasks' = [tasks EXCEPT ![t] = [tasks[t] EXCEPT !.status = "RUNNING"]]
    BY <1>15 DEF Claim
  <2>2. \A s \in Tasks : tasks'[s].alert = tasks[s].alert
                           /\ (tasks[s].status = "free" => tasks'[s].status = "free")
    BY <2>1 DEF Base, TypeOK, TaskRow
  <2> QED BY <1>15, <2>2 DEF Claim, Fresh
<1>16. ASSUME NEW w \in Workers, StartWorker(w) PROVE Fresh'
  BY <1>16 DEF StartWorker, Fresh
<1>17. ASSUME NEW w \in Workers, Load(w) PROVE Fresh'
  BY <1>17 DEF Load, Fresh
<1>18. ASSUME NEW w \in Workers, Plan(w) PROVE Fresh'
  BY <1>18 DEF Plan, Fresh
<1>19. ASSUME NEW w \in Workers, BeginResponse(w) PROVE Fresh'
  BY <1>19 DEF BeginResponse, Fresh
<1>20. ASSUME NEW w \in Workers, EndResponse(w) PROVE Fresh'
  BY <1>20 DEF EndResponse, Fresh
<1>21. ASSUME NEW w \in Workers, LoopCrash(w) PROVE Fresh'
  BY <1>21 DEF LoopCrash, Fresh
<1>22. ASSUME NEW w \in Workers, Resolve(w) PROVE Fresh'
  <2>1. \A x \in Alerts : alerts'[x].status = "new" => alerts[x].status = "new"
    BY <1>22 DEF Resolve, Base, TypeOK
  <2> QED BY <1>22, <2>1 DEF Resolve, Fresh
<1>23. ASSUME NEW w \in Workers, Finish(w) PROVE Fresh'
  <2>1. wrk[w].task \in Tasks /\ tasks[wrk[w].task].status = "RUNNING"
    BY <1>23 DEF Finish, Serving, Base, References
  <2>2. \A s \in Tasks : tasks'[s].alert = tasks[s].alert
                           /\ (tasks[s].status = "free" => tasks'[s].status = "free")
    BY <1>23, <2>1 DEF Finish, Base, TypeOK, TaskRow
  <2> QED BY <1>23, <2>2 DEF Finish, Fresh
<1>24. ASSUME NEW w \in Workers, TaskRaises(w) PROVE Fresh'
  <2>1. wrk[w].task \in Tasks /\ tasks[wrk[w].task].status = "RUNNING"
    BY <1>24 DEF TaskRaises, Serving, Base, References
  <2>2. \A s \in Tasks : tasks'[s].alert = tasks[s].alert
                           /\ (tasks[s].status = "free" => tasks'[s].status = "free")
    BY <1>24, <2>1 DEF TaskRaises, Base, TypeOK, TaskRow
  <2> QED BY <1>24, <2>2 DEF TaskRaises, Fresh
<1>25. ASSUME NEW x \in Alerts, DestroyAlert(x) PROVE Fresh'
  <2>1. \A y \in Alerts : alerts'[y].status = "new" => alerts[y].status = "new"
    BY <1>25 DEF DestroyAlert, Base, TypeOK
  <2> QED BY <1>25, <2>1 DEF DestroyAlert, Fresh
<1>26. ASSUME NEW p \in Processes, Crash(p) PROVE Fresh'
  BY <1>26 DEF Crash, Fresh, Base, TypeOK, Request, NoRequest
<1>27. ASSUME NEW k \in AdminKeys, EditType(k) PROVE Fresh'
  BY <1>27 DEF EditType, Fresh
<1>28. ASSUME NEW k \in AdminKeys, NEW d \in Definitions, EditMap(k, d) PROVE Fresh'
  BY <1>28 DEF EditMap, Fresh
<1>29. CASE UNCHANGED vars
  BY <1>29 DEF vars, Fresh
<1>30. ASSUME NEW w \in Workers, Hang(w) PROVE Fresh'
  BY <1>30 DEF Hang, Fresh
<1> QED
  BY <1>1, <1>2, <1>3, <1>4, <1>5, <1>6, <1>7, <1>8, <1>9, <1>10, <1>11,
     <1>12, <1>13, <1>14, <1>15, <1>16, <1>17, <1>18, <1>19, <1>20, <1>21,
     <1>22, <1>23, <1>24, <1>25, <1>26, <1>27, <1>28, <1>29, <1>30
  DEF Next, Serve, Work

-------------------------------------------------------------------------------
(* Every step is a step of the lifecycle, or none. *)

\* A step of a web thread that touches neither row, task nor worker.
LEMMA WebStep ==
    ASSUME Safe, Safe', disturbed \subseteq disturbed',
           UNCHANGED <<alerts, tasks, wrk>>
    PROVE  Lifecycle!Next
<1>1. \A x \in Alerts : Stays(x)
  BY DEF Stays, Served, Serving, AlertOf, Queued
<1> QED BY <1>1, Disturbing DEF Safe, Base

\* A step that writes one row and leaves tasks and workers alone.
LEMMA RowStep ==
    ASSUME Safe, Safe', UNCHANGED <<tasks, wrk>>, disturbed \subseteq disturbed',
           NEW x \in Alerts, \A y \in Alerts \ {x} : alerts'[y].status = alerts[y].status,
           \/ x \in disturbed'
           \/ alerts'[x].status = alerts[x].status
           \/ /\ disturbed' = disturbed
              /\ \/ alerts[x].status = "absent" /\ alerts'[x].status \in {"new", "resolved"}
                 \/ alerts[x].status = "new" /\ alerts'[x].status \in {"processing", "resolved"}
                 \/ alerts[x].status = "processing" /\ alerts'[x].status = "resolved"
                 \/ alerts[x].status = "resolved" /\ alerts'[x].status = "processing"
    PROVE  Lifecycle!Next
<1> USE DEF Safe, Base
<1>1. \A y \in Alerts : (Served(y)' <=> Served(y)) /\ (Queued(y)' <=> Queued(y))
  BY DEF Served, Serving, AlertOf, Queued
<1>2. \A y \in Alerts \ {x} : Stays(y)
  BY <1>1 DEF Stays
<1>3. CASE x \in disturbed' \/ alerts'[x].status = alerts[x].status
  BY <1>1, <1>2, <1>3, Disturbing DEF Stays
<1>4. ASSUME x \notin disturbed, disturbed' = disturbed,
             \/ alerts[x].status = "absent" /\ alerts'[x].status \in {"new", "resolved"}
             \/ alerts[x].status = "new" /\ alerts'[x].status \in {"processing", "resolved"}
             \/ alerts[x].status = "processing" /\ alerts'[x].status = "resolved"
             \/ alerts[x].status = "resolved" /\ alerts'[x].status = "processing"
      PROVE  Lifecycle!Next
  <2>2. alerts[x].status = "new" => ~Served(x) /\ ~Queued(x)
    BY <1>4 DEF Fresh, Served, Serving, AlertOf, Queued, References
  <2>3. CASE alerts[x].status = "absent" /\ alerts'[x].status \in {"new", "resolved"}
    BY <1>2, <1>4, <2>3, Moving DEF Shown, Allowed
  <2>4. CASE alerts[x].status = "new" /\ alerts'[x].status \in {"processing", "resolved"}
    BY <1>1, <1>2, <1>4, <2>2, <2>4, Moving DEF Shown, Allowed
  <2>5. CASE alerts[x].status = "processing" /\ alerts'[x].status = "resolved"
    BY <1>2, <1>4, <2>5, Moving DEF Shown, Allowed
  <2>6. CASE alerts[x].status = "resolved" /\ alerts'[x].status = "processing"
    BY <1>2, <1>4, <2>6, Moving DEF Shown, Allowed
  <2> QED BY <1>4, <2>3, <2>4, <2>5, <2>6
<1> QED BY <1>3, <1>4

\* A step of a worker that keeps its task, if the task's alert is still there.
LEMMA WorkerStep ==
    ASSUME Safe, Safe', UNCHANGED <<alerts, disturbed>>, NEW w \in Workers,
           \A v \in Workers : v # w => wrk'[v] = wrk[v],
           \A x \in Alerts : Queued(x)' <=> Queued(x),
           \A v \in Workers : Serving(v) /\ v # w => AlertOf(v)' = AlertOf(v),
           \A x \in Alerts : alerts[x].status = "processing" =>
               (Serving(w)' /\ AlertOf(w)' = x <=> Serving(w) /\ AlertOf(w) = x)
    PROVE  Lifecycle!Next
<1>1. \A v \in Workers : v # w => (Serving(v)' <=> Serving(v))
  BY DEF Serving
<1>2. ASSUME NEW x \in Alerts, alerts[x].status = "processing"
      PROVE  Served(x)' <=> Served(x)
  BY <1>1, <1>2 DEF Served
<1>3. \A x \in Alerts : Stays(x)
  BY <1>2 DEF Stays
<1> QED BY <1>3, Disturbing DEF Safe, Base

(* Every step of the pipeline is a step of the lifecycle, or none. *)
LEMMA LifecycleStep ==
    ASSUME Safe, Safe', [Next]_vars
    PROVE  [Lifecycle!Next]_([x \in Alerts |-> Phase(x)])
<1>1. ASSUME NEW r \in Requests, Receive(r) PROVE Lifecycle!Next
  BY <1>1, WebStep DEF Receive
<1>2. ASSUME NEW r \in Requests, Post(r) PROVE Lifecycle!Next
  BY <1>2, WebStep DEF Post
<1>3. ASSUME NEW r \in Requests, PatchRead(r) PROVE Lifecycle!Next
  BY <1>3, WebStep DEF PatchRead
<1>4. ASSUME NEW r \in Requests, Check(r) PROVE Lifecycle!Next
  BY <1>4, WebStep DEF Check
<1>5. ASSUME NEW r \in Requests, Classify(r) PROVE Lifecycle!Next
  BY <1>5, WebStep DEF Classify
<1>6. ASSUME NEW r \in Requests, InsertRaises(r) PROVE Lifecycle!Next
  BY <1>6, WebStep DEF InsertRaises
<1>7. ASSUME NEW r \in Requests, Hook(r) PROVE Lifecycle!Next
  BY <1>7, WebStep DEF Hook
<1>8. ASSUME NEW r \in Requests, HookRaises(r) PROVE Lifecycle!Next
  BY <1>8, WebStep DEF HookRaises
<1>9. ASSUME NEW r \in Requests, EnqueueRaises(r) PROVE Lifecycle!Next
  BY <1>9, WebStep DEF EnqueueRaises
<1>10. ASSUME NEW r \in Requests, PatchRaises(r) PROVE Lifecycle!Next
  BY <1>10, WebStep DEF PatchRaises
<1>11. ASSUME NEW r \in Requests, Insert(r) PROVE Lifecycle!Next
  <2>1. PICK y \in Alerts \ issued :
          alerts' = [alerts EXCEPT ![y] = [status |-> req[r].was, type |-> Unknown,
                                           wid |-> req[r].wid]]
          /\ disturbed' = IF req[r].was = "processing" THEN disturbed \cup {y} ELSE disturbed
    BY <1>11 DEF Insert
  <2>2. alerts[y].status = "absent"
    BY DEF Safe, Base, References
  <2>3. alerts'[y].status = req[r].was /\ req[r].was \in {"new", "processing", "resolved"}
    BY <2>1 DEF Safe, Base, TypeOK, Request, Statuses
  <2>4. \A x \in Alerts \ {y} : alerts'[x].status = alerts[x].status
    BY <2>1 DEF Safe, Base, TypeOK
  <2>5. disturbed \subseteq disturbed' /\ UNCHANGED <<tasks, wrk>>
    BY <1>11 DEF Insert
  <2> QED BY <2>1, <2>2, <2>3, <2>4, <2>5, RowStep
<1>12. ASSUME NEW r \in Requests, SaveProcessing(r) PROVE Lifecycle!Next
  <2>1. PICK y \in Alerts : y = req[r].alert /\ y \in issued
    BY <1>12 DEF SaveProcessing, Safe, Base, References, TypeOK
  <2>2. \A x \in Alerts : alerts'[x].status = IF x = y THEN "processing" ELSE alerts[x].status
    BY <1>12, <2>1 DEF SaveProcessing, Safe, Base, TypeOK
  <2>3. UNCHANGED <<tasks, wrk, disturbed>>
    BY <1>12 DEF SaveProcessing
  <2>4. alerts[y].status \in {"new", "processing", "resolved"} \/ y \in disturbed
    BY <2>1 DEF Safe, Base, References, TypeOK, AlertRow, Statuses
  <2> QED BY <2>2, <2>3, <2>4, RowStep
<1>13. ASSUME NEW r \in Requests, Enqueue(r) PROVE Lifecycle!Next
  <2>0. PICK y \in Alerts : y = req[r].alert /\ y \in issued
    BY <1>13 DEF Enqueue, Safe, Base, References, TypeOK
  <2>1. PICK t \in Tasks :
          /\ tasks[t].status = "free"
          /\ tasks' = [tasks EXCEPT ![t] = [status |-> "READY", alert |-> y,
                         origin |-> IF req[r].kind = "patch" THEN "patch" ELSE "create"]]
    BY <1>13, <2>0 DEF Enqueue
  <2>2. \A q \in Tasks : q # t => tasks'[q] = tasks[q]
    BY <2>1 DEF Safe, Base, TypeOK
  <2>3. tasks'[t].alert = y /\ tasks'[t].status = "READY"
    BY <2>1 DEF Safe, Base, TypeOK
  <2>4. UNCHANGED <<alerts, wrk, disturbed>>
    BY <1>13 DEF Enqueue
  <2>5. \A v \in Workers : Serving(v) => wrk[v].task \in Tasks /\ wrk[v].task # t
    BY <2>1 DEF Serving, Safe, Base, References
  <2>6. \A x \in Alerts : Served(x)' <=> Served(x)
    BY <2>2, <2>4, <2>5 DEF Served, Serving, AlertOf
  <2>7. \A x \in Alerts : x # y => (Queued(x)' <=> Queued(x))
    BY <2>1, <2>2, <2>3 DEF Queued
  <2>8. Queued(y)'
    BY <2>3 DEF Queued
  <2>9. \A x \in Alerts \ {y} : Stays(x)
    BY <2>4, <2>6, <2>7 DEF Stays
  <2>10. CASE y \in disturbed \/ Stays(y)
    BY <2>4, <2>9, <2>10, Disturbing DEF Safe, Base
  <2>11. CASE y \notin disturbed /\ ~Stays(y)
    <3>2. alerts[y].status = "processing" /\ ~Queued(y)
      BY <2>4, <2>6, <2>8, <2>11 DEF Stays
    <3>3. CASE Served(y)
      <4>1. Shown(y)' = Shown(y)
        BY <2>4, <2>6, <3>2, <3>3 DEF Shown
      <4>2. \A x \in Alerts : Shown(x)' = Shown(x)
        BY <2>4, <2>9, <4>1, StaysShown
      <4>3. Lifecycle!Disturb({})
        <5>1. \A x \in Alerts : Phase(x)' = Phase(x)
          BY <4>2, PhaseIsShown, PhaseIsShownNext DEF Safe, Base
        <5> QED BY <5>1 DEF Lifecycle!Disturb
      <4> QED BY <4>3 DEF Lifecycle!Next
    <3>4. CASE ~Served(y)
      <4>1. Allowed(Shown(y), Shown(y)')
        BY <2>4, <2>6, <2>8, <2>11, <3>2, <3>4 DEF Shown, Allowed
      <4> QED BY <2>4, <2>9, <4>1, Moving DEF Safe, Base
    <3> QED BY <3>3, <3>4
  <2> QED BY <2>10, <2>11
<1>14. ASSUME NEW r \in Requests, PatchSave(r) PROVE Lifecycle!Next
  <2>1. PICK y \in Alerts : y = req[r].alert /\ y \in issued
    BY <1>14 DEF PatchSave, Safe, Base, References, TypeOK
  <2>2. \A x \in Alerts : alerts'[x].status = IF x = y THEN req[r].now ELSE alerts[x].status
    BY <1>14, <2>1 DEF PatchSave, Safe, Base, TypeOK
  <2>3. UNCHANGED <<tasks, wrk>> /\ disturbed \subseteq disturbed'
    BY <1>14 DEF PatchSave
  <2>4. alerts[y].status \in {"new", "processing", "resolved"} \/ y \in disturbed
    BY <2>1 DEF Safe, Base, References, TypeOK, AlertRow, Statuses
  <2>5. \/ y \in disturbed'
        \/ disturbed' = disturbed /\ req[r].now \in {alerts[y].status, "resolved", "processing"}
    BY <1>14, <2>1 DEF PatchSave, Responds
  <2> QED BY <2>2, <2>3, <2>4, <2>5, RowStep
<1>15. ASSUME NEW w \in Workers, Claim(w) PROVE Lifecycle!Next
  <2>1. PICK t \in Tasks :
          /\ tasks[t].status = "READY"
          /\ tasks' = [tasks EXCEPT ![t] = [tasks[t] EXCEPT !.status = "RUNNING"]]
          /\ wrk' = [wrk EXCEPT ![w] = [wrk[w] EXCEPT !.pc = "load", !.task = t]]
    BY <1>15 DEF Claim
  <2>0. PICK y \in Alerts : y = tasks[t].alert
    BY <2>1 DEF Safe, Base, References, TypeOK
  <2>2. /\ \A q \in Tasks : tasks'[q].alert = tasks[q].alert
        /\ \A q \in Tasks : q # t => tasks'[q] = tasks[q]
        /\ tasks'[t].status # "READY"
    BY <2>1 DEF Safe, Base, TypeOK, TaskRow
  <2>3. UNCHANGED <<alerts, disturbed>>
    BY <1>15 DEF Claim
  <2>4. /\ \A v \in Workers : v # w => wrk'[v] = wrk[v]
        /\ wrk'[w].pc = "load" /\ wrk'[w].task = t
    BY <2>1 DEF Safe, Base, TypeOK, Worker
  <2>5. ~Serving(w)
    BY <1>15 DEF Claim, Serving
  <2>6. \A v \in Workers : Serving(v) => wrk[v].task \in Tasks
    BY DEF Serving, Safe, Base, References
  <2>7. Served(y)' /\ Queued(y)
    BY <2>0, <2>1, <2>2, <2>4 DEF Served, Serving, AlertOf, Queued
  <2>8. ASSUME NEW x \in Alerts, x # y PROVE (Served(x)' <=> Served(x)) /\ (Queued(x)' <=> Queued(x))
    <3>1. Queued(x)' <=> Queued(x)
      BY <2>0, <2>2, <2>8 DEF Queued
    <3>2. ASSUME NEW v \in Workers
          PROVE  (Serving(v)' /\ AlertOf(v)' = x) <=> (Serving(v) /\ AlertOf(v) = x)
      BY <2>0, <2>2, <2>4, <2>5, <2>6, <2>8 DEF Serving, AlertOf
    <3> QED BY <3>1, <3>2 DEF Served
  <2>9. \A x \in Alerts \ {y} : Stays(x)
    BY <2>3, <2>8 DEF Stays
  <2>10. CASE y \in disturbed
    BY <2>3, <2>9, <2>10, Disturbing DEF Safe, Base
  <2>11. CASE y \notin disturbed
    <3>2. CASE alerts[y].status = "processing" /\ ~Served(y)
      <4>1. Allowed(Shown(y), Shown(y)')
        BY <2>3, <2>7, <2>11, <3>2 DEF Shown, Allowed
      <4> QED BY <2>3, <2>9, <4>1, Moving DEF Safe, Base
    <3>3. CASE alerts[y].status # "processing" \/ Served(y)
      <4>1. \A x \in Alerts : Shown(x)' = Shown(x)
        BY <2>3, <2>7, <2>9, <3>3, StaysShown DEF Shown
      <4>2. \A x \in Alerts : Phase(x)' = Phase(x)
        BY <4>1, PhaseIsShown, PhaseIsShownNext DEF Safe, Base
      <4>3. Lifecycle!Disturb({})
        BY <4>2 DEF Lifecycle!Disturb
      <4> QED BY <4>3 DEF Lifecycle!Next
    <3> QED BY <3>2, <3>3
  <2> QED BY <2>10, <2>11
<1>16. ASSUME NEW w \in Workers, StartWorker(w) PROVE Lifecycle!Next
  <2>1. UNCHANGED <<alerts, disturbed, tasks>> /\ \A v \in Workers : v # w => wrk'[v] = wrk[v]
    BY <1>16 DEF StartWorker, Safe, Base, TypeOK
  <2>2. \A x \in Alerts : alerts[x].status = "processing" =>
          (Serving(w)' /\ AlertOf(w)' = x <=> Serving(w) /\ AlertOf(w) = x)
    BY <1>16 DEF StartWorker, Serving, AlertOf, Resting, Present, Safe, Base, TypeOK, Worker
  <2>3. /\ \A x \in Alerts : Queued(x)' <=> Queued(x)
        /\ \A v \in Workers : Serving(v) /\ v # w => AlertOf(v)' = AlertOf(v)
    BY <2>1 DEF Queued, Serving, AlertOf
  <2> QED BY <2>1, <2>2, <2>3, WorkerStep
<1>17. ASSUME NEW w \in Workers, Load(w) PROVE Lifecycle!Next
  <2>1. UNCHANGED <<alerts, disturbed, tasks>> /\ \A v \in Workers : v # w => wrk'[v] = wrk[v]
    BY <1>17 DEF Load, Safe, Base, TypeOK
  <2>2. \A x \in Alerts : alerts[x].status = "processing" =>
          (Serving(w)' /\ AlertOf(w)' = x <=> Serving(w) /\ AlertOf(w) = x)
    BY <1>17 DEF Load, Serving, AlertOf, Resting, Present, Safe, Base, TypeOK, Worker
  <2>3. /\ \A x \in Alerts : Queued(x)' <=> Queued(x)
        /\ \A v \in Workers : Serving(v) /\ v # w => AlertOf(v)' = AlertOf(v)
    BY <2>1 DEF Queued, Serving, AlertOf
  <2> QED BY <2>1, <2>2, <2>3, WorkerStep
<1>18. ASSUME NEW w \in Workers, Plan(w) PROVE Lifecycle!Next
  <2>1. UNCHANGED <<alerts, disturbed, tasks>> /\ \A v \in Workers : v # w => wrk'[v] = wrk[v]
    BY <1>18 DEF Plan, Safe, Base, TypeOK
  <2>2. \A x \in Alerts : alerts[x].status = "processing" =>
          (Serving(w)' /\ AlertOf(w)' = x <=> Serving(w) /\ AlertOf(w) = x)
    BY <1>18 DEF Plan, Serving, AlertOf, Resting, Present, Safe, Base, TypeOK, Worker
  <2>3. /\ \A x \in Alerts : Queued(x)' <=> Queued(x)
        /\ \A v \in Workers : Serving(v) /\ v # w => AlertOf(v)' = AlertOf(v)
    BY <2>1 DEF Queued, Serving, AlertOf
  <2> QED BY <2>1, <2>2, <2>3, WorkerStep
<1>19. ASSUME NEW w \in Workers, BeginResponse(w) PROVE Lifecycle!Next
  <2>1. UNCHANGED <<alerts, disturbed, tasks>> /\ \A v \in Workers : v # w => wrk'[v] = wrk[v]
    BY <1>19 DEF BeginResponse, Safe, Base, TypeOK
  <2>2. \A x \in Alerts : alerts[x].status = "processing" =>
          (Serving(w)' /\ AlertOf(w)' = x <=> Serving(w) /\ AlertOf(w) = x)
    BY <1>19 DEF BeginResponse, Serving, AlertOf, Resting, Present, Safe, Base, TypeOK, Worker
  <2>3. /\ \A x \in Alerts : Queued(x)' <=> Queued(x)
        /\ \A v \in Workers : Serving(v) /\ v # w => AlertOf(v)' = AlertOf(v)
    BY <2>1 DEF Queued, Serving, AlertOf
  <2> QED BY <2>1, <2>2, <2>3, WorkerStep
<1>20. ASSUME NEW w \in Workers, EndResponse(w) PROVE Lifecycle!Next
  <2>1. UNCHANGED <<alerts, disturbed, tasks>> /\ \A v \in Workers : v # w => wrk'[v] = wrk[v]
    BY <1>20 DEF EndResponse, Safe, Base, TypeOK
  <2>2. \A x \in Alerts : alerts[x].status = "processing" =>
          (Serving(w)' /\ AlertOf(w)' = x <=> Serving(w) /\ AlertOf(w) = x)
    BY <1>20 DEF EndResponse, Serving, AlertOf, Resting, Present, Safe, Base, TypeOK, Worker
  <2>3. /\ \A x \in Alerts : Queued(x)' <=> Queued(x)
        /\ \A v \in Workers : Serving(v) /\ v # w => AlertOf(v)' = AlertOf(v)
    BY <2>1 DEF Queued, Serving, AlertOf
  <2> QED BY <2>1, <2>2, <2>3, WorkerStep
<1>21. ASSUME NEW w \in Workers, Finish(w) PROVE Lifecycle!Next
  <2>1. UNCHANGED <<alerts, disturbed>> /\ \A v \in Workers : v # w => wrk'[v] = wrk[v]
    BY <1>21 DEF Finish, Safe, Base, TypeOK
  <2>2. ~Serving(w) /\ ~Serving(w)'
    BY <1>21 DEF Finish, Serving, Resting, Safe, Base, TypeOK
  <2>3. wrk[w].task \in Tasks /\ tasks[wrk[w].task].status = "RUNNING"
    BY <1>21 DEF Finish, Safe, Base, References
  <2>4. \A q \in Tasks : /\ tasks'[q].alert = tasks[q].alert
                         /\ tasks'[q].status = "READY" <=> tasks[q].status = "READY"
    BY <1>21, <2>3 DEF Finish, Safe, Base, TypeOK, TaskRow
  <2>5. \A x \in Alerts : Queued(x)' <=> Queued(x)
    BY <2>4 DEF Queued
  <2>6. \A v \in Workers : Serving(v) => wrk[v].task \in Tasks
    BY DEF Serving, Safe, Base, References
  <2>7. \A v \in Workers : Serving(v) /\ v # w => AlertOf(v)' = AlertOf(v)
    BY <2>1, <2>4, <2>6 DEF AlertOf
  <2> QED BY <2>1, <2>2, <2>5, <2>7, WorkerStep
<1>22. ASSUME NEW w \in Workers, Resolve(w) PROVE Lifecycle!Next
  <2>1. wrk[w].task \in Tasks /\ tasks[wrk[w].task].status = "RUNNING"
    BY <1>22 DEF Resolve, Safe, Base, References
  <2>0. PICK y \in Alerts : y = AlertOf(w) /\ y \in issued
    BY <2>1 DEF AlertOf, Safe, Base, References, TypeOK
  <2>2. UNCHANGED <<disturbed, tasks>>
    BY <1>22 DEF Resolve
  <2>3. \A v \in Workers : v # w => wrk'[v] = wrk[v]
    BY <1>22 DEF Resolve, Safe, Base, TypeOK
  <2>4. Serving(w) /\ ~Serving(w)'
    BY <1>22 DEF Resolve, Serving, Safe, Base, TypeOK, Worker
  <2>5. \A x \in Alerts \ {y} : alerts'[x] = alerts[x]
    BY <1>22, <2>0 DEF Resolve, Safe, Base, TypeOK
  <2>6. alerts'[y].status = "resolved" \/ y \in disturbed
    BY <1>22, <2>0 DEF Resolve, Present, Safe, Base, References, TypeOK, AlertRow
  <2>7. ASSUME NEW x \in Alerts, x # y PROVE (Served(x)' <=> Served(x)) /\ (Queued(x)' <=> Queued(x))
    <3>1. Queued(x)' <=> Queued(x)
      BY <2>2 DEF Queued
    <3>2. ASSUME NEW v \in Workers
          PROVE  (Serving(v)' /\ AlertOf(v)' = x) <=> (Serving(v) /\ AlertOf(v) = x)
      BY <2>0, <2>2, <2>3, <2>4, <2>7 DEF Serving, AlertOf
    <3> QED BY <3>1, <3>2 DEF Served
  <2>8. \A x \in Alerts \ {y} : Stays(x)
    BY <2>5, <2>7 DEF Stays
  <2>9. CASE y \in disturbed
    BY <2>2, <2>8, <2>9, Disturbing DEF Safe, Base
  <2>10. CASE y \notin disturbed
    <3>2. Served(y)
      BY <2>0, <2>4 DEF Served
    <3>3. alerts[y].status \in {"processing", "resolved"}
      BY <2>0, <2>1, <2>10 DEF AlertOf, Safe, Base, References, Fresh, TypeOK, AlertRow, Statuses
    <3>4. CASE alerts[y].status = "processing"
      <4>1. Allowed(Shown(y), Shown(y)')
        BY <2>2, <2>6, <2>10, <3>2, <3>4 DEF Shown, Allowed
      <4> QED BY <2>2, <2>8, <4>1, Moving DEF Safe, Base
    <3>5. CASE alerts[y].status = "resolved"
      BY <2>2, <2>6, <2>8, <2>10, <3>5, Disturbing DEF Stays, Safe, Base
    <3> QED BY <3>3, <3>4, <3>5
  <2> QED BY <2>9, <2>10
<1>23. ASSUME NEW w \in Workers, TaskRaises(w) \/ LoopCrash(w) \/ Hang(w) PROVE Lifecycle!Next
  <2>1. UNCHANGED alerts /\ \A v \in Workers : v # w => wrk'[v] = wrk[v]
    BY <1>23 DEF TaskRaises, LoopCrash, Hang, Safe, Base, TypeOK
  <2>2. ~Serving(w)'
    BY <1>23 DEF TaskRaises, LoopCrash, Hang, Serving, Resting, Safe, Base, TypeOK, Worker
  <2>3. disturbed \subseteq disturbed' /\ (Serving(w) => AlertOf(w) \in disturbed')
    BY <1>23 DEF TaskRaises, LoopCrash, Hang
  <2>4. TaskRaises(w) => wrk[w].task \in Tasks /\ tasks[wrk[w].task].status = "RUNNING"
    BY DEF TaskRaises, Serving, Safe, Base, References
  <2>5. \A q \in Tasks : /\ tasks'[q].alert = tasks[q].alert
                         /\ tasks'[q].status = "READY" <=> tasks[q].status = "READY"
    <3>1. CASE TaskRaises(w)
      BY <2>4, <3>1 DEF TaskRaises, Safe, Base, TypeOK, TaskRow
    <3>2. CASE LoopCrash(w) \/ Hang(w)
      BY <3>2 DEF LoopCrash, Hang
    <3> QED BY <1>23, <3>1, <3>2
  <2>6. \A v \in Workers : Serving(v) => wrk[v].task \in Tasks
    BY DEF Serving, Safe, Base, References
  <2>7. ASSUME NEW x \in Alerts \ disturbed' PROVE Served(x)' <=> Served(x)
    <3>1. ASSUME NEW v \in Workers
          PROVE  (Serving(v)' /\ AlertOf(v)' = x) <=> (Serving(v) /\ AlertOf(v) = x)
      BY <2>1, <2>2, <2>3, <2>5, <2>6, <2>7 DEF Serving, AlertOf
    <3> QED BY <3>1 DEF Served
  <2>8. \A x \in Alerts \ disturbed' : Stays(x)
    BY <2>1, <2>5, <2>7 DEF Stays, Queued
  <2> QED BY <2>3, <2>8, Disturbing DEF Safe, Base
<1>24. ASSUME NEW x \in Alerts, DestroyAlert(x) PROVE Lifecycle!Next
  <2>1. \A y \in Alerts \ {x} : alerts'[y].status = alerts[y].status
    BY <1>24 DEF DestroyAlert, Safe, Base, TypeOK
  <2>2. UNCHANGED <<tasks, wrk>> /\ disturbed \subseteq disturbed' /\ x \in disturbed'
    BY <1>24 DEF DestroyAlert
  <2> QED BY <2>1, <2>2, RowStep
<1>25. ASSUME NEW p \in Processes, Crash(p) PROVE Lifecycle!Next
  <2>1. UNCHANGED <<alerts, tasks>> /\ disturbed \subseteq disturbed'
    BY <1>25 DEF Crash
  <2>2. ASSUME NEW v \in Workers
        PROVE  \/ wrk'[v] = wrk[v]
               \/ ~Serving(v)' /\ (Serving(v) => AlertOf(v) \in disturbed')
    BY <1>25 DEF Crash, Serving, Resting
  <2>3. ASSUME NEW x \in Alerts \ disturbed' PROVE Served(x)' <=> Served(x)
    <3>1. ASSUME NEW v \in Workers
          PROVE  (Serving(v)' /\ AlertOf(v)' = x) <=> (Serving(v) /\ AlertOf(v) = x)
      BY <2>1, <2>2, <2>3 DEF Serving, AlertOf
    <3> QED BY <3>1 DEF Served
  <2>4. \A x \in Alerts \ disturbed' : Stays(x)
    BY <2>1, <2>3 DEF Stays, Queued
  <2> QED BY <2>1, <2>4, Disturbing DEF Safe, Base
<1>26. ASSUME NEW k \in AdminKeys, EditType(k) PROVE Lifecycle!Next
  BY <1>26, WebStep DEF EditType
<1>27. ASSUME NEW k \in AdminKeys, NEW d \in Definitions, EditMap(k, d) PROVE Lifecycle!Next
  BY <1>27, WebStep DEF EditMap
<1>28. CASE UNCHANGED vars
  BY <1>28, WebStep DEF vars
<1> QED
  BY <1>1, <1>2, <1>3, <1>4, <1>5, <1>6, <1>7, <1>8, <1>9, <1>10, <1>11,
     <1>12, <1>13, <1>14, <1>15, <1>16, <1>17, <1>18, <1>19, <1>20, <1>21,
     <1>22, <1>23, <1>24, <1>25, <1>26, <1>27, <1>28
  DEF Next, Serve, Work

(* Threads, queue and tables, with all their faults, give each alert the life
   that AlertLifecycle promises: nothing is lost, nothing goes back a phase, and
   an alert is resolved by its response or by a client. *)
THEOREM PipelineImplementsLifecycle == Spec => ImplementsLifecycle
<1>1. Init => Safe
  <2>1. ASSUME Init PROVE Base
    BY <2>1, BaseInit
  <2>2. Init => Unhooked /\ NoSilentLoss /\ Fresh
    BY DEF Init, Unhooked, NoSilentLoss, Fresh, NoRequest
  <2> QED BY <2>1, <2>2 DEF Safe
<1>2. Safe /\ [Next]_vars => Safe'
  <2>1. ASSUME Safe, [Next]_vars PROVE Safe'
    BY <2>1, TypeStep, ReferencesStep, UnhookedStep, LossStep, FreshStep DEF Safe, Base
  <2> QED BY <2>1
<1>3. Init => Lifecycle!Init
  BY DEF Init, Lifecycle!Init, Phase
<1>4. Safe /\ Safe' /\ [Next]_vars => [Lifecycle!Next]_([x \in Alerts |-> Phase(x)])
  BY LifecycleStep
<1> QED BY <1>1, <1>2, <1>3, <1>4, PTL DEF Spec, ImplementsLifecycle, Lifecycle!Spec
===============================================================================
