---------------------------- MODULE AlertPipeline ----------------------------
(***************************************************************************)
(* From a Wazuh delivery to a resolved alert: the ingest view and task     *)
(* (alerts/views.py, alerts/tasks.py), the lifecycle hooks of the Alert    *)
(* model (alerts/hooks.py), the generic REST updates of the same rows, the *)
(* database task queue and the response executor (executor.py).            *)
(*                                                                         *)
(* Requests are the web threads that serve a delivery or a REST call;      *)
(* Workers are the queue worker threads; both run in Processes.  There is  *)
(* no ATOMIC_REQUESTS, so every query below is a step and every save its   *)
(* own transaction: threads interleave between any two of them.            *)
(***************************************************************************)
EXTENDS Classifier, FiniteSets

CONSTANTS Requests, Workers, Processes,
          Home,           \* the process each thread runs in
          Alerts,         \* primary keys of Alert rows; a bound on their number
          Tasks,          \* rows of the task queue; a bound on their number
          Definitions,    \* ResponseDefinition rows
          Registered,     \* those whose handler_key is registered
          Orders,         \* AttackResponseMap.order values an administrator enters: a bound
          WazuhIds, Descriptions,
          NoId, NoAlert, NoTask, NoDefinition,
          InitTypes, InitMapped,
          AdminKeys,      \* attack types that administrators edit, and with which
          AdminRows,      \* rows: bounds on the edits
          Limit           \* how often each outside event may happen: a bound

Events == {"crash", "error", "hang", "delete", "patch", "post", "edit"}

(* The mapping rows of one attack type: the order of each response, a
   PositiveIntegerField, or Off where no active row names it.  A response has
   one row per attack type (unique_together). *)
Off == -1
Rows == [Definitions -> Nat \cup {Off}]
NoRows == [d \in Definitions |-> Off]

ASSUME PipelineAssumption ==
    /\ \A x \in Requests \cup Workers : Home[x] \in Processes
    /\ Orders \subseteq Nat
    /\ InitTypes \in [Keys -> AttackType]
    /\ AdminKeys \subseteq Keys /\ AdminRows \subseteq AttackType
    /\ InitMapped \in [Keys -> Rows]
    /\ Limit \in [Events -> Nat]
    /\ Descriptions # {}
    /\ NoAlert \notin Alerts /\ NoTask \notin Tasks
    /\ NoDefinition \notin Definitions /\ NoId \notin WazuhIds

VARIABLES types,      \* the AttackType rows
          mapped,     \* the AttackResponseMap rows, by attack type and response
          alerts,     \* the Alert rows
          issued,     \* primary keys ever handed out
          tasks,      \* the queue's rows
          log,        \* ResponseAction status, by task and definition
          req, wrk,   \* what each thread holds in memory
          planned,    \* history: the rows a task set out to run
          disturbed,  \* history: alerts that a fault or an operator touched
          spent       \* how often each outside event has happened

vars == <<types, mapped, alerts, issued, tasks, log, req, wrk, planned,
          disturbed, spent>>

-------------------------------------------------------------------------------
Statuses == {"new", "processing", "resolved"}

AlertRow == [status : Statuses \cup {"absent"}, type : Keys,
             wid : WazuhIds \cup {NoId}]
TaskRow == [status : {"free", "READY", "RUNNING", "SUCCEEDED", "FAILED"},
            alert : Alerts \cup {NoAlert}, origin : {"create", "patch"}]
Request == [pc : {"idle", "check", "classify", "insert", "hook", "save",
                  "enqueue", "patch"},
            kind : {"ingest", "post", "patch"}, wid : WazuhIds \cup {NoId},
            desc : Descriptions, alert : Alerts \cup {NoAlert}, type : Keys,
            was : Statuses, now : Statuses]
Worker == [pc : {"down", "idle", "load", "plan", "next", "act", "hung", "finish"},
           task : Tasks \cup {NoTask}, type : Keys, todo : Rows,
           cur : Definitions \cup {NoDefinition}]

NoRequest == [pc |-> "idle", kind |-> "ingest", wid |-> NoId,
              desc |-> CHOOSE d \in Descriptions : TRUE, alert |-> NoAlert,
              type |-> Unknown, was |-> "new", now |-> "new"]
Resting(pc) == [pc |-> pc, task |-> NoTask, type |-> Unknown, todo |-> NoRows,
                cur |-> NoDefinition]

Present(x) == alerts[x].status # "absent"
\* unique=True on wazuh_alert_id; NULLs never collide.
CanWrite(x, wid) ==
    wid = NoId \/ \A y \in Alerts \ {x} : Present(y) => alerts[y].wid # wid
May(event) == spent[event] < Limit[event]
Spend(event) == spent' = [spent EXCEPT ![event] = @ + 1]

\* Threads that still owe something to the row they created or claimed.
Serving(w) == wrk[w].pc \in {"load", "plan", "next", "act"}
AlertOf(w) == tasks[wrk[w].task].alert
Left(w) == {d \in Definitions : wrk[w].todo[d] # Off}
Owed(r) == req[r].pc \in {"hook", "save", "enqueue"}

Init ==
    /\ types = InitTypes /\ mapped = InitMapped
    /\ alerts = [x \in Alerts |-> [status |-> "absent", type |-> Unknown, wid |-> NoId]]
    /\ issued = {} /\ disturbed = {}
    /\ tasks = [t \in Tasks |-> [status |-> "free", alert |-> NoAlert, origin |-> "create"]]
    /\ log = [t \in Tasks |-> [d \in Definitions |-> "none"]]
    /\ planned = [t \in Tasks |-> NoRows]
    /\ req = [r \in Requests |-> NoRequest]
    /\ wrk = [w \in Workers |-> Resting("down")]
    /\ spent = [e \in Events |-> 0]

-------------------------------------------------------------------------------
(* Ingest: POST /alerts/ingest/, and POST /alerts/ on the same viewset. *)

\* The secret was right; the handler holds the delivered event.
Receive(r) ==
    /\ req[r].pc = "idle"
    /\ \E wid \in WazuhIds \cup {NoId}, desc \in Descriptions :
         req' = [req EXCEPT ![r] = [NoRequest EXCEPT !.pc = "check", !.wid = wid,
                                                     !.desc = desc]]
    /\ UNCHANGED <<types, mapped, alerts, issued, tasks, log, wrk, planned,
                   disturbed, spent>>

\* A REST client creates a row itself, with a status of its choice.
Post(r) ==
    /\ req[r].pc = "idle" /\ May("post") /\ Spend("post")
    /\ \E wid \in WazuhIds \cup {NoId}, desc \in Descriptions, status \in Statuses :
         req' = [req EXCEPT ![r] = [NoRequest EXCEPT !.pc = "check", !.kind = "post",
                                    !.wid = wid, !.desc = desc, !.was = status]]
    /\ UNCHANGED <<types, mapped, alerts, issued, tasks, log, wrk, planned, disturbed>>

\* exists() for a delivery, the serializer's UniqueValidator for a POST.
Check(r) ==
    /\ req[r].pc = "check"
    /\ req' = [req EXCEPT ![r] =
                 IF req[r].wid # NoId
                    /\ \E x \in Alerts : Present(x) /\ alerts[x].wid = req[r].wid
                 THEN NoRequest
                 ELSE [@ EXCEPT !.pc = IF req[r].kind = "ingest" THEN "classify" ELSE "insert"]]
    /\ UNCHANGED <<types, mapped, alerts, issued, tasks, log, wrk, planned,
                   disturbed, spent>>

\* Mutant: the task stores what it does not recognise.
Classify_KeepsNoise(r) ==
    /\ req[r].pc = "classify"
    /\ req' = [req EXCEPT ![r] = [@ EXCEPT !.pc = "insert"]]
    /\ UNCHANGED <<types, mapped, alerts, issued, tasks, log, wrk, planned,
                   disturbed, spent>>

\* Noise is dropped: only a description that matches a known type goes on.
Classify(r) ==
    /\ req[r].pc = "classify"
    /\ req' = [req EXCEPT ![r] =
                 IF ClassifyDescription(types, req[r].desc).key = Unknown
                 THEN NoRequest ELSE [@ EXCEPT !.pc = "insert"]]
    /\ UNCHANGED <<types, mapped, alerts, issued, tasks, log, wrk, planned,
                   disturbed, spent>>

Insert(r) ==
    /\ req[r].pc = "insert"
    /\ \E x \in Alerts \ issued :
         /\ CanWrite(x, req[r].wid)
         /\ alerts' = [alerts EXCEPT ![x] = [status |-> req[r].was, type |-> Unknown,
                                             wid |-> req[r].wid]]
         /\ issued' = issued \cup {x}
         /\ req' = [req EXCEPT ![r] = [@ EXCEPT !.pc = "hook", !.alert = x]]
         /\ disturbed' = IF req[r].was = "processing" THEN disturbed \cup {x} ELSE disturbed
    /\ UNCHANGED <<types, mapped, tasks, log, wrk, planned, spent>>

\* IntegrityError on a duplicate, another database error, or (the bound) no
\* key left: the view answers 500 and nothing is stored.
InsertRaises(r) ==
    /\ req[r].pc = "insert"
    /\ IF Alerts \subseteq issued \/ ~CanWrite(NoAlert, req[r].wid)
       THEN UNCHANGED spent ELSE May("error") /\ Spend("error")
    /\ req' = [req EXCEPT ![r] = NoRequest]
    /\ UNCHANGED <<types, mapped, alerts, issued, tasks, log, wrk, planned, disturbed>>

-------------------------------------------------------------------------------
(* The lifecycle hooks that run inside save(). *)

\* Mutant: the hook returns early when nothing matches any more.
Hook_DropsNoise(r) ==
    LET key == ClassifyDescription(types, req[r].desc).key
    IN  /\ req[r].pc = "hook"
        /\ req' = [req EXCEPT ![r] = IF key = Unknown THEN NoRequest
                                     ELSE [@ EXCEPT !.pc = "save", !.type = key]]
        /\ UNCHANGED <<types, mapped, alerts, issued, tasks, log, wrk, planned,
                       disturbed, spent>>

\* AFTER_CREATE: on_create_classify reads the classifier a second time.
Hook(r) ==
    /\ req[r].pc = "hook"
    /\ req' = [req EXCEPT ![r] = [@ EXCEPT !.pc = "save",
                                  !.type = ClassifyDescription(types, req[r].desc).key]]
    /\ UNCHANGED <<types, mapped, alerts, issued, tasks, log, wrk, planned,
                   disturbed, spent>>

\* Mutant: has_changed compares with the status the save has just written.
SaveProcessing_NeverChanged(r) ==
    /\ req[r].pc = "save"
    /\ CanWrite(req[r].alert, req[r].wid)
    /\ alerts' = [alerts EXCEPT ![req[r].alert] = [status |-> "processing",
                                   type |-> req[r].type, wid |-> req[r].wid]]
    /\ req' = [req EXCEPT ![r] = NoRequest]
    /\ UNCHANGED <<types, mapped, issued, tasks, log, wrk, planned, disturbed, spent>>

(* Its nested self.save(): UPDATE by primary key, or an INSERT that brings the
   row back when it was deleted meanwhile.  AFTER_UPDATE then fires only if the
   status this instance was built with was not already 'processing'. *)
SaveProcessing(r) ==
    /\ req[r].pc = "save"
    /\ CanWrite(req[r].alert, req[r].wid)
    /\ alerts' = [alerts EXCEPT ![req[r].alert] = [status |-> "processing",
                                   type |-> req[r].type, wid |-> req[r].wid]]
    /\ req' = [req EXCEPT ![r] = IF req[r].was = "processing" THEN NoRequest
                                 ELSE [@ EXCEPT !.pc = "enqueue"]]
    /\ UNCHANGED <<types, mapped, issued, tasks, log, wrk, planned, disturbed, spent>>

\* on_create_classify swallows every exception; the row stays as it was.
HookRaises(r) ==
    /\ req[r].pc \in {"hook", "save"}
    /\ IF req[r].pc = "save" /\ ~CanWrite(req[r].alert, req[r].wid)
       THEN UNCHANGED spent ELSE May("error") /\ Spend("error")
    /\ req' = [req EXCEPT ![r] = NoRequest]
    /\ disturbed' = disturbed \cup {req[r].alert}
    /\ UNCHANGED <<types, mapped, alerts, issued, tasks, log, wrk, planned>>

\* Mutant: the hook fires once more for the same change.
Enqueue_Again(r) ==
    /\ req[r].pc = "enqueue"
    /\ \E t \in Tasks :
         /\ tasks[t].status = "free"
         /\ tasks' = [tasks EXCEPT ![t] = [status |-> "READY", alert |-> req[r].alert,
                         origin |-> IF req[r].kind = "patch" THEN "patch" ELSE "create"]]
    /\ UNCHANGED <<types, mapped, alerts, issued, log, req, wrk, planned, disturbed, spent>>

\* AFTER_UPDATE: on_processing_respond queues the response.
Enqueue(r) ==
    /\ req[r].pc = "enqueue"
    /\ \E t \in Tasks :
         /\ tasks[t].status = "free"
         /\ tasks' = [tasks EXCEPT ![t] = [status |-> "READY", alert |-> req[r].alert,
                         origin |-> IF req[r].kind = "patch" THEN "patch" ELSE "create"]]
    /\ req' = [req EXCEPT ![r] = NoRequest]
    /\ UNCHANGED <<types, mapped, alerts, issued, log, wrk, planned, disturbed, spent>>

\* Swallowed too: the alert is 'processing' and no task was queued.
EnqueueRaises(r) ==
    /\ req[r].pc = "enqueue"
    /\ IF \A t \in Tasks : tasks[t].status # "free"
       THEN UNCHANGED spent ELSE May("error") /\ Spend("error")
    /\ req' = [req EXCEPT ![r] = NoRequest]
    /\ disturbed' = disturbed \cup {req[r].alert}
    /\ UNCHANGED <<types, mapped, alerts, issued, tasks, log, wrk, planned>>

-------------------------------------------------------------------------------
(* PATCH and DELETE /alerts/<id>/ *)

\* get_object(): the instance is a snapshot of the whole row.
PatchRead(r) ==
    /\ req[r].pc = "idle" /\ May("patch") /\ Spend("patch")
    /\ \E x \in Alerts, status \in Statuses :
         /\ Present(x)
         /\ req' = [req EXCEPT ![r] = [NoRequest EXCEPT !.pc = "patch", !.kind = "patch",
                       !.alert = x, !.wid = alerts[x].wid, !.type = alerts[x].type,
                       !.was = alerts[x].status, !.now = status]]
    /\ UNCHANGED <<types, mapped, alerts, issued, tasks, log, wrk, planned, disturbed>>

\* Whether this save starts a response: has_changed compares with the snapshot.
Responds(r) == req[r].now = "processing" /\ req[r].was # "processing"

(* save() writes every column back.  It disturbs the alert when it undoes what
   another thread wrote since the snapshot, or reopens it without a response. *)
PatchSave(r) ==
    LET x == req[r].alert
    IN  /\ req[r].pc = "patch"
        /\ CanWrite(x, req[r].wid)
        /\ alerts' = [alerts EXCEPT ![x] = [status |-> req[r].now, type |-> req[r].type,
                                            wid |-> req[r].wid]]
        /\ disturbed' = IF \/ alerts[x].type # req[r].type
                           \/ /\ req[r].now \notin {alerts[x].status, "resolved"}
                              /\ ~Responds(r)
                        THEN disturbed \cup {x} ELSE disturbed
        /\ req' = [req EXCEPT ![r] = IF Responds(r) THEN [@ EXCEPT !.pc = "enqueue"]
                                     ELSE NoRequest]
        /\ UNCHANGED <<types, mapped, issued, tasks, log, wrk, planned, spent>>

PatchRaises(r) ==
    /\ req[r].pc = "patch"
    /\ IF ~CanWrite(req[r].alert, req[r].wid)
       THEN UNCHANGED spent ELSE May("error") /\ Spend("error")
    /\ req' = [req EXCEPT ![r] = NoRequest]
    /\ UNCHANGED <<types, mapped, alerts, issued, tasks, log, wrk, planned, disturbed>>

\* The row goes, and its ResponseAction rows with it (on_delete=CASCADE).
DestroyAlert(x) ==
    /\ Present(x) /\ May("delete") /\ Spend("delete")
    /\ alerts' = [alerts EXCEPT ![x] = [@ EXCEPT !.status = "absent"]]
    /\ log' = [t \in Tasks |-> IF tasks[t].alert = x THEN [d \in Definitions |-> "none"]
                               ELSE log[t]]
    /\ disturbed' = disturbed \cup {x}
    /\ UNCHANGED <<types, mapped, issued, tasks, req, wrk, planned>>

-------------------------------------------------------------------------------
(* The queue worker and the execute_response task. *)

\* Mutant: the supervisor's loop is left when the worker loop is.
StartWorker_Once(w) ==
    /\ wrk[w].pc = "down" /\ spent["crash"] = 0
    /\ wrk' = [wrk EXCEPT ![w] = Resting("idle")]
    /\ UNCHANGED <<types, mapped, alerts, issued, tasks, log, req, planned,
                   disturbed, spent>>

\* _supervise: a fresh Worker enters its loop.
StartWorker(w) ==
    /\ wrk[w].pc = "down"
    /\ wrk' = [wrk EXCEPT ![w] = Resting("idle")]
    /\ UNCHANGED <<types, mapped, alerts, issued, tasks, log, req, planned,
                   disturbed, spent>>

\* One locked SELECT and UPDATE: two workers never claim the same row.
Claim(w) ==
    /\ wrk[w].pc = "idle"
    /\ \E t \in Tasks :
         /\ tasks[t].status = "READY"
         /\ tasks' = [tasks EXCEPT ![t] = [@ EXCEPT !.status = "RUNNING"]]
         /\ wrk' = [wrk EXCEPT ![w] = [@ EXCEPT !.pc = "load", !.task = t]]
    /\ UNCHANGED <<types, mapped, alerts, issued, log, req, planned, disturbed, spent>>

\* Alert.objects.get; DoesNotExist ends the task normally.
Load(w) ==
    /\ wrk[w].pc = "load"
    /\ wrk' = [wrk EXCEPT ![w] = IF Present(AlertOf(w))
                 THEN [@ EXCEPT !.pc = "plan", !.type = alerts[AlertOf(w)].type]
                 ELSE [@ EXCEPT !.pc = "finish"]]
    /\ UNCHANGED <<types, mapped, alerts, issued, tasks, log, req, planned,
                   disturbed, spent>>

\* Mutant: the query is not filtered by the attack type.
Plan_Rows(w) ==
    /\ wrk[w].pc = "plan"
    /\ wrk' = [wrk EXCEPT ![w] = [@ EXCEPT !.pc = "next", !.todo = mapped]]
    /\ planned' = [planned EXCEPT ![wrk[w].task] = mapped]
    /\ UNCHANGED <<types, mapped, alerts, issued, tasks, log, req, disturbed, spent>>

\* The mapping query, evaluated once: later edits do not reach this task.
Plan(w) ==
    LET todo == mapped[wrk[w].type]
    IN  /\ wrk[w].pc = "plan"
        /\ wrk' = [wrk EXCEPT ![w] = [@ EXCEPT !.pc = "next", !.todo = todo]]
        /\ planned' = [planned EXCEPT ![wrk[w].task] = todo]
        /\ UNCHANGED <<types, mapped, alerts, issued, tasks, log, req, disturbed, spent>>

\* Mutant: the next response is looked up in the mapping as it is by then.
BeginResponse_Reorders(w) ==
    LET now == mapped[wrk[w].type]
    IN  /\ wrk[w].pc = "next" /\ Present(AlertOf(w))
        /\ \E d \in Left(w) :
             /\ \A e \in Left(w) : now[d] <= now[e]
             /\ wrk' = [wrk EXCEPT ![w] = [@ EXCEPT !.pc = "act", !.cur = d]]
             /\ log' = [log EXCEPT ![wrk[w].task] = [@ EXCEPT ![d] = "pending"]]
        /\ UNCHANGED <<types, mapped, alerts, issued, tasks, req, planned, disturbed, spent>>

\* Mutant: the mapping is read again before each response.
BeginResponse_Requeries(w) ==
    LET mappedNow == {d \in Left(w) : mapped[wrk[w].type][d] # Off}
    IN  /\ wrk[w].pc = "next" /\ Present(AlertOf(w)) /\ Left(w) # {}
        /\ \/ /\ mappedNow = {}
              /\ wrk' = [wrk EXCEPT ![w] = [@ EXCEPT !.todo = NoRows]]
              /\ UNCHANGED log
           \/ \E d \in mappedNow :
                /\ \A e \in mappedNow : wrk[w].todo[d] <= wrk[w].todo[e]
                /\ wrk' = [wrk EXCEPT ![w] = [@ EXCEPT !.pc = "act", !.cur = d]]
                /\ log' = [log EXCEPT ![wrk[w].task] = [@ EXCEPT ![d] = "pending"]]
        /\ UNCHANGED <<types, mapped, alerts, issued, tasks, req, planned, disturbed, spent>>

\* _run_handler logs a pending ResponseAction; its foreign key needs the alert.
BeginResponse(w) ==
    /\ wrk[w].pc = "next" /\ Present(AlertOf(w))
    /\ \E d \in Left(w) :
         /\ \A e \in Left(w) : wrk[w].todo[d] <= wrk[w].todo[e]
         /\ wrk' = [wrk EXCEPT ![w] = [@ EXCEPT !.pc = "act", !.cur = d]]
         /\ log' = [log EXCEPT ![wrk[w].task] = [@ EXCEPT ![d] = "pending"]]
    /\ UNCHANGED <<types, mapped, alerts, issued, tasks, req, planned, disturbed, spent>>

\* get_handler: a key nobody registered fails; a handler may do either.
Outcomes(d) == IF d \in Registered THEN {"executed", "failed"} ELSE {"failed"}

\* Mutant: the missing-handler path returns without saving its failure.
EndResponse_Unsaved(w) ==
    LET d == wrk[w].cur
    IN  /\ wrk[w].pc = "act" /\ Present(AlertOf(w))
        /\ IF d \notin Registered THEN UNCHANGED log
           ELSE \E outcome \in {"executed", "failed"} :
                  log' = [log EXCEPT ![wrk[w].task] = [@ EXCEPT ![d] = outcome]]
        /\ wrk' = [wrk EXCEPT ![w] = [@ EXCEPT !.pc = "next", !.todo = [wrk[w].todo EXCEPT ![d] = Off],
                                               !.cur = NoDefinition]]
        /\ UNCHANGED <<types, mapped, alerts, issued, tasks, req, planned, disturbed, spent>>

\* The handler returned or raised, or there is none; the outcome is saved.
EndResponse(w) ==
    LET d == wrk[w].cur
    IN  /\ wrk[w].pc = "act" /\ Present(AlertOf(w))
        /\ \E outcome \in Outcomes(d) :
             log' = [log EXCEPT ![wrk[w].task] = [@ EXCEPT ![d] = outcome]]
        /\ wrk' = [wrk EXCEPT ![w] = [@ EXCEPT !.pc = "next", !.todo = [wrk[w].todo EXCEPT ![d] = Off],
                                               !.cur = NoDefinition]]
        /\ UNCHANGED <<types, mapped, alerts, issued, tasks, req, planned, disturbed, spent>>

\* block_ip asks `iptables -C` without a time limit: the handler may never return.
\* The loop that called it is stuck, with its task, until its process ends.
Hang(w) ==
    /\ wrk[w].pc = "act" /\ wrk[w].cur \in Registered
    /\ May("hang") /\ Spend("hang")
    /\ wrk' = [wrk EXCEPT ![w] = [@ EXCEPT !.pc = "hung"]]
    /\ disturbed' = disturbed \cup {AlertOf(w)}
    /\ UNCHANGED <<types, mapped, alerts, issued, tasks, log, req, planned>>

\* Mutant: an alert is resolved only if some response succeeded.
Resolve_OnSuccess(w) ==
    LET x == AlertOf(w)
    IN  /\ wrk[w].pc = "next" /\ Left(w) = {}
        /\ alerts' = IF Present(x) /\ \E d \in Definitions : log[wrk[w].task][d] = "executed"
                     THEN [alerts EXCEPT ![x] = [@ EXCEPT !.status = "resolved"]]
                     ELSE alerts
        /\ wrk' = [wrk EXCEPT ![w] = [@ EXCEPT !.pc = "finish"]]
        /\ UNCHANGED <<types, mapped, issued, tasks, log, req, planned, disturbed, spent>>

\* A queryset update: no hook, no signal, and no row is no error.
Resolve(w) ==
    LET x == AlertOf(w)
    IN  /\ wrk[w].pc = "next" /\ Left(w) = {}
        /\ alerts' = IF Present(x) THEN [alerts EXCEPT ![x] = [@ EXCEPT !.status = "resolved"]]
                     ELSE alerts
        /\ wrk' = [wrk EXCEPT ![w] = [@ EXCEPT !.pc = "finish"]]
        /\ UNCHANGED <<types, mapped, issued, tasks, log, req, planned, disturbed, spent>>

Finish(w) ==
    /\ wrk[w].pc = "finish"
    /\ tasks' = [tasks EXCEPT ![wrk[w].task] = [@ EXCEPT !.status = "SUCCEEDED"]]
    /\ wrk' = [wrk EXCEPT ![w] = Resting("idle")]
    /\ UNCHANGED <<types, mapped, alerts, issued, log, req, planned, disturbed, spent>>

\* Mutant: the task resolves its alert in a finally clause.
TaskRaises_Finally(w) ==
    /\ Serving(w)
    /\ IF /\ ~Present(AlertOf(w))
          /\ wrk[w].pc = "act" \/ (wrk[w].pc = "next" /\ Left(w) # {})
       THEN UNCHANGED spent ELSE May("error") /\ Spend("error")
    /\ wrk' = [wrk EXCEPT ![w] = [@ EXCEPT !.pc = "next", !.todo = NoRows, !.cur = NoDefinition]]
    /\ disturbed' = disturbed \cup {AlertOf(w)}
    /\ UNCHANGED <<types, mapped, alerts, issued, tasks, log, req, planned>>

\* An exception outside the handler's try: the queue records FAILED and the
\* remaining responses never run.  A log row without its alert raises one.
TaskRaises(w) ==
    /\ Serving(w)
    /\ IF /\ ~Present(AlertOf(w))
          /\ wrk[w].pc = "act" \/ (wrk[w].pc = "next" /\ Left(w) # {})
       THEN UNCHANGED spent ELSE May("error") /\ Spend("error")
    /\ tasks' = [tasks EXCEPT ![wrk[w].task] = [@ EXCEPT !.status = "FAILED"]]
    /\ disturbed' = disturbed \cup {AlertOf(w)}
    /\ wrk' = [wrk EXCEPT ![w] = Resting("idle")]
    /\ UNCHANGED <<types, mapped, alerts, issued, log, req, planned>>

-------------------------------------------------------------------------------
(* Faults and administration. *)

\* worker.run() raises, for instance when the queue cannot store an outcome:
\* the supervisor replaces the loop, and the claimed row stays RUNNING.
LoopCrash(w) ==
    /\ wrk[w].pc \notin {"down", "hung"} /\ May("crash") /\ Spend("crash")
    /\ wrk' = [wrk EXCEPT ![w] = Resting("down")]
    /\ disturbed' = IF Serving(w) THEN disturbed \cup {AlertOf(w)} ELSE disturbed
    /\ UNCHANGED <<types, mapped, alerts, issued, tasks, log, req, planned>>

\* A process dies with its request threads and its daemon worker threads.
Crash(p) ==
    LET dead == {r \in Requests : Home[r] = p}
        lost == {w \in Workers : Home[w] = p}
    IN  /\ May("crash") /\ Spend("crash")
        /\ req' = [r \in Requests |-> IF r \in dead THEN NoRequest ELSE req[r]]
        /\ wrk' = [w \in Workers |-> IF w \in lost THEN Resting("down") ELSE wrk[w]]
        /\ disturbed' = disturbed \cup {req[r].alert : r \in {q \in dead : Owed(q)}}
                                  \cup {AlertOf(w) : w \in {v \in lost : Serving(v)}}
        /\ UNCHANGED <<types, mapped, alerts, issued, tasks, log, planned>>

\* The dashboard edits an AttackType row; or it adds a mapping row, changes its
\* order (list_editable), switches it off or deletes it.
EditType(k) ==
    /\ May("edit") /\ Spend("edit")
    /\ \E row \in AdminRows : types' = [types EXCEPT ![k] = row]
    /\ UNCHANGED <<mapped, alerts, issued, tasks, log, req, wrk, planned, disturbed>>

EditMap(k, d) ==
    /\ May("edit") /\ Spend("edit")
    /\ \E order \in Orders \cup {Off} : mapped' = [mapped EXCEPT ![k] = [@ EXCEPT ![d] = order]]
    /\ UNCHANGED <<types, alerts, issued, tasks, log, req, wrk, planned, disturbed>>

-------------------------------------------------------------------------------
\* What a web thread does by itself once it has begun.
Serve(r) == \/ Check(r) \/ Classify(r) \/ Insert(r) \/ InsertRaises(r)
            \/ Hook(r) \/ SaveProcessing(r) \/ HookRaises(r)
            \/ Enqueue(r) \/ EnqueueRaises(r) \/ PatchSave(r) \/ PatchRaises(r)

\* What a worker thread does by itself.
Work(w) == \/ StartWorker(w) \/ Claim(w) \/ Load(w) \/ Plan(w) \/ BeginResponse(w)
           \/ EndResponse(w) \/ Resolve(w) \/ Finish(w) \/ TaskRaises(w)

Next ==
    \/ \E r \in Requests : Receive(r) \/ Post(r) \/ PatchRead(r) \/ Serve(r)
    \/ \E w \in Workers : Work(w) \/ Hang(w) \/ LoopCrash(w)
    \/ \E x \in Alerts : DestroyAlert(x)
    \/ \E p \in Processes : Crash(p)
    \/ \E k \in AdminKeys : EditType(k) \/ \E d \in Definitions : EditMap(k, d)

Spec == Init /\ [][Next]_vars

\* Threads keep running; nobody has to deliver, patch, delete, edit or crash, and
\* a hung handler owes nothing.
Fairness == /\ \A r \in Requests : WF_vars(Serve(r))
            /\ \A w \in Workers : WF_vars(Work(w))
FairSpec == Spec /\ Fairness

-------------------------------------------------------------------------------
(* Every variable keeps the shape of the tables and of the threads' locals. *)
TypeOK ==
    /\ types \in [Keys -> AttackType]
    /\ mapped \in [Keys -> Rows]
    /\ alerts \in [Alerts -> AlertRow]
    /\ issued \subseteq Alerts
    /\ tasks \in [Tasks -> TaskRow]
    /\ log \in [Tasks -> [Definitions -> {"none", "pending", "executed", "failed"}]]
    /\ req \in [Requests -> Request]
    /\ wrk \in [Workers -> Worker]
    /\ planned \in [Tasks -> Rows]
    /\ disturbed \subseteq Alerts
    /\ spent \in [Events -> Nat]

(* A Wazuh event starts at most one automatic response however often it is
   delivered: a second task for the same id, or for the same row, exists only
   if an alert for it was deleted or otherwise disturbed in between. *)
OneResponsePerEvent ==
    \A s, t \in Tasks :
        LET x == tasks[s].alert
            y == tasks[t].alert
            created(u) == tasks[u].status # "free" /\ tasks[u].origin = "create"
        IN  s # t /\ created(s) /\ created(t) =>
              /\ x # y
              /\ alerts[x].wid = alerts[y].wid /\ alerts[x].wid # NoId
                   => x \in disturbed \/ y \in disturbed

InHook(x) ==
    \E r \in Requests : /\ req[r].alert = x /\ req[r].kind # "patch"
                        /\ req[r].pc \in {"hook", "save"}
Enqueuing(x) == \E r \in Requests : req[r].alert = x /\ req[r].pc = "enqueue"
Queued(x)    == \E t \in Tasks : tasks[t].alert = x /\ tasks[t].status = "READY"
Served(x)    == \E w \in Workers : Serving(w) /\ AlertOf(w) = x

(* An alert no fault or operator disturbed is never forgotten: while it is
   'new' the thread that stored it is still inside its hook, and while it is
   'processing' a thread is about to queue its response, or the response is
   queued, or a live worker is running it. *)
NoSilentLoss ==
    \A x \in Alerts \ disturbed :
        /\ alerts[x].status = "new" => InHook(x)
        /\ alerts[x].status = "processing" => Enqueuing(x) \/ Queued(x) \/ Served(x)

Forgotten(x) == \/ alerts[x].status = "new" /\ ~InHook(x)
                \/ alerts[x].status = "processing" /\ ~(Enqueuing(x) \/ Queued(x) \/ Served(x))

(* Nothing repeats what a fault cut short, but a fault costs no more than what it
   hit: an exception or a hanging handler one alert, and the end of a process one
   for each of its threads.  No fault excuses an alert from being counted. *)
FaultsAreContained ==
    (\A e \in {"post", "patch", "delete"} : spent[e] = 0) =>
        \E p \in Processes :
            Cardinality({x \in Alerts : Forgotten(x)})
              <= spent["error"] + spent["hang"]
                 + spent["crash"] * Cardinality({x \in Requests \cup Workers : Home[x] = p})

(* A ResponseAction left 'pending' is a response in progress, on the one worker
   that runs its task; otherwise its alert was disturbed. *)
PendingIsInProgress ==
    \A t \in Tasks, d \in Definitions :
        log[t][d] = "pending" /\ tasks[t].alert \notin disturbed =>
            \E w \in Workers : wrk[w].task = t /\ wrk[w].pc = "act" /\ wrk[w].cur = d

(* A task the queue calls SUCCEEDED ran every response that was mapped when it
   planned, logged each of them with an outcome, and ran no other. *)
SucceededIsComplete ==
    \A t \in Tasks :
        tasks[t].status = "SUCCEEDED" /\ tasks[t].alert \notin disturbed =>
            \A d \in Definitions :
                IF planned[t][d] # Off THEN log[t][d] \in {"executed", "failed"}
                ELSE log[t][d] = "none"

(* The classifier is read twice, by the task and again by the hook.  As long as
   no dashboard user writes in between, the two agree: a delivered event that
   matches no attack type never becomes an alert that is being responded to. *)
NoiseIsDropped ==
    (\A e \in {"edit", "post", "patch"} : spent[e] = 0) =>
        \A x \in Alerts :
            alerts[x].status \in {"processing", "resolved"} => alerts[x].type # Unknown

(* Responses run in the order that was configured when their task planned them:
   when one is logged, none that was to come later has been logged for that task,
   although the rows may be reordered, switched off and added in between. *)
ResponsesInOrder ==
    [][\A t \in Tasks, d, e \in Definitions :
         log[t][d] = "none" /\ log'[t][d] = "pending" /\ planned[t][e] > planned[t][d]
           => log[t][e] = "none"]_vars

(* Whatever crashes, raises or hangs, and in whatever order: as long as no client
   sets a status and no administrator edits the mapping, an alert that shows as
   resolved has an outcome, success or failure, for each response that is mapped
   for its attack type.  No fault excuses an alert from this. *)
ResolvedIsAnswered ==
    (\A e \in {"edit", "post", "patch", "delete"} : spent[e] = 0) =>
        \A x \in Alerts, d \in Definitions :
            alerts[x].status = "resolved" /\ mapped[alerts[x].type][d] # Off =>
                \E t \in Tasks : tasks[t].alert = x /\ log[t][d] \in {"executed", "failed"}

Hung(w) == wrk[w].pc = "hung"

(* Once begun, every alert is resolved, or a fault or an operator disturbed that
   alert: a loop that crashes, or hangs for ever, takes no other alert with it,
   unless from some moment on every worker loop there is hangs. *)
EveryAlertResolved ==
    ([]<>(\E w \in Workers : ~Hung(w))) =>
        \A x \in Alerts : alerts[x].status \in {"new", "processing"}
                            ~> (alerts[x].status = "resolved" \/ x \in disturbed)

-------------------------------------------------------------------------------
(* How far an alert has come: the most advanced of its carriers counts, and an
   open alert that nobody carries is lost, a phase its lifecycle does not have. *)
Carried(x) == IF Served(x) THEN "running"
              ELSE IF Queued(x) THEN "queued"
              ELSE IF Enqueuing(x) THEN "accepted" ELSE "lost"

Phase(x) ==
    IF x \in disturbed THEN "disturbed"
    ELSE CASE alerts[x].status \in {"absent", "resolved"} -> alerts[x].status
           [] alerts[x].status = "new" -> IF InHook(x) THEN "stored" ELSE "lost"
           [] alerts[x].status = "processing" -> Carried(x)

Lifecycle == INSTANCE AlertLifecycle WITH phase <- [x \in Alerts |-> Phase(x)]

(* Threads, retried deliveries, REST updates, crashes and the queue together
   give every alert the life that AlertLifecycle promises. *)
ImplementsLifecycle == Lifecycle!Spec
===============================================================================
