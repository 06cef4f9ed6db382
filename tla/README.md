# Verification of automated_incident_response

TLA+ models of the incident-response backend: a Django application that receives
Wazuh alerts, classifies them, stores them, and runs the configured responses
(block an address, kill processes, notify) on a background worker. This file is
the inventory, the map from code to model, the account of what the model checker
and the prover established, and the plan for what is not modelled yet.

## 1. The system

| Part | State it keeps | Operations | Talks to |
|---|---|---|---|
| Wazuh integration script (`wazuh-config/integrations/custom-django.py`) | none | one POST per Wazuh alert, five-second timeout, no retry | ingest view |
| Ingest view and task (`alerts/views.py:18-41`, `alerts/tasks.py`) | the request's locals | check the secret, drop duplicates, drop noise, save an `Alert` | classifier, alert rows |
| Alert rows and hooks (`alerts/models.py`, `alerts/hooks.py`) | `Alert` table: status new, processing, resolved; attack type; unique Wazuh id | AFTER_CREATE classifies and saves again; AFTER_UPDATE to processing enqueues a task; generic REST POST, PATCH, DELETE | classifier, task queue, Elasticsearch signals |
| Classifier (`alerts/hooks.py:10-43`, `classification/`) | `AttackType` table, edited from the dashboard | first matching active row, score, severity | read by task and by hook |
| Task queue (library `django_tasks_db`; `settings.py:148-158`) | task rows READY, RUNNING, SUCCEEDED, FAILED | enqueue, claim, record | worker |
| Worker supervisor (`responses/worker_supervisor.py`) | one daemon thread per process, a start-once flag | run the loop, restart it after a crash | task queue |
| Response executor (`response_worker/executor.py`) | `ResponseAction` log rows pending, executed, failed, revoked | run the mapped responses in order, resolve the alert; manual run; revoke | handlers, alert rows |
| Firewall (`response_worker/actions/block_ip.py`) and IP profiles | iptables rules, `IPProfile` rows | check, insert, delete; REST and admin block and unblock | iptables |
| Process killer (`actions/kill_process.py`) | none; the host's processes | scan, terminate, wait, kill | psutil |
| Notifier (`actions/notify.py`) | none | log, best-effort webhook | network |
| Elasticsearch mirror (`search/`) | one document per row | index on post_save, backfill with `es_sync` | Elasticsearch |
| Access log middleware (`siem_backend/middleware.py`) | none | one line per request, which the Wazuh agent reads | manager, and so the integration script |
| Kibana dashboard generator (`kibana/gen_dashboard.py`) | none | writes the panels once | the two indices |
| `classification-engine/` | an `IPProfile` row's threat score, which REST and admin write too | score an alert, average the score into the row; nothing calls it | alert rows |
| Routing, Celery, WSGI and ASGI configuration, shell scripts | none | | |

What is hard: every query is its own transaction (no `ATOMIC_REQUESTS`), so web
threads, worker threads and dashboard users interleave between any two of them;
the hooks swallow every exception; a save writes every column of an in-memory
snapshot; the worker lives inside the web process and dies with it; nothing looks
again at a task that was claimed; the firewall, the profile and the log are three
stores updated one after the other.

What makes each part correct:

- classifier: it is the documented scan, and edits and rule levels act locally and
  monotonically;
- ingest and hooks: one response per event, nothing is forgotten, noise is dropped;
- executor and queue: responses run in the order planned, completely, each with an
  outcome, the alert ends resolved, and a fault costs no more than what it hit;
- firewall: no rule for a single address drops a protected one, the log and the profile
  agree with the rules, blocks can be lifted;
- mirror: a document is what the row is wherever its index call was not lost or
  overtaken, and the index it lands in can answer the dashboard;
- supervisor: at most one loop per process, and one where it is wanted;
- delivery: what the script calls sent has been dealt with, and the system's own
  access log does not keep it busy;
- seeded tables and orphaned engine: what is severe is blocked, and the engine is never
  more severe than the hooks that replaced it.

## 2. Modules

| Module | Models |
|---|---|
| `Classifier` | the classification operators of `alerts/hooks.py` over the `AttackType` rows |
| `Catalog` | the seeded attack types, responses and mappings, and the registered handlers |
| `Engine` | the orphaned engine: scores, weights, severity, the address's average |
| `Classification` | a table edited row by row, a reference scan, the seeded table, the engine, and their properties |
| `MCClassifier` | a small instance of it |
| `ClassifierProofs` | theorems about the operators of `Classifier` and `Engine` |
| `ClassificationProofs` | the inductive invariant and the theorems of `Classification` |
| `AlertPipeline` | ingest, hooks, REST updates, task queue, workers, executor, crashes |
| `MCPipeline` | small instances of it |
| `AlertPipelineProofs` | its inductive invariants and theorems |
| `AlertLifecycle` | the abstract promise: the life of one alert |
| `AlertLifecycleProofs` | `AlertPipeline` implements it |
| `Supervisor` | the processes of a deployment, `start()` in each, its thread and its loop |
| `Delivery` | the integration script, the server that answers it, the access log; extends `Supervisor` |
| `MCDelivery`, `DeliveryProofs` | small deployments; its inductive invariant and theorems |
| `Firewall` | block, unblock and revoke against iptables, the profile and the log |
| `BlockLifecycle` | the abstract promise: in which order the stores of one address change |
| `MCFirewall` | small instances of `Firewall` |
| `FirewallProofs` | its inductive invariants and theorems; `Firewall` implements `BlockLifecycle` |
| `EsMirror` | saves, their index calls, `es_sync`, the creation of the index, and writes that send no signal |
| `Dashboard` | documents, mappings, and what each Kibana panel asks for |
| `MCMirror`, `EsMirrorProofs` | small instances; its inductive invariant and theorems |
| `KillProcess` | the scan and the kills, against a host whose pids come and go |
| `MCKill`, `KillProcessProofs` | small instances; its inductive invariant and theorems |

The modules meet at these points and are otherwise independent. `Classification` and
`AlertPipeline` extend `Classifier`, `EsMirror` extends `Dashboard`, `Delivery` extends
`Supervisor`. What `Supervisor` shows, one loop in each process that should have one, is
what `AlertPipeline` takes as `Workers` and `Home`; what `Delivery` does in its step
`Store` is what `AlertPipeline` spells out query by query. A handler is one outcome in
`AlertPipeline`; what goes on between `BeginResponse` and `EndResponse` is the subject
of `Firewall` and `KillProcess`, which take the same worker threads as their actors. A
row written by any action of `AlertPipeline` is a `Save` of `EsMirror`, except
`Resolve`, its `UpdateStatus`.

### Classifier

A description is the set of keywords that occur in it, so the substring test is set
membership; the blank keyword occurs in every description, and the code skips it.
`Before` is `order_by('priority', 'key')`, `FirstHit` the row the loop returns from,
`ClassifyDescription` the returned pair, `LevelBonus`, `Score` and `GetSeverity` the
arithmetic of `on_create_classify` and `get_severity`. A missing row and an inactive
row are the same thing, since neither is ever read.

`Classification` is the specification around these operators: `EditRow` is a dashboard
edit, `See` an alert that reaches the hooks, `EngineRuns` a run of the engine,
`AddressBlocked` a block of the address between two runs, and `ProfileEdited` a write of
the whole profile row by a client (`IPProfileViewSet`) or an administrator
(`IPProfileAdmin`). Its constants are the rows, the descriptions, the rule levels, the
event counts and the entered threat scores that may occur. The reference, `Scan`,
is the documented loop: `Ordered` lists the active rows by `Position`, the number of
active rows that come before plus one, and the loop ends at the least position that
`Stops` it.

`Catalog` holds the rows of `classification/migrations/0002` and
`responses/migrations/0003`, which are of two apps and have to agree. A keyword is named
by its first letters. `Summarised` is what `notify`'s text can cover: the results that
are in its context when its turn comes. Only the attack types with keywords can be
found in a description; `dos`, `web_attack` and `malware` are seeded without any, so
their mappings never run by themselves.

### Engine

Scores carry two decimals in the code and are hundredths here. `EngineType` is the first
phrase of the list that occurs, whatever its type; `FinalScore` the weighted sum,
`Verdicts` the result or the fallback when anything raised, `Updated` the moving average
(`NewThreats`): truncated toward zero, and one nearer to zero where the decimal average is
exact, since binary fractions may fall just short of it. The threat score has no range of
its own: nothing calls the engine, so its only live writers are the REST view set and the
admin form, which accept any integer. It still counts for at most 10 points. The weights
0.40, 0.30 and 0.30 and the largest partial scores leave a final score of at most 58, so
the severities high and critical, for which the engine has bands, are out of its reach
whatever was entered; so `EngineIsMilder` shows. This is an observation and no finding.

### AlertPipeline

Variables: `types`, `mapped` (dashboard tables; a mapping row is the order it gives its
response, or `Off`), `alerts`, `issued` (a primary key is
never handed out twice), `tasks`, `log` (ResponseAction status by task and definition),
`req` and `wrk` (what a web or a worker thread holds in memory, with a program
counter), and three history variables: `planned` (the rows, with their orders, that a task
read from the mapping table), `disturbed`, and `spent` (a counter per kind of outside event, bounded
by `Limit`). `disturbed` collects the alerts whose processing a fault or an operator
cut short: a swallowed exception, a dead thread that was serving the alert, a handler that
hangs, a DELETE, a PATCH that undoes a concurrent write, a row POSTed as 'processing'. The
code has no second attempt, so those alerts stay as they are: `NoSilentLoss`,
`PendingIsInProgress`, `SucceededIsComplete`, `ImplementsLifecycle` and
`EveryAlertResolved` say what holds for every other alert. Two properties excuse none:
`FaultsAreContained` counts the alerts that are left behind, whatever the reason, against
the faults that happened, and `ResolvedIsAnswered` says that an alert that shows as
resolved has been answered, through every exception, crash and hang. Both are about
behaviours in which no client writes alerts by hand, and the second about an unedited
mapping.

| Actions | Code |
|---|---|
| `Receive`, `Post` | `AlertViewSet.ingest` after the secret check; POST of the viewset |
| `Check`, `Classify`, `Insert`, `InsertRaises` | `process_incoming_alert`, query by query |
| `Hook`, `SaveProcessing`, `HookRaises` | `on_create_classify`: second classification, nested `save()`, the except clause |
| `Enqueue`, `EnqueueRaises` | `on_processing_respond` |
| `PatchRead`, `PatchSave`, `PatchRaises`, `DestroyAlert` | PATCH/PUT and DELETE of the viewset |
| `StartWorker`, `LoopCrash` | `start()` and the loop of `_supervise` |
| `Claim`, `Finish`, `TaskRaises` | the queue library's worker loop, modelled from its use |
| `Load`, `Plan`, `BeginResponse`, `EndResponse`, `Resolve` | `execute_response` and `_run_handler` |
| `Hang` | `block_ip` waits for `iptables -C`, which has no time limit: the loop is stuck until its process ends |
| `Crash` | the process dies with its web threads and its daemon worker thread |
| `EditType`, `EditMap` | dashboard edits of the attack types in `AdminKeys`: a type row; a mapping row added, reordered (`list_editable`), switched off or deleted |

`save()` of a row that was deleted meanwhile brings it back (Django turns the UPDATE
of no row into an INSERT), and meets the unique constraint again. A handler's effect
is its outcome, executed or failed; what the handlers do belongs to their own modules.
A PATCH body is taken to carry a status and nothing else, and a response definition that
is switched off to be so for one attack type at a time. Which processes run a worker
is the choice of `Workers` and `Home`; the start-up guards behind it are in `Supervisor`.

`AlertLifecycle` says what all this is for, without threads, queue or tables: an alert is
absent, stored, accepted, queued, running, resolved, or disturbed, and work never goes
back a phase. The refinement mapping is `Phase`: the most advanced of what carries an
alert decides (a worker that runs its task, a READY task, a hook about to enqueue, a hook
that has not classified yet). An open alert that nobody carries is mapped to a phase that
`AlertLifecycle` does not have, so that losing an alert is a step it does not allow.

### Supervisor and Delivery

| Actions | Code |
|---|---|
| `Boot`, `Serve` | a process is launched; `ready()` has returned |
| `Enter`, `Test`, `Spawn`, `SpawnFails` | `start()`: its guards (`Skips`), the lock, the flag, `thread.start()` |
| `Claim`, `Complete`, `LoopCrash`, `Restart`, `Hang` | the loop of `_supervise` around the library's worker |
| `RestartFails` | the imports and the `Worker` of `_supervise`, outside its `try`, raise: the thread is gone, the flag stays |
| `CommandReturns`, `Stop` | a process ends, and its daemon thread with it |
| `Detect`, `ReadFails`, `Post`, `Refused`, `GivesUp` | the manager runs `custom-django.py`, which makes one POST |
| `View`, `Store`, `ViewRaises` | `ingest` and `process_incoming_alert`, in one step each for 'noise' and 'stored and queued' |
| `Respond` | `AccessLogMiddleware`, then the answer; a flagged line is a new event |

A launch is what the guards tell apart: the command, `--noreload`, RUN_MAIN and the
setting RUN_TASK_WORKER. `Serves` and `Wanted` say, independently of the guards, which
launches answer requests and should have a worker; `WantedHasWorker` relates the two. A
process that ends loses its flag, its loop, its requests and the connections of the
scripts that wait for them. Which codes the manager's web rules raise is a constant; a
flagged line of the ingest view matches no seeded attack type and is noise. With the
right secret only an error makes such a line, so deliveries cannot breed; with a wrong
secret each 401 may cause the next delivery, without an end but for the bound `Echoes`.
That is why `EchoesAreBounded` is about the right secret.

A dedicated `manage.py db_worker` process is in `_SKIP_COMMANDS` and would be another
claimer that never stops; it is left out, since the deployment in the repository's README
does without.

### Firewall

Three stores are written one after the other, without a transaction: the kernel's DROP
rules (`rules`, a count by address, since `iptables -I` inserts a rule again), the
`IPProfile` row (`profile`: no row, free, blocked) and the `ResponseAction` rows
(`actions`). `thr` is what a thread holds: the worker and the web threads run the same
functions. `late` counts iptables commands that outlive their caller. `put` (rules ever
inserted) and `disturbed` are history variables; `disturbed` collects the addresses that
a fault, an edit, or two operations at once have touched.

| Actions | Code |
|---|---|
| `RunBlock`, `RunUnblock`, `Revoke`, `Create` | `run_one`, `run_response_now`, `revoke_action` up to the pending row |
| `Check`, `CheckFails`, `CheckRaises`, `CheckHangs` | `iptables -C`: any exit status but 0 means 'not blocked'; no time limit |
| `Insert`, `InsertFails`, `Profile`, `ProfileFails` | `iptables -I`, then `get_or_create` and `save`, whose exception is swallowed |
| `Delete`, `DeleteFails`, `Clear`, `ClearFails` | `iptables -D`, then the profile, whatever the command returned |
| `Log`, `Mark` | the outcome saved by `_run_handler`; `save(update_fields=['status'])` of a revoke |
| `AdminUnblock`, `AdminSave` | `IPProfileAdmin.unblock_view`, before and after `unblock_ip` |
| `TimesOut`, `LateCommand` | `timeout=10`; the command may still take effect |
| `Abort` | the process dies, or a query outside every `try` raises |
| `AddProfile`, `EditProfile` | REST writes of the profile: POST; PATCH, DELETE, `block/`, `unblock/` |

The model holds the rows of the two handlers `block_ip` and `unblock_ip`. A revoke reads
the row it undoes and creates its own in one step; what it read (the address) is then
kept in the thread while other threads go on, so two revokes of one block, and a revoke
of a block that is still running, interleave as in the code. PATCH and DELETE of
`ResponseAction` rows by the dashboard's REST interface are left out.

iptables itself is external: a rule has a source, and `-D` removes one rule or fails. A
target is a text (`Ips`): the address of an alert, or whatever an operator enters for a
manual run. `block_ip` compares it with `PROTECTED_IPS` as a text, and iptables takes it
for the addresses in `Covers`. The two are not the same: `127.0.0.0/8` is not in
`PROTECTED_IPS`, passes, and drops the protected `127.0.0.1`. `ProtectedIsNotTargeted`
says what is left: a rule that drops a protected address is one for a block of
addresses. `TextAssumption` limits it: an unprotected address has one text. A second
spelling (`127.0.0.1/32`) or a host name of a protected address passes the comparison
too, and neither is in the model; `localhost` is in the list and may be. Profiles have
only texts of a single address, which is all their serializer accepts.

`disturbed` excuses an address for good: by a profile that could not be saved, a timeout,
a dead caller, a write of the profile by REST, or a second operation on the address while
one is under way. `StoresAgree` and `ImplementsBlockLifecycle` are about the others.
`ProtectedIsNotTargeted`, `DuplicatesAreBounded`, `RevokesAreBacked` and `LogMovesForward`
excuse none.

`BlockLifecycle` says what the three stores promise of one address, without threads,
commands or rows: it is open, dropped (the kernel holds the rule), recorded (the profile
says so too), blocked (and so does the log), lifted (the rule is gone, the profile not
yet cleared) or disturbed. `Phase` reads the phase of an address off `rules`, `profile`
and `actions`; `Lifecycle` is the instance with it. Three moves are missing, which the
code must not make: a profile cleared before the rule is gone would lead from blocked to
dropped, a profile set before the rule is in from open to lifted, and a removal that
does not wait for the log from recorded to lifted. A block recorded while the log still
holds an earlier one in force is blocked at once.

### EsMirror

A row and a document hold the stamp of the write they show, 0 for none. `wr` is the
instance a thread has saved and is about to index, `client` what `get_client` has cached
in the process, `late` the index requests that outlive their caller, `todo` and `seen`
what `es_sync` has read and not yet indexed. `touched` is history: the rows whose
document may have been left behind by a lost, overtaken or overlapping index call or a
write without a signal, and for which no later save or backfill that ran alone has made
up. `MirrorIsCurrent` is about the other rows: it does not say that such a call cannot be
lost, but that nothing else makes a document differ, and that one save or backfill that
runs alone repairs it.

| Actions | Code |
|---|---|
| `Save` | any `save()` of an `Alert` or `ResponseAction`, up to its post_save signal |
| `Index`, `IndexSkipped`, `IndexFails`, `IndexTimesOut`, `LateIndex` | `get_client`, `_index_doc`; a timed-out request may still arrive |
| `UpdateStatus` | the executor's queryset update, which sends no signal |
| `Destroy` | DELETE: there is no post_delete receiver |
| `SyncExists`, `SyncCreate`, `SyncCreateFails` | `ensure_indices`: the question, then the creation with the mapping |
| `SyncStart`, `SyncDoc`, `SyncFails`, `SyncStops` | `manage.py es_sync`, where there is an index |
| `Crash` | the Django process dies with its threads |

`save(update_fields=...)` is a save like any other, since the signal indexes the whole
instance. The parent alert's fields that a response document copies are left out, and
the two loops of `es_sync` are one pass over one table: no property relates two rows. The
two indices are created by the same code and are one variable, `index`: absent, 'typed'
by `ensure_indices`, or 'guessed' by the first document that found none.

`Dashboard` has the documents by JSON type, the two mappings, what Elasticsearch guesses
without one, and each panel as the aggregation and the field it asks for. A guessed
string is text with a `keyword` subfield, on which the panels that ask for the plain
field fail. `PanelsWork` therefore says: once `es_sync` has found no index and reported
"Indices ready.", every panel can be answered, although a signal may create the index
between the question and the creation (the creation then fails, and the command says so).
When a signal was first and `es_sync` comes later, the code finds an index, leaves its
guessed mapping and reports the same two words; the property excludes that order.

### KillProcess

A process is a pid and the count of its uses, which is what psutil's creation time tells
apart. `table` is the host's process table, `wrk` the handler's locals and program
counter in each queue worker; `bare` (processes that ever bore an unprotected name) and
`signalled` are history.

| Actions | Code |
|---|---|
| `Exit`, `Spawn`, `Exec` | the host, at any time |
| `Start`, `Look`, `Measure`, `Suspects` | `find_suspicious_processes`: the pids of the moment, then name and CPU of each, one second apart |
| `Open`, `CheckName` | `psutil.Process(pid)`, the protected lists again |
| `Signal`, `Wait` | `terminate()`, `wait(5)`, `kill()`, `wait(3)` |
| `Report`, `Refused`, `Return` | the message, the except clauses, the list of results |

psutil and the host are external: `terminate()` and `kill()` refuse a pid that has been
reused since the process was opened, `name()` and `wait()` go by the pid alone, a signal
is an `Exit` that may come late or never, and a process that is dead but not yet
collected looks like one that ignores the signal. A process can change its program
between the check of its name and the signal, so a process may be signalled under a name
that is protected by then; `ProtectedAreSpared` is about processes that bore a protected
name all their life.

## 3. Runs

| Run | Instance | Shows |
|---|---|---|
| `classifier` | 3 keys (one is 'unknown'), 2 keywords and the blank one, 2 priorities, base scores on both sides of every band and one above 100; the 10 seeded rows and every set of their keywords; the engine with a rule level and an event count of each bracket and 3 entered threat scores, one negative, one above 100 | the classifier is the documented scan; locality; severity bands; severe means blocked; the engine's types and its severity |
| `races` | 2 web threads, 1 worker, 2 alerts, 2 tasks, 1 response, 1 PATCH, 1 DELETE | no second response and nothing forgotten, against stale snapshots, resurrected and deleted rows; every alert lives the life of `AlertLifecycle` |
| `faults` | 1 web thread that serves any number of deliveries, 2 workers in 2 processes, 2 alerts, 2 tasks, 2 responses (one unregistered), 1 crash, 1 database error, 1 hang and 1 dashboard edit, anywhere | nothing forgotten, faults cost no more than what they hit, pending rows are in progress, succeeded tasks are complete, noise dropped, resolved alerts answered, planned order kept |
| `live` | 1 web thread that serves any number of deliveries, 2 workers in 2 processes, 2 alerts, 1 response, 1 POST, 1 crash, 1 hang, fair | every undisturbed alert is eventually resolved, whichever worker hangs; nothing forgotten |
| `deployment` | 2 processes (the reloader's parent or child; a plain server or `es_sync`), 2 calls of `start()`, 1 event and 2 echoes, 1 fault of each kind, up to 3 kinds in one behaviour, fair | one loop per process and one where wanted; deliveries reported as sent are settled; echoes are bounded by errors; queued responses are claimed |
| `orphan` | 1 server, 1 command, 1 event, no fault, fair | violated: a command claims a response and exits |
| `firewall` | 2 threads, 3 log rows, 1 protected address and 1 block of addresses that has it in it, 1 fault and 1 edit | a rule that drops the protected address is one for the block; duplicates are bounded; the three stores agree; revokes are backed; the log moves forward; the stores change in the order of `BlockLifecycle` |
| `expiry` | 1 thread, no fault, fair | violated: a block has no end |
| `unblocked` | 1 thread, 1 fault and 1 edit | violated: the button reports an unblock that did not happen |
| `mirror` | 2 rows, 2 writers, 4 writes, 1 event of each kind | a document that differs from its row was lost, overtaken or never sent; the dashboard works on an index that `es_sync` made |
| `killer` | 3 pids each used twice, 2 workers, 2 runs, 1 exec, fair | protected processes are spared, reports of a kill are true, the handler returns |
| `killreport` | no pid reused, 1 run | violated: a kill that succeeded is reported as failed |

Two web threads and two alert keys are enough for a duplicate delivery, a redelivery
after a DELETE and a PATCH against either; two tasks for a second response; two
definitions for an order, for its reversal by an edit (`Orders` holds one number below
the two configured ones), and for a failure before the last one; two workers for one that
hangs and one that goes on. A third of any adds no
new pair of actors, and the theorems cover all numbers. The bounds `Alerts`, `Tasks` and
`Limit` are capacities of the model: a thread that finds no free key or task fails as it
would on a database error. In `firewall` the second text is a block of addresses and
stands for any unprotected text: only `AddProfile` looks at what a text covers. A third
text multiplies the states tenfold and adds no interaction, since rules, profiles and
rows of different texts never meet; `expiry` and `unblocked` have a plain address
instead. Two threads give every race of two operations
on one address; three log rows are a block, its revoke and a second block, or two
revokes of one block; one fault between them reaches every failure branch. `Actions` and
`Limit` are its bounds. In `mirror` two writes of one row can be indexed in the wrong
order by two threads while `es_sync` holds a third value; its bounds are `MaxStamp` and
`Limit`. In `killer` the pids are init, a process that runs from the start and a free
one, and a pid that is used twice is enough to be reused once between any two steps of a
worker; its bounds are `MaxUse` and `Limit`. Symmetry is declared for threads, keys and
rows in the safety runs and not in the runs with fairness. Deadlock is checked in every
run of `Classifier` and `AlertPipeline` and in `firewall` and `expiry`. It is not in
`unblocked`, where a hung check stops the only thread for good, nor in the runs of
`EsMirror` and `KillProcess`, where everything rests once the writes, the runs and the
uses of the pids are used up, nor in the runs of `Delivery`, where everything rests once
the events, the stops and the echoes are used up.

In `classifier` the edited table, the hooks over the seeded table and the engine share no
state, so `MCNext` steps each of the three with the other two at rest (the theorems are
about the whole of `Spec`); `Levels`, `Events`, `EngineDescriptions` and `Threats` are its
bounds, one value per bracket of the code's tables. In
`deployment` one process reloads (`runserver`, as parent or as child) and the other is
started either as a plain server or as a management command; a second call of `start()`
is what it takes to race with the first, and two echoes are what it takes for an echo to
cause another. `Limit`, `MaxKinds` and `Echoes` are its bounds: all faults at once would
add behaviours but no new pair of them.

Fairness (`live`, `expiry`): weak fairness of each web thread's own steps and of each
worker's own steps; in `killer` of the handler's own steps; in `deployment` and `orphan` of
the steps of each process (booting, `start()`, its loop) and of the requests and scripts
under way, which all have an end. The operating system schedules the threads, Django's request
handling does not wait for other requests, and `_supervise` restarts its loop after a
crash. Nothing else is fair: no delivery, PATCH, edit or crash has to
happen, no process has to exit, and nobody has to save a row again or start `es_sync`.

A handler need not return: `block_ip` gives `iptables -C` no time limit. `Hang` may take
any registered handler at any time; after it no step of that worker is enabled, so that
fairness asks nothing of it, and its loop stays stuck until its process ends. `live` has
two workers for this reason: the tasks queued behind the stuck one are claimed by the
other, and `EveryAlertResolved` promises it, on the condition that there is time and again
some worker that does not hang. With one worker process that condition is what a hang
takes away, and every later alert stays 'processing'; so it is in the code. Only the alert
whose own handler hangs is excused. `ResponsesAreClaimed`, in `deployment`, makes the same
exception for processes whose loop hangs, and one for behaviours in which a supervisor
thread could not be started or ended outside its `try` (`RestartFails`): nothing starts
another one, since the flag stays set. `WantedHasWorker` is stated with the second one.

### What the `orphan` run found

`responses/worker_supervisor.py` promises that response tasks are consumed automatically,
and lists the management commands that must not run a worker. `es_sync` is not one of
them, and the repository's README tells the operator to run it next to the server. It
therefore starts a loop of its own, which claims READY rows like any other; when the
backfill is done the command returns and its daemon thread dies. The row it had claimed
stays RUNNING, the loops of the server look at READY rows only, and the alert stays
'processing'. No crash is needed. A crash of a loop or of a process in the middle of a
response has the same outcome; `faults` and `live` account for it as a disturbed alert.

### What the `expiry` and `unblocked` runs found

The seeded responses are called 'Block the source IP via iptables for 24 hours' and 'for
1 hour', but the duration only ends up in two texts; a rule stays until somebody revokes
it. And the administrator's unblock button drops the result of `unblock_ip`, clears the
profile by itself and always reports success, also when `iptables -D` failed or removed
one of two rules: the address is then dropped, shown as free, and the button is gone.

### What the `killreport` run found

`kill_process` asks for the name of the process in the message about its death, after
`wait()` has seen it go. The name of a free pid is `NoSuchProcess`, so a kill that
succeeded, and that the log has just called successful, is returned as 'not found' and
recorded as a failed response; it is reported as a success only if the pid has already
been reused.

## 4. Proofs

`tlapm` checks every step; nothing is assumed beyond the named assumptions on the
constants (`KeysAssumption`, `KeyOrderAssumption`, `ClassificationAssumption`,
`PipelineAssumption`, `FirewallAssumption`, `TextAssumption`, `MirrorAssumption`, `KillAssumption`,
`SupervisorAssumption`, `DeliveryAssumption`), which TLC evaluates in the runs of their
modules.

- `FirstHitIsFirst`: the least element of a non-empty set of matches exists and
  `FirstHit` is it, whatever the number of rows (well-foundedness of the natural numbers
  behind (priority, key), priorities being bounded below as 32-bit integers). From it
  `EditIsLocalAlways`; `LevelLiftsOneBandAlways` is integer arithmetic.
- `ClassificationProofs`: every property of the run `classifier`. `ClassifyStaysScan`
  needs no recursion: with finitely many rows, the positions of the active ones number
  them in their order without a gap (`PositionsNumberTheRows`: a strictly monotone map
  into `1..n` from a set of `n` rows), so the least position that stops the loop is that
  of the least matching row. `SevereStaysBlocked` and `EngineKeepsNamingTheType` are
  computations over the seeded rows, split so that the prover sees one row at a time.
  `EngineStaysMild` needs no more than types (`EngineInv`): the bonus for a high threat is
  10 points, whatever was entered or averaged, so a bound on it is not needed.
- `EngineIsMilderAlways`: the three partial scores are bounded for every integer level,
  every number of events and every profile, and the weighted sum of them by 5800.
- `TypeCorrect`: `Spec => []TypeOK` for any number of threads, rows and events. Typing
  is not inductive alone: a step that marks `AlertOf(w)` needs a worker's task to be a
  row and that row's alert to be a key. `References` adds it: what threads and tasks
  point to was issued, a RUNNING task belongs to at most one worker, and an issued row
  that is gone is disturbed. `Base == TypeOK /\ References` is inductive.
- `NothingIsLost`: `Spec => []NoSilentLoss`. The strengthening is `Base` and `Unhooked`
  (a row stored as 'processing' is already disturbed, since the nested save will see no
  change of status). The proof follows an alert's carrier through each action: hook,
  about to enqueue, queued, served.
- `ResponsesAreUnique` and `NoiseIsNeverServed` follow the values a thread carries: which
  key may write which Wazuh id (for which `UniqueIds`, the unique column at work, is an
  auxiliary invariant), which thread may still create a task for an alert, and that request, stored row and task of an unedited table carry
  the same relevant attack type.
- The executor: `SuccessIsComplete`, `OrderIsKept`, `PendingIsRun`, from one invariant
  (`Executing`) that says for each program point of a worker which responses are logged,
  which one is pending and which are left, and that the rows left are the planned ones,
  with their planned orders; the table itself may change at every step.
- `ResolvedHasOutcomes`: `Spec => []ResolvedIsAnswered`, with no fault left out. While
  nobody writes by hand (`HandsOff`), `Answered` is inductive: every request is a
  delivery, a worker has an outcome for each mapped response that it no longer has to
  do, and only `Resolve`, with nothing left to do, sets 'resolved'. What an exception, a
  crash or a hang leaves behind is an open alert, of which the property says nothing.
- `FirewallProofs`: all six safety properties and the refinement. `Base` holds types,
  what a thread holds at each program point (`Wired`) and that no insert for a protected
  address exists, waits or can come late (`Shielded`). `Owned` says which thread may
  write which row; without it neither `LogIsFinal` nor the revokes follow.
  `DuplicatesStayBounded` counts rules, late inserts and threads on their way to insert
  (`Budget`); `RevokesStayBacked` counts rules, revoked blocks and threads that have
  removed a rule but not yet marked the block (`Backed`). `StoresKeepAgreeing` says of
  an undisturbed address that at most one thread is at work on it and how far the three
  stores have got at its program point (`Settled`).
- `FirewallImplementsBlockLifecycle`: a step moves at most one address to another phase
  (`OneAddress`): a thread writes rules and profile of its own address only
  (`StepIsLocal`), and the log puts a block of no other in force (`ForceIsOwn`) nor out
  of force (`ForceElsewhere`). Where it moves its own, `Settled` says how far the stores
  had got, so the move is the next one of the lifecycle or the address has been
  disturbed (`LifecycleHere`). A command that finishes late can only meet a disturbed
  address.
- `AlertLifecycleProofs`: `PipelineImplementsLifecycle`, that is `Spec =>
  ImplementsLifecycle`. Three invariants proved before (`Base`, `Unhooked`,
  `NoSilentLoss`) and a new one, `Fresh` (a row still 'new' has never been queued), make
  `Phase` a function of what can be seen of an alert (`Shown`). Each action then either
  changes what is shown of one alert, and `Moving` makes it that alert's step of the
  lifecycle, or disturbs some, or changes nothing shown, and it is a stutter.
- `EsMirrorProofs`: `DashboardStaysUsable` from `DashboardWorks("typed")`, a computation
  over the mapping, and the invariant that `ready` implies a typed index.
  `MirrorStaysCurrent`: the property `MirrorIsCurrent` says nothing while a row is about
  to be indexed, so it is not inductive. `Settled(r)`, for a row that is not touched,
  adds what the index calls under way carry: at most one call for the row exists, it is
  not late, and it holds what the row holds.
- `KillProcessProofs`: `ProtectedStaySpared` and `KilledStayDead`. `NamesKnown` says
  that a process with an unprotected name is in `bare`; `Holding(w)` follows the process
  a worker has in hand: past the check it bore an unprotected name, at `report` it was
  signalled and is gone, and uses of a pid only grow, so it stays gone.
- `DeliveryProofs`: `DeliveryInv`. `Locked` says that a call between its test and the
  end of `start()` holds the lock, so that what it saw of the flag is still true; from
  it one loop. `Flagging` says that the flag is set by the time `ready()` has returned
  and tells the truth unless a thread could not be started or ended outside its `try`; with a case distinction over
  `Launch`, the guards then leave every wanted process a worker. `Answered` says that an
  answer on its way tells the truth, `Counted` that echoes and error answers on their
  way together are no more than the errors.

So every safety property, action property and refinement that a passing run checks is
proved for all values of the constants, but for `FaultsAreContained`, a count over alerts
that holds where there are as many tasks as alerts and is checked only. Also only
model-checked is liveness, which is out of the prover's reach: `EveryAlertResolved`, `ResponsesAreClaimed` and `HandlerReturns`. The
properties of the runs that expect a violation are refuted by the checker, and nothing is
proved about them.

## 5. Not modelled, and what is left

Not modelled: the access log's format, routing and the health check, Django settings other
than RUN_TASK_WORKER, Celery, WSGI and ASGI (configuration; Celery has no task), schema
migrations, the dashboard's grid layout and file format, the shell scripts, the webhook
and the text of a notification, authentication: no state that a property could be about,
or none of this repository's. The columns of an alert that no step reads are left out
everywhere. PATCH and DELETE of `ResponseAction` rows by the generic REST view are left
out of `Firewall`; they would rewrite or forget rows of the log, by hand. Host names and
second spellings of an address are left out of it, too. Two engines that update one address
at once are left out: nothing runs even one.

Not a separate run: the executor resolves an alert with a queryset update, which sends no
signal, so that its document says 'processing' until somebody saves the row or runs
`es_sync`. `UpdateStatus` and `touched` account for it.

What is left:

1. PATCH and DELETE of `ResponseAction` rows, and manual runs of the irreversible handlers;
2. abstract specifications of `EsMirror` and `KillProcess`, if either is to change: today
   their properties say as much.
