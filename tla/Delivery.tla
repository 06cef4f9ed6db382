------------------------------- MODULE Delivery -------------------------------
(***************************************************************************)
(* The way of a Wazuh event into the system.  The manager runs custom-     *)
(* django.py once for each event; the script makes one POST with a five-   *)
(* second timeout and writes its outcome to a log.  A process of           *)
(* Supervisor answers: the ingest view checks the secret, stores the alert *)
(* and queues its response before it answers, and AccessLogMiddleware      *)
(* writes a line for every request.  The agent reads those lines, so that  *)
(* an answer may itself become an event.                                   *)
(*                                                                         *)
(* The agent, the manager and the network are external.  What the ingest   *)
(* does query by query is the subject of AlertPipeline; here it stores an  *)
(* alert and queues its task, or raises.                                   *)
(***************************************************************************)
EXTENDS Supervisor

CONSTANTS Attackers,  \* events from outside, each an attack or noise
          Echoes,     \* events raised by an access line of ingest: a bound
          Flagged     \* the status codes the manager's web rules raise

WazuhEvents == Attackers \cup Echoes

ASSUME DeliveryAssumption ==
    /\ Jobs = WazuhEvents /\ Attackers \cap Echoes = {}
    /\ IsFiniteSet(Echoes)
    /\ Flagged \subseteq {401, 500}

VARIABLES event,   \* "none", or what the description of a detected event is
          script,  \* the run of custom-django.py for it
          request, \* its one request: where it is served, and how far
          stored,  \* events with an alert row
          secret   \* whether WAZUH_INTEGRATION_SECRET is the script's

deliveryVars == <<event, script, request, stored, secret>>
vars == <<supervisorVars, deliveryVars>>

-------------------------------------------------------------------------------
NoProcess == Nobody
NoRequest == [at |-> NoProcess, pc |-> "none", status |-> 0]
Listening(p) == Up(p) /\ Serves(launch[p])
Answer(e, status) == request' = [request EXCEPT ![e] = [at |-> @.at, pc |-> "log", status |-> status]]

Init ==
    /\ SupervisorInit
    /\ event = [e \in WazuhEvents |-> "none"]
    /\ script = [e \in WazuhEvents |-> "none"]
    /\ request = [e \in WazuhEvents |-> NoRequest]
    /\ stored = {}
    /\ secret \in BOOLEAN

-------------------------------------------------------------------------------
(* The integration script. *)

\* A host or another access line raises an event; the manager runs the script.
Detect(e) ==
    /\ event[e] = "none" /\ e \in Attackers
    /\ \E kind \in {"attack", "noise"} : event' = [event EXCEPT ![e] = kind]
    /\ script' = [script EXCEPT ![e] = "read"]
    /\ UNCHANGED <<supervisorVars, request, stored, secret>>

\* The alert file cannot be read or parsed: logged, exit 1.
ReadFails(e) ==
    /\ script[e] = "read" /\ May("error") /\ Spend("error")
    /\ script' = [script EXCEPT ![e] = "failed"]
    /\ UNCHANGED <<serverVars, queue, event, request, stored, secret>>

\* urlopen: the connection is accepted by a listening process.
Post(e) ==
    /\ script[e] = "read"
    /\ \E p \in Processes :
         /\ Listening(p)
         /\ request' = [request EXCEPT ![e] = [at |-> p, pc |-> "view", status |-> 0]]
    /\ script' = [script EXCEPT ![e] = "wait"]
    /\ UNCHANGED <<supervisorVars, event, stored, secret>>

\* URLError: nobody listens.
Refused(e) ==
    /\ script[e] = "read" /\ ~\E p \in Processes : Listening(p)
    /\ script' = [script EXCEPT ![e] = "failed"]
    /\ UNCHANGED <<supervisorVars, event, request, stored, secret>>

\* Five seconds have passed, the connection broke, or the body of an error
\* could not be read: the script ends, and the delivery is never repeated.
GivesUp(e) ==
    /\ script[e] = "wait"
    /\ script' = [script EXCEPT ![e] = "failed"]
    /\ UNCHANGED <<supervisorVars, event, request, stored, secret>>

-------------------------------------------------------------------------------
(* The server. *)

\* Mutant: the view hands the alert over and answers at once.
View_AnswersFirst(e) ==
    /\ request[e].pc = "view"
    /\ Answer(e, IF secret THEN 200 ELSE 401)
    /\ UNCHANGED <<supervisorVars, event, script, stored, secret>>

\* Mutant: what the task skips is answered with an error.
View_RejectsNoise(e) ==
    /\ request[e].pc = "view"
    /\ IF secret /\ event[e] = "attack"
       THEN request' = [request EXCEPT ![e].pc = "store"]
       ELSE Answer(e, IF secret THEN 500 ELSE 401)
    /\ UNCHANGED <<supervisorVars, event, script, stored, secret>>

\* The secret, and the classifier, which drops what it does not know.
View(e) ==
    /\ request[e].pc = "view"
    /\ IF secret /\ event[e] = "attack"
       THEN request' = [request EXCEPT ![e].pc = "store"]
       ELSE Answer(e, IF secret THEN 200 ELSE 401)
    /\ UNCHANGED <<supervisorVars, event, script, stored, secret>>

\* alert.save(); its hooks queue the response, or swallow what went wrong.
Store(e) ==
    /\ request[e].pc = "store"
    /\ stored' = stored \cup {e}
    /\ \/ queue' = [queue EXCEPT ![e] = "READY"] /\ UNCHANGED spent
       \/ May("error") /\ Spend("error") /\ UNCHANGED queue
    /\ Answer(e, 200)
    /\ UNCHANGED <<serverVars, event, script, secret>>

\* process_incoming_alert re-raises: the answer is a 500.
ViewRaises(e) ==
    /\ request[e].pc \in {"view", "store"} /\ secret
    /\ May("error") /\ Spend("error")
    /\ Answer(e, 500)
    /\ UNCHANGED <<serverVars, queue, event, script, stored, secret>>

(* AccessLogMiddleware writes a line, also for the script's own request, and
   then the answer leaves; the script has it unless it has given up.  A flagged
   line is an event of its own: a web server error, which matches no seeded
   attack type. *)
Respond(e) ==
    LET got == IF script[e] # "wait" THEN script[e]
               ELSE IF request[e].status = 200 THEN "sent" ELSE "failed"
        unused == {x \in Echoes : event[x] = "none"}
        next == CHOOSE x \in unused : TRUE
    IN  /\ request[e].pc = "log"
        /\ request' = [request EXCEPT ![e] = [NoRequest EXCEPT !.pc = "over"]]
        /\ IF request[e].status \in Flagged /\ unused # {}
           THEN /\ event' = [event EXCEPT ![next] = "noise"]
                /\ script' = [script EXCEPT ![e] = got, ![next] = "read"]
           ELSE script' = [script EXCEPT ![e] = got] /\ UNCHANGED event
        /\ UNCHANGED <<supervisorVars, stored, secret>>

\* A process ends with the requests it is serving; their scripts see the
\* connection break.
Breaks(p) ==
    /\ request' = [e \in WazuhEvents |-> IF request[e].at = p
                                         THEN [NoRequest EXCEPT !.pc = "over"]
                                         ELSE request[e]]
    /\ UNCHANGED <<event, script, stored, secret>>

ServerStep(p) == ProcessStep(p) /\ IF proc'[p] = "off" THEN Breaks(p)
                                                      ELSE UNCHANGED deliveryVars

-------------------------------------------------------------------------------
Running(e) == Post(e) \/ Refused(e) \/ GivesUp(e)
Serving(e) == View(e) \/ Store(e) \/ ViewRaises(e) \/ Respond(e)

Next ==
    \/ \E e \in WazuhEvents : Detect(e) \/ ReadFails(e) \/ Running(e) \/ Serving(e)
    \/ \E p \in Processes : ServerStep(p)

Spec == Init /\ [][Next]_vars

(* A process goes on with booting and with its loop, requests are served, and
   urlopen has a time limit: none of these steps can be repeated for ever, so
   that none starves another.  No process has to be started, no event to happen. *)
OwnStep(p) == Serve(p) \/ \E c \in Calls : Starting(p, c) \/ Looping(p, c)
Fairness ==
    /\ WF_vars(\E e \in WazuhEvents : Running(e) \/ Serving(e))
    /\ \A p \in Processes : WF_vars(OwnStep(p) /\ UNCHANGED deliveryVars)
FairSpec == Spec /\ Fairness

-------------------------------------------------------------------------------
(* Every variable keeps the shape of the module's globals, of the queue and of
   what scripts and requests hold. *)
TypeOK ==
    /\ proc \in [Processes -> {"off", "boot", "up"}]
    /\ \A p \in Processes : launch[p] \in Launches[p]
    /\ started \in [Processes -> BOOLEAN]
    /\ lock \in [Processes -> Calls \cup {Nobody}]
    /\ call \in [Processes -> [Calls -> {"idle", "test", "spawn", "done"}]]
    /\ loop \in [Processes -> [Calls -> {"none", "idle", "busy", "hung", "build"}]]
    /\ job \in [Processes -> [Calls -> Jobs \cup {NoJob}]]
    /\ \A p \in Processes, c \in Calls :
          job[p][c] # NoJob <=> loop[p][c] \in {"busy", "hung"}
    /\ queue \in [Jobs -> {"free", "READY", "RUNNING", "finished"}]
    /\ spent \in [Faults -> Nat]
    /\ event \in [WazuhEvents -> {"none", "attack", "noise"}]
    /\ script \in [WazuhEvents -> {"none", "read", "wait", "sent", "failed"}]
    /\ request \in [WazuhEvents ->
                       [at : Processes \cup {NoProcess},
                        pc : {"none", "view", "store", "log", "over"},
                        status : {0, 200, 401, 500}]]
    /\ stored \subseteq WazuhEvents
    /\ secret \in BOOLEAN

(* However many threads call start() at once, a process never runs two worker
   loops, which would run responses concurrently that the code writes for one. *)
OneLoopPerProcess ==
    \A p \in Processes, c, d \in Calls : Live(p, c) /\ Live(p, d) => c = d

(* Once it is up, every process that should run a worker does, through every
   crash of the loop, unless the thread could not be started, or died outside
   the try of _supervise. *)
WantedHasWorker ==
    spent["nothread"] = 0 =>
        \A p \in Processes : Up(p) /\ Wanted(launch[p]) => \E c \in Calls : Live(p, c)

(* What the script calls "sent successfully" has been dealt with: the event is
   noise, or its alert is stored and its response queued, whatever becomes of
   the script, the process or the connection in between. *)
SentIsSettled ==
    \A e \in WazuhEvents : script[e] = "sent" =>
        \/ event[e] = "noise"
        \/ e \in stored /\ (queue[e] # "free" \/ spent["error"] > 0)

(* The system does not feed itself: with the right secret, the deliveries that
   are caused by the access lines of other deliveries are no more than the
   errors that happened.  With a wrong one each 401 may cause the next. *)
EchoesAreBounded ==
    secret => Cardinality({e \in Echoes : event[e] # "none"}) <= spent["error"]

(* As long as a process that should run a worker is up, and its loop does not
   hang and no thread failed to start or to build its Worker, every queued
   response is claimed. *)
Working(p) == /\ Up(p) /\ Wanted(launch[p]) /\ spent["nothread"] = 0
              /\ \A c \in Calls : loop[p][c] # "hung"
ResponsesAreClaimed ==
    \A t \in Jobs : queue[t] = "READY" ~>
        (queue[t] # "READY" \/ ~\E p \in Processes : Working(p))

(* worker_supervisor.py: queued response tasks are consumed automatically. *)
QueuedTasksAreConsumed ==
    \A t \in Jobs : queue[t] = "READY" ~> queue[t] = "finished"
===============================================================================
