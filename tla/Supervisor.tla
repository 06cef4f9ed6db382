------------------------------ MODULE Supervisor ------------------------------
(***************************************************************************)
(* Who runs the queue's worker loop (responses/worker_supervisor.py): each *)
(* Django process calls start() when it boots, its guards look at how the  *)
(* process was launched, a flag under a lock keeps one thread per process, *)
(* and that thread restarts the loop when it crashes.  A loop dies with    *)
(* its process, and a response that hangs stops it for good.               *)
(***************************************************************************)
EXTENDS Naturals, FiniteSets

CONSTANTS Processes,
          Launches,     \* the ways each process may be started
          Calls, Ready, \* calls of start() within a process; the one ready() makes
          Nobody, NoJob,
          Jobs,         \* rows of the task queue
          Limit,        \* how often each fault, and a further call of start(),
                        \* may happen, and
          MaxKinds      \* how many kinds of them: bounds

(* sys.argv[1] by what the code tells apart: none of a web server such as
   gunicorn, one of _SKIP_COMMANDS, "runserver", any other management command;
   --noreload, the reloader's RUN_MAIN, and the RUN_TASK_WORKER setting. *)
Launch == [command : {"none", "skipped", "runserver", "command"},
           noreload : BOOLEAN, run_main : BOOLEAN, setting : BOOLEAN]
Faults == {"crash", "stop", "hang", "nothread", "error", "again"}

ASSUME SupervisorAssumption ==
    /\ Launches \in [Processes -> SUBSET Launch]
    /\ \A p \in Processes : Launches[p] # {}
    /\ Ready \in Calls /\ Nobody \notin Calls \cup Processes /\ NoJob \notin Jobs
    /\ Limit \in [Faults -> Nat] /\ MaxKinds \in Nat

VARIABLES proc,     \* "off", "boot" until ready() has returned, "up"
          launch,   \* how it was started
          started,  \* the module's flag _started
          lock,     \* which call holds _lock
          call,     \* where each call of start() stands
          loop,     \* the supervised loop of the thread that a call started
          job,      \* the row that loop has claimed
          queue,    \* the status of each task
          spent     \* how often each fault has happened

serverVars == <<proc, launch, started, lock, call, loop, job>>
supervisorVars == <<serverVars, queue, spent>>

-------------------------------------------------------------------------------
May(fault) ==
    /\ spent[fault] < Limit[fault]
    /\ Cardinality({f \in Faults \ {fault} : spent[f] > 0}) < MaxKinds
Spend(fault) == spent' = [spent EXCEPT ![fault] = @ + 1]
Up(p) == proc[p] = "up"
Live(p, c) == loop[p][c] # "none"

\* The two processes of runserver: only the child that serves sets RUN_MAIN.
Autoreload(l) == l.command = "runserver" /\ ~l.noreload
\* A process that answers requests, and is asked to run a worker.
Serves(l) == l.command = "none" \/ (l.command = "runserver" /\ (l.noreload \/ l.run_main))
Wanted(l) == l.setting /\ Serves(l)

SupervisorInit ==
    /\ proc = [p \in Processes |-> "off"]
    /\ launch = [p \in Processes |-> CHOOSE l \in Launches[p] : TRUE]
    /\ started = [p \in Processes |-> FALSE]
    /\ lock = [p \in Processes |-> Nobody]
    /\ call = [p \in Processes |-> [c \in Calls |-> "idle"]]
    /\ loop = [p \in Processes |-> [c \in Calls |-> "none"]]
    /\ job = [p \in Processes |-> [c \in Calls |-> NoJob]]
    /\ queue = [t \in Jobs |-> "free"]
    /\ spent = [f \in Faults |-> 0]

-------------------------------------------------------------------------------
(* start(), called by ResponsesConfig.ready() while the process boots. *)

Boot(p) ==
    /\ proc[p] = "off"
    /\ proc' = [proc EXCEPT ![p] = "boot"]
    /\ \E l \in Launches[p] : launch' = [launch EXCEPT ![p] = l]
    /\ UNCHANGED <<started, lock, call, loop, job, queue, spent>>

\* Mutant: the test for RUN_MAIN forgets --noreload.
Skips_Noreload(l) ==
    \/ ~l.setting
    \/ l.command = "skipped"
    \/ l.command = "runserver" /\ ~l.run_main

\* The early returns: not wanted, a skipped command, the reloader's parent.
Skips(l) ==
    \/ ~l.setting
    \/ l.command = "skipped"
    \/ Autoreload(l) /\ ~l.run_main

\* Mutant: there is no lock around the flag.
Enter_Unlocked(p, c) ==
    /\ call[p][c] = "idle" /\ proc[p] # "off"
    /\ call' = [call EXCEPT ![p][c] = IF Skips(launch[p]) THEN "done" ELSE "test"]
    /\ IF c = Ready THEN UNCHANGED spent ELSE May("again") /\ Spend("again")
    /\ UNCHANGED <<proc, launch, started, lock, loop, job, queue>>

(* The guards, then the lock.  ready() makes one call while the process boots;
   "safe to call repeatedly" means that any other thread may, too. *)
Enter(p, c) ==
    /\ call[p][c] = "idle" /\ proc[p] # "off"
    /\ IF Skips(launch[p])
       THEN call' = [call EXCEPT ![p][c] = "done"] /\ UNCHANGED lock
       ELSE /\ lock[p] = Nobody /\ lock' = [lock EXCEPT ![p] = c]
            /\ call' = [call EXCEPT ![p][c] = "test"]
    /\ IF c = Ready THEN UNCHANGED spent ELSE May("again") /\ Spend("again")
    /\ UNCHANGED <<proc, launch, started, loop, job, queue>>

\* if _started: return, which releases the lock.
Test(p, c) ==
    /\ call[p][c] = "test"
    /\ IF started[p]
       THEN /\ lock' = [lock EXCEPT ![p] = Nobody]
            /\ call' = [call EXCEPT ![p][c] = "done"]
       ELSE /\ call' = [call EXCEPT ![p][c] = "spawn"]
            /\ UNCHANGED lock
    /\ UNCHANGED <<proc, launch, started, loop, job, queue, spent>>

\* The flag is set and the new thread enters _supervise.
Spawn(p, c) ==
    /\ call[p][c] = "spawn"
    /\ started' = [started EXCEPT ![p] = TRUE]
    /\ loop' = [loop EXCEPT ![p][c] = "build"]
    /\ lock' = [lock EXCEPT ![p] = Nobody]
    /\ call' = [call EXCEPT ![p][c] = "done"]
    /\ UNCHANGED <<proc, launch, job, queue, spent>>

\* ready() has returned: the process serves requests, or runs its command.
Serve(p) ==
    /\ proc[p] = "boot" /\ call[p][Ready] = "done"
    /\ proc' = [proc EXCEPT ![p] = "up"]
    /\ UNCHANGED <<launch, started, lock, call, loop, job, queue, spent>>

-------------------------------------------------------------------------------
(* _supervise and the library's worker loop. *)

Claim(p, c) ==
    /\ loop[p][c] = "idle"
    /\ \E t \in Jobs :
         /\ queue[t] = "READY"
         /\ queue' = [queue EXCEPT ![t] = "RUNNING"]
         /\ job' = [job EXCEPT ![p][c] = t]
    /\ loop' = [loop EXCEPT ![p][c] = "busy"]
    /\ UNCHANGED <<proc, launch, started, lock, call, spent>>

\* The task returned or raised: its outcome is recorded.
Complete(p, c) ==
    /\ loop[p][c] = "busy"
    /\ queue' = [queue EXCEPT ![job[p][c]] = "finished"]
    /\ job' = [job EXCEPT ![p][c] = NoJob]
    /\ loop' = [loop EXCEPT ![p][c] = "idle"]
    /\ UNCHANGED <<proc, launch, started, lock, call, spent>>

\* A response waits for a command that has no time limit (block_ip's check).
Hang(p, c) ==
    /\ loop[p][c] = "busy" /\ May("hang") /\ Spend("hang")
    /\ loop' = [loop EXCEPT ![p][c] = "hung"]
    /\ UNCHANGED <<proc, launch, started, lock, call, job, queue>>

\* Mutant: the try is around the while loop.
LoopCrash_Ends(p, c) ==
    /\ loop[p][c] \in {"idle", "busy"} /\ May("crash") /\ Spend("crash")
    /\ loop' = [loop EXCEPT ![p][c] = "none"]
    /\ job' = [job EXCEPT ![p][c] = NoJob]
    /\ UNCHANGED <<proc, launch, started, lock, call, queue>>

\* Mutant: the supervisor keeps the crashed Worker, with the row it holds.
LoopCrash_KeepsWorker(p, c) ==
    /\ loop[p][c] \in {"idle", "busy"} /\ May("crash") /\ Spend("crash")
    /\ loop' = [loop EXCEPT ![p][c] = "build"]
    /\ UNCHANGED <<proc, launch, started, lock, call, job, queue>>

\* worker.run() raised; what it had claimed is not given back.
LoopCrash(p, c) ==
    /\ loop[p][c] \in {"idle", "busy"} /\ May("crash") /\ Spend("crash")
    /\ loop' = [loop EXCEPT ![p][c] = "build"]
    /\ job' = [job EXCEPT ![p][c] = NoJob]
    /\ UNCHANGED <<proc, launch, started, lock, call, queue>>

\* A turn of while True: a fresh Worker starts its loop.
Restart(p, c) ==
    /\ loop[p][c] = "build"
    /\ loop' = [loop EXCEPT ![p][c] = "idle"]
    /\ UNCHANGED <<proc, launch, started, lock, call, job, queue, spent>>

\* The imports before the loop and the Worker's construction are not in the
\* try: what they raise ends the thread, and the flag stays set.
RestartFails(p, c) ==
    /\ loop[p][c] = "build" /\ May("nothread") /\ Spend("nothread")
    /\ loop' = [loop EXCEPT ![p][c] = "none"]
    /\ UNCHANGED <<proc, launch, started, lock, call, job, queue>>

-------------------------------------------------------------------------------
(* The end of a process; the next one starts with fresh module state. *)
Ends(p) ==
    /\ proc' = [proc EXCEPT ![p] = "off"]
    /\ started' = [started EXCEPT ![p] = FALSE]
    /\ lock' = [lock EXCEPT ![p] = Nobody]
    /\ call' = [call EXCEPT ![p] = [c \in Calls |-> "idle"]]
    /\ loop' = [loop EXCEPT ![p] = [c \in Calls |-> "none"]]
    /\ job' = [job EXCEPT ![p] = [c \in Calls |-> NoJob]]

\* A daemon thread does not keep its process alive: a management command that
\* has done its work exits, with or without a response under way.
CommandReturns(p) ==
    /\ Up(p) /\ launch[p].command \in {"command", "skipped"}
    /\ Ends(p)
    /\ UNCHANGED <<launch, queue, spent>>

\* Stopped, killed, or reloaded because a file changed.
Stop(p) ==
    /\ proc[p] # "off" /\ May("stop") /\ Spend("stop")
    /\ Ends(p)
    /\ UNCHANGED <<launch, queue>>

\* No thread could be started: the flag stays set and the caller gets the
\* exception.  Out of ready() it keeps the process from coming up.
SpawnFails(p, c) ==
    /\ call[p][c] = "spawn" /\ May("nothread") /\ Spend("nothread")
    /\ IF c = Ready THEN Ends(p)
       ELSE /\ started' = [started EXCEPT ![p] = TRUE]
            /\ lock' = [lock EXCEPT ![p] = Nobody]
            /\ call' = [call EXCEPT ![p][c] = "done"]
            /\ UNCHANGED <<proc, loop, job>>
    /\ UNCHANGED <<launch, queue>>

-------------------------------------------------------------------------------
Starting(p, c) == Enter(p, c) \/ Test(p, c) \/ Spawn(p, c)
Looping(p, c) == Claim(p, c) \/ Complete(p, c) \/ Restart(p, c)

ProcessStep(p) ==
    \/ Boot(p) \/ Serve(p) \/ CommandReturns(p) \/ Stop(p)
    \/ \E c \in Calls : \/ Starting(p, c) \/ SpawnFails(p, c) \/ RestartFails(p, c)
                        \/ Looping(p, c) \/ Hang(p, c) \/ LoopCrash(p, c)
===============================================================================
