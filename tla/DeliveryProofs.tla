---------------------------- MODULE DeliveryProofs ----------------------------
(***************************************************************************)
(* The safety properties of Delivery, for any number of processes, calls   *)
(* of start(), events and faults.                                          *)
(***************************************************************************)
EXTENDS Delivery, FiniteSetTheorems, TLAPS

(* The lock: whoever is between the test and the end of start() holds it, so
   that what it has seen of the flag is still true. *)
Locked ==
    \A p \in Processes, c \in Calls :
        /\ call[p][c] \in {"test", "spawn"} <=> lock[p] = c
        /\ call[p][c] = "spawn" => ~started[p]
        /\ Live(p, c) => started[p]

\* A process that is not running holds nothing.
Ended ==
    \A p \in Processes : proc[p] = "off" =>
        /\ ~started[p]
        /\ \A c \in Calls : call[p][c] = "idle"

(* The flag tells the truth unless a thread could not be started, and it is set
   by the time the call of ready() has returned. *)
Flagging ==
    \A p \in Processes :
        /\ started[p] /\ spent["nothread"] = 0 => \E c \in Calls : Live(p, c)
        /\ call[p][Ready] = "done" /\ ~Skips(launch[p]) => started[p]
        /\ Up(p) => call[p][Ready] = "done"

Supervised == Locked /\ Ended /\ Flagging /\ OneLoopPerProcess

-------------------------------------------------------------------------------
(* What a request has seen by the time it is answered. *)
Settled(e) ==
    \/ event[e] = "noise"
    \/ e \in stored /\ (queue[e] # "free" \/ spent["error"] > 0)

Answered ==
    \A e \in WazuhEvents :
        /\ event[e] = "none" => script[e] = "none" /\ request[e].pc = "none"
        /\ request[e].pc = "none" => request[e].at = NoProcess
        /\ request[e].pc = "log" /\ request[e].status = 200 => Settled(e)
        /\ request[e].pc = "log" /\ request[e].status = 401 => ~secret

Heard == {e \in Echoes : event[e] # "none"}
Failing == {e \in WazuhEvents : request[e].pc = "log" /\ request[e].status = 500}

\* An error is about to be heard of at most once.
Counted ==
    /\ IsFiniteSet(Failing)
    /\ secret => Cardinality(Heard) + Cardinality(Failing) <= spent["error"]

DeliveryInv == TypeOK /\ Supervised /\ Answered /\ SentIsSettled /\ Counted

\* The two halves of the type invariant.
SupervisorTypes ==
    /\ proc \in [Processes -> {"off", "boot", "up"}]
    /\ \A p \in Processes : launch[p] \in Launches[p]
    /\ started \in [Processes -> BOOLEAN]
    /\ lock \in [Processes -> Calls \cup {Nobody}]
    /\ call \in [Processes -> [Calls -> {"idle", "test", "spawn", "done"}]]
    /\ loop \in [Processes -> [Calls -> {"none", "idle", "busy", "hung", "build"}]]
    /\ job \in [Processes -> [Calls -> Jobs \cup {NoJob}]]
    /\ \A p \in Processes, c \in Calls :
          job[p][c] # NoJob <=> loop[p][c] \in {"busy", "hung"}
    /\ queue \in [Jobs -> {"free", "READY", "RUNNING", "finished"}]
    /\ spent \in [Faults -> Nat]

DeliveryTypes ==
    /\ event \in [WazuhEvents -> {"none", "attack", "noise"}]
    /\ script \in [WazuhEvents -> {"none", "read", "wait", "sent", "failed"}]
    /\ request \in [WazuhEvents ->
                       [at : Processes \cup {NoProcess},
                        pc : {"none", "view", "store", "log", "over"},
                        status : {0, 200, 401, 500}]]
    /\ stored \subseteq WazuhEvents
    /\ secret \in BOOLEAN

LEMMA TypesSplit == TypeOK <=> SupervisorTypes /\ DeliveryTypes
  BY DEF TypeOK, SupervisorTypes, DeliveryTypes

-------------------------------------------------------------------------------
LEMMA DeliveryInit == Init => DeliveryInv
<1>1. ASSUME Init PROVE DeliveryInv
  <2>1. TypeOK
    <3>1. \A p \in Processes : (CHOOSE l \in Launches[p] : TRUE) \in Launches[p]
      BY SupervisorAssumption
    <3> QED BY <1>1, <3>1, SupervisorAssumption
        DEF Init, SupervisorInit, TypeOK, NoRequest, NoProcess
  <2>2. Supervised
    BY <1>1, SupervisorAssumption
    DEF Init, SupervisorInit, Supervised, Locked, Ended, Flagging, OneLoopPerProcess, Live, Up
  <2>3. Answered /\ SentIsSettled
    BY <1>1 DEF Init, Answered, SentIsSettled, NoRequest
  <2>4. Heard = {} /\ Failing = {} /\ spent["error"] = 0
    BY <1>1 DEF Init, SupervisorInit, Heard, Failing, NoRequest, WazuhEvents, Faults
  <2>5. Counted
    BY <2>4, FS_EmptySet DEF Counted
  <2> QED BY <2>1, <2>2, <2>3, <2>5 DEF DeliveryInv
<1> QED BY <1>1

-------------------------------------------------------------------------------
(* The steps that branch, branch by branch. *)
Counts == /\ spent' \in [Faults -> Nat]
          /\ spent'["nothread"] = spent["nothread"] /\ spent'["error"] = spent["error"]

EnterSkips(p, c) ==
    /\ call[p][c] = "idle" /\ proc[p] # "off" /\ Skips(launch[p])
    /\ call' = [call EXCEPT ![p][c] = "done"]
    /\ Counts /\ UNCHANGED <<proc, launch, started, lock, loop, job, queue>>

EnterLocks(p, c) ==
    /\ call[p][c] = "idle" /\ proc[p] # "off" /\ lock[p] = Nobody
    /\ lock' = [lock EXCEPT ![p] = c]
    /\ call' = [call EXCEPT ![p][c] = "test"]
    /\ Counts /\ UNCHANGED <<proc, launch, started, loop, job, queue>>

LEMMA EnterCases ==
    ASSUME SupervisorTypes, NEW p \in Processes, NEW c \in Calls, Enter(p, c)
    PROVE  EnterSkips(p, c) \/ EnterLocks(p, c)
<1>1. CASE spent' = spent
  <2>1. Counts
    BY <1>1 DEF Counts, SupervisorTypes
  <2> QED BY <2>1 DEF Enter, EnterSkips, EnterLocks
<1>2. CASE spent' = [spent EXCEPT !["again"] = @ + 1]
  <2>1. Counts
    BY <1>2 DEF Counts, SupervisorTypes, Faults
  <2> QED BY <2>1 DEF Enter, EnterSkips, EnterLocks
<1> QED BY <1>1, <1>2 DEF Enter, Spend

TestReturns(p, c) ==
    /\ call[p][c] = "test" /\ started[p]
    /\ lock' = [lock EXCEPT ![p] = Nobody]
    /\ call' = [call EXCEPT ![p][c] = "done"]
    /\ UNCHANGED <<proc, launch, started, loop, job, queue, spent>>

TestPasses(p, c) ==
    /\ call[p][c] = "test" /\ ~started[p]
    /\ call' = [call EXCEPT ![p][c] = "spawn"]
    /\ UNCHANGED <<proc, launch, started, lock, loop, job, queue, spent>>

LEMMA TestCases ==
    ASSUME NEW p \in Processes, NEW c \in Calls, Test(p, c)
    PROVE  TestReturns(p, c) \/ TestPasses(p, c)
  BY DEF Test, TestReturns, TestPasses

SpawnEnds(p, c) ==
    /\ call[p][c] = "spawn" /\ Ends(p)
    /\ spent' = [spent EXCEPT !["nothread"] = @ + 1]
    /\ UNCHANGED <<launch, queue>>

SpawnRaises(p, c) ==
    /\ call[p][c] = "spawn"
    /\ spent' = [spent EXCEPT !["nothread"] = @ + 1]
    /\ started' = [started EXCEPT ![p] = TRUE]
    /\ lock' = [lock EXCEPT ![p] = Nobody]
    /\ call' = [call EXCEPT ![p][c] = "done"]
    /\ UNCHANGED <<launch, queue, proc, loop, job>>

LEMMA SpawnFailsCases ==
    ASSUME NEW p \in Processes, NEW c \in Calls, SpawnFails(p, c)
    PROVE  SpawnEnds(p, c) \/ SpawnRaises(p, c)
  BY DEF SpawnFails, Spend, SpawnEnds, SpawnRaises

-------------------------------------------------------------------------------
(* The steps of a process keep its own invariant. *)
LEMMA ProcessKeepsTypes ==
    ASSUME SupervisorTypes, Supervised, NEW p \in Processes, ProcessStep(p)
    PROVE  SupervisorTypes'
<1>1. CASE Boot(p)
  BY <1>1 DEF Boot, SupervisorTypes, Faults
<1>2. CASE Serve(p)
  BY <1>2 DEF Serve, SupervisorTypes, Faults
<1>3. CASE CommandReturns(p)
  BY <1>3 DEF CommandReturns, SupervisorTypes, Faults, Ends
<1>4. CASE Stop(p)
  BY <1>4 DEF Stop, SupervisorTypes, Faults, Ends, May, Spend
<1>5. ASSUME NEW c \in Calls, Enter(p, c) PROVE SupervisorTypes'
  <2>1. CASE EnterSkips(p, c)
    BY <2>1, SupervisorAssumption DEF EnterSkips, SupervisorTypes, Faults, Counts
  <2>2. CASE EnterLocks(p, c)
    BY <2>2, SupervisorAssumption DEF EnterLocks, SupervisorTypes, Faults, Counts
  <2> QED BY <1>5, <2>1, <2>2, EnterCases
<1>6. ASSUME NEW c \in Calls, Test(p, c) PROVE SupervisorTypes'
  <2>1. CASE TestReturns(p, c)
    BY <2>1, SupervisorAssumption DEF TestReturns, SupervisorTypes, Faults
  <2>2. CASE TestPasses(p, c)
    BY <2>2, SupervisorAssumption DEF TestPasses, SupervisorTypes, Faults
  <2> QED BY <1>6, <2>1, <2>2, TestCases
<1>7. ASSUME NEW c \in Calls, Spawn(p, c) PROVE SupervisorTypes'
  BY <1>7, SupervisorAssumption DEF Spawn, SupervisorTypes, Faults, Supervised, Locked, Live
<1>8. ASSUME NEW c \in Calls, SpawnFails(p, c) PROVE SupervisorTypes'
  <2>1. CASE SpawnEnds(p, c)
    BY <2>1, SupervisorAssumption DEF SpawnEnds, SupervisorTypes, Faults, Ends
  <2>2. CASE SpawnRaises(p, c)
    BY <2>2, SupervisorAssumption DEF SpawnRaises, SupervisorTypes, Faults
  <2> QED BY <1>8, <2>1, <2>2, SpawnFailsCases
<1>9. ASSUME NEW c \in Calls, Claim(p, c) PROVE SupervisorTypes'
  BY <1>9, SupervisorAssumption DEF Claim, SupervisorTypes, Faults
<1>10. ASSUME NEW c \in Calls, Complete(p, c) PROVE SupervisorTypes'
  BY <1>10, SupervisorAssumption DEF Complete, SupervisorTypes, Faults
<1>11. ASSUME NEW c \in Calls, Restart(p, c) PROVE SupervisorTypes'
  BY <1>11, SupervisorAssumption DEF Restart, SupervisorTypes, Faults
<1>12. ASSUME NEW c \in Calls, Hang(p, c) PROVE SupervisorTypes'
  BY <1>12, SupervisorAssumption DEF Hang, SupervisorTypes, Faults, May, Spend
<1>13. ASSUME NEW c \in Calls, LoopCrash(p, c) PROVE SupervisorTypes'
  BY <1>13, SupervisorAssumption DEF LoopCrash, SupervisorTypes, Faults, May, Spend
<1>14. ASSUME NEW c \in Calls, RestartFails(p, c) PROVE SupervisorTypes'
  BY <1>14, SupervisorAssumption DEF RestartFails, SupervisorTypes, Faults, May, Spend
<1> QED BY <1>1, <1>2, <1>3, <1>4, <1>5, <1>6, <1>7, <1>8, <1>9, <1>10, <1>11, <1>12, <1>13, <1>14
    DEF ProcessStep, Starting, Looping

LEMMA ProcessKeepsLock ==
    ASSUME SupervisorTypes, Supervised, NEW p \in Processes, ProcessStep(p)
    PROVE  Locked' /\ Ended' /\ OneLoopPerProcess'
<1>1. CASE Boot(p)
  BY <1>1, SupervisorAssumption
     DEF Boot, SupervisorTypes, Supervised, Locked, Ended, OneLoopPerProcess, Live, Faults
<1>2. CASE Serve(p)
  BY <1>2, SupervisorAssumption
     DEF Serve, SupervisorTypes, Supervised, Locked, Ended, OneLoopPerProcess, Live, Faults
<1>3. CASE CommandReturns(p)
  BY <1>3, SupervisorAssumption
     DEF CommandReturns, SupervisorTypes, Supervised, Locked, Ended, OneLoopPerProcess, Live,
      Faults, Ends
<1>4. CASE Stop(p)
  BY <1>4, SupervisorAssumption
     DEF Stop, SupervisorTypes, Supervised, Locked, Ended, OneLoopPerProcess, Live, Faults,
      Ends, May, Spend
<1>5. ASSUME NEW c \in Calls, Enter(p, c) PROVE Locked' /\ Ended' /\ OneLoopPerProcess'
  <2>1. CASE EnterSkips(p, c)
    BY <2>1, SupervisorAssumption
       DEF EnterSkips, SupervisorTypes, Supervised, Locked, Ended, OneLoopPerProcess, Live,
        Faults, Counts
  <2>2. CASE EnterLocks(p, c)
    BY <2>2, SupervisorAssumption
       DEF EnterLocks, SupervisorTypes, Supervised, Locked, Ended, OneLoopPerProcess, Live,
        Faults, Counts
  <2> QED BY <1>5, <2>1, <2>2, EnterCases
<1>6. ASSUME NEW c \in Calls, Test(p, c) PROVE Locked' /\ Ended' /\ OneLoopPerProcess'
  <2>1. CASE TestReturns(p, c)
    BY <2>1, SupervisorAssumption
       DEF TestReturns, SupervisorTypes, Supervised, Locked, Ended, OneLoopPerProcess, Live,
        Faults
  <2>2. CASE TestPasses(p, c)
    BY <2>2, SupervisorAssumption
       DEF TestPasses, SupervisorTypes, Supervised, Locked, Ended, OneLoopPerProcess, Live,
        Faults
  <2> QED BY <1>6, <2>1, <2>2, TestCases
<1>7. ASSUME NEW c \in Calls, Spawn(p, c) PROVE Locked' /\ Ended' /\ OneLoopPerProcess'
  BY <1>7, SupervisorAssumption
     DEF Spawn, SupervisorTypes, Supervised, Locked, Ended, OneLoopPerProcess, Live, Faults
<1>8. ASSUME NEW c \in Calls, SpawnFails(p, c) PROVE Locked' /\ Ended' /\ OneLoopPerProcess'
  <2>1. CASE SpawnEnds(p, c)
    BY <2>1, SupervisorAssumption
       DEF SpawnEnds, SupervisorTypes, Supervised, Locked, Ended, OneLoopPerProcess, Live,
        Faults, Ends
  <2>2. CASE SpawnRaises(p, c)
    BY <2>2, SupervisorAssumption
       DEF SpawnRaises, SupervisorTypes, Supervised, Locked, Ended, OneLoopPerProcess, Live,
        Faults
  <2> QED BY <1>8, <2>1, <2>2, SpawnFailsCases
<1>9. ASSUME NEW c \in Calls, Claim(p, c) PROVE Locked' /\ Ended' /\ OneLoopPerProcess'
  BY <1>9, SupervisorAssumption
     DEF Claim, SupervisorTypes, Supervised, Locked, Ended, OneLoopPerProcess, Live, Faults
<1>10. ASSUME NEW c \in Calls, Complete(p, c) PROVE Locked' /\ Ended' /\ OneLoopPerProcess'
  BY <1>10, SupervisorAssumption
     DEF Complete, SupervisorTypes, Supervised, Locked, Ended, OneLoopPerProcess, Live, Faults
<1>11. ASSUME NEW c \in Calls, Restart(p, c) PROVE Locked' /\ Ended' /\ OneLoopPerProcess'
  BY <1>11, SupervisorAssumption
     DEF Restart, SupervisorTypes, Supervised, Locked, Ended, OneLoopPerProcess, Live, Faults
<1>12. ASSUME NEW c \in Calls, Hang(p, c) PROVE Locked' /\ Ended' /\ OneLoopPerProcess'
  BY <1>12, SupervisorAssumption
     DEF Hang, SupervisorTypes, Supervised, Locked, Ended, OneLoopPerProcess, Live, Faults,
      May, Spend
<1>13. ASSUME NEW c \in Calls, LoopCrash(p, c) PROVE Locked' /\ Ended' /\ OneLoopPerProcess'
  BY <1>13, SupervisorAssumption
     DEF LoopCrash, SupervisorTypes, Supervised, Locked, Ended, OneLoopPerProcess, Live,
      Faults, May, Spend
<1>14. ASSUME NEW c \in Calls, RestartFails(p, c) PROVE Locked' /\ Ended' /\ OneLoopPerProcess'
  BY <1>14, SupervisorAssumption
     DEF RestartFails, SupervisorTypes, Supervised, Locked, Ended, OneLoopPerProcess, Live,
      Faults, May, Spend
<1> QED BY <1>1, <1>2, <1>3, <1>4, <1>5, <1>6, <1>7, <1>8, <1>9, <1>10, <1>11, <1>12, <1>13, <1>14
    DEF ProcessStep, Starting, Looping

LEMMA ProcessKeepsFlag ==
    ASSUME SupervisorTypes, Supervised, NEW p \in Processes, ProcessStep(p)
    PROVE  Flagging'
<1>1. CASE Boot(p)
  BY <1>1, SupervisorAssumption
     DEF Boot, SupervisorTypes, Supervised, Locked, Ended, Flagging, Live, Up, Faults, Skips,
      Autoreload
<1>2. CASE Serve(p)
  BY <1>2, SupervisorAssumption
     DEF Serve, SupervisorTypes, Supervised, Locked, Ended, Flagging, Live, Up, Faults, Skips,
      Autoreload
<1>3. CASE CommandReturns(p)
  BY <1>3, SupervisorAssumption
     DEF CommandReturns, SupervisorTypes, Supervised, Locked, Ended, Flagging, Live, Up,
      Faults, Skips, Autoreload, Ends
<1>4. CASE Stop(p)
  BY <1>4, SupervisorAssumption
     DEF Stop, SupervisorTypes, Supervised, Locked, Ended, Flagging, Live, Up, Faults, Skips,
      Autoreload, Ends, May, Spend
<1>5. ASSUME NEW c \in Calls, Enter(p, c) PROVE Flagging'
  <2>1. CASE EnterSkips(p, c)
    BY <2>1, SupervisorAssumption
       DEF EnterSkips, SupervisorTypes, Supervised, Locked, Ended, Flagging, Live, Up, Faults,
        Skips, Autoreload, Counts
  <2>2. CASE EnterLocks(p, c)
    BY <2>2, SupervisorAssumption
       DEF EnterLocks, SupervisorTypes, Supervised, Locked, Ended, Flagging, Live, Up, Faults,
        Skips, Autoreload, Counts
  <2> QED BY <1>5, <2>1, <2>2, EnterCases
<1>6. ASSUME NEW c \in Calls, Test(p, c) PROVE Flagging'
  <2>1. CASE TestReturns(p, c)
    BY <2>1, SupervisorAssumption
       DEF TestReturns, SupervisorTypes, Supervised, Locked, Ended, Flagging, Live, Up, Faults,
        Skips, Autoreload
  <2>2. CASE TestPasses(p, c)
    BY <2>2, SupervisorAssumption
       DEF TestPasses, SupervisorTypes, Supervised, Locked, Ended, Flagging, Live, Up, Faults,
        Skips, Autoreload
  <2> QED BY <1>6, <2>1, <2>2, TestCases
<1>7. ASSUME NEW c \in Calls, Spawn(p, c) PROVE Flagging'
  BY <1>7, SupervisorAssumption
     DEF Spawn, SupervisorTypes, Supervised, Locked, Ended, Flagging, Live, Up, Faults, Skips,
      Autoreload
<1>8. ASSUME NEW c \in Calls, SpawnFails(p, c) PROVE Flagging'
  <2>1. CASE SpawnEnds(p, c)
    BY <2>1, SupervisorAssumption
       DEF SpawnEnds, SupervisorTypes, Supervised, Locked, Ended, Flagging, Live, Up, Faults,
        Skips, Autoreload, Ends
  <2>2. CASE SpawnRaises(p, c)
    BY <2>2, SupervisorAssumption
       DEF SpawnRaises, SupervisorTypes, Supervised, Locked, Ended, Flagging, Live, Up, Faults,
        Skips, Autoreload
  <2> QED BY <1>8, <2>1, <2>2, SpawnFailsCases
<1>9. ASSUME NEW c \in Calls, Claim(p, c) PROVE Flagging'
  BY <1>9, SupervisorAssumption
     DEF Claim, SupervisorTypes, Supervised, Locked, Ended, Flagging, Live, Up, Faults, Skips,
      Autoreload
<1>10. ASSUME NEW c \in Calls, Complete(p, c) PROVE Flagging'
  BY <1>10, SupervisorAssumption
     DEF Complete, SupervisorTypes, Supervised, Locked, Ended, Flagging, Live, Up, Faults,
      Skips, Autoreload
<1>11. ASSUME NEW c \in Calls, Restart(p, c) PROVE Flagging'
  BY <1>11, SupervisorAssumption
     DEF Restart, SupervisorTypes, Supervised, Locked, Ended, Flagging, Live, Up, Faults,
      Skips, Autoreload
<1>12. ASSUME NEW c \in Calls, Hang(p, c) PROVE Flagging'
  BY <1>12, SupervisorAssumption
     DEF Hang, SupervisorTypes, Supervised, Locked, Ended, Flagging, Live, Up, Faults, Skips,
      Autoreload, May, Spend
<1>13. ASSUME NEW c \in Calls, LoopCrash(p, c) PROVE Flagging'
  BY <1>13, SupervisorAssumption
     DEF LoopCrash, SupervisorTypes, Supervised, Locked, Ended, Flagging, Live, Up, Faults,
      Skips, Autoreload, May, Spend
<1>14. ASSUME NEW c \in Calls, RestartFails(p, c) PROVE Flagging'
  BY <1>14, SupervisorAssumption
     DEF RestartFails, SupervisorTypes, Supervised, Locked, Ended, Flagging, Live, Up, Faults,
      Skips, Autoreload, May, Spend
<1> QED BY <1>1, <1>2, <1>3, <1>4, <1>5, <1>6, <1>7, <1>8, <1>9, <1>10, <1>11, <1>12, <1>13, <1>14
    DEF ProcessStep, Starting, Looping

LEMMA ProcessFrame ==
    ASSUME SupervisorTypes, NEW p \in Processes, ProcessStep(p)
    PROVE  /\ spent'["error"] = spent["error"]
           /\ \A t \in Jobs : queue'[t] = "free" => queue[t] = "free"
<1>1. CASE Boot(p)
  BY <1>1 DEF Boot, SupervisorTypes, Faults, Spend
<1>2. CASE Serve(p)
  BY <1>2 DEF Serve, SupervisorTypes, Faults, Spend
<1>3. CASE CommandReturns(p)
  BY <1>3 DEF CommandReturns, SupervisorTypes, Faults, Spend
<1>4. CASE Stop(p)
  BY <1>4 DEF Stop, SupervisorTypes, Faults, Spend
<1>5. ASSUME NEW c \in Calls, Enter(p, c)
     PROVE  /\ spent'["error"] = spent["error"]
            /\ \A t \in Jobs : queue'[t] = "free" => queue[t] = "free"
  BY <1>5, EnterCases DEF EnterSkips, EnterLocks, Counts
<1>6. ASSUME NEW c \in Calls, Test(p, c)
     PROVE  /\ spent'["error"] = spent["error"]
            /\ \A t \in Jobs : queue'[t] = "free" => queue[t] = "free"
  BY <1>6 DEF Test, SupervisorTypes, Faults, Spend
<1>7. ASSUME NEW c \in Calls, Spawn(p, c)
     PROVE  /\ spent'["error"] = spent["error"]
            /\ \A t \in Jobs : queue'[t] = "free" => queue[t] = "free"
  BY <1>7 DEF Spawn, SupervisorTypes, Faults, Spend
<1>8. ASSUME NEW c \in Calls, SpawnFails(p, c)
     PROVE  /\ spent'["error"] = spent["error"]
            /\ \A t \in Jobs : queue'[t] = "free" => queue[t] = "free"
  BY <1>8, SpawnFailsCases DEF SpawnEnds, SpawnRaises, SupervisorTypes, Faults
<1>9. ASSUME NEW c \in Calls, Claim(p, c)
     PROVE  /\ spent'["error"] = spent["error"]
            /\ \A t \in Jobs : queue'[t] = "free" => queue[t] = "free"
  BY <1>9 DEF Claim, SupervisorTypes, Faults, Spend
<1>10. ASSUME NEW c \in Calls, Complete(p, c)
     PROVE  /\ spent'["error"] = spent["error"]
            /\ \A t \in Jobs : queue'[t] = "free" => queue[t] = "free"
  BY <1>10 DEF Complete, SupervisorTypes, Faults, Spend
<1>11. ASSUME NEW c \in Calls, Restart(p, c)
     PROVE  /\ spent'["error"] = spent["error"]
            /\ \A t \in Jobs : queue'[t] = "free" => queue[t] = "free"
  BY <1>11 DEF Restart, SupervisorTypes, Faults, Spend
<1>12. ASSUME NEW c \in Calls, Hang(p, c)
     PROVE  /\ spent'["error"] = spent["error"]
            /\ \A t \in Jobs : queue'[t] = "free" => queue[t] = "free"
  BY <1>12 DEF Hang, SupervisorTypes, Faults, Spend
<1>13. ASSUME NEW c \in Calls, LoopCrash(p, c)
     PROVE  /\ spent'["error"] = spent["error"]
            /\ \A t \in Jobs : queue'[t] = "free" => queue[t] = "free"
  BY <1>13 DEF LoopCrash, SupervisorTypes, Faults, Spend
<1>14. ASSUME NEW c \in Calls, RestartFails(p, c)
     PROVE  /\ spent'["error"] = spent["error"]
            /\ \A t \in Jobs : queue'[t] = "free" => queue[t] = "free"
  BY <1>14 DEF RestartFails, SupervisorTypes, Faults, Spend
<1> QED BY <1>1, <1>2, <1>3, <1>4, <1>5, <1>6, <1>7, <1>8, <1>9, <1>10, <1>11, <1>12, <1>13, <1>14
    DEF ProcessStep, Starting, Looping

-------------------------------------------------------------------------------
(* What the steps of a delivery do to the requests. *)
Quiet == UNCHANGED supervisorVars /\ secret' = secret

\* A step of e's script or request: it sets e's request to r, and no other's.
Sets(e, r) ==
    /\ request' \in [WazuhEvents -> [at : Processes \cup {NoProcess},
                                     pc : {"none", "view", "store", "log", "over"},
                                     status : {0, 200, 401, 500}]]
    /\ request'[e] = r
    /\ \A x \in WazuhEvents \ {e} : request'[x] = request[x]

Logged(e, s) == Sets(e, [at |-> request[e].at, pc |-> "log", status |-> s])

LEMMA AnswerLogs ==
    ASSUME DeliveryTypes, NEW e \in WazuhEvents, NEW s \in {200, 401, 500}, Answer(e, s)
    PROVE  Logged(e, s)
  BY DEF Answer, Logged, Sets, DeliveryTypes

LEMMA PostCases ==
    ASSUME DeliveryTypes, NEW e \in WazuhEvents, Post(e)
    PROVE  \E p \in Processes : Sets(e, [at |-> p, pc |-> "view", status |-> 0])
<1>1. PICK p \in Processes :
        request' = [request EXCEPT ![e] = [at |-> p, pc |-> "view", status |-> 0]]
  BY DEF Post
<1>2. Sets(e, [at |-> p, pc |-> "view", status |-> 0])
  BY <1>1 DEF Sets, DeliveryTypes
<1> QED BY <1>2

LEMMA ViewCases ==
    ASSUME DeliveryTypes, NEW e \in WazuhEvents, View(e)
    PROVE  \/ secret /\ event[e] = "attack" /\ Sets(e, [request[e] EXCEPT !.pc = "store"])
           \/ secret /\ event[e] # "attack" /\ Logged(e, 200)
           \/ ~secret /\ Logged(e, 401)
<1>1. CASE secret /\ event[e] = "attack"
  BY <1>1 DEF View, Sets, DeliveryTypes
<1>2. CASE secret /\ event[e] # "attack"
  <2>1. Answer(e, 200)
    BY <1>2 DEF View
  <2> QED BY <1>2, <2>1, AnswerLogs
<1>3. CASE ~secret
  <2>1. Answer(e, 401)
    BY <1>3 DEF View
  <2> QED BY <1>3, <2>1, AnswerLogs
<1> QED BY <1>1, <1>2, <1>3

LEMMA StoreCases ==
    ASSUME SupervisorTypes, DeliveryTypes, NEW e \in WazuhEvents, Store(e)
    PROVE  /\ Logged(e, 200)
           /\ \A t \in Jobs : queue'[t] = "free" => queue[t] = "free"
           /\ spent'["error"] \in Nat /\ spent'["error"] >= spent["error"]
           /\ stored' = stored \cup {e}
           /\ queue'[e] # "free" \/ spent'["error"] > 0
<1>1. Logged(e, 200) /\ stored' = stored \cup {e}
  BY AnswerLogs DEF Store
<1>2. CASE queue' = [queue EXCEPT ![e] = "READY"] /\ spent' = spent
  BY <1>1, <1>2, DeliveryAssumption DEF SupervisorTypes, Faults
<1>3. CASE queue' = queue /\ Spend("error")
  BY <1>1, <1>3 DEF SupervisorTypes, Faults, Spend
<1> QED BY <1>2, <1>3 DEF Store

LEMMA ViewRaisesCases ==
    ASSUME SupervisorTypes, DeliveryTypes, NEW e \in WazuhEvents, ViewRaises(e)
    PROVE  secret /\ Logged(e, 500) /\ spent'["error"] = spent["error"] + 1
  BY AnswerLogs DEF ViewRaises, Spend, SupervisorTypes, Faults

(* The answer leaves; at most one echo is heard of, and only for a flagged code. *)
Over == [at |-> NoProcess, pc |-> "over", status |-> 0]
Got(e) == IF script[e] # "wait" THEN script[e]
          ELSE IF request[e].status = 200 THEN "sent" ELSE "failed"

RespondQuietly(e) ==
    /\ request[e].pc = "log" /\ Sets(e, Over) /\ event' = event
    /\ script' = [script EXCEPT ![e] = Got(e)]

RespondEcho(e, next) ==
    /\ request[e].pc = "log" /\ request[e].status \in {401, 500} /\ Sets(e, Over)
    /\ next \in Echoes /\ event[next] = "none"
    /\ event' = [event EXCEPT ![next] = "noise"]
    /\ script' = [script EXCEPT ![e] = Got(e), ![next] = "read"]

LEMMA RespondCases ==
    ASSUME DeliveryTypes, NEW e \in WazuhEvents, Respond(e)
    PROVE  RespondQuietly(e) \/ \E next \in Echoes : RespondEcho(e, next)
<1> DEFINE unused == {x \in Echoes : event[x] = "none"}
           next == CHOOSE x \in unused : TRUE
<1>1. [NoRequest EXCEPT !.pc = "over"] = Over
  BY DEF NoRequest, Over
<1>2. request' = [request EXCEPT ![e] = Over] /\ request[e].pc = "log"
  BY <1>1 DEF Respond
<1>3. Sets(e, Over)
  BY <1>2 DEF Sets, Over, DeliveryTypes
<1>4. CASE request[e].status \in Flagged /\ unused # {}
  <2>1. next \in unused
    BY <1>4
  <2>2. request[e].status \in {401, 500}
    <3>1. \A s \in Flagged : s = 401 \/ s = 500
      BY DeliveryAssumption
    <3>2. request[e].status \in Flagged
      BY <1>4
    <3> HIDE DEF unused
    <3> QED BY <3>1, <3>2
  <2>3. /\ event' = [event EXCEPT ![next] = "noise"]
        /\ script' = [script EXCEPT ![e] = Got(e), ![next] = "read"]
    BY <1>4 DEF Respond, Got
  <2> HIDE DEF next
  <2> QED BY <1>2, <1>3, <2>1, <2>2, <2>3 DEF RespondEcho
<1>5. CASE ~(request[e].status \in Flagged /\ unused # {})
  <2>1. event' = event /\ script' = [script EXCEPT ![e] = Got(e)]
    BY <1>5 DEF Respond, Got
  <2> QED BY <1>2, <1>3, <2>1 DEF RespondQuietly
<1> QED BY <1>4, <1>5

\* A process ends, or its step has nothing to do with deliveries.
LEMMA ServerCases ==
    ASSUME NEW p \in Processes, ServerStep(p)
    PROVE  Breaks(p) \/ UNCHANGED deliveryVars
  BY DEF ServerStep

-------------------------------------------------------------------------------
(* Every step, property by property. *)
LEMMA DeliveryKeepsTypes ==
    ASSUME SupervisorTypes, DeliveryTypes, [Next]_vars
    PROVE  DeliveryTypes'
<1>1. ASSUME NEW e \in WazuhEvents, Detect(e) PROVE DeliveryTypes'
  BY <1>1 DEF Detect, DeliveryTypes
<1>2. ASSUME NEW e \in WazuhEvents, ReadFails(e) PROVE DeliveryTypes'
  BY <1>2 DEF ReadFails, DeliveryTypes
<1>3. ASSUME NEW e \in WazuhEvents, Post(e) PROVE DeliveryTypes'
  BY <1>3, PostCases DEF Post, Sets, DeliveryTypes
<1>4. ASSUME NEW e \in WazuhEvents, Refused(e) PROVE DeliveryTypes'
  BY <1>4 DEF Refused, DeliveryTypes
<1>5. ASSUME NEW e \in WazuhEvents, GivesUp(e) PROVE DeliveryTypes'
  BY <1>5 DEF GivesUp, DeliveryTypes
<1>6. ASSUME NEW e \in WazuhEvents, View(e) PROVE DeliveryTypes'
  BY <1>6, ViewCases DEF View, Logged, Sets, DeliveryTypes
<1>7. ASSUME NEW e \in WazuhEvents, Store(e) PROVE DeliveryTypes'
  <2>1. UNCHANGED <<event, script, secret>>
    BY <1>7 DEF Store
  <2>2. Logged(e, 200) /\ stored' = stored \cup {e}
    BY <1>7, StoreCases
  <2> QED BY <2>1, <2>2 DEF Logged, Sets, DeliveryTypes
<1>8. ASSUME NEW e \in WazuhEvents, ViewRaises(e) PROVE DeliveryTypes'
  BY <1>8, ViewRaisesCases DEF ViewRaises, Logged, Sets, DeliveryTypes
<1>9. ASSUME NEW e \in WazuhEvents, Respond(e) PROVE DeliveryTypes'
  <2>1. CASE RespondQuietly(e)
    BY <1>9, <2>1 DEF Respond, RespondQuietly, Got, Sets, DeliveryTypes
  <2>2. ASSUME NEW next \in Echoes, RespondEcho(e, next) PROVE DeliveryTypes'
    BY <1>9, <2>2 DEF Respond, RespondEcho, Got, Sets, DeliveryTypes, WazuhEvents
  <2> QED BY <1>9, <2>1, <2>2, RespondCases
<1>10. ASSUME NEW p \in Processes, ServerStep(p) PROVE DeliveryTypes'
  <2>1. CASE Breaks(p)
    BY <2>1 DEF Breaks, NoRequest, DeliveryTypes
  <2>2. CASE UNCHANGED deliveryVars
    BY <2>2 DEF deliveryVars, DeliveryTypes
  <2> QED BY <1>10, <2>1, <2>2, ServerCases
<1>11. CASE UNCHANGED vars
  BY <1>11 DEF vars, supervisorVars, serverVars, deliveryVars, DeliveryTypes
<1> QED BY <1>1, <1>2, <1>3, <1>4, <1>5, <1>6, <1>7, <1>8, <1>9, <1>10, <1>11
       DEF Next, Running, Serving

LEMMA ServersRest ==
    ASSUME SupervisorTypes, Supervised, UNCHANGED serverVars,
           queue' \in [Jobs -> {"free", "READY", "RUNNING", "finished"}],
           spent' \in [Faults -> Nat], spent'["nothread"] = spent["nothread"]
    PROVE  SupervisorTypes' /\ Supervised'
  BY DEF serverVars, SupervisorTypes, Supervised, Locked, Ended, Flagging,
         OneLoopPerProcess, Live, Up, Skips, Autoreload

\* Deliveries leave the supervisors alone but for the queue and the errors.
LEMMA SupervisorKept ==
    ASSUME SupervisorTypes, DeliveryTypes, Supervised, [Next]_vars
    PROVE  SupervisorTypes' /\ Supervised'
<1>1. CASE UNCHANGED supervisorVars
  BY <1>1, ServersRest DEF supervisorVars, SupervisorTypes
<1>2. ASSUME UNCHANGED <<serverVars, queue>>, Spend("error")
      PROVE  SupervisorTypes' /\ Supervised'
  <2>1. spent' \in [Faults -> Nat] /\ spent'["nothread"] = spent["nothread"]
    BY <1>2 DEF Spend, Faults, SupervisorTypes
  <2> QED BY <1>2, <2>1, ServersRest DEF SupervisorTypes
<1>3. ASSUME NEW e \in WazuhEvents, Store(e) PROVE SupervisorTypes' /\ Supervised'
  <2>1. CASE queue' = [queue EXCEPT ![e] = "READY"] /\ spent' = spent
    <3>1. queue' \in [Jobs -> {"free", "READY", "RUNNING", "finished"}]
      BY <2>1, DeliveryAssumption DEF SupervisorTypes
    <3>2. UNCHANGED serverVars
      BY <1>3 DEF Store
    <3> QED BY <2>1, <3>1, <3>2, ServersRest DEF SupervisorTypes
  <2>2. CASE queue' = queue /\ Spend("error")
    BY <1>2, <1>3, <2>2 DEF Store
  <2> QED BY <1>3, <2>1, <2>2 DEF Store
<1>4. ASSUME NEW e \in WazuhEvents, ReadFails(e) \/ ViewRaises(e)
      PROVE  SupervisorTypes' /\ Supervised'
  BY <1>2, <1>4 DEF ReadFails, ViewRaises
<1>5. ASSUME NEW e \in WazuhEvents,
             Detect(e) \/ Post(e) \/ Refused(e) \/ GivesUp(e) \/ View(e) \/ Respond(e)
      PROVE  UNCHANGED supervisorVars
  BY <1>5 DEF Detect, Post, Refused, GivesUp, View, Respond
<1>6. ASSUME NEW p \in Processes, ServerStep(p) PROVE SupervisorTypes' /\ Supervised'
  BY <1>6, ProcessKeepsTypes, ProcessKeepsLock, ProcessKeepsFlag DEF ServerStep, Supervised
<1>7. CASE UNCHANGED vars
  BY <1>1, <1>7 DEF vars
<1> QED BY <1>1, <1>3, <1>4, <1>5, <1>6, <1>7 DEF Next, Running, Serving

(* What a step never takes back. *)
Onwards ==
    /\ secret' = secret /\ stored \subseteq stored'
    /\ \A x \in WazuhEvents : event[x] # "none" => event'[x] = event[x]
    /\ \A t \in Jobs : queue'[t] = "free" => queue[t] = "free"
    /\ spent["error"] \in Nat /\ spent'["error"] >= spent["error"]

LEMMA StepsGoOnwards ==
    ASSUME SupervisorTypes, DeliveryTypes, [Next]_vars
    PROVE  Onwards
<1>1. ASSUME NEW e \in WazuhEvents, Detect(e) PROVE Onwards
  BY <1>1 DEF Detect, supervisorVars, SupervisorTypes, DeliveryTypes, Faults, Onwards
<1>2. ASSUME NEW e \in WazuhEvents, ReadFails(e) PROVE Onwards
  BY <1>2 DEF ReadFails, Spend, Faults, serverVars, SupervisorTypes, Onwards
<1>3. ASSUME NEW e \in WazuhEvents, Post(e) PROVE Onwards
  BY <1>3 DEF Post, supervisorVars, SupervisorTypes, DeliveryTypes, Faults, Onwards
<1>4. ASSUME NEW e \in WazuhEvents, Refused(e) PROVE Onwards
  BY <1>4 DEF Refused, supervisorVars, SupervisorTypes, DeliveryTypes, Faults, Onwards
<1>5. ASSUME NEW e \in WazuhEvents, GivesUp(e) PROVE Onwards
  BY <1>5 DEF GivesUp, supervisorVars, SupervisorTypes, DeliveryTypes, Faults, Onwards
<1>6. ASSUME NEW e \in WazuhEvents, View(e) PROVE Onwards
  BY <1>6 DEF View, supervisorVars, SupervisorTypes, DeliveryTypes, Faults, Onwards
<1>7. ASSUME NEW e \in WazuhEvents, Store(e) PROVE Onwards
  <2>1. UNCHANGED <<event, secret>>
    BY <1>7 DEF Store
  <2>2. /\ stored' = stored \cup {e} /\ spent'["error"] >= spent["error"]
        /\ \A t \in Jobs : queue'[t] = "free" => queue[t] = "free"
    BY <1>7, StoreCases
  <2> QED BY <2>1, <2>2 DEF SupervisorTypes, Faults, Onwards
<1>8. ASSUME NEW e \in WazuhEvents, ViewRaises(e) PROVE Onwards
  BY <1>8, ViewRaisesCases DEF ViewRaises, serverVars, SupervisorTypes, Faults, Onwards
<1>9. ASSUME NEW e \in WazuhEvents, Respond(e) PROVE Onwards
  <2>1. UNCHANGED <<supervisorVars, stored, secret>>
    BY <1>9 DEF Respond
  <2>2. CASE RespondQuietly(e)
    BY <2>1, <2>2 DEF RespondQuietly, SupervisorTypes, supervisorVars, Faults, Onwards
  <2>3. ASSUME NEW next \in Echoes, RespondEcho(e, next) PROVE Onwards
    BY <2>1, <2>3
       DEF RespondEcho, SupervisorTypes, supervisorVars, DeliveryTypes, WazuhEvents, Faults,
        Onwards
  <2> QED BY <1>9, <2>2, <2>3, RespondCases
<1>10. ASSUME NEW p \in Processes, ServerStep(p) PROVE Onwards
  <2>1. UNCHANGED <<event, stored, secret>>
    BY <1>10, ServerCases DEF Breaks, deliveryVars
  <2> QED BY <1>10, <2>1, ProcessFrame DEF ServerStep, SupervisorTypes, Faults, Onwards
<1>11. CASE UNCHANGED vars
  BY <1>11 DEF vars, supervisorVars, serverVars, deliveryVars, SupervisorTypes, Faults, Onwards
<1> QED BY <1>1, <1>2, <1>3, <1>4, <1>5, <1>6, <1>7, <1>8, <1>9, <1>10, <1>11
       DEF Next, Running, Serving

LEMMA SettledStays ==
    ASSUME Onwards, spent'["error"] \in Nat, NEW e \in WazuhEvents, Settled(e)
    PROVE  Settled(e)'
  BY DeliveryAssumption DEF Onwards, Settled

\* What an answer says is still so when it leaves.
LEMMA AnsweredKept ==
    ASSUME SupervisorTypes, DeliveryTypes, Supervised, Answered, [Next]_vars
    PROVE  Answered'
<1>a. Onwards
  BY StepsGoOnwards
<1>b. spent'["error"] \in Nat
  BY SupervisorKept DEF SupervisorTypes, Faults
<1>c. \A x \in WazuhEvents : Settled(x) => Settled(x)'
  BY <1>a, <1>b, SettledStays
<1>1. ASSUME NEW e \in WazuhEvents, Detect(e) PROVE Answered'
  BY <1>1, <1>a, <1>c DEF Detect, Answered, Onwards, DeliveryTypes, WazuhEvents
<1>2. ASSUME NEW e \in WazuhEvents, ReadFails(e) PROVE Answered'
  BY <1>2, <1>a, <1>c DEF ReadFails, Answered, Onwards, DeliveryTypes, WazuhEvents
<1>3. ASSUME NEW e \in WazuhEvents, Post(e) PROVE Answered'
  <2>1. script[e] = "read" /\ UNCHANGED <<event, secret>> /\ script' = [script EXCEPT ![e] = "wait"]
    BY <1>3 DEF Post
  <2>2. PICK p \in Processes : Sets(e, [at |-> p, pc |-> "view", status |-> 0])
    BY <1>3, PostCases
  <2> QED BY <1>c, <2>1, <2>2 DEF Sets, Answered, DeliveryTypes
<1>4. ASSUME NEW e \in WazuhEvents, Refused(e) PROVE Answered'
  BY <1>4, <1>a, <1>c DEF Refused, Answered, Onwards, DeliveryTypes, WazuhEvents
<1>5. ASSUME NEW e \in WazuhEvents, GivesUp(e) PROVE Answered'
  BY <1>5, <1>a, <1>c DEF GivesUp, Answered, Onwards, DeliveryTypes, WazuhEvents
<1>6. ASSUME NEW e \in WazuhEvents, View(e) PROVE Answered'
  <2>1. request[e].pc = "view" /\ UNCHANGED <<event, script, secret>>
    BY <1>6 DEF View
  <2>2. event[e] \in {"attack", "noise"}
    BY <2>1 DEF Answered, DeliveryTypes
  <2>3. CASE Sets(e, [request[e] EXCEPT !.pc = "store"])
    BY <1>c, <2>1, <2>2, <2>3 DEF Sets, Answered, DeliveryTypes
  <2>4. CASE event[e] # "attack" /\ Logged(e, 200)
    <3>1. Settled(e)'
      BY <1>c, <2>2, <2>4 DEF Settled
    <3> QED BY <1>c, <2>1, <2>2, <2>4, <3>1 DEF Logged, Sets, Answered, DeliveryTypes
  <2>5. CASE ~secret /\ Logged(e, 401)
    BY <1>c, <2>1, <2>2, <2>5 DEF Logged, Sets, Answered, DeliveryTypes
  <2> QED BY <1>6, <2>3, <2>4, <2>5, ViewCases
<1>7. ASSUME NEW e \in WazuhEvents, Store(e) PROVE Answered'
  <2>1. request[e].pc = "store" /\ UNCHANGED <<event, script, secret>>
    BY <1>7 DEF Store
  <2>2. Logged(e, 200)
    BY <1>7, StoreCases
  <2>3. Settled(e)'
    <3>1. stored' = stored \cup {e} /\ (queue'[e] # "free" \/ spent'["error"] > 0)
      BY <1>7, StoreCases
    <3> QED BY <3>1 DEF Settled
  <2> QED BY <1>c, <2>1, <2>2, <2>3 DEF Logged, Sets, Answered, DeliveryTypes
<1>8. ASSUME NEW e \in WazuhEvents, ViewRaises(e) PROVE Answered'
  <2>1. request[e].pc \in {"view", "store"} /\ UNCHANGED <<event, script, secret>>
    BY <1>8 DEF ViewRaises
  <2>2. Logged(e, 500)
    BY <1>8, ViewRaisesCases
  <2> QED BY <1>c, <2>1, <2>2 DEF Logged, Sets, Answered, DeliveryTypes
<1>9. ASSUME NEW e \in WazuhEvents, Respond(e) PROVE Answered'
  <2>1. CASE RespondQuietly(e)
    BY <1>a, <1>c, <2>1 DEF RespondQuietly, Over, Sets, Answered, Onwards, DeliveryTypes
  <2>2. ASSUME NEW next \in Echoes, RespondEcho(e, next) PROVE Answered'
    BY <1>a, <1>c, <2>2
       DEF RespondEcho, Over, Sets, Answered, Onwards, DeliveryTypes, WazuhEvents
  <2> QED BY <1>9, <2>1, <2>2, RespondCases
<1>10. ASSUME NEW p \in Processes, ServerStep(p) PROVE Answered'
  <2>1. CASE Breaks(p)
    <3>1. \A x \in WazuhEvents : request[x].pc = "none" => request[x].at # p
      BY SupervisorAssumption DEF Answered, NoProcess
    <3> QED BY <1>c, <2>1, <3>1 DEF Breaks, NoRequest, Answered, DeliveryTypes
  <2>2. CASE UNCHANGED deliveryVars
    BY <1>c, <2>2 DEF deliveryVars, Answered
  <2> QED BY <1>10, <2>1, <2>2, ServerCases
<1>11. CASE UNCHANGED vars
  BY <1>11 DEF vars, supervisorVars, serverVars, deliveryVars, Settled, Answered
<1> QED BY <1>1, <1>2, <1>3, <1>4, <1>5, <1>6, <1>7, <1>8, <1>9, <1>10, <1>11
       DEF Next, Running, Serving

LEMMA SentKept ==
    ASSUME SupervisorTypes, DeliveryTypes, Supervised, Answered, SentIsSettled, [Next]_vars
    PROVE  \A x \in WazuhEvents : script'[x] = "sent" => Settled(x)'
<1>a. \A x \in WazuhEvents : Settled(x) => Settled(x)'
  BY StepsGoOnwards, SupervisorKept, SettledStays DEF SupervisorTypes, Faults
<1>b. \A x \in WazuhEvents : script[x] = "sent" => Settled(x)
  BY DEF SentIsSettled, Settled
<1>1. ASSUME NEW e \in WazuhEvents, Respond(e)
      PROVE  \A x \in WazuhEvents : script'[x] = "sent" => Settled(x)'
  <2>1. request[e].pc = "log" /\ request[e].status = 200 => Settled(e)'
    BY <1>a DEF Answered
  <2>2. CASE RespondQuietly(e)
    BY <1>a, <1>b, <2>1, <2>2 DEF RespondQuietly, Got, DeliveryTypes
  <2>3. ASSUME NEW next \in Echoes, RespondEcho(e, next)
        PROVE  \A x \in WazuhEvents : script'[x] = "sent" => Settled(x)'
    BY <1>a, <1>b, <2>1, <2>3 DEF RespondEcho, Got, DeliveryTypes, WazuhEvents
  <2> QED BY <1>1, <2>2, <2>3, RespondCases
<1>2. ASSUME NEW e \in WazuhEvents, Detect(e) \/ ReadFails(e) \/ Running(e)
      PROVE  \A x \in WazuhEvents : script'[x] = "sent" => script[x] = "sent"
  BY <1>2 DEF Running, Detect, ReadFails, Post, Refused, GivesUp, DeliveryTypes
<1>3. ASSUME NEW e \in WazuhEvents, View(e) \/ Store(e) \/ ViewRaises(e)
      PROVE  script' = script
  BY <1>3 DEF View, Store, ViewRaises
<1>4. ASSUME NEW p \in Processes, ServerStep(p) PROVE script' = script
  BY <1>4, ServerCases DEF Breaks, deliveryVars
<1>5. CASE UNCHANGED vars
  BY <1>5, <1>a, <1>b DEF vars, deliveryVars
<1> QED BY <1>a, <1>b, <1>1, <1>2, <1>3, <1>4, <1>5 DEF Next, Serving

-------------------------------------------------------------------------------
(* The echoes. *)
LEMMA HeardIsFinite == IsFiniteSet(Heard)
  BY DeliveryAssumption, FS_Subset DEF Heard

LEMMA CountsLess ==
    ASSUME Counted, Onwards, spent'["error"] \in Nat, Heard' = Heard, Failing' \subseteq Failing
    PROVE  Counted'
<1>1. IsFiniteSet(Failing') /\ Cardinality(Failing') <= Cardinality(Failing)
  BY FS_Subset DEF Counted
<1>2. Cardinality(Failing') \in Nat /\ Cardinality(Failing) \in Nat /\ Cardinality(Heard) \in Nat
  BY <1>1, HeardIsFinite, FS_CardinalityType DEF Counted
<1> QED BY <1>1, <1>2 DEF Counted, Onwards

LEMMA CountedKept ==
    ASSUME SupervisorTypes, DeliveryTypes, Supervised, Answered, Counted, [Next]_vars
    PROVE  Counted'
<1>a. Onwards
  BY StepsGoOnwards
<1>b. spent'["error"] \in Nat
  BY SupervisorKept DEF SupervisorTypes, Faults
<1>1. ASSUME NEW e \in WazuhEvents, Detect(e) PROVE Counted'
  <2>1. Heard' = Heard /\ Failing' \subseteq Failing
    BY <1>1, DeliveryAssumption DEF Detect, Heard, Failing, DeliveryTypes, WazuhEvents
  <2> QED BY <2>1, <1>a, <1>b, CountsLess
<1>2. ASSUME NEW e \in WazuhEvents, ReadFails(e) PROVE Counted'
  <2>1. Heard' = Heard /\ Failing' \subseteq Failing
    BY <1>2 DEF ReadFails, Heard, Failing
  <2> QED BY <2>1, <1>a, <1>b, CountsLess
<1>3. ASSUME NEW e \in WazuhEvents, Post(e) PROVE Counted'
  <2>1. Heard' = Heard /\ Failing' \subseteq Failing
    BY <1>3, PostCases DEF Post, Sets, Heard, Failing
  <2> QED BY <2>1, <1>a, <1>b, CountsLess
<1>4. ASSUME NEW e \in WazuhEvents, Refused(e) PROVE Counted'
  <2>1. Heard' = Heard /\ Failing' \subseteq Failing
    BY <1>4 DEF Refused, Heard, Failing
  <2> QED BY <2>1, <1>a, <1>b, CountsLess
<1>5. ASSUME NEW e \in WazuhEvents, GivesUp(e) PROVE Counted'
  <2>1. Heard' = Heard /\ Failing' \subseteq Failing
    BY <1>5 DEF GivesUp, Heard, Failing
  <2> QED BY <2>1, <1>a, <1>b, CountsLess
<1>6. ASSUME NEW e \in WazuhEvents, View(e) PROVE Counted'
  <2>1. Heard' = Heard /\ Failing' \subseteq Failing
    <3>1. request[e].pc = "view" /\ event' = event
      BY <1>6 DEF View
    <3>2. \/ Sets(e, [request[e] EXCEPT !.pc = "store"])
          \/ Logged(e, 200) \/ Logged(e, 401)
      BY <1>6, ViewCases
    <3> QED BY <3>1, <3>2 DEF Logged, Sets, Heard, Failing, DeliveryTypes
  <2> QED BY <2>1, <1>a, <1>b, CountsLess
<1>7. ASSUME NEW e \in WazuhEvents, Store(e) PROVE Counted'
  <2>1. Heard' = Heard /\ Failing' \subseteq Failing
    <3>1. event' = event /\ Logged(e, 200)
      BY <1>7, StoreCases DEF Store
    <3> QED BY <3>1 DEF Logged, Sets, Heard, Failing
  <2> QED BY <2>1, <1>a, <1>b, CountsLess
<1>8. ASSUME NEW e \in WazuhEvents, ViewRaises(e) PROVE Counted'
  <2>1. event' = event /\ request[e].pc # "log" /\ Logged(e, 500)
    BY <1>8, ViewRaisesCases DEF ViewRaises
  <2>2. spent'["error"] = spent["error"] + 1
    BY <1>8, ViewRaisesCases
  <2>3. Heard' = Heard /\ Failing' = Failing \cup {e} /\ e \notin Failing
    BY <2>1 DEF Logged, Sets, Heard, Failing
  <2>4. IsFiniteSet(Failing') /\ Cardinality(Failing') = Cardinality(Failing) + 1
    BY <2>3, FS_AddElement DEF Counted
  <2>5. Cardinality(Failing) \in Nat /\ Cardinality(Heard) \in Nat
    BY HeardIsFinite, FS_CardinalityType DEF Counted
  <2> QED BY <1>a, <2>2, <2>3, <2>4, <2>5 DEF Counted, Onwards
<1>9. ASSUME NEW e \in WazuhEvents, Respond(e) PROVE Counted'
  <2>1. CASE RespondQuietly(e)
    <3>1. Heard' = Heard /\ Failing' \subseteq Failing
      BY <2>1 DEF RespondQuietly, Over, Sets, Heard, Failing
    <3> QED BY <3>1, <1>a, <1>b, CountsLess
  <2>2. ASSUME NEW next \in Echoes, RespondEcho(e, next) PROVE Counted'
    <3>1. Heard' = Heard \cup {next} /\ next \notin Heard
      BY <2>2 DEF RespondEcho, Heard, DeliveryTypes, WazuhEvents
    <3>2. Failing' = Failing \ {e}
      BY <2>2 DEF RespondEcho, Over, Sets, Failing
    <3>3. IsFiniteSet(Failing')
      BY <3>2, FS_RemoveElement DEF Counted
    <3>4. CASE secret
      <4>1. e \in Failing
        BY <2>2, <3>4 DEF RespondEcho, Answered, Failing
      <4>2. Cardinality(Failing') = Cardinality(Failing) - 1
        BY <3>2, <4>1, FS_RemoveElement DEF Counted
      <4>3. Cardinality(Heard') = Cardinality(Heard) + 1
        BY <3>1, HeardIsFinite, FS_AddElement
      <4>4. Cardinality(Failing) \in Nat /\ Cardinality(Heard) \in Nat
        BY HeardIsFinite, FS_CardinalityType DEF Counted
      <4> QED BY <1>a, <1>b, <3>3, <3>4, <4>2, <4>3, <4>4 DEF Counted, Onwards
    <3>5. CASE ~secret
      BY <1>a, <3>3, <3>5 DEF Counted, Onwards
    <3> QED BY <3>4, <3>5
  <2> QED BY <1>9, <2>1, <2>2, RespondCases
<1>10. ASSUME NEW p \in Processes, ServerStep(p) PROVE Counted'
  <2>1. Heard' = Heard /\ Failing' \subseteq Failing
    <3>1. CASE Breaks(p)
      BY <3>1 DEF Breaks, NoRequest, Heard, Failing, DeliveryTypes
    <3>2. CASE UNCHANGED deliveryVars
      BY <3>2 DEF deliveryVars, Heard, Failing
    <3> QED BY <1>10, <3>1, <3>2, ServerCases
  <2> QED BY <2>1, <1>a, <1>b, CountsLess
<1>11. CASE UNCHANGED vars
  <2>1. Heard' = Heard /\ Failing' \subseteq Failing
    BY <1>11 DEF vars, deliveryVars, Heard, Failing
  <2> QED BY <2>1, <1>a, <1>b, CountsLess
<1> QED BY <1>1, <1>2, <1>3, <1>4, <1>5, <1>6, <1>7, <1>8, <1>9, <1>10, <1>11
       DEF Next, Running, Serving

-------------------------------------------------------------------------------
THEOREM DeliveryInvariant == Spec => []DeliveryInv
<1>1. DeliveryInv /\ [Next]_vars => DeliveryInv'
  <2> SUFFICES ASSUME DeliveryInv, [Next]_vars PROVE DeliveryInv'
    OBVIOUS
  <2>1. SupervisorTypes /\ DeliveryTypes /\ Supervised /\ Answered /\ SentIsSettled /\ Counted
    BY TypesSplit DEF DeliveryInv
  <2>2. SupervisorTypes' /\ Supervised' /\ DeliveryTypes'
    BY <2>1, SupervisorKept, DeliveryKeepsTypes
  <2>3. Answered' /\ Counted'
    BY <2>1, AnsweredKept, CountedKept
  <2>4. \A x \in WazuhEvents : script'[x] = "sent" => Settled(x)'
    BY <2>1, SentKept
  <2>5. SentIsSettled'
    BY <2>4 DEF SentIsSettled, Settled
  <2>6. TypeOK'
    BY <2>2 DEF TypeOK, SupervisorTypes, DeliveryTypes
  <2> QED BY <2>2, <2>3, <2>5, <2>6 DEF DeliveryInv
<1> QED BY <1>1, DeliveryInit, PTL DEF Spec

(* Every reachable state of the deployment, the scripts and the requests is
   well typed. *)
THEOREM DeliveryTypeCorrect == Spec => []TypeOK
<1>1. DeliveryInv => TypeOK
  BY DEF DeliveryInv
<1> QED BY <1>1, DeliveryInvariant, PTL

(* However many threads call start(), in however many processes, the flag under
   the lock leaves at most one worker loop in each. *)
THEOREM OneLoopAlways == Spec => []OneLoopPerProcess
<1>1. DeliveryInv => OneLoopPerProcess
  BY DEF DeliveryInv, Supervised
<1> QED BY <1>1, DeliveryInvariant, PTL

(* A process that is up and should run a worker does, however it was launched,
   unless a thread could not be started. *)
THEOREM WantedAlwaysHasWorker == Spec => []WantedHasWorker
<1>1. ASSUME DeliveryInv PROVE WantedHasWorker
  <2>1. \A l \in Launch : Wanted(l) => ~Skips(l)
    BY DEF Launch, Wanted, Serves, Skips, Autoreload
  <2>2. \A p \in Processes : launch[p] \in Launch
    BY <1>1, SupervisorAssumption DEF DeliveryInv, TypeOK
  <2> QED BY <1>1, <2>1, <2>2 DEF DeliveryInv, Supervised, Flagging, WantedHasWorker
<1> QED BY <1>1, DeliveryInvariant, PTL

(* What the script calls sent has been dealt with, whatever broke meanwhile. *)
THEOREM SentStaysSettled == Spec => []SentIsSettled
<1>1. DeliveryInv => SentIsSettled
  BY DEF DeliveryInv
<1> QED BY <1>1, DeliveryInvariant, PTL

(* For any number of events and echoes the system does not feed itself: with the
   right secret there are no more echoes than errors. *)
THEOREM EchoesStayBounded == Spec => []EchoesAreBounded
<1>1. ASSUME DeliveryInv PROVE EchoesAreBounded
  <2>1. Cardinality(Heard) \in Nat /\ Cardinality(Failing) \in Nat /\ spent["error"] \in Nat
    BY <1>1, HeardIsFinite, FS_CardinalityType DEF DeliveryInv, Counted, TypeOK, Faults
  <2>2. secret => Cardinality(Heard) + Cardinality(Failing) <= spent["error"]
    BY <1>1 DEF DeliveryInv, Counted
  <2> QED BY <2>1, <2>2 DEF EchoesAreBounded, Heard
<1> QED BY <1>1, DeliveryInvariant, PTL
===============================================================================
