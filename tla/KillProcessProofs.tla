--------------------------- MODULE KillProcessProofs ---------------------------
(* What the process killer guarantees for any number of workers, pids and uses. *)
EXTENDS KillProcess, TLAPS

LEMMA KillInitTypes == Init => TypeOK
<1> SUFFICES ASSUME Init PROVE TypeOK
  OBVIOUS
<1>1. Resting \in Worker /\ Holds(Resting)
  BY DEF Resting, Worker, Holds, Opened, NoPid, Process
<1>2. table \in [Pids -> [use : Nat \ {0}, name : Names \cup {NoName}]]
  BY KillAssumption DEF Init
<1>3. bare \subseteq Process /\ signalled \subseteq Process /\ spent \in [Events -> Nat]
  BY DEF Init, Process
<1> QED BY <1>1, <1>2, <1>3 DEF Init, TypeOK

(* A step of the handler writes its worker's record and perhaps sends a signal. *)
LEMMA OneWorker ==
    ASSUME TypeOK, NEW w \in Workers, NEW x \in Worker, Holds(x),
           wrk' = [wrk EXCEPT ![w] = x], signalled' \subseteq Process,
           UNCHANGED <<table, bare>>, spent' \in [Events -> Nat]
    PROVE  TypeOK'
  BY DEF TypeOK

(* Every outcome of a step is a worker's record. *)
LEMMA FailedTypes ==
    ASSUME TypeOK, NEW w \in Workers, NEW p \in Pids
    PROVE  Failed(w, p) \in Worker /\ Holds(Failed(w, p))
<1>1. wrk[w] \in Worker
  BY DEF TypeOK
<1>2. Failed(w, p) \in Worker
  BY <1>1 DEF Failed, Worker, NoPid
<1>3. Failed(w, p).pc = "next"
  BY <1>1 DEF Failed, Worker
<1> QED BY <1>2, <1>3 DEF Holds, Opened

LEMMA AtTypes ==
    ASSUME TypeOK, NEW w \in Workers, NEW pc \in Opened, wrk[w].pc \in Opened
    PROVE  At(w, pc) \in Worker /\ Holds(At(w, pc))
<1>1. wrk[w] \in Worker /\ wrk[w].pid \in Pids /\ wrk[w].use # 0
  BY DEF TypeOK, Holds
<1>2. At(w, pc) \in Worker
  BY <1>1 DEF At, Worker
<1>3. At(w, pc).pid = wrk[w].pid /\ At(w, pc).use = wrk[w].use /\ At(w, pc).pc = pc
  BY <1>1 DEF At, Worker
<1>4. pc # "measure"
  BY DEF Opened
<1> QED BY <1>1, <1>2, <1>3, <1>4 DEF Holds

LEMMA KillTypes == TypeOK /\ [Next]_vars => TypeOK'
<1> SUFFICES ASSUME TypeOK, [Next]_vars PROVE TypeOK'
  OBVIOUS
<1>0. /\ \A w \in Workers : wrk[w] \in Worker /\ Holds(wrk[w])
      /\ signalled \subseteq Process /\ spent \in [Events -> Nat]
  BY DEF TypeOK
<1>1. ASSUME NEW p \in Pids, Exit(p) PROVE TypeOK'
  BY <1>1, KillAssumption DEF Exit, TypeOK
<1>2. ASSUME NEW p \in Pids, NEW name \in Names, Spawn(p, name) PROVE TypeOK'
  <2>1. /\ table' = [table EXCEPT ![p] = [use |-> table[p].use + 1, name |-> name]]
        /\ bare' = bare \cup Bare(p, name) /\ UNCHANGED <<wrk, signalled, spent>>
    BY <1>2 DEF Spawn
  <2>2. table' \in [Pids -> [use : Nat \ {0}, name : Names \cup {NoName}]]
    BY <2>1 DEF TypeOK
  <2>3. Bare(p, name) \subseteq Process
    BY <2>2 DEF Bare, Process
  <2> QED BY <2>1, <2>2, <2>3 DEF TypeOK
<1>3. ASSUME NEW p \in Pids, NEW name \in Names, Exec(p, name) PROVE TypeOK'
  <2>1. /\ table' = [table EXCEPT ![p].name = name]
        /\ bare' = bare \cup Bare(p, name) /\ UNCHANGED <<wrk, signalled>>
    BY <1>3 DEF Exec
  <2>2. table' \in [Pids -> [use : Nat \ {0}, name : Names \cup {NoName}]]
    BY <2>1 DEF TypeOK
  <2>3. Bare(p, name) \subseteq Process
    BY <2>2 DEF Bare, Process
  <2>4. spent' \in [Events -> Nat]
    BY <1>3, <1>0 DEF Exec, Spend, Events
  <2> QED BY <2>1, <2>2, <2>3, <2>4 DEF TypeOK
<1>4. ASSUME NEW w \in Workers, Start(w) PROVE TypeOK'
  <2> DEFINE x == [Resting EXCEPT !.pc = "scan", !.left = {p \in Pids : Present(p)}]
  <2>1. x \in Worker /\ Holds(x)
    BY DEF Resting, Worker, Holds, Opened, NoPid, Process
  <2>2. spent' \in [Events -> Nat]
    BY <1>4, <1>0 DEF Start, Spend, Events
  <2> HIDE DEF x
  <2>3. /\ wrk' = [wrk EXCEPT ![w] = x] /\ UNCHANGED <<table, bare, signalled>>
    BY <1>4 DEF Start, x
  <2> QED BY <2>1, <2>2, <2>3, <1>0, OneWorker
<1>5. ASSUME NEW w \in Workers, Look(w) PROVE TypeOK'
  <2>1. PICK p \in Pids :
          wrk' = [wrk EXCEPT ![w] =
                   IF \/ ~Present(p) \/ p \in ProtectedPids
                      \/ table[p].name \in ProtectedNames
                   THEN [wrk[w] EXCEPT !.left = wrk[w].left \ {p}]
                   ELSE [wrk[w] EXCEPT !.left = wrk[w].left \ {p}, !.pc = "measure",
                                       !.pid = p]]
    <3>1. First(wrk[w].left) \subseteq Pids
      BY <1>0 DEF First, Worker
    <3> QED BY <1>5, <3>1 DEF Look
  <2>2. PICK x : x = [wrk[w] EXCEPT !.left = wrk[w].left \ {p}]
    OBVIOUS
  <2>3. PICK y : y = [wrk[w] EXCEPT !.left = wrk[w].left \ {p}, !.pc = "measure",
                                    !.pid = p]
    OBVIOUS
  <2>4. x \in Worker /\ Holds(x)
    BY <1>0, <2>2, <1>5 DEF Look, Worker, Holds, Opened
  <2>5. y \in Worker /\ Holds(y)
    BY <1>0, <2>3 DEF Worker, Holds, Opened
  <2>6. UNCHANGED <<table, bare, signalled, spent>>
    BY <1>5 DEF Look
  <2>7. wrk' = [wrk EXCEPT ![w] = x] \/ wrk' = [wrk EXCEPT ![w] = y]
    BY <2>1, <2>2, <2>3
  <2> QED BY <2>4, <2>5, <2>6, <2>7, <1>0, OneWorker
<1>6. ASSUME NEW w \in Workers, Measure(w) PROVE TypeOK'
  <2>1. wrk[w].pid \in Pids
    BY <1>0, <1>6 DEF Measure, Holds
  <2>2. PICK busy \in BOOLEAN :
          wrk' = [wrk EXCEPT ![w] = [wrk[w] EXCEPT !.pc = "scan", !.pid = NoPid,
                   !.listed = IF busy THEN wrk[w].listed \cup {wrk[w].pid}
                                      ELSE wrk[w].listed]]
    BY <1>6 DEF Measure
  <2> DEFINE x == [wrk[w] EXCEPT !.pc = "scan", !.pid = NoPid,
                   !.listed = IF busy THEN wrk[w].listed \cup {wrk[w].pid}
                                      ELSE wrk[w].listed]
  <2>3. x \in Worker /\ Holds(x)
    BY <1>0, <2>1 DEF Worker, Holds, Opened, NoPid
  <2> HIDE DEF x
  <2>4. wrk' = [wrk EXCEPT ![w] = x] /\ UNCHANGED <<table, bare, signalled, spent>>
    BY <2>2, <1>6 DEF Measure, x
  <2> QED BY <2>3, <2>4, <1>0, OneWorker
<1>7. ASSUME NEW w \in Workers, Suspects(w) PROVE TypeOK'
  <2>1. PICK pc \in {"idle", "next"} :
          wrk' = [wrk EXCEPT ![w] = [wrk[w] EXCEPT !.pc = pc, !.left = wrk[w].listed]]
    BY <1>7 DEF Suspects
  <2>2. PICK x : x = [wrk[w] EXCEPT !.pc = pc, !.left = wrk[w].listed]
    OBVIOUS
  <2>3. x \in Worker /\ Holds(x)
    BY <1>0, <2>2 DEF Worker, Holds, Opened
  <2>4. UNCHANGED <<table, bare, signalled, spent>>
    BY <1>7 DEF Suspects
  <2> QED BY <2>1, <2>2, <2>3, <2>4, <1>0, OneWorker
<1>8. ASSUME NEW w \in Workers, Open(w) PROVE TypeOK'
  <2>1. PICK p \in Pids :
          wrk' = [wrk EXCEPT ![w] =
                   IF p \in ProtectedPids \/ ~Present(p) THEN Failed(w, p)
                   ELSE [wrk[w] EXCEPT !.pc = "check", !.pid = p,
                           !.left = wrk[w].left \ {p}, !.use = table[p].use]]
    <3>1. First(wrk[w].left) \subseteq Pids
      BY <1>0 DEF First, Worker
    <3> QED BY <1>8, <3>1 DEF Open
  <2>2. table[p].use \in Nat \ {0}
    BY DEF TypeOK
  <2>3. PICK x : x = [wrk[w] EXCEPT !.pc = "check", !.pid = p,
                        !.left = wrk[w].left \ {p}, !.use = table[p].use]
    OBVIOUS
  <2>4. x \in Worker /\ Holds(x)
    BY <1>0, <2>2, <2>3 DEF Worker, Holds, Opened
  <2>5. UNCHANGED <<table, bare, signalled, spent>>
    BY <1>8 DEF Open
  <2>6. CASE p \in ProtectedPids \/ ~Present(p)
    BY <2>1, <2>5, <2>6, <1>0, FailedTypes, OneWorker
  <2>7. CASE ~(p \in ProtectedPids \/ ~Present(p))
    BY <2>1, <2>3, <2>4, <2>5, <2>7, <1>0, OneWorker
  <2> QED BY <2>6, <2>7
<1>9. ASSUME NEW w \in Workers, CheckName(w) \/ Refused(w) PROVE TypeOK'
  <2>1. wrk[w].pc \in Opened /\ "terminate" \in Opened
    BY <1>9 DEF CheckName, Refused, Opened
  <2>2. wrk[w].pid \in Pids
    BY <2>1, <1>0 DEF Holds
  <2>3. PICK x \in {Failed(w, wrk[w].pid), At(w, "terminate")} :
          wrk' = [wrk EXCEPT ![w] = x] /\ UNCHANGED <<table, bare, signalled, spent>>
    BY <1>9 DEF CheckName, Refused
  <2> QED BY <2>1, <2>2, <2>3, <1>0, FailedTypes, AtTypes, OneWorker
<1>10. ASSUME NEW w \in Workers, Signal(w) PROVE TypeOK'
  <2>1. wrk[w].pc \in Opened /\ "wait" \in Opened /\ "rewait" \in Opened
    BY <1>10 DEF Signal, Opened
  <2>2. wrk[w].pid \in Pids /\ InHand(w) \in Process
    BY <2>1, <1>0 DEF Holds, InHand, Process, Worker
  <2>3. PICK x \in {Failed(w, wrk[w].pid), At(w, "wait"), At(w, "rewait")} :
          wrk' = [wrk EXCEPT ![w] = x]
    BY <1>10 DEF Signal
  <2>4. signalled' \subseteq Process /\ UNCHANGED <<table, bare, spent>>
    BY <1>10, <1>0, <2>2 DEF Signal
  <2> QED BY <2>1, <2>2, <2>3, <2>4, <1>0, FailedTypes, AtTypes, OneWorker
<1>11. ASSUME NEW w \in Workers, Wait(w) PROVE TypeOK'
  <2>1. wrk[w].pc \in Opened /\ "kill" \in Opened
    BY <1>11 DEF Wait, Opened
  <2>2. wrk[w].pid \in Pids
    BY <2>1, <1>0 DEF Holds
  <2>3. PICK y : y = [wrk[w] EXCEPT !.pc = "report",
                                    !.logged = wrk[w].logged \cup {wrk[w].pid}]
    OBVIOUS
  <2>4. y \in Worker /\ Holds(y)
    BY <1>0, <2>1, <2>2, <2>3 DEF Worker, Holds, Opened
  <2>5. PICK x \in {Failed(w, wrk[w].pid), At(w, "kill"), y} :
          wrk' = [wrk EXCEPT ![w] = x]
    BY <1>11, <2>3 DEF Wait, Died
  <2>6. UNCHANGED <<table, bare, signalled, spent>>
    BY <1>11 DEF Wait
  <2> QED BY <2>1, <2>2, <2>4, <2>5, <2>6, <1>0, FailedTypes, AtTypes, OneWorker
<1>12. ASSUME NEW w \in Workers, Report(w) PROVE TypeOK'
  <2>1. wrk[w].pid \in Pids /\ InHand(w) \in Process
    BY <1>12, <1>0 DEF Report, Holds, Opened, InHand, Process, Worker
  <2>2. PICK y : y = [wrk[w] EXCEPT !.pc = "next", !.pid = NoPid, !.use = 0,
                                    !.killed = wrk[w].killed \cup {InHand(w)}]
    OBVIOUS
  <2>3. y \in Worker /\ Holds(y)
    BY <1>0, <2>1, <2>2 DEF Worker, Holds, Opened, NoPid
  <2>4. PICK x \in {Failed(w, wrk[w].pid), y} : wrk' = [wrk EXCEPT ![w] = x]
    BY <1>12, <2>2 DEF Report
  <2>5. UNCHANGED <<table, bare, signalled, spent>>
    BY <1>12 DEF Report
  <2> QED BY <2>1, <2>3, <2>4, <2>5, <1>0, FailedTypes, OneWorker
<1>13. ASSUME NEW w \in Workers, Return(w) PROVE TypeOK'
  <2>1. At(w, "idle") \in Worker /\ Holds(At(w, "idle"))
    BY <1>0 DEF At, Worker, Holds, Opened
  <2>2. wrk' = [wrk EXCEPT ![w] = At(w, "idle")] /\ UNCHANGED <<table, bare, signalled, spent>>
    BY <1>13 DEF Return
  <2> QED BY <2>1, <2>2, <1>0, OneWorker
<1>14. CASE UNCHANGED vars
  BY <1>14 DEF vars, TypeOK
<1> QED BY <1>1, <1>2, <1>3, <1>4, <1>5, <1>6, <1>7, <1>8, <1>9, <1>10, <1>11,
           <1>12, <1>13, <1>14 DEF Next, Step

-------------------------------------------------------------------------------
(* A pid is never given back to a process that has left it. *)

Past(process) == process[2] <= table[process[1]].use
Dead(process) == Past(process) /\ ~Alive(process)

\* Whoever runs under an unprotected name is known to have borne one.
NamesKnown ==
    \A p \in Pids : Present(p) /\ table[p].name \notin ProtectedNames
                      => Current(p) \in bare

Checked == {"terminate", "wait", "kill", "rewait", "report"}
Sent == {"wait", "kill", "rewait", "report"}

(* What a worker knows of the process in hand: its pid is not protected; once
   the name was checked it bore an unprotected one, or is dead and the check saw
   its successor; after a signal it was signalled; before the report it is dead. *)
Holding(w) ==
    /\ wrk[w].pc \in Opened => wrk[w].pid \notin ProtectedPids /\ Past(InHand(w))
    /\ wrk[w].pc \in Checked => InHand(w) \in bare \/ Dead(InHand(w))
    /\ wrk[w].pc \in Sent => InHand(w) \in signalled
    /\ wrk[w].pc = "report" => Dead(InHand(w))
    /\ \A process \in wrk[w].killed : process \in signalled /\ Dead(process)

KillInv ==
    /\ TypeOK
    /\ NamesKnown
    /\ \A w \in Workers : Holding(w)
    /\ ProtectedAreSpared

LEMMA KillInit == Init => KillInv
<1> SUFFICES ASSUME Init PROVE KillInv
  OBVIOUS
<1>1. TypeOK
  BY KillInitTypes
<1>2. NamesKnown
  BY KillAssumption DEF Init, NamesKnown, Present, Current
<1>3. ASSUME NEW w \in Workers PROVE Holding(w)
  BY DEF Init, Holding, Resting, Opened, Checked, Sent
<1>4. ProtectedAreSpared
  BY DEF Init, ProtectedAreSpared
<1> QED BY <1>1, <1>2, <1>3, <1>4 DEF KillInv

\* The host's steps: pids are reused, never resurrected.
Host == \E p \in Pids : Exit(p) \/ \E name \in Names : Spawn(p, name) \/ Exec(p, name)

LEMMA HostSteps ==
    TypeOK /\ NamesKnown /\ Host =>
      /\ UNCHANGED <<wrk, signalled>> /\ bare \subseteq bare' /\ NamesKnown'
      /\ \A process \in Process : Past(process) => Past(process)'
      /\ \A process \in Process : Dead(process) => Dead(process)'
<1> SUFFICES ASSUME TypeOK, NamesKnown,
                    NEW p \in Pids,
                    Exit(p) \/ \E name \in Names : Spawn(p, name) \/ Exec(p, name)
             PROVE  /\ UNCHANGED <<wrk, signalled>> /\ bare \subseteq bare' /\ NamesKnown'
                    /\ \A process \in Process : Past(process) => Past(process)'
                    /\ \A process \in Process : Dead(process) => Dead(process)'
  BY DEF Host
<1> USE KillAssumption DEF TypeOK, Process, Past, Dead, Alive, Present, Current, NamesKnown
<1>1. CASE Exit(p)
  BY <1>1 DEF Exit
<1>2. ASSUME NEW name \in Names, Spawn(p, name)
      PROVE  /\ UNCHANGED <<wrk, signalled>> /\ bare \subseteq bare' /\ NamesKnown'
             /\ \A process \in Process : Past(process) => Past(process)'
             /\ \A process \in Process : Dead(process) => Dead(process)'
  <2>1. /\ ~Present(p) /\ UNCHANGED <<wrk, signalled>> /\ bare' = bare \cup Bare(p, name)
        /\ table' = [table EXCEPT ![p] = [use |-> table[p].use + 1, name |-> name]]
    BY <1>2 DEF Spawn
  <2>2. NamesKnown'
    BY <2>1 DEF Bare
  <2>3. \A process \in Process : Past(process) => Past(process)'
    BY <2>1
  <2>4. \A process \in Process : Dead(process) => Dead(process)'
    BY <2>1
  <2> QED BY <2>1, <2>2, <2>3, <2>4
<1>3. ASSUME NEW name \in Names, Exec(p, name)
      PROVE  /\ UNCHANGED <<wrk, signalled>> /\ bare \subseteq bare' /\ NamesKnown'
             /\ \A process \in Process : Past(process) => Past(process)'
             /\ \A process \in Process : Dead(process) => Dead(process)'
  <2>1. /\ Present(p) /\ UNCHANGED <<wrk, signalled>> /\ bare' = bare \cup Bare(p, name)
        /\ table' = [table EXCEPT ![p].name = name]
    BY <1>3 DEF Exec
  <2>2. NamesKnown'
    BY <2>1 DEF Bare
  <2>3. \A process \in Process : Past(process) => Past(process)'
    BY <2>1
  <2>4. \A process \in Process : Dead(process) => Dead(process)'
    BY <2>1
  <2> QED BY <2>1, <2>2, <2>3, <2>4
<1> QED BY <1>1, <1>2, <1>3

LEMMA HostKeeps == KillInv /\ Host => KillInv'
<1> SUFFICES ASSUME KillInv, Host PROVE KillInv'
  OBVIOUS
<1>1. TypeOK'
  BY KillTypes DEF KillInv, Host, Next
<1>2. /\ UNCHANGED <<wrk, signalled>> /\ bare \subseteq bare' /\ NamesKnown'
      /\ \A process \in Process : Past(process) => Past(process)'
      /\ \A process \in Process : Dead(process) => Dead(process)'
  BY HostSteps DEF KillInv
<1>3. ASSUME NEW w \in Workers PROVE Holding(w)'
  <2>1. /\ Holding(w) /\ wrk[w].killed \subseteq Process
        /\ wrk[w].pc \in Opened => InHand(w) \in Process
    BY DEF KillInv, TypeOK, Process, InHand, Worker, Holds
  <2>2. wrk'[w] = wrk[w] /\ InHand(w)' = InHand(w)
    BY <1>2 DEF InHand
  <2>3. wrk[w].pc \in Checked \cup Sent => wrk[w].pc \in Opened
    BY DEF Checked, Sent, Opened
  <2>4. (wrk[w].pc = "report" => wrk[w].pc \in Opened)
    BY DEF Opened
  <2>5. wrk[w].pc \in Opened => Past(InHand(w))'
    BY <2>1, <1>2, <2>2 DEF Holding
  <2>6. wrk[w].pc \in Checked => InHand(w) \in bare' \/ Dead(InHand(w))'
    BY <2>1, <2>2, <2>3, <1>2 DEF Holding
  <2>7. wrk[w].pc = "report" => Dead(InHand(w))'
    BY <2>1, <2>2, <2>4, <1>2 DEF Holding
  <2>8. \A process \in wrk[w].killed : process \in signalled' /\ Dead(process)'
    BY <2>1, <1>2 DEF Holding
  <2> QED BY <2>1, <2>2, <2>5, <2>6, <2>7, <2>8, <1>2 DEF Holding
<1>4. ProtectedAreSpared'
  BY <1>2 DEF KillInv, ProtectedAreSpared
<1> QED BY <1>1, <1>2, <1>3, <1>4 DEF KillInv

-------------------------------------------------------------------------------
(* The handler's steps.  The table stays, so only the worker that moves and the
   signal it sends matter. *)

Handler(w) == Start(w) \/ Step(w)

LEMMA OthersKeep ==
    ASSUME KillInv, NEW w \in Workers, NEW x,
           wrk' = [wrk EXCEPT ![w] = x], UNCHANGED <<table, bare>>,
           signalled \subseteq signalled',
           Holding(w)'
    PROVE  NamesKnown' /\ \A v \in Workers : Holding(v)'
<1>1. NamesKnown'
  BY DEF KillInv, NamesKnown, Present, Current
<1>2. ASSUME NEW v \in Workers, v # w PROVE Holding(v)'
  <2>1. Holding(v) /\ wrk'[v] = wrk[v]
    BY <1>2 DEF KillInv, TypeOK
  <2> QED BY <2>1 DEF Holding, InHand, Past, Dead, Alive, Present, Current
<1> QED BY <1>1, <1>2

\* A process that is alive under an unprotected name, or dead, once it was checked.
LEMMA CheckedProcess ==
    ASSUME KillInv, NEW process \in Process, Past(process), Present(process[1]),
           table[process[1]].name \notin ProtectedNames
    PROVE  process \in bare \/ Dead(process)
  BY DEF KillInv, NamesKnown, Process, Dead, Alive, Current

LEMMA HandlerKeeps ==
    ASSUME KillInv, NEW w \in Workers, Handler(w)
    PROVE  (\A v \in Workers : Holding(v)') /\ NamesKnown' /\ ProtectedAreSpared'
<1>0. /\ wrk[w] \in Worker /\ Holds(wrk[w]) /\ Holding(w) /\ wrk[w].killed \subseteq Process
      /\ \A q \in Pids : table[q].use \in Nat
  BY DEF KillInv, TypeOK, Worker
<1>1. ASSUME NEW x \in Worker, wrk' = [wrk EXCEPT ![w] = x],
             UNCHANGED <<table, bare, signalled>>,
             x.killed = wrk[w].killed, x.pc \notin Opened
      PROVE  (\A v \in Workers : Holding(v)') /\ NamesKnown' /\ ProtectedAreSpared'
  <2>1. wrk'[w] = x
    BY <1>1 DEF KillInv, TypeOK
  <2>2. x.pc \notin Checked /\ x.pc \notin Sent /\ x.pc # "report"
    BY <1>1 DEF Opened, Checked, Sent
  <2>3. Holding(w)'
    BY <1>0, <1>1, <2>1, <2>2 DEF Holding, Past, Dead, Alive, Present, Current
  <2>4. ProtectedAreSpared'
    BY <1>1 DEF KillInv, ProtectedAreSpared
  <2> QED BY <2>3, <2>4, <1>1, OthersKeep
<1>2. ASSUME NEW p \in Pids, wrk' = [wrk EXCEPT ![w] = Failed(w, p)],
             UNCHANGED <<table, bare, signalled>>
      PROVE  (\A v \in Workers : Holding(v)') /\ NamesKnown' /\ ProtectedAreSpared'
  <2>1. Failed(w, p) \in Worker
    BY FailedTypes DEF KillInv
  <2>2. Failed(w, p).killed = wrk[w].killed /\ Failed(w, p).pc \notin Opened
    BY <1>0 DEF Failed, Worker, Opened
  <2> QED BY <2>1, <2>2, <1>1, <1>2
<1>3. CASE Start(w)
  <2>1. PICK x : x = [Resting EXCEPT !.pc = "scan", !.left = {p \in Pids : Present(p)}]
    OBVIOUS
  <2>2. x.killed = {} /\ x.pc = "scan"
    BY <2>1 DEF Resting
  <2>3. wrk' = [wrk EXCEPT ![w] = x] /\ UNCHANGED <<table, bare, signalled>>
    BY <1>3, <2>1 DEF Start
  <2>4. wrk'[w] = x
    BY <2>3 DEF KillInv, TypeOK
  <2>5. Holding(w)'
    BY <2>2, <2>4 DEF Holding, Opened, Checked, Sent
  <2>6. ProtectedAreSpared'
    BY <2>3 DEF KillInv, ProtectedAreSpared
  <2> QED BY <2>3, <2>5, <2>6, OthersKeep
<1>4. CASE Look(w) \/ Measure(w) \/ Suspects(w) \/ Return(w)
  <2>1. PICK x \in Worker : wrk' = [wrk EXCEPT ![w] = x] /\ x.killed = wrk[w].killed
                            /\ x.pc \notin Opened
    <3> TypeOK'
      BY <1>4, KillTypes DEF KillInv, Next, Step
    <3>1. wrk'[w] \in Worker /\ wrk' = [wrk EXCEPT ![w] = wrk'[w]]
      BY <1>4 DEF KillInv, TypeOK, Look, Measure, Suspects, Return
    <3>2. wrk'[w].killed = wrk[w].killed /\ wrk'[w].pc \notin Opened
      <4>1. CASE Look(w)
        BY <4>1, <1>0 DEF KillInv, TypeOK, Look, Worker, Opened
      <4>2. CASE Measure(w)
        BY <4>2, <1>0 DEF KillInv, TypeOK, Measure, Worker, Opened
      <4>3. CASE Suspects(w)
        BY <4>3, <1>0 DEF KillInv, TypeOK, Suspects, Worker, Opened
      <4>4. CASE Return(w)
        BY <4>4, <1>0 DEF KillInv, TypeOK, Return, At, Worker, Opened
      <4> QED BY <4>1, <4>2, <4>3, <4>4, <1>4
    <3> QED BY <3>1, <3>2
  <2>2. UNCHANGED <<table, bare, signalled>>
    BY <1>4 DEF Look, Measure, Suspects, Return
  <2> QED BY <2>1, <2>2, <1>1
<1>5. CASE Open(w)
  <2>1. PICK p \in Pids :
          wrk' = [wrk EXCEPT ![w] =
                   IF p \in ProtectedPids \/ ~Present(p) THEN Failed(w, p)
                   ELSE [wrk[w] EXCEPT !.pc = "check", !.pid = p,
                           !.left = wrk[w].left \ {p}, !.use = table[p].use]]
    <3>1. First(wrk[w].left) \subseteq Pids
      BY <1>0 DEF First, Worker
    <3> QED BY <1>5, <3>1 DEF Open
  <2>2. UNCHANGED <<table, bare, signalled>>
    BY <1>5 DEF Open
  <2>3. CASE p \in ProtectedPids \/ ~Present(p)
    BY <2>1, <2>2, <2>3, <1>2
  <2>4. CASE ~(p \in ProtectedPids \/ ~Present(p))
    <3>1. PICK x : x = [wrk[w] EXCEPT !.pc = "check", !.pid = p,
                          !.left = wrk[w].left \ {p}, !.use = table[p].use]
      OBVIOUS
    <3>2. wrk' = [wrk EXCEPT ![w] = x] /\ wrk'[w] = x
      BY <2>1, <2>4, <3>1 DEF KillInv, TypeOK
    <3>3. x.pc = "check" /\ x.pid = p /\ x.use = table[p].use /\ x.killed = wrk[w].killed
      BY <1>0, <3>1 DEF Worker
    <3>4. Past(<<p, table[p].use>>)'
      BY <1>0, <2>2 DEF Past
    <3>5. Holding(w)'
      BY <1>0, <2>2, <2>4, <3>2, <3>3, <3>4
      DEF Holding, InHand, Checked, Sent, Dead, Past, Alive, Present, Current
    <3>6. ProtectedAreSpared'
      BY <2>2 DEF KillInv, ProtectedAreSpared
    <3> QED BY <2>2, <3>2, <3>5, <3>6, OthersKeep
  <2> QED BY <2>3, <2>4
<1>6. ASSUME NEW pc \in Opened, wrk[w].pc \in Opened,
             wrk' = [wrk EXCEPT ![w] = At(w, pc)],
             UNCHANGED <<table, bare>>, signalled \subseteq signalled',
             pc \in Checked => InHand(w) \in bare \/ Dead(InHand(w)),
             pc \in Sent => InHand(w) \in signalled',
             pc # "report"
      PROVE  (\A v \in Workers : Holding(v)') /\ NamesKnown'
  <2>1. wrk'[w] = At(w, pc)
    BY <1>6 DEF KillInv, TypeOK
  <2>2. /\ At(w, pc).pc = pc /\ At(w, pc).pid = wrk[w].pid /\ At(w, pc).use = wrk[w].use
        /\ At(w, pc).killed = wrk[w].killed
    BY <1>0 DEF At, Worker
  <2>3. InHand(w)' = InHand(w)
    BY <2>1, <2>2 DEF InHand
  <2>4. Holding(w)'
    BY <1>0, <1>6, <2>1, <2>2, <2>3 DEF Holding, Dead, Past, Alive, Present, Current
  <2> QED BY <2>4, <1>6, OthersKeep
<1>7. CASE CheckName(w)
  <2>1. wrk[w].pid \in Pids /\ InHand(w) \in Process /\ wrk[w].pc \in Opened
    BY <1>0, <1>7 DEF CheckName, Opened, Holds, InHand, Process, Worker
  <2>2. UNCHANGED <<table, bare, signalled>>
    BY <1>7 DEF CheckName
  <2>3. CASE ~Present(wrk[w].pid) \/ table[wrk[w].pid].name \in ProtectedNames
    BY <1>7, <2>1, <2>2, <2>3, <1>2 DEF CheckName
  <2>4. CASE ~(~Present(wrk[w].pid) \/ table[wrk[w].pid].name \in ProtectedNames)
    <3>1. InHand(w) \in bare \/ Dead(InHand(w))
      BY <1>0, <2>1, <2>4, CheckedProcess DEF Holding, InHand
    <3>2. wrk' = [wrk EXCEPT ![w] = At(w, "terminate")]
      BY <1>7, <2>4 DEF CheckName
    <3>3. ProtectedAreSpared'
      BY <2>2 DEF KillInv, ProtectedAreSpared
    <3> QED BY <3>1, <3>2, <3>3, <2>1, <2>2, <1>6 DEF Opened, Sent
  <2> QED BY <2>3, <2>4
<1>8. CASE Signal(w)
  <2>1. /\ wrk[w].pid \in Pids /\ InHand(w) \in Process /\ wrk[w].pc \in Opened
        /\ wrk[w].pc \in Checked
    BY <1>0, <1>8 DEF Signal, Opened, Checked, Holds, InHand, Process, Worker
  <2>2. UNCHANGED <<table, bare>>
    BY <1>8 DEF Signal
  <2>3. CASE Alive(InHand(w))
    <3>1. PICK pc \in {"wait", "rewait"} : wrk' = [wrk EXCEPT ![w] = At(w, pc)]
      BY <1>8, <2>3 DEF Signal
    <3>2. signalled' = signalled \cup {InHand(w)}
      BY <1>8, <2>3 DEF Signal
    <3>3. InHand(w) \in bare /\ InHand(w)[1] \notin ProtectedPids
      BY <1>0, <2>1, <2>3 DEF Holding, Dead, InHand
    <3>4. ProtectedAreSpared'
      BY <2>2, <3>2, <3>3 DEF KillInv, ProtectedAreSpared
    <3> QED BY <2>1, <2>2, <3>1, <3>2, <3>3, <3>4, <1>6 DEF Opened
  <2>4. CASE ~Alive(InHand(w))
    BY <1>8, <2>1, <2>2, <2>4, <1>2 DEF Signal
  <2> QED BY <2>3, <2>4
<1>9. CASE Wait(w)
  <2>1. /\ wrk[w].pid \in Pids /\ InHand(w) \in Process /\ wrk[w].pc \in Opened
        /\ wrk[w].pc \in Checked /\ wrk[w].pc \in Sent
    BY <1>0, <1>9 DEF Wait, Opened, Checked, Sent, Holds, InHand, Process, Worker
  <2>2. UNCHANGED <<table, bare, signalled>>
    BY <1>9 DEF Wait
  <2>3. ProtectedAreSpared'
    BY <2>2 DEF KillInv, ProtectedAreSpared
  <2>4. CASE ~Present(wrk[w].pid)
    <3>1. PICK x : x = [wrk[w] EXCEPT !.pc = "report",
                                      !.logged = wrk[w].logged \cup {wrk[w].pid}]
      OBVIOUS
    <3>2. wrk' = [wrk EXCEPT ![w] = x] /\ wrk'[w] = x
      BY <1>9, <2>4, <3>1 DEF KillInv, TypeOK, Wait, Died
    <3>3. x.pc = "report" /\ x.pid = wrk[w].pid /\ x.use = wrk[w].use
          /\ x.killed = wrk[w].killed
      BY <1>0, <3>1 DEF Worker
    <3>4. Dead(InHand(w)) /\ InHand(w) \in signalled /\ InHand(w)' = InHand(w)
      BY <1>0, <2>1, <2>4, <3>2, <3>3 DEF Holding, Dead, Alive, InHand
    <3>5. Holding(w)'
      BY <1>0, <2>1, <2>2, <3>2, <3>3, <3>4
      DEF Holding, Dead, Past, Alive, Present, Current
    <3> QED BY <2>2, <2>3, <3>2, <3>5, OthersKeep
  <2>5. CASE Present(wrk[w].pid) /\ wrk[w].pc = "wait"
    <3>1. wrk' = [wrk EXCEPT ![w] = At(w, "kill")]
      BY <1>9, <2>5 DEF Wait
    <3> QED BY <1>0, <2>1, <2>2, <2>3, <3>1, <1>6 DEF Holding, Opened
  <2>6. CASE Present(wrk[w].pid) /\ wrk[w].pc # "wait"
    BY <1>9, <2>1, <2>2, <2>6, <1>2 DEF Wait
  <2> QED BY <2>4, <2>5, <2>6
<1>10. CASE Report(w)
  <2>1. /\ wrk[w].pid \in Pids /\ InHand(w) \in Process
        /\ InHand(w) \in signalled /\ Dead(InHand(w))
    BY <1>0, <1>10 DEF Report, Opened, Sent, Holding, Holds, InHand, Process, Worker
  <2>2. UNCHANGED <<table, bare, signalled>>
    BY <1>10 DEF Report
  <2>3. CASE ~Present(wrk[w].pid)
    BY <1>10, <2>1, <2>2, <2>3, <1>2 DEF Report
  <2>4. CASE Present(wrk[w].pid)
    <3>1. PICK x : x = [wrk[w] EXCEPT !.pc = "next", !.pid = NoPid, !.use = 0,
                                      !.killed = wrk[w].killed \cup {InHand(w)}]
      OBVIOUS
    <3>2. wrk' = [wrk EXCEPT ![w] = x] /\ wrk'[w] = x
      BY <1>10, <2>4, <3>1 DEF KillInv, TypeOK, Report
    <3>3. x.pc = "next" /\ x.killed = wrk[w].killed \cup {InHand(w)}
      BY <1>0, <3>1 DEF Worker
    <3>4. Holding(w)'
      BY <1>0, <2>1, <2>2, <3>2, <3>3
      DEF Holding, Opened, Checked, Sent, Dead, Past, Alive, Present, Current
    <3>5. ProtectedAreSpared'
      BY <2>2 DEF KillInv, ProtectedAreSpared
    <3> QED BY <2>2, <3>2, <3>4, <3>5, OthersKeep
  <2> QED BY <2>3, <2>4
<1>11. CASE Refused(w)
  <2>1. wrk[w].pid \in Pids
    BY <1>0, <1>11 DEF Refused, Opened, Holds
  <2> QED BY <2>1, <1>11, <1>2 DEF Refused
<1> QED BY <1>3, <1>4, <1>5, <1>7, <1>8, <1>9, <1>10, <1>11 DEF Handler, Step

-------------------------------------------------------------------------------
(* The inductive invariant of the process killer. *)
THEOREM KillInvariant == Spec => []KillInv
<1>1. KillInv /\ [Next]_vars => KillInv'
  <2> SUFFICES ASSUME KillInv, [Next]_vars PROVE KillInv'
    OBVIOUS
  <2>1. TypeOK'
    BY KillTypes DEF KillInv
  <2>2. CASE Host
    BY <2>2, HostKeeps
  <2>3. ASSUME NEW w \in Workers, Handler(w) PROVE KillInv'
    BY <2>1, <2>3, HandlerKeeps DEF KillInv
  <2>4. CASE UNCHANGED vars
    <3>1. NamesKnown' /\ ProtectedAreSpared'
      BY <2>4 DEF vars, KillInv, NamesKnown, ProtectedAreSpared, Present, Current
    <3>2. ASSUME NEW w \in Workers PROVE Holding(w)'
      BY <2>4 DEF vars, KillInv, Holding, InHand, Past, Dead, Alive, Present, Current
    <3> QED BY <2>1, <3>1, <3>2 DEF KillInv
  <2> QED BY <2>2, <2>3, <2>4 DEF Next, Host, Handler
<1> QED BY KillInit, <1>1, PTL DEF Spec

(* Tables and locals keep their types, whatever the bounds. *)
THEOREM KillTypeCorrect == Spec => []TypeOK
<1>1. KillInv => TypeOK
  BY DEF KillInv
<1> QED BY KillInvariant, <1>1, PTL

(* No protected process is ever signalled, for any number of workers that run
   the response at once and any reuse of pids. *)
THEOREM ProtectedStaySpared == Spec => []ProtectedAreSpared
<1>1. KillInv => ProtectedAreSpared
  BY DEF KillInv
<1> QED BY KillInvariant, <1>1, PTL

(* Whoever is reported as killed was signalled and is dead. *)
THEOREM KilledStayDead == Spec => []KilledAreDead
<1>1. KillInv => KilledAreDead
  BY DEF KillInv, Holding, Dead, KilledAreDead
<1> QED BY KillInvariant, <1>1, PTL
===============================================================================
