------------------------------ MODULE KillProcess ------------------------------
(***************************************************************************)
(* The kill_process response: a scan that takes a second per process,      *)
(* then one psutil conversation per suspect of up to eight seconds, while  *)
(* processes exit, change their program and have their pids reused.        *)
(* Workers are the queue workers that may run the response at the same     *)
(* time.                                                                   *)
(*                                                                         *)
(* psutil tells processes by pid and creation time: here the pid and how   *)
(* often it has been used.  A dead process its parent has not collected    *)
(* keeps its pid and looks like one that ignores the signal.               *)
(***************************************************************************)
EXTENDS Naturals

CONSTANTS Workers, Pids, Names,
          ProtectedPids, ProtectedNames,
          Boot,     \* what runs at first: a name by pid, NoName for a free pid
          NoName,
          MaxUse,   \* how often a pid is used: a bound
          Limit     \* how often each outside event may happen: a bound

Events == {"exec", "run"}

ASSUME KillAssumption ==
    /\ Pids \subseteq Nat \ {0}
    /\ NoName \notin Names
    /\ Boot \in [Pids -> Names \cup {NoName}]
    /\ MaxUse \in Nat
    /\ Limit \in [Events -> Nat]

VARIABLES table,     \* the process table: the pid's use, and the name or NoName
          wrk,       \* what each worker holds
          bare,      \* history: processes that ever bore an unprotected name
          signalled, \* history: processes a signal was sent to
          spent      \* how often each outside event has happened

vars == <<table, wrk, bare, signalled, spent>>

-------------------------------------------------------------------------------
NoPid == 0
Process == Pids \X Nat
Present(p) == table[p].name # NoName
Current(p) == <<p, table[p].use>>
Alive(process) == Present(process[1]) /\ Current(process[1]) = process
Bare(p, name) == IF name \in ProtectedNames THEN {} ELSE {<<p, table'[p].use>>}
May(event) == spent[event] < Limit[event]
Spend(event) == spent' = [spent EXCEPT ![event] = @ + 1]

(* left: pids to look at, then suspects to kill.  pid, use: the psutil.Process in
   hand.  logged: pids the log calls killed.  killed, failed: the two lists of
   the handler, killed with the process that had been opened. *)
Resting == [pc |-> "idle", left |-> {}, listed |-> {}, pid |-> NoPid, use |-> 0,
            logged |-> {}, killed |-> {}, failed |-> {}]
InHand(w) == <<wrk[w].pid, wrk[w].use>>
First(pids) == {p \in pids : \A q \in pids : p <= q}
Opened == {"check", "terminate", "wait", "kill", "rewait", "report"}

Worker == [pc : {"idle", "scan", "measure", "next"} \cup Opened,
           left : SUBSET Pids, listed : SUBSET Pids,
           pid : Pids \cup {NoPid}, use : Nat,
           logged : SUBSET Pids, killed : SUBSET Process, failed : SUBSET Pids]
Holds(x) == /\ x.pc = "measure" => x.pid \in Pids
            /\ x.pc \in Opened => x.pid \in Pids /\ x.use # 0

Init ==
    /\ table = [p \in Pids |-> [use |-> 1, name |-> Boot[p]]]
    /\ bare = {<<p, 1>> : p \in {q \in Pids : Boot[q] \in Names \ ProtectedNames}}
    /\ wrk = [w \in Workers |-> Resting]
    /\ signalled = {} /\ spent = [e \in Events |-> 0]

-------------------------------------------------------------------------------
(* The host. *)

Exit(p) ==
    /\ Present(p) /\ p \notin ProtectedPids
    /\ table' = [table EXCEPT ![p].name = NoName]
    /\ UNCHANGED <<wrk, bare, signalled, spent>>

Spawn(p, name) ==
    /\ ~Present(p) /\ table[p].use < MaxUse
    /\ table' = [table EXCEPT ![p] = [use |-> @.use + 1, name |-> name]]
    /\ bare' = bare \cup Bare(p, name)
    /\ UNCHANGED <<wrk, signalled, spent>>

\* The same process, another program.
Exec(p, name) ==
    /\ Present(p) /\ May("exec") /\ Spend("exec")
    /\ table' = [table EXCEPT ![p].name = name]
    /\ bare' = bare \cup Bare(p, name)
    /\ UNCHANGED <<wrk, signalled>>

-------------------------------------------------------------------------------
(* find_suspicious_processes *)

\* The worker runs the handler; process_iter takes the pids of the moment.
Start(w) ==
    /\ wrk[w].pc = "idle" /\ May("run") /\ Spend("run")
    /\ wrk' = [wrk EXCEPT ![w] = [Resting EXCEPT !.pc = "scan",
                                                 !.left = {p \in Pids : Present(p)}]]
    /\ UNCHANGED <<table, bare, signalled>>

\* The next one, in pid order; it passes over the protected and the gone.
Look(w) ==
    /\ wrk[w].pc = "scan"
    /\ \E p \in First(wrk[w].left) :
         wrk' = [wrk EXCEPT ![w] =
                   IF \/ ~Present(p) \/ p \in ProtectedPids
                      \/ table[p].name \in ProtectedNames
                   THEN [@ EXCEPT !.left = wrk[w].left \ {p}]
                   ELSE [@ EXCEPT !.left = wrk[w].left \ {p}, !.pc = "measure",
                                  !.pid = p]]
    /\ UNCHANGED <<table, bare, signalled, spent>>

\* A second later: more than 90 percent of a CPU, or not, or the process is gone.
Measure(w) ==
    /\ wrk[w].pc = "measure"
    /\ \E busy \in {b \in BOOLEAN : b => Present(wrk[w].pid)} :
         wrk' = [wrk EXCEPT ![w] = [@ EXCEPT !.pc = "scan", !.pid = NoPid,
                   !.listed = IF busy THEN wrk[w].listed \cup {wrk[w].pid}
                                        ELSE wrk[w].listed]]
    /\ UNCHANGED <<table, bare, signalled, spent>>

\* No suspect is a success; otherwise they are killed one after the other.
Suspects(w) ==
    /\ wrk[w].pc = "scan" /\ wrk[w].left = {}
    /\ wrk' = [wrk EXCEPT ![w] =
                 [@ EXCEPT !.pc = IF wrk[w].listed = {} THEN "idle" ELSE "next",
                           !.left = wrk[w].listed]]
    /\ UNCHANGED <<table, bare, signalled, spent>>

-------------------------------------------------------------------------------
(* kill_process *)

\* It returns success False: NoSuchProcess, AccessDenied, protected, or a timeout.
Failed(w, p) == [wrk[w] EXCEPT !.pc = "next", !.pid = NoPid, !.use = 0,
                               !.left = wrk[w].left \ {p},
                               !.failed = wrk[w].failed \cup {p}]
Died(w, p) == [wrk[w] EXCEPT !.pc = "report", !.logged = wrk[w].logged \cup {p}]
At(w, pc) == [wrk[w] EXCEPT !.pc = pc]

\* Mutant: a process that is gone is opened all the same.
Open_Gone(w) ==
    /\ wrk[w].pc = "next"
    /\ \E p \in First(wrk[w].left) :
         wrk' = [wrk EXCEPT ![w] = IF p \in ProtectedPids THEN Failed(w, p)
                   ELSE [@ EXCEPT !.pc = "check", !.pid = p,
                                  !.left = wrk[w].left \ {p},
                                  !.use = IF Present(p) THEN table[p].use ELSE 0]]
    /\ UNCHANGED <<table, bare, signalled, spent>>

\* psutil.Process(pid): whatever has the pid now.
Open(w) ==
    /\ wrk[w].pc = "next"
    /\ \E p \in First(wrk[w].left) :
         wrk' = [wrk EXCEPT ![w] =
                   IF p \in ProtectedPids \/ ~Present(p) THEN Failed(w, p)
                   ELSE [@ EXCEPT !.pc = "check", !.pid = p,
                                  !.left = wrk[w].left \ {p},
                                  !.use = table[p].use]]
    /\ UNCHANGED <<table, bare, signalled, spent>>

\* Mutant: the name the scan saw is trusted.
CheckName_Trusts(w) ==
    /\ wrk[w].pc = "check"
    /\ wrk' = [wrk EXCEPT ![w] = At(w, "terminate")]
    /\ UNCHANGED <<table, bare, signalled, spent>>

\* proc.name() again, read from the pid.
CheckName(w) ==
    LET p == wrk[w].pid
    IN  /\ wrk[w].pc = "check"
        /\ wrk' = [wrk EXCEPT ![w] =
             IF ~Present(p) \/ table[p].name \in ProtectedNames
             THEN Failed(w, p) ELSE At(w, "terminate")]
        /\ UNCHANGED <<table, bare, signalled, spent>>

(* terminate() and kill() refuse a pid that has been reused.  The signal's effect
   is an Exit, or nothing for as long as the process can put it off. *)
Signal(w) ==
    LET p == wrk[w].pid
    IN  /\ wrk[w].pc \in {"terminate", "kill"}
        /\ IF Alive(InHand(w))
           THEN /\ signalled' = signalled \cup {InHand(w)}
                /\ wrk' = [wrk EXCEPT ![w] =
                     At(w, IF wrk[w].pc = "terminate" THEN "wait" ELSE "rewait")]
           ELSE /\ wrk' = [wrk EXCEPT ![w] = Failed(w, p)]
                /\ UNCHANGED signalled
        /\ UNCHANGED <<table, bare, spent>>

\* Mutant: wait() without a timeout.
Wait_Forever(w) ==
    LET p == wrk[w].pid
    IN  /\ wrk[w].pc \in {"wait", "rewait"} /\ ~Present(p)
        /\ wrk' = [wrk EXCEPT ![w] = Died(w, p)]
        /\ UNCHANGED <<table, bare, signalled, spent>>

\* Mutant: the second timeout is swallowed like the first.
Wait_Swallows(w) ==
    LET p == wrk[w].pid
    IN  /\ wrk[w].pc \in {"wait", "rewait"}
        /\ wrk' = [wrk EXCEPT ![w] =
             IF Present(p) /\ wrk[w].pc = "wait" THEN At(w, "kill")
             ELSE Died(w, p)]
        /\ UNCHANGED <<table, bare, signalled, spent>>

(* wait(): the pid is free, and the log says killed; or it times out, the first
   time after five seconds, the second after three, an exception of the handler. *)
Wait(w) ==
    LET p == wrk[w].pid
    IN  /\ wrk[w].pc \in {"wait", "rewait"}
        /\ wrk' = [wrk EXCEPT ![w] =
             IF ~Present(p) THEN Died(w, p)
             ELSE IF wrk[w].pc = "wait" THEN At(w, "kill") ELSE Failed(w, p)]
        /\ UNCHANGED <<table, bare, signalled, spent>>

\* The message asks for proc.name() once more: NoSuchProcess, unless the pid has
\* been given to another process.
Report(w) ==
    LET p == wrk[w].pid
    IN  /\ wrk[w].pc = "report"
        /\ wrk' = [wrk EXCEPT ![w] = IF ~Present(p) THEN Failed(w, p)
                     ELSE [@ EXCEPT !.pc = "next", !.pid = NoPid, !.use = 0,
                                    !.killed = wrk[w].killed \cup {InHand(w)}]]
        /\ UNCHANGED <<table, bare, signalled, spent>>

\* AccessDenied while the process is opened, read or signalled.
Refused(w) ==
    /\ wrk[w].pc \in {"check", "terminate", "kill"}
    /\ wrk' = [wrk EXCEPT ![w] = Failed(w, wrk[w].pid)]
    /\ UNCHANGED <<table, bare, signalled, spent>>

\* The aggregated result: success if no kill failed.
Return(w) ==
    /\ wrk[w].pc = "next" /\ wrk[w].left = {}
    /\ wrk' = [wrk EXCEPT ![w] = At(w, "idle")]
    /\ UNCHANGED <<table, bare, signalled, spent>>

-------------------------------------------------------------------------------
\* What the handler does by itself once it runs.
Step(w) == \/ Look(w) \/ Measure(w) \/ Suspects(w) \/ Open(w) \/ CheckName(w)
           \/ Signal(w) \/ Wait(w) \/ Report(w) \/ Refused(w) \/ Return(w)

Next ==
    \/ \E p \in Pids : Exit(p) \/ \E name \in Names : Spawn(p, name) \/ Exec(p, name)
    \/ \E w \in Workers : Start(w) \/ Step(w)

Spec == Init /\ [][Next]_vars

\* The worker thread keeps running; the host does what it likes.
FairSpec == Spec /\ \A w \in Workers : WF_vars(Step(w))

-------------------------------------------------------------------------------
(* Tables and locals keep their shape; a worker that has opened a process holds
   one that existed. *)
TypeOK ==
    /\ table \in [Pids -> [use : Nat \ {0}, name : Names \cup {NoName}]]
    /\ wrk \in [Workers -> Worker]
    /\ \A w \in Workers : Holds(wrk[w])
    /\ bare \subseteq Process /\ signalled \subseteq Process
    /\ spent \in [Events -> Nat]

(* PROTECTED_PROCESSES and PROTECTED_PIDS: however pids are reused between the
   scan, the check and the two signals, no signal reaches a protected pid or a
   process that has had a protected name all its life. *)
ProtectedAreSpared ==
    \A process \in signalled : process \in bare /\ process[1] \notin ProtectedPids

(* A process the handler reports as killed was signalled and is gone, also when
   its pid is in use again. *)
KilledAreDead ==
    \A w \in Workers : \A process \in wrk[w].killed :
        process \in signalled /\ ~Alive(process)

(* No process, by ignoring its signals, and no pid, by being reused, keeps the
   handler and with it the queue worker from going on. *)
HandlerReturns == \A w \in Workers : wrk[w].pc # "idle" ~> wrk[w].pc = "idle"

(* What the log calls killed successfully the handler reports as killed. *)
LoggedAreReported ==
    \A w \in Workers : wrk[w].pc = "idle" =>
        wrk[w].logged \subseteq {process[1] : process \in wrk[w].killed}
===============================================================================
