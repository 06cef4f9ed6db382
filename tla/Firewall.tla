------------------------------ MODULE Firewall ------------------------------
(***************************************************************************)
(* Blocking and unblocking an address: block_ip and unblock_ip             *)
(* (response_worker/actions/block_ip.py) as the executor runs them for an  *)
(* alert, by hand and for a revoke, the administrator's unblock button and *)
(* the REST writes of the same profile row.                                *)
(*                                                                         *)
(* Three stores are written one after the other: the kernel's rules, the   *)
(* IPProfile row and the ResponseAction row.  Threads are the worker and   *)
(* the web threads; each command and each query is a step.  iptables is    *)
(* external: it works, fails, or runs into the time limit, and a command   *)
(* that was given up, or whose caller died, may still take effect later.   *)
(*                                                                         *)
(* A target is a text: the inet value of an alert, or what an operator     *)
(* types.  block_ip compares it with PROTECTED_IPS as a text; iptables     *)
(* reads it as a set of addresses, which a block like 10.0.0.0/8 makes     *)
(* large.  Left out: other host names than the protected one, and a second *)
(* spelling of an address, such as 10.0.0.7/32.                            *)
(***************************************************************************)
EXTENDS Integers, FiniteSets

CONSTANTS Ips,            \* target texts, each for one address or for a block of them
          Addresses,
          Covers,         \* the addresses that iptables takes a text for
          Protected,      \* PROTECTED_IPS
          Threads,
          Actions,        \* primary keys of ResponseAction rows; a bound
          NoIp,           \* no source address: '' or 'system' in the log
          NoAction,
          InitProfile,    \* the IPProfile rows at the start
          Limit           \* how often each fault or edit may happen: a bound

Events == {"fault", "edit"}
Marks == {"none", "no", "yes"}   \* no row, is_blocked = False, is_blocked = True

\* The texts of a single address, all that a serializer accepts for a profile.
Single == {ip \in Ips : \E address \in Addresses : Covers[ip] = {address}}

\* A protected text names one address ('localhost' may name another's), and
\* otherwise no two texts stand for the same.
ASSUME TextAssumption ==
    /\ Protected \subseteq Single
    /\ \A ip, other \in Ips :
          Covers[ip] = Covers[other] => ip = other \/ {ip, other} \subseteq Protected

ASSUME FirewallAssumption ==
    /\ Protected \subseteq Ips /\ IsFiniteSet(Threads) /\ IsFiniteSet(Actions)
    /\ NoIp \notin Ips /\ NoAction \notin Actions
    /\ InitProfile \in [Ips -> {"none", "no"}]
    /\ Limit \in [Events -> Nat]

VARIABLES rules,      \* how many DROP rules the kernel holds for an address
          late,       \* commands nobody waits for any more, by address
          profile,    \* IPProfile.is_blocked
          actions,    \* the ResponseAction rows of the two handlers
          thr,        \* what each thread holds in memory
          put,        \* history: rules ever inserted, by address
          disturbed,  \* history: addresses a fault, a race or an edit touched
          spent       \* how often each fault or edit has happened

vars == <<rules, late, profile, actions, thr, put, disturbed, spent>>

-------------------------------------------------------------------------------
Action == [status : {"none", "pending", "executed", "failed", "revoked"},
           type : {"block_ip", "unblock_ip"}, target : Ips \cup {NoIp}]
Thread == [pc : {"idle", "check", "hung", "insert", "profile", "delete", "clear",
                 "log", "mark", "save"},
           ip : Ips \cup {NoIp}, action : Actions \cup {NoAction},
           undoes : Actions \cup {NoAction}, ok : BOOLEAN]

Idle == [pc |-> "idle", ip |-> NoIp, action |-> NoAction, undoes |-> NoAction, ok |-> FALSE]
May(event) == spent[event] < Limit[event]
Spend(event) == spent' = [spent EXCEPT ![event] = @ + 1]
Busy(ip) == \E t \in Threads : thr[t].ip = ip
Pending(ip) == late[ip]["insert"] + late[ip]["delete"]
Goto(t, pc) == thr' = [thr EXCEPT ![t].pc = pc]
Return(t, ok) == thr' = [thr EXCEPT ![t].pc = "log", ![t].ok = ok]
Disturb(ip) == disturbed' = disturbed \cup ({ip} \cap Ips)

\* A second operation on an address while a first is under way races with it.
Meet(ip) == IF Busy(ip) THEN Disturb(ip) ELSE UNCHANGED disturbed

Init ==
    /\ rules = [ip \in Ips |-> 0] /\ put = [ip \in Ips |-> 0]
    /\ late = [ip \in Ips |-> [command \in {"insert", "delete"} |-> 0]]
    /\ profile = InitProfile
    /\ actions = [a \in Actions |-> [status |-> "none", type |-> "block_ip", target |-> NoIp]]
    /\ thr = [t \in Threads |-> Idle]
    /\ disturbed = {} /\ spent = [e \in Events |-> 0]

-------------------------------------------------------------------------------
(* _run_handler: a pending row first, then the handler, then its outcome. *)

\* Mutant: the row names its target before the handler has run.
Create_Target(a, type, ip) ==
    /\ actions[a].status = "none"
    /\ actions' = [actions EXCEPT ![a] = [status |-> "pending", type |-> type, target |-> ip]]

\* ResponseAction.objects.create: pending, with an empty target.
Create(a, type, ip) ==
    /\ actions[a].status = "none"
    /\ actions' = [actions EXCEPT ![a] = [status |-> "pending", type |-> type, target |-> NoIp]]

\* Mutant: the guard looks at the empty address only.
BlockStart_NoGuard(ip) == IF ip = NoIp THEN "log" ELSE "check"

\* No address on the alert, or the text of a protected one: nothing to do but to
\* log it.  A block that covers a protected address is another text, and passes.
BlockStart(ip) == IF ip \in Protected \cup {NoIp} THEN "log" ELSE "check"
\* For 'system' the command would run and fail: no rule or profile has that name.
UnblockStart(ip) == IF ip = NoIp THEN "log" ELSE "delete"

\* block_ip, for an alert (run_one) or by hand (run_response_now).
RunBlock(t) ==
    /\ thr[t].pc = "idle"
    /\ \E ip \in Ips \cup {NoIp}, a \in Actions :
         /\ Create(a, "block_ip", ip) /\ Meet(ip)
         /\ thr' = [thr EXCEPT ![t] = [Idle EXCEPT !.pc = BlockStart(ip), !.ip = ip,
                                                   !.action = a]]
    /\ UNCHANGED <<rules, late, profile, put, spent>>

\* The handler unblock_ip can be mapped or run by hand as well.
RunUnblock(t) ==
    /\ thr[t].pc = "idle"
    /\ \E ip \in Ips \cup {NoIp}, a \in Actions :
         /\ Create(a, "unblock_ip", ip) /\ Meet(ip)
         /\ thr' = [thr EXCEPT ![t] = [Idle EXCEPT !.pc = UnblockStart(ip), !.ip = ip,
                                                   !.action = a]]
    /\ UNCHANGED <<rules, late, profile, put, spent>>

\* revoke_action: whatever is not revoked yet, pending and failed rows included,
\* with the target the row names now.
Revoke(t) ==
    /\ thr[t].pc = "idle"
    /\ \E a, b \in Actions :
         LET ip == actions[a].target
         IN  /\ actions[a].type = "block_ip" /\ actions[a].status \notin {"none", "revoked"}
             /\ Create(b, "unblock_ip", ip) /\ Meet(ip)
             /\ thr' = [thr EXCEPT ![t] = [Idle EXCEPT !.pc = UnblockStart(ip), !.ip = ip,
                                                       !.action = b, !.undoes = a]]
    /\ UNCHANGED <<rules, late, profile, put, spent>>

\* Mutant: the action is revoked whether or not its reverse handler succeeded.
Log_RevokesAlways(t) ==
    /\ thr[t].pc = "log"
    /\ actions' = [actions EXCEPT ![thr[t].action].status =
                                    IF thr[t].ok THEN "executed" ELSE "failed",
                                  ![thr[t].action].target = thr[t].ip]
    /\ thr' = [thr EXCEPT ![t] = IF thr[t].undoes # NoAction THEN [@ EXCEPT !.pc = "mark"]
                                 ELSE Idle]
    /\ UNCHANGED <<rules, late, profile, put, disturbed, spent>>

\* The outcome and the target are saved.
Log(t) ==
    /\ thr[t].pc = "log"
    /\ actions' = [actions EXCEPT ![thr[t].action].status =
                                    IF thr[t].ok THEN "executed" ELSE "failed",
                                  ![thr[t].action].target = thr[t].ip]
    /\ thr' = [thr EXCEPT ![t] = IF thr[t].undoes # NoAction /\ thr[t].ok
                                 THEN [@ EXCEPT !.pc = "mark"] ELSE Idle]
    /\ UNCHANGED <<rules, late, profile, put, disturbed, spent>>

\* revoke_action ends: only the column status of the undone row is written.
Mark(t) ==
    /\ thr[t].pc = "mark"
    /\ actions' = [actions EXCEPT ![thr[t].undoes].status = "revoked"]
    /\ thr' = [thr EXCEPT ![t] = Idle]
    /\ UNCHANGED <<rules, late, profile, put, disturbed, spent>>

-------------------------------------------------------------------------------
(* block_ip: iptables -C, iptables -I, the profile. *)

\* Mutant: no look at what the firewall holds.
Check_Skipped(t) ==
    /\ thr[t].pc = "check"
    /\ Goto(t, "insert")
    /\ UNCHANGED <<rules, late, profile, actions, put, disturbed, spent>>

\* A rule that is there already is success; nothing else is touched.
Check(t) ==
    /\ thr[t].pc = "check"
    /\ IF rules[thr[t].ip] > 0 THEN Return(t, TRUE) ELSE Goto(t, "insert")
    /\ UNCHANGED <<rules, late, profile, actions, put, disturbed, spent>>

\* Any exit status but 0 is read as 'not blocked'.
CheckFails(t) ==
    /\ thr[t].pc = "check" /\ May("fault") /\ Spend("fault")
    /\ Goto(t, "insert") /\ Disturb(thr[t].ip)
    /\ UNCHANGED <<rules, late, profile, actions, put>>

\* The command cannot be run at all: block_ip returns a failure.
CheckRaises(t) ==
    /\ thr[t].pc = "check" /\ May("fault") /\ Spend("fault")
    /\ Return(t, FALSE)
    /\ UNCHANGED <<rules, late, profile, actions, put, disturbed>>

\* The check has no time limit.
CheckHangs(t) ==
    /\ thr[t].pc = "check" /\ May("fault") /\ Spend("fault")
    /\ Goto(t, "hung")
    /\ UNCHANGED <<rules, late, profile, actions, put, disturbed>>

Insert(t) ==
    LET ip == thr[t].ip
    IN  /\ thr[t].pc = "insert"
        /\ rules' = [rules EXCEPT ![ip] = @ + 1] /\ put' = [put EXCEPT ![ip] = @ + 1]
        /\ Goto(t, "profile")
        /\ UNCHANGED <<late, profile, actions, disturbed, spent>>

\* A non-zero exit status: a failure is returned, nothing was changed.
InsertFails(t) ==
    /\ thr[t].pc = "insert" /\ May("fault") /\ Spend("fault")
    /\ Return(t, FALSE)
    /\ UNCHANGED <<rules, late, profile, actions, put, disturbed>>

\* Mutant: the profile is updated only when the row exists.
Profile_NoCreate(t) ==
    LET ip == thr[t].ip
    IN  /\ thr[t].pc = "profile"
        /\ profile' = [profile EXCEPT ![ip] = IF @ = "none" THEN "none" ELSE "yes"]
        /\ Return(t, TRUE)
        /\ UNCHANGED <<rules, late, actions, put, disturbed, spent>>

\* get_or_create and save.
Profile(t) ==
    /\ thr[t].pc = "profile"
    /\ profile' = [profile EXCEPT ![thr[t].ip] = "yes"]
    /\ Return(t, TRUE)
    /\ UNCHANGED <<rules, late, actions, put, disturbed, spent>>

\* A database error is logged and forgotten; the block succeeded.
ProfileFails(t) ==
    /\ thr[t].pc = "profile" /\ May("fault") /\ Spend("fault")
    /\ Return(t, TRUE) /\ Disturb(thr[t].ip)
    /\ UNCHANGED <<rules, late, profile, actions, put>>

-------------------------------------------------------------------------------
(* unblock_ip: iptables -D, the profile. *)

\* Mutant: the button saves the row first, and lifts the block after that.
AdminUnblock_SavesFirst(t) ==
    /\ thr[t].pc = "idle"
    /\ \E ip \in Ips :
         /\ profile[ip] # "none" /\ Meet(ip)
         /\ profile' = [profile EXCEPT ![ip] = "no"]
         /\ thr' = [thr EXCEPT ![t] = [Idle EXCEPT !.pc = "delete", !.ip = ip]]
    /\ UNCHANGED <<rules, late, actions, put, spent>>

\* The administrator's button: the profile row is read, then unblock_ip runs.
AdminUnblock(t) ==
    /\ thr[t].pc = "idle"
    /\ \E ip \in Ips :
         /\ profile[ip] # "none" /\ Meet(ip)
         /\ thr' = [thr EXCEPT ![t] = [Idle EXCEPT !.pc = "delete", !.ip = ip]]
    /\ UNCHANGED <<rules, late, profile, actions, put, spent>>

\* Mutant: the removal is taken for granted.
Delete_Unchecked(t) ==
    LET ip == thr[t].ip
    IN  /\ thr[t].pc = "delete"
        /\ rules' = [rules EXCEPT ![ip] = @ - 1]
        /\ thr' = [thr EXCEPT ![t].pc = "clear", ![t].ok = TRUE]
        /\ UNCHANGED <<late, profile, actions, put, disturbed, spent>>

\* One rule goes; without one the command fails, and the profile is cleared
\* all the same.
Delete(t) ==
    LET ip == thr[t].ip
    IN  /\ thr[t].pc = "delete"
        /\ IF rules[ip] > 0
           THEN /\ rules' = [rules EXCEPT ![ip] = @ - 1]
                /\ thr' = [thr EXCEPT ![t].pc = "clear", ![t].ok = TRUE]
           ELSE Goto(t, "clear") /\ UNCHANGED rules
        /\ UNCHANGED <<late, profile, actions, put, disturbed, spent>>

DeleteFails(t) ==
    /\ thr[t].pc = "delete" /\ May("fault") /\ Spend("fault")
    /\ Goto(t, "clear") /\ Disturb(thr[t].ip)
    /\ UNCHANGED <<rules, late, profile, actions, put>>

\* What follows the profile: the log, or the button's own save.
Unblocked(t) == IF thr[t].action = NoAction THEN "save" ELSE "log"

Clear(t) ==
    LET ip == thr[t].ip
    IN  /\ thr[t].pc = "clear"
        /\ profile' = [profile EXCEPT ![ip] = IF @ = "none" THEN "none" ELSE "no"]
        /\ Goto(t, Unblocked(t))
        /\ UNCHANGED <<rules, late, actions, put, disturbed, spent>>

ClearFails(t) ==
    /\ thr[t].pc = "clear" /\ May("fault") /\ Spend("fault")
    /\ Goto(t, Unblocked(t)) /\ Disturb(thr[t].ip)
    /\ UNCHANGED <<rules, late, profile, actions, put>>

\* The button ignores the result, saves its own copy of the row and reports
\* success.
AdminSave(t) ==
    /\ thr[t].pc = "save"
    /\ profile' = [profile EXCEPT ![thr[t].ip] = "no"]
    /\ thr' = [thr EXCEPT ![t] = Idle]
    /\ UNCHANGED <<rules, late, actions, put, disturbed, spent>>

-------------------------------------------------------------------------------
(* Faults, and other writers. *)

\* The command t was waiting for, if it was waiting for one.
Orphan(t) ==
    IF thr[t].pc \in {"insert", "delete"}
    THEN late' = [late EXCEPT ![thr[t].ip][thr[t].pc] = @ + 1]
    ELSE UNCHANGED late

\* Ten seconds are over (timeout=10): a failure is returned, whatever the
\* command still does.
TimesOut(t) ==
    /\ thr[t].pc \in {"insert", "delete"} /\ May("fault") /\ Spend("fault")
    /\ Orphan(t) /\ Disturb(thr[t].ip)
    /\ thr' = [thr EXCEPT ![t].pc = IF thr[t].action = NoAction THEN "save" ELSE "log"]
    /\ UNCHANGED <<rules, profile, actions, put>>

\* The process dies, or a query outside every try raises.
Abort(t) ==
    /\ thr[t].pc # "idle" /\ May("fault") /\ Spend("fault")
    /\ Orphan(t) /\ Disturb(thr[t].ip)
    /\ thr' = [thr EXCEPT ![t] = Idle]
    /\ UNCHANGED <<rules, profile, actions, put>>

\* A command nobody waits for takes effect, or never does.
LateCommand(ip, command) ==
    /\ late[ip][command] > 0
    /\ late' = [late EXCEPT ![ip][command] = @ - 1]
    /\ \/ UNCHANGED <<rules, put>>
       \/ /\ command = "insert"
          /\ rules' = [rules EXCEPT ![ip] = @ + 1] /\ put' = [put EXCEPT ![ip] = @ + 1]
       \/ /\ command = "delete" /\ rules[ip] > 0
          /\ rules' = [rules EXCEPT ![ip] = @ - 1] /\ UNCHANGED put
    /\ UNCHANGED <<profile, actions, thr, disturbed, spent>>

\* POST of a profile row: nothing is blocked yet, as far as the row goes.
AddProfile(ip) ==
    /\ profile[ip] = "none" /\ ip \in Single
    /\ profile' = [profile EXCEPT ![ip] = "no"]
    /\ IF rules[ip] > 0 \/ Busy(ip) THEN Disturb(ip) ELSE UNCHANGED disturbed
    /\ UNCHANGED <<rules, late, actions, thr, put, spent>>

\* PATCH, DELETE, block/ and unblock/ write the row and nothing else.
EditProfile(ip) ==
    /\ profile[ip] # "none" /\ May("edit") /\ Spend("edit")
    /\ \E mark \in Marks : profile' = [profile EXCEPT ![ip] = mark]
    /\ Disturb(ip)
    /\ UNCHANGED <<rules, late, actions, thr, put>>

-------------------------------------------------------------------------------
\* What a thread does by itself once it has begun.
Step(t) == \/ Check(t) \/ CheckFails(t) \/ CheckRaises(t)
           \/ Insert(t) \/ InsertFails(t) \/ Profile(t) \/ ProfileFails(t)
           \/ Delete(t) \/ DeleteFails(t) \/ Clear(t) \/ ClearFails(t)
           \/ TimesOut(t) \/ Log(t) \/ Mark(t) \/ AdminSave(t)

Start(t) == RunBlock(t) \/ RunUnblock(t) \/ Revoke(t) \/ AdminUnblock(t)

Next ==
    \/ \E t \in Threads : Start(t) \/ Step(t) \/ CheckHangs(t) \/ Abort(t)
    \/ \E ip \in Ips : AddProfile(ip) \/ EditProfile(ip)
    \/ \E ip \in Ips, command \in {"insert", "delete"} : LateCommand(ip, command)

Spec == Init /\ [][Next]_vars

\* Every command but the check has a time limit, and threads keep running.
FairSpec == Spec /\ \A t \in Threads : WF_vars(Step(t))

-------------------------------------------------------------------------------
\* The log says that a block of this address is in force.
InForce(a, ip) ==
    actions[a] = [status |-> "executed", type |-> "block_ip", target |-> ip]

\* What the three stores together say of an address: its phase in BlockLifecycle.
Phase(ip) ==
    IF ip \in disturbed THEN "disturbed"
    ELSE IF rules[ip] = 0 THEN IF profile[ip] = "yes" THEN "lifted" ELSE "open"
    ELSE IF profile[ip] # "yes" THEN "dropped"
    ELSE IF \E a \in Actions : InForce(a, ip) THEN "blocked" ELSE "recorded"

Lifecycle == INSTANCE BlockLifecycle WITH
                 Addresses <- Ips, phase <- [ip \in Ips |-> Phase(ip)]

(* Every variable keeps the shape of the tables and of the threads' locals. *)
TypeOK ==
    /\ rules \in [Ips -> Nat] /\ put \in [Ips -> Nat]
    /\ late \in [Ips -> [{"insert", "delete"} -> Nat]]
    /\ profile \in [Ips -> Marks]
    /\ actions \in [Actions -> Action]
    /\ thr \in [Threads -> Thread]
    /\ disturbed \subseteq Ips
    /\ spent \in [Events -> Nat]

(* Whoever asks, for an alert, by hand, twice at once, after a timeout or with a
   command that finishes late: a rule that drops a protected address is one for a
   block of addresses.  block_ip compares texts, so it lets such a block through;
   a rule for a single address never drops a protected one.  This takes each address
   to have one text: a second spelling ('/32') or a host name of a protected address
   passes the comparison like a block, and the model has neither. *)
ProtectedIsNotTargeted ==
    \A ip \in Ips, protected \in Protected :
        rules[ip] > 0 /\ Covers[ip] \cap Covers[protected] # {} => ip \notin Single

(* The check before the insert is not atomic, so an address can collect more
   than one rule; but never more than one for each thread and one for each fault
   (a check that failed, a command that was given up): that many unblocks lift it. *)
DuplicatesAreBounded ==
    \A ip \in Ips : rules[ip] <= Cardinality(Threads) + spent["fault"]

(* Between operations the three stores agree on every address that no fault, no
   race and no edit has touched: it is dropped, by one rule, if and only if its
   profile says so, and then the log holds a block that is in force. *)
StoresAgree ==
    \A ip \in Ips \ disturbed : ~Busy(ip) =>
        /\ rules[ip] <= 1
        /\ rules[ip] = 1 <=> profile[ip] = "yes"
        /\ rules[ip] = 1 => \E a \in Actions : InForce(a, ip)

(* A block is 'revoked' only for a rule that was really removed: whatever fails
   or races, the revoked blocks of an address and the rules it still has never
   outnumber the rules that were inserted. *)
RevokesAreBacked ==
    \A ip \in Ips :
        Cardinality({a \in Actions : actions[a].status = "revoked" /\ actions[a].target = ip})
          + rules[ip] <= put[ip]

(* The log only moves forward: a late outcome never overwrites a revoke, and a
   row that is still pending cannot be revoked. *)
LogMovesForward ==
    [][\A a \in Actions :
         LET was == actions[a].status
             is == actions'[a].status
         IN  \/ was = is
             \/ was = "none" /\ is = "pending"
             \/ was = "pending" /\ is \in {"executed", "failed"}
             \/ was \in {"executed", "failed"} /\ is = "revoked"]_vars

(* The stores change in one order only, whoever acts on an address: the firewall,
   the profile, the log when it is blocked, and the firewall and the profile when
   the block is lifted, which happens to nothing but a complete block. *)
ImplementsBlockLifecycle == Lifecycle!Spec

(* The seeded definition says 'Block the source IP via iptables for 24 hours', and
   block_ip reports it so: a dropped address is some day let through again. *)
BlocksExpire == \A ip \in Ips : rules[ip] > 0 ~> rules[ip] = 0

(* The administrator's button ends with 'IP ... unblocked successfully!': no rule
   is left then, unless another thread is at work on the address. *)
UnblockedMeansUnblocked ==
    [][\A t \in Threads :
         AdminSave(t) /\ (\A u \in Threads \ {t} : thr[u].ip # thr[t].ip)
           => rules'[thr[t].ip] = 0]_vars
===============================================================================
