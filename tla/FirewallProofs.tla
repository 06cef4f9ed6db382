--------------------------- MODULE FirewallProofs ---------------------------
(***************************************************************************)
(* Theorems about Firewall, for any set of addresses, threads and rows and *)
(* any number of faults: every safety property its runs check.  Base       *)
(* (types, what a thread holds at each point, the protected addresses)     *)
(* holds by itself; Owned (who may write which row) needs Base; the two    *)
(* counting invariants, Budget and Backed, and the agreement of the three  *)
(* stores, Settled, need both.  Most steps move one thread and write no    *)
(* row: Moves says so once.                                                *)
(***************************************************************************)
EXTENDS Firewall, FiniteSetTheorems, TLAPS

(* What a thread holds fits its program counter, and no protected address is
   on its way to iptables -I. *)
Wired(r) ==
    /\ r.pc = "idle" => r = Idle
    /\ r.pc \in {"check", "hung", "insert", "profile"} =>
          r.ip \in Ips \ Protected /\ r.action \in Actions /\ r.undoes = NoAction
    /\ r.pc \in {"delete", "clear", "save", "mark"} => r.ip \in Ips
    /\ r.pc = "log" => r.action \in Actions
    /\ r.pc = "mark" => r.undoes \in Actions /\ r.ok
    /\ r.ok => r.ip \in Ips
Threaded == thr \in [Threads -> Thread] /\ \A t \in Threads : Wired(thr[t])

(* A protected address has no rule, and none can come late. *)
Shielded == \A ip \in Protected : rules[ip] = 0 /\ late[ip]["insert"] = 0

(* The tables, without what the threads hold. *)
Tables ==
    /\ rules \in [Ips -> Nat] /\ put \in [Ips -> Nat]
    /\ late \in [Ips -> [{"insert", "delete"} -> Nat]]
    /\ profile \in [Ips -> Marks]
    /\ actions \in [Actions -> Action]
    /\ disturbed \subseteq Ips
    /\ spent \in [Events -> Nat]

Base == Tables /\ Threaded /\ Shielded

-------------------------------------------------------------------------------
(* One thread replaces its record by another that fits. *)
LEMMA ThreadFrame ==
    ASSUME Threaded, NEW t \in Threads, NEW r \in Thread, Wired(r),
           thr' = [thr EXCEPT ![t] = r]
    PROVE  Threaded'
<1>1. \A u \in Threads : thr'[u] = IF u = t THEN r ELSE thr[u]
  BY DEF Threaded
<1> QED
  BY <1>1 DEF Threaded

(* The idle record fits. *)
LEMMA IdleType == Idle \in Thread /\ Wired(Idle)
  BY FirewallAssumption DEF Idle, Thread, Wired

(* Every step leaves every thread with a record that fits. *)
LEMMA ThreadStep ==
    ASSUME Tables, Threaded, [Next]_vars
    PROVE  Threaded'
<1>1. ASSUME NEW t \in Threads, RunBlock(t) PROVE Threaded'
  <2>1. PICK ip \in Ips \cup {NoIp}, a \in Actions :
          thr' = [thr EXCEPT ![t] = [Idle EXCEPT !.pc = BlockStart(ip), !.ip = ip,
                                                 !.action = a]]
    BY <1>1 DEF RunBlock
  <2>2. BlockStart(ip) \in {"check", "log"} /\ (BlockStart(ip) = "check" => ip \in Ips \ Protected)
    BY DEF BlockStart
  <2>3. LET r == [Idle EXCEPT !.pc = BlockStart(ip), !.ip = ip, !.action = a]
        IN  r \in Thread /\ Wired(r)
    BY <2>2, FirewallAssumption DEF Idle, Thread, Wired
  <2> QED
    BY <2>1, <2>3, ThreadFrame
<1>2. ASSUME NEW t \in Threads, RunUnblock(t) PROVE Threaded'
  <2>1. PICK ip \in Ips \cup {NoIp}, a \in Actions :
          thr' = [thr EXCEPT ![t] = [Idle EXCEPT !.pc = UnblockStart(ip), !.ip = ip,
                                                 !.action = a]]
    BY <1>2 DEF RunUnblock
  <2>2. UnblockStart(ip) \in {"delete", "log"} /\ (UnblockStart(ip) = "delete" => ip \in Ips)
    BY DEF UnblockStart
  <2>3. LET r == [Idle EXCEPT !.pc = UnblockStart(ip), !.ip = ip, !.action = a]
        IN  r \in Thread /\ Wired(r)
    BY <2>2, FirewallAssumption DEF Idle, Thread, Wired
  <2> QED
    BY <2>1, <2>3, ThreadFrame
<1>3. ASSUME NEW t \in Threads, Revoke(t) PROVE Threaded'
  <2>1. PICK a \in Actions, b \in Actions :
          thr' = [thr EXCEPT ![t] = [Idle EXCEPT !.pc = UnblockStart(actions[a].target),
                                       !.ip = actions[a].target, !.action = b, !.undoes = a]]
    BY <1>3 DEF Revoke
  <2>2. PICK ip \in Ips \cup {NoIp} : ip = actions[a].target
    BY DEF Tables, Action
  <2>3. UnblockStart(ip) \in {"delete", "log"} /\ (UnblockStart(ip) = "delete" => ip \in Ips)
    BY DEF UnblockStart
  <2>4. thr' = [thr EXCEPT ![t] = [Idle EXCEPT !.pc = UnblockStart(ip), !.ip = ip,
                                     !.action = b, !.undoes = a]]
    BY <2>1, <2>2
  <2>5. LET r == [Idle EXCEPT !.pc = UnblockStart(ip), !.ip = ip, !.action = b, !.undoes = a]
        IN  r \in Thread /\ Wired(r)
    BY <2>3, FirewallAssumption DEF Idle, Thread, Wired
  <2> QED
    BY <2>4, <2>5, ThreadFrame
<1>4. ASSUME NEW t \in Threads, AdminUnblock(t) PROVE Threaded'
  <2>1. PICK ip \in Ips : thr' = [thr EXCEPT ![t] = [Idle EXCEPT !.pc = "delete", !.ip = ip]]
    BY <1>4 DEF AdminUnblock
  <2>2. LET r == [Idle EXCEPT !.pc = "delete", !.ip = ip]
        IN  r \in Thread /\ Wired(r)
    BY FirewallAssumption DEF Idle, Thread, Wired
  <2> QED
    BY <2>1, <2>2, ThreadFrame
<1>5. ASSUME NEW t \in Threads, Check(t) PROVE Threaded'
  <2>1. CASE rules[thr[t].ip] > 0
    <3>1. \E pc \in {"log"}, ok \in BOOLEAN :
            thr' = [thr EXCEPT ![t] = [thr[t] EXCEPT !.pc = pc, !.ok = ok]]
      BY <1>5, <2>1 DEF Check, Return
    <3>2. thr[t].pc \in {"check"} /\ thr[t] \in Thread /\ Wired(thr[t])
      BY <1>5 DEF Check, Threaded
    <3>3. \A pc \in {"log"}, ok \in BOOLEAN :
            /\ [thr[t] EXCEPT !.pc = pc, !.ok = ok] \in Thread
            /\ Wired([thr[t] EXCEPT !.pc = pc, !.ok = ok])
      BY <3>2 DEF Thread, Wired
    <3> QED
      BY <3>1, <3>3, ThreadFrame
  <2>2. CASE ~(rules[thr[t].ip] > 0)
    <3>1. \E pc \in {"insert"} : thr' = [thr EXCEPT ![t] = [thr[t] EXCEPT !.pc = pc]]
      BY <1>5, <2>2 DEF Check, Goto
    <3>2. thr[t].pc \in {"check"} /\ thr[t] \in Thread /\ Wired(thr[t])
      BY <1>5 DEF Check, Threaded
    <3>3. \A pc \in {"insert"} : /\ [thr[t] EXCEPT !.pc = pc] \in Thread
                         /\ Wired([thr[t] EXCEPT !.pc = pc])
      BY <3>2 DEF Thread, Wired
    <3> QED
      BY <3>1, <3>3, ThreadFrame
  <2> QED
    BY <2>1, <2>2
<1>6. ASSUME NEW t \in Threads, CheckFails(t) PROVE Threaded'
  <2>1. \E pc \in {"insert"} : thr' = [thr EXCEPT ![t] = [thr[t] EXCEPT !.pc = pc]]
    BY <1>6 DEF CheckFails, Goto
  <2>2. thr[t].pc \in {"check"} /\ thr[t] \in Thread /\ Wired(thr[t])
    BY <1>6 DEF CheckFails, Threaded
  <2>3. \A pc \in {"insert"} : /\ [thr[t] EXCEPT !.pc = pc] \in Thread
                       /\ Wired([thr[t] EXCEPT !.pc = pc])
    BY <2>2 DEF Thread, Wired
  <2> QED
    BY <2>1, <2>3, ThreadFrame
<1>7. ASSUME NEW t \in Threads, CheckRaises(t) PROVE Threaded'
  <2>1. \E pc \in {"log"}, ok \in BOOLEAN :
          thr' = [thr EXCEPT ![t] = [thr[t] EXCEPT !.pc = pc, !.ok = ok]]
    BY <1>7 DEF CheckRaises, Return
  <2>2. thr[t].pc \in {"check"} /\ thr[t] \in Thread /\ Wired(thr[t])
    BY <1>7 DEF CheckRaises, Threaded
  <2>3. \A pc \in {"log"}, ok \in BOOLEAN :
          /\ [thr[t] EXCEPT !.pc = pc, !.ok = ok] \in Thread
          /\ Wired([thr[t] EXCEPT !.pc = pc, !.ok = ok])
    BY <2>2 DEF Thread, Wired
  <2> QED
    BY <2>1, <2>3, ThreadFrame
<1>8. ASSUME NEW t \in Threads, CheckHangs(t) PROVE Threaded'
  <2>1. \E pc \in {"hung"} : thr' = [thr EXCEPT ![t] = [thr[t] EXCEPT !.pc = pc]]
    BY <1>8 DEF CheckHangs, Goto
  <2>2. thr[t].pc \in {"check"} /\ thr[t] \in Thread /\ Wired(thr[t])
    BY <1>8 DEF CheckHangs, Threaded
  <2>3. \A pc \in {"hung"} : /\ [thr[t] EXCEPT !.pc = pc] \in Thread
                       /\ Wired([thr[t] EXCEPT !.pc = pc])
    BY <2>2 DEF Thread, Wired
  <2> QED
    BY <2>1, <2>3, ThreadFrame
<1>9. ASSUME NEW t \in Threads, Insert(t) PROVE Threaded'
  <2>1. \E pc \in {"profile"} : thr' = [thr EXCEPT ![t] = [thr[t] EXCEPT !.pc = pc]]
    BY <1>9 DEF Insert, Goto
  <2>2. thr[t].pc \in {"insert"} /\ thr[t] \in Thread /\ Wired(thr[t])
    BY <1>9 DEF Insert, Threaded
  <2>3. \A pc \in {"profile"} : /\ [thr[t] EXCEPT !.pc = pc] \in Thread
                       /\ Wired([thr[t] EXCEPT !.pc = pc])
    BY <2>2 DEF Thread, Wired
  <2> QED
    BY <2>1, <2>3, ThreadFrame
<1>10. ASSUME NEW t \in Threads, InsertFails(t) PROVE Threaded'
  <2>1. \E pc \in {"log"}, ok \in BOOLEAN :
          thr' = [thr EXCEPT ![t] = [thr[t] EXCEPT !.pc = pc, !.ok = ok]]
    BY <1>10 DEF InsertFails, Return
  <2>2. thr[t].pc \in {"insert"} /\ thr[t] \in Thread /\ Wired(thr[t])
    BY <1>10 DEF InsertFails, Threaded
  <2>3. \A pc \in {"log"}, ok \in BOOLEAN :
          /\ [thr[t] EXCEPT !.pc = pc, !.ok = ok] \in Thread
          /\ Wired([thr[t] EXCEPT !.pc = pc, !.ok = ok])
    BY <2>2 DEF Thread, Wired
  <2> QED
    BY <2>1, <2>3, ThreadFrame
<1>11. ASSUME NEW t \in Threads, Profile(t) PROVE Threaded'
  <2>1. \E pc \in {"log"}, ok \in BOOLEAN :
          thr' = [thr EXCEPT ![t] = [thr[t] EXCEPT !.pc = pc, !.ok = ok]]
    BY <1>11 DEF Profile, Return
  <2>2. thr[t].pc \in {"profile"} /\ thr[t] \in Thread /\ Wired(thr[t])
    BY <1>11 DEF Profile, Threaded
  <2>3. \A pc \in {"log"}, ok \in BOOLEAN :
          /\ [thr[t] EXCEPT !.pc = pc, !.ok = ok] \in Thread
          /\ Wired([thr[t] EXCEPT !.pc = pc, !.ok = ok])
    BY <2>2 DEF Thread, Wired
  <2> QED
    BY <2>1, <2>3, ThreadFrame
<1>12. ASSUME NEW t \in Threads, ProfileFails(t) PROVE Threaded'
  <2>1. \E pc \in {"log"}, ok \in BOOLEAN :
          thr' = [thr EXCEPT ![t] = [thr[t] EXCEPT !.pc = pc, !.ok = ok]]
    BY <1>12 DEF ProfileFails, Return
  <2>2. thr[t].pc \in {"profile"} /\ thr[t] \in Thread /\ Wired(thr[t])
    BY <1>12 DEF ProfileFails, Threaded
  <2>3. \A pc \in {"log"}, ok \in BOOLEAN :
          /\ [thr[t] EXCEPT !.pc = pc, !.ok = ok] \in Thread
          /\ Wired([thr[t] EXCEPT !.pc = pc, !.ok = ok])
    BY <2>2 DEF Thread, Wired
  <2> QED
    BY <2>1, <2>3, ThreadFrame
<1>13. ASSUME NEW t \in Threads, Delete(t) PROVE Threaded'
  <2>1. CASE rules[thr[t].ip] > 0
    <3>1. \E pc \in {"clear"}, ok \in BOOLEAN :
            thr' = [thr EXCEPT ![t] = [thr[t] EXCEPT !.pc = pc, !.ok = ok]]
      BY <1>13, <2>1 DEF Delete
    <3>2. thr[t].pc \in {"delete"} /\ thr[t] \in Thread /\ Wired(thr[t])
      BY <1>13 DEF Delete, Threaded
    <3>3. \A pc \in {"clear"}, ok \in BOOLEAN :
            /\ [thr[t] EXCEPT !.pc = pc, !.ok = ok] \in Thread
            /\ Wired([thr[t] EXCEPT !.pc = pc, !.ok = ok])
      BY <3>2 DEF Thread, Wired
    <3> QED
      BY <3>1, <3>3, ThreadFrame
  <2>2. CASE ~(rules[thr[t].ip] > 0)
    <3>1. \E pc \in {"clear"} : thr' = [thr EXCEPT ![t] = [thr[t] EXCEPT !.pc = pc]]
      BY <1>13, <2>2 DEF Delete, Goto
    <3>2. thr[t].pc \in {"delete"} /\ thr[t] \in Thread /\ Wired(thr[t])
      BY <1>13 DEF Delete, Threaded
    <3>3. \A pc \in {"clear"} : /\ [thr[t] EXCEPT !.pc = pc] \in Thread
                           /\ Wired([thr[t] EXCEPT !.pc = pc])
      BY <3>2 DEF Thread, Wired
    <3> QED
      BY <3>1, <3>3, ThreadFrame
  <2> QED
    BY <2>1, <2>2
<1>14. ASSUME NEW t \in Threads, DeleteFails(t) PROVE Threaded'
  <2>1. \E pc \in {"clear"} : thr' = [thr EXCEPT ![t] = [thr[t] EXCEPT !.pc = pc]]
    BY <1>14 DEF DeleteFails, Goto
  <2>2. thr[t].pc \in {"delete"} /\ thr[t] \in Thread /\ Wired(thr[t])
    BY <1>14 DEF DeleteFails, Threaded
  <2>3. \A pc \in {"clear"} : /\ [thr[t] EXCEPT !.pc = pc] \in Thread
                       /\ Wired([thr[t] EXCEPT !.pc = pc])
    BY <2>2 DEF Thread, Wired
  <2> QED
    BY <2>1, <2>3, ThreadFrame
<1>15. ASSUME NEW t \in Threads, Clear(t) PROVE Threaded'
  <2>1. thr' = [thr EXCEPT ![t] = [thr[t] EXCEPT !.pc = Unblocked(t)]]
    BY <1>15 DEF Clear, Goto
  <2>2. thr[t].pc = "clear" /\ thr[t] \in Thread /\ Wired(thr[t])
    BY <1>15 DEF Clear, Threaded
  <2>3. /\ [thr[t] EXCEPT !.pc = Unblocked(t)] \in Thread
        /\ Wired([thr[t] EXCEPT !.pc = Unblocked(t)])
    BY <2>2 DEF Thread, Wired, Unblocked
  <2> QED
    BY <2>1, <2>3, ThreadFrame
<1>16. ASSUME NEW t \in Threads, ClearFails(t) PROVE Threaded'
  <2>1. thr' = [thr EXCEPT ![t] = [thr[t] EXCEPT !.pc = Unblocked(t)]]
    BY <1>16 DEF ClearFails, Goto
  <2>2. thr[t].pc = "clear" /\ thr[t] \in Thread /\ Wired(thr[t])
    BY <1>16 DEF ClearFails, Threaded
  <2>3. /\ [thr[t] EXCEPT !.pc = Unblocked(t)] \in Thread
        /\ Wired([thr[t] EXCEPT !.pc = Unblocked(t)])
    BY <2>2 DEF Thread, Wired, Unblocked
  <2> QED
    BY <2>1, <2>3, ThreadFrame
<1>17. ASSUME NEW t \in Threads, AdminSave(t) PROVE Threaded'
  BY <1>17, IdleType, ThreadFrame DEF AdminSave
<1>18. ASSUME NEW t \in Threads, TimesOut(t) PROVE Threaded'
  <2> DEFINE pc == IF thr[t].action = NoAction THEN "save" ELSE "log"
  <2>1. thr' = [thr EXCEPT ![t] = [thr[t] EXCEPT !.pc = pc]]
    BY <1>18 DEF TimesOut
  <2>2. thr[t].pc \in {"insert", "delete"} /\ thr[t] \in Thread /\ Wired(thr[t])
    BY <1>18 DEF TimesOut, Threaded
  <2>3. /\ [thr[t] EXCEPT !.pc = pc] \in Thread
        /\ Wired([thr[t] EXCEPT !.pc = pc])
    BY <2>2 DEF Thread, Wired
  <2> QED
    BY <2>1, <2>3, ThreadFrame
<1>19. ASSUME NEW t \in Threads, Log(t) PROVE Threaded'
  <2>1. CASE thr[t].undoes # NoAction /\ thr[t].ok
    <3>1. thr' = [thr EXCEPT ![t] = [thr[t] EXCEPT !.pc = "mark"]]
      BY <1>19, <2>1 DEF Log
    <3>2. thr[t] \in Thread /\ Wired(thr[t])
      BY DEF Threaded
    <3>3. [thr[t] EXCEPT !.pc = "mark"] \in Thread /\ Wired([thr[t] EXCEPT !.pc = "mark"])
      BY <2>1, <3>2 DEF Thread, Wired
    <3> QED
      BY <3>1, <3>3, ThreadFrame
  <2>2. CASE ~(thr[t].undoes # NoAction /\ thr[t].ok)
    BY <1>19, <2>2, IdleType, ThreadFrame DEF Log
  <2> QED
    BY <2>1, <2>2
<1>20. ASSUME NEW t \in Threads, Mark(t) PROVE Threaded'
  BY <1>20, IdleType, ThreadFrame DEF Mark
<1>21. ASSUME NEW t \in Threads, Abort(t) PROVE Threaded'
  BY <1>21, IdleType, ThreadFrame DEF Abort
<1>22. ASSUME NEW ip \in Ips, AddProfile(ip) PROVE Threaded'
  BY <1>22 DEF AddProfile, Threaded
<1>23. ASSUME NEW ip \in Ips, EditProfile(ip) PROVE Threaded'
  BY <1>23 DEF EditProfile, Threaded
<1>24. ASSUME NEW ip \in Ips, NEW command \in {"insert", "delete"},
            LateCommand(ip, command)
       PROVE  Threaded'
  BY <1>24 DEF LateCommand, Threaded
<1>25. CASE UNCHANGED vars
  BY <1>25 DEF vars, Threaded
<1> QED
  BY <1>1, <1>2, <1>3, <1>4, <1>5, <1>6, <1>7, <1>8, <1>9, <1>10, <1>11,
     <1>12, <1>13, <1>14, <1>15, <1>16, <1>17, <1>18, <1>19, <1>20, <1>21,
     <1>22, <1>23, <1>24, <1>25 DEF Next, Start, Step

(* Every step keeps the tables well typed. *)
LEMMA TablesStep ==
    ASSUME Tables, Threaded, [Next]_vars
    PROVE  Tables'
<1>1. ASSUME NEW t \in Threads, RunBlock(t) PROVE Tables'
  <2>1. PICK a \in Actions, type \in {"block_ip", "unblock_ip"} :
          actions' = [actions EXCEPT ![a] = [status |-> "pending", type |-> type, target |-> NoIp]]
    BY <1>1 DEF RunBlock, Create
  <2>2. actions' \in [Actions -> Action]
    BY <2>1 DEF Tables, Action
  <2>3. disturbed' \subseteq Ips
    BY <1>1 DEF RunBlock, Meet, Disturb, Tables
  <2> QED
    BY <1>1, <2>2, <2>3 DEF RunBlock, Tables
<1>2. ASSUME NEW t \in Threads, RunUnblock(t) PROVE Tables'
  <2>1. PICK a \in Actions, type \in {"block_ip", "unblock_ip"} :
          actions' = [actions EXCEPT ![a] = [status |-> "pending", type |-> type, target |-> NoIp]]
    BY <1>2 DEF RunUnblock, Create
  <2>2. actions' \in [Actions -> Action]
    BY <2>1 DEF Tables, Action
  <2>3. disturbed' \subseteq Ips
    BY <1>2 DEF RunUnblock, Meet, Disturb, Tables
  <2> QED
    BY <1>2, <2>2, <2>3 DEF RunUnblock, Tables
<1>3. ASSUME NEW t \in Threads, Revoke(t) PROVE Tables'
  <2>1. PICK a \in Actions, type \in {"block_ip", "unblock_ip"} :
          actions' = [actions EXCEPT ![a] = [status |-> "pending", type |-> type, target |-> NoIp]]
    BY <1>3 DEF Revoke, Create
  <2>2. actions' \in [Actions -> Action]
    BY <2>1 DEF Tables, Action
  <2>3. disturbed' \subseteq Ips
    BY <1>3 DEF Revoke, Meet, Disturb, Tables
  <2> QED
    BY <1>3, <2>2, <2>3 DEF Revoke, Tables
<1>4. ASSUME NEW t \in Threads, AdminUnblock(t) PROVE Tables'
  BY <1>4 DEF AdminUnblock, Meet, Disturb, Tables
<1>5. ASSUME NEW t \in Threads, Check(t) PROVE Tables'
  BY <1>5 DEF Check, Tables
<1>6. ASSUME NEW t \in Threads, CheckFails(t) PROVE Tables'
  <2>1. spent' \in [Events -> Nat]
    BY <1>6 DEF CheckFails, Spend, Tables, Events
  <2> QED
    BY <1>6, <2>1 DEF CheckFails, Disturb, Tables
<1>7. ASSUME NEW t \in Threads, CheckRaises(t) PROVE Tables'
  <2>1. spent' \in [Events -> Nat]
    BY <1>7 DEF CheckRaises, Spend, Tables, Events
  <2> QED
    BY <1>7, <2>1 DEF CheckRaises, Disturb, Tables
<1>8. ASSUME NEW t \in Threads, CheckHangs(t) PROVE Tables'
  <2>1. spent' \in [Events -> Nat]
    BY <1>8 DEF CheckHangs, Spend, Tables, Events
  <2> QED
    BY <1>8, <2>1 DEF CheckHangs, Disturb, Tables
<1>9. ASSUME NEW t \in Threads, Insert(t) PROVE Tables'
  <2>1. thr[t].ip \in Ips
    BY <1>9 DEF Insert, Threaded, Wired
  <2> QED
    BY <1>9, <2>1 DEF Insert, Tables
<1>10. ASSUME NEW t \in Threads, InsertFails(t) PROVE Tables'
  <2>1. spent' \in [Events -> Nat]
    BY <1>10 DEF InsertFails, Spend, Tables, Events
  <2> QED
    BY <1>10, <2>1 DEF InsertFails, Disturb, Tables
<1>11. ASSUME NEW t \in Threads, Profile(t) PROVE Tables'
  <2>1. thr[t].ip \in Ips
    BY <1>11 DEF Profile, Threaded, Wired
  <2> QED
    BY <1>11, <2>1 DEF Profile, Tables, Marks
<1>12. ASSUME NEW t \in Threads, ProfileFails(t) PROVE Tables'
  <2>1. spent' \in [Events -> Nat]
    BY <1>12 DEF ProfileFails, Spend, Tables, Events
  <2> QED
    BY <1>12, <2>1 DEF ProfileFails, Disturb, Tables
<1>13. ASSUME NEW t \in Threads, Delete(t) PROVE Tables'
  <2>1. thr[t].ip \in Ips
    BY <1>13 DEF Delete, Threaded, Wired
  <2> QED
    BY <1>13, <2>1 DEF Delete, Tables
<1>14. ASSUME NEW t \in Threads, DeleteFails(t) PROVE Tables'
  <2>1. spent' \in [Events -> Nat]
    BY <1>14 DEF DeleteFails, Spend, Tables, Events
  <2> QED
    BY <1>14, <2>1 DEF DeleteFails, Disturb, Tables
<1>15. ASSUME NEW t \in Threads, Clear(t) PROVE Tables'
  <2>1. thr[t].ip \in Ips
    BY <1>15 DEF Clear, Threaded, Wired
  <2> QED
    BY <1>15, <2>1 DEF Clear, Tables, Marks
<1>16. ASSUME NEW t \in Threads, ClearFails(t) PROVE Tables'
  <2>1. spent' \in [Events -> Nat]
    BY <1>16 DEF ClearFails, Spend, Tables, Events
  <2> QED
    BY <1>16, <2>1 DEF ClearFails, Disturb, Tables
<1>17. ASSUME NEW t \in Threads, AdminSave(t) PROVE Tables'
  <2>1. thr[t].ip \in Ips
    BY <1>17 DEF AdminSave, Threaded, Wired
  <2> QED
    BY <1>17, <2>1 DEF AdminSave, Tables, Marks
<1>18. ASSUME NEW t \in Threads, TimesOut(t) PROVE Tables'
  <2>1. spent' \in [Events -> Nat]
    BY <1>18 DEF TimesOut, Spend, Tables, Events
  <2>2. late' \in [Ips -> [{"insert", "delete"} -> Nat]]
    <3>1. thr[t].pc \in {"insert", "delete"} => thr[t].ip \in Ips
      BY DEF Threaded, Wired
    <3> QED
      BY <1>18, <3>1 DEF TimesOut, Orphan, Tables
  <2> QED
    BY <1>18, <2>1, <2>2 DEF TimesOut, Disturb, Tables
<1>19. ASSUME NEW t \in Threads, Log(t) PROVE Tables'
  <2>1. thr[t].action \in Actions /\ thr[t].ip \in Ips \cup {NoIp}
    BY <1>19 DEF Log, Threaded, Wired, Thread
  <2>2. PICK status \in {"executed", "failed"} :
          actions' = [actions EXCEPT ![thr[t].action] =
                        [actions[thr[t].action] EXCEPT !.status = status, !.target = thr[t].ip]]
    BY <1>19 DEF Log
  <2>3. \A r \in Action, ip \in Ips \cup {NoIp} :
          [r EXCEPT !.status = status, !.target = ip] \in Action
    BY DEF Action
  <2>4. actions' \in [Actions -> Action]
    BY <2>1, <2>2, <2>3 DEF Tables
  <2> QED
    BY <1>19, <2>4 DEF Log, Tables
<1>20. ASSUME NEW t \in Threads, Mark(t) PROVE Tables'
  <2>1. thr[t].undoes \in Actions
    BY <1>20 DEF Mark, Threaded, Wired
  <2>2. actions' \in [Actions -> Action]
    BY <1>20, <2>1 DEF Mark, Tables, Action
  <2> QED
    BY <1>20, <2>2 DEF Mark, Tables
<1>21. ASSUME NEW t \in Threads, Abort(t) PROVE Tables'
  <2>1. spent' \in [Events -> Nat]
    BY <1>21 DEF Abort, Spend, Tables, Events
  <2>2. late' \in [Ips -> [{"insert", "delete"} -> Nat]]
    <3>1. thr[t].pc \in {"insert", "delete"} => thr[t].ip \in Ips
      BY DEF Threaded, Wired
    <3> QED
      BY <1>21, <3>1 DEF Abort, Orphan, Tables
  <2> QED
    BY <1>21, <2>1, <2>2 DEF Abort, Disturb, Tables
<1>22. ASSUME NEW ip \in Ips, AddProfile(ip) PROVE Tables'
  BY <1>22 DEF AddProfile, Disturb, Marks, Tables
<1>23. ASSUME NEW ip \in Ips, EditProfile(ip) PROVE Tables'
  <2>1. spent' \in [Events -> Nat]
    BY <1>23 DEF EditProfile, Spend, Tables, Events
  <2> QED
    BY <1>23, <2>1 DEF EditProfile, Disturb, Tables
<1>24. ASSUME NEW ip \in Ips, NEW command \in {"insert", "delete"},
            LateCommand(ip, command)
       PROVE  Tables'
  BY <1>24 DEF LateCommand, Tables
<1>25. CASE UNCHANGED vars
  BY <1>25 DEF vars, Tables
<1> QED
  BY <1>1, <1>2, <1>3, <1>4, <1>5, <1>6, <1>7, <1>8, <1>9, <1>10, <1>11,
     <1>12, <1>13, <1>14, <1>15, <1>16, <1>17, <1>18, <1>19, <1>20, <1>21,
     <1>22, <1>23, <1>24, <1>25 DEF Next, Start, Step

(* Every step keeps the protected addresses shielded. *)
LEMMA ShieldedStep ==
    ASSUME Tables, Threaded, Shielded, [Next]_vars
    PROVE  Shielded'
<1>1. ASSUME NEW t \in Threads, RunBlock(t) PROVE Shielded'
  BY <1>1 DEF RunBlock, Shielded
<1>2. ASSUME NEW t \in Threads, RunUnblock(t) PROVE Shielded'
  BY <1>2 DEF RunUnblock, Shielded
<1>3. ASSUME NEW t \in Threads, Revoke(t) PROVE Shielded'
  BY <1>3 DEF Revoke, Shielded
<1>4. ASSUME NEW t \in Threads, AdminUnblock(t) PROVE Shielded'
  BY <1>4 DEF AdminUnblock, Shielded
<1>5. ASSUME NEW t \in Threads, Check(t) PROVE Shielded'
  BY <1>5 DEF Check, Shielded
<1>6. ASSUME NEW t \in Threads, CheckFails(t) PROVE Shielded'
  BY <1>6 DEF CheckFails, Shielded
<1>7. ASSUME NEW t \in Threads, CheckRaises(t) PROVE Shielded'
  BY <1>7 DEF CheckRaises, Shielded
<1>8. ASSUME NEW t \in Threads, CheckHangs(t) PROVE Shielded'
  BY <1>8 DEF CheckHangs, Shielded
<1>9. ASSUME NEW t \in Threads, Insert(t) PROVE Shielded'
  <2>1. thr[t].ip \in Ips \ Protected
    BY <1>9 DEF Insert, Threaded, Wired
  <2> QED
    BY <1>9, <2>1 DEF Insert, Shielded, Tables
<1>10. ASSUME NEW t \in Threads, InsertFails(t) PROVE Shielded'
  BY <1>10 DEF InsertFails, Shielded
<1>11. ASSUME NEW t \in Threads, Profile(t) PROVE Shielded'
  BY <1>11 DEF Profile, Shielded
<1>12. ASSUME NEW t \in Threads, ProfileFails(t) PROVE Shielded'
  BY <1>12 DEF ProfileFails, Shielded
<1>13. ASSUME NEW t \in Threads, Delete(t) PROVE Shielded'
  <2>1. thr[t].ip \in Ips
    BY <1>13 DEF Delete, Threaded, Wired
  <2> QED
    BY <1>13, <2>1, FirewallAssumption DEF Delete, Shielded, Tables
<1>14. ASSUME NEW t \in Threads, DeleteFails(t) PROVE Shielded'
  BY <1>14 DEF DeleteFails, Shielded
<1>15. ASSUME NEW t \in Threads, Clear(t) PROVE Shielded'
  BY <1>15 DEF Clear, Shielded
<1>16. ASSUME NEW t \in Threads, ClearFails(t) PROVE Shielded'
  BY <1>16 DEF ClearFails, Shielded
<1>17. ASSUME NEW t \in Threads, AdminSave(t) PROVE Shielded'
  BY <1>17 DEF AdminSave, Shielded
<1>18. ASSUME NEW t \in Threads, TimesOut(t) PROVE Shielded'
  <2>1. /\ thr[t].pc \in {"insert", "delete"} => thr[t].ip \in Ips
        /\ thr[t].pc = "insert" => thr[t].ip \notin Protected
    BY DEF Threaded, Wired
  <2>2. \A ip \in Protected : late'[ip]["insert"] = late[ip]["insert"]
    BY <1>18, <2>1, FirewallAssumption DEF TimesOut, Orphan, Tables
  <2> QED
    BY <1>18, <2>2 DEF TimesOut, Shielded
<1>19. ASSUME NEW t \in Threads, Log(t) PROVE Shielded'
  BY <1>19 DEF Log, Shielded
<1>20. ASSUME NEW t \in Threads, Mark(t) PROVE Shielded'
  BY <1>20 DEF Mark, Shielded
<1>21. ASSUME NEW t \in Threads, Abort(t) PROVE Shielded'
  <2>1. /\ thr[t].pc \in {"insert", "delete"} => thr[t].ip \in Ips
        /\ thr[t].pc = "insert" => thr[t].ip \notin Protected
    BY DEF Threaded, Wired
  <2>2. \A ip \in Protected : late'[ip]["insert"] = late[ip]["insert"]
    BY <1>21, <2>1, FirewallAssumption DEF Abort, Orphan, Tables
  <2> QED
    BY <1>21, <2>2 DEF Abort, Shielded
<1>22. ASSUME NEW ip \in Ips, AddProfile(ip) PROVE Shielded'
  BY <1>22 DEF AddProfile, Shielded
<1>23. ASSUME NEW ip \in Ips, EditProfile(ip) PROVE Shielded'
  BY <1>23 DEF EditProfile, Shielded
<1>24. ASSUME NEW ip \in Ips, NEW command \in {"insert", "delete"},
            LateCommand(ip, command)
       PROVE  Shielded'
  <2>1. ip \in Protected => command = "delete" /\ UNCHANGED rules
    BY <1>24, FirewallAssumption DEF LateCommand, Shielded, Tables
  <2>2. \A x \in Protected : rules'[x] = rules[x] /\ late'[x]["insert"] = late[x]["insert"]
    BY <1>24, <2>1, FirewallAssumption DEF LateCommand, Tables
  <2> QED
    BY <2>2 DEF Shielded
<1>25. CASE UNCHANGED vars
  BY <1>25 DEF vars, Shielded
<1> QED
  BY <1>1, <1>2, <1>3, <1>4, <1>5, <1>6, <1>7, <1>8, <1>9, <1>10, <1>11,
     <1>12, <1>13, <1>14, <1>15, <1>16, <1>17, <1>18, <1>19, <1>20, <1>21,
     <1>22, <1>23, <1>24, <1>25 DEF Next, Start, Step

(* The base invariant. *)
LEMMA BaseInvariant == Spec => []Base
<1>1. Init => Base
  <2> SUFFICES ASSUME Init PROVE Base
    OBVIOUS
  <2>1. Tables
    BY FirewallAssumption DEF Init, Tables, Marks, Action
  <2>2. Threaded
    BY IdleType DEF Init, Threaded
  <2>3. Shielded
    BY FirewallAssumption DEF Init, Shielded
  <2> QED
    BY <2>1, <2>2, <2>3 DEF Base
<1>2. Base /\ [Next]_vars => Base'
  BY TablesStep, ThreadStep, ShieldedStep DEF Base
<1> QED
  BY <1>1, <1>2, PTL DEF Spec

(* Spec => []TypeOK, for any number of threads, addresses, rows and faults. *)
THEOREM FirewallTypeCorrect == Spec => []TypeOK
<1>1. Base => TypeOK
  BY DEF Base, Tables, Threaded, TypeOK
<1> QED
  BY BaseInvariant, <1>1, PTL

(* Spec => []ProtectedIsNotTargeted: comparing texts is enough for targets that are
   one address, against every interleaving and every command that finishes late.
   TextAssumption gives an unprotected address one text of its own; the theorem says
   nothing of a block of addresses, nor of another spelling of a protected one. *)
THEOREM ProtectedIsNeverTargeted == Spec => []ProtectedIsNotTargeted
<1>1. ASSUME NEW ip \in Single, NEW protected \in Protected,
             Covers[ip] \cap Covers[protected] # {}
      PROVE  ip \in Protected
  <2>1. PICK a \in Addresses, b \in Addresses :
          Covers[ip] = {a} /\ Covers[protected] = {b}
    BY TextAssumption DEF Single
  <2>2. ip \in Ips /\ protected \in Ips /\ Covers[ip] = Covers[protected]
    BY <1>1, <2>1, TextAssumption DEF Single
  <2> QED
    BY <2>2, TextAssumption
<1>2. Base => ProtectedIsNotTargeted
  BY <1>1 DEF Base, Shielded, ProtectedIsNotTargeted
<1> QED
  BY BaseInvariant, <1>2, PTL

-------------------------------------------------------------------------------
(* Between its first and its last write a thread moves on with the address and
   the rows it holds, or lets go of all of them. *)
Moves(t) ==
    /\ UNCHANGED actions
    /\ \A u \in Threads \ {t} : thr'[u] = thr[u]
    /\ \/ thr'[t] = Idle
       \/ /\ thr'[t].ip = thr[t].ip /\ thr'[t].action = thr[t].action
          /\ thr'[t].undoes = thr[t].undoes /\ thr[t].pc # "mark"
          /\ thr'[t].pc \notin {"mark", "idle"}

(* All its steps but Log and Mark are such moves. *)
LEMMA MovesStep ==
    ASSUME Tables, Threaded, NEW t \in Threads,
           \/ Check(t) \/ CheckFails(t) \/ CheckRaises(t) \/ CheckHangs(t)
           \/ Insert(t) \/ InsertFails(t) \/ Profile(t) \/ ProfileFails(t)
           \/ Delete(t) \/ DeleteFails(t) \/ Clear(t) \/ ClearFails(t)
           \/ TimesOut(t) \/ AdminSave(t) \/ Abort(t)
    PROVE  Moves(t)
<1>0. thr \in [Threads -> Thread]
  BY DEF Threaded
<1>1. CASE Check(t)
  BY <1>0, <1>1 DEF Check, Return, Goto, Moves, Thread
<1>2. CASE CheckFails(t)
  BY <1>0, <1>2 DEF CheckFails, Goto, Moves, Thread
<1>3. CASE CheckRaises(t)
  BY <1>0, <1>3 DEF CheckRaises, Return, Moves, Thread
<1>4. CASE CheckHangs(t)
  BY <1>0, <1>4 DEF CheckHangs, Goto, Moves, Thread
<1>5. CASE Insert(t)
  BY <1>0, <1>5 DEF Insert, Goto, Moves, Thread
<1>6. CASE InsertFails(t)
  BY <1>0, <1>6 DEF InsertFails, Return, Moves, Thread
<1>7. CASE Profile(t)
  BY <1>0, <1>7 DEF Profile, Return, Moves, Thread
<1>8. CASE ProfileFails(t)
  BY <1>0, <1>8 DEF ProfileFails, Return, Moves, Thread
<1>9. CASE Delete(t)
  BY <1>0, <1>9 DEF Delete, Goto, Moves, Thread
<1>10. CASE DeleteFails(t)
  BY <1>0, <1>10 DEF DeleteFails, Goto, Moves, Thread
<1>11. CASE Clear(t)
  BY <1>0, <1>11 DEF Clear, Goto, Unblocked, Moves, Thread
<1>12. CASE ClearFails(t)
  BY <1>0, <1>12 DEF ClearFails, Goto, Unblocked, Moves, Thread
<1>13. CASE TimesOut(t)
  BY <1>0, <1>13 DEF TimesOut, Moves, Thread
<1>14. CASE AdminSave(t)
  BY <1>0, <1>14 DEF AdminSave, Moves, Thread
<1>15. CASE Abort(t)
  BY <1>0, <1>15 DEF Abort, Moves, Thread
<1> QED
  BY <1>1, <1>2, <1>3, <1>4, <1>5, <1>6, <1>7, <1>8, <1>9, <1>10, <1>11,
     <1>12, <1>13, <1>14, <1>15

-------------------------------------------------------------------------------
(* Who writes which row: a pending row belongs to one thread and names no target
   yet; a row that is being undone has its outcome, and is about the address the
   thread works on. *)
Owned ==
    /\ \A a \in Actions : actions[a].status = "pending" => actions[a].target = NoIp
    /\ \A t \in Threads : thr[t].action \in Actions =>
          IF thr[t].pc = "mark" THEN actions[thr[t].action].status # "none"
          ELSE actions[thr[t].action].status = "pending"
    /\ \A t, u \in Threads : t # u /\ thr[t].action = thr[u].action => thr[t].action = NoAction
    /\ \A t \in Threads : thr[t].undoes \in Actions /\ thr[t].ip \in Ips =>
          /\ actions[thr[t].undoes].status \in {"executed", "failed", "revoked"}
          /\ actions[thr[t].undoes].target = thr[t].ip

(* A move writes no row, so it keeps who owns what. *)
LEMMA OwnedMoves ==
    ASSUME Owned, NEW t \in Threads, Moves(t)
    PROVE  Owned'
<1>1. /\ Idle.action \notin Actions /\ Idle.undoes \notin Actions
      /\ Idle.action = NoAction
  BY FirewallAssumption DEF Idle
<1>2. \A u \in Threads : \/ thr'[u] = Idle
                         \/ /\ thr'[u].ip = thr[u].ip /\ thr'[u].action = thr[u].action
                            /\ thr'[u].undoes = thr[u].undoes
                            /\ thr'[u].pc = "mark" <=> thr[u].pc = "mark"
  BY DEF Moves
<1>3. actions' = actions
  BY DEF Moves
<1> QED
  BY <1>1, <1>2, <1>3 DEF Owned

(* Starting on a free row. *)
LEMMA OwnedStart ==
    ASSUME Tables, Threaded, Owned, NEW t \in Threads, NEW a \in Actions,
           NEW type, NEW pc \in {"check", "delete", "log"}, NEW ip \in Ips \cup {NoIp},
           NEW b \in Actions \cup {NoAction},
           Create(a, type, ip), a # b,
           thr'[t].pc = pc, thr'[t].ip = ip, thr'[t].action = a, thr'[t].undoes = b,
           \A u \in Threads \ {t} : thr'[u] = thr[u],
           b \in Actions => /\ actions[b].status # "none"
                           /\ actions[b].target = ip
    PROVE  Owned'
<1>1. \A u, v \in Threads : u # v /\ thr[u].action = thr[v].action => thr[u].action = NoAction
  BY DEF Owned
<1>2. /\ actions[a].status = "none"
      /\ actions'[a].status = "pending" /\ actions'[a].target = NoIp
      /\ \A c \in Actions \ {a} : actions'[c] = actions[c]
  BY DEF Create, Tables
<1>3. \A u \in Threads \ {t} : /\ thr[u].action # a
                               /\ thr[u].undoes = a => thr[u].ip \notin Ips
  BY <1>2 DEF Owned
<1>4. b \in Actions /\ ip \in Ips => actions[b].status \in {"executed", "failed", "revoked"}
  BY FirewallAssumption DEF Owned, Tables, Action
<1>5. \A c \in Actions : actions'[c].status = "pending" => actions'[c].target = NoIp
  BY <1>2 DEF Owned
<1>6. \A u \in Threads : thr'[u].action \in Actions =>
        IF thr'[u].pc = "mark" THEN actions'[thr'[u].action].status # "none"
        ELSE actions'[thr'[u].action].status = "pending"
  BY <1>2, <1>3 DEF Owned
<1>7. \A u, v \in Threads : u # v /\ thr'[u].action = thr'[v].action => thr'[u].action = NoAction
  <2>1. ASSUME NEW v \in Threads \ {t} PROVE thr'[v].action # thr'[t].action
    <3>1. thr'[v] = thr[v] /\ thr'[t].action = a
      OBVIOUS
    <3>2. thr[v].action # a
      BY <1>3
    <3> QED
      BY <3>1, <3>2
  <2>2. ASSUME NEW u \in Threads \ {t}, NEW v \in Threads \ {t}
        PROVE  u # v /\ thr'[u].action = thr'[v].action => thr'[u].action = NoAction
    BY <1>1
  <2> QED
    BY <2>1, <2>2
<1>8. \A u \in Threads : thr'[u].undoes \in Actions /\ thr'[u].ip \in Ips =>
        /\ actions'[thr'[u].undoes].status \in {"executed", "failed", "revoked"}
        /\ actions'[thr'[u].undoes].target = thr'[u].ip
  BY <1>2, <1>3, <1>4 DEF Owned
<1> QED
  BY <1>5, <1>6, <1>7, <1>8 DEF Owned

(* Every step keeps who owns which row. *)
LEMMA OwnedStep ==
    ASSUME Base, Owned, [Next]_vars
    PROVE  Owned'
<1>1. ASSUME NEW t \in Threads, RunBlock(t) PROVE Owned'
  <2>1. PICK ip \in Ips \cup {NoIp}, a \in Actions :
          /\ Create(a, "block_ip", ip)
          /\ thr' = [thr EXCEPT ![t] = [Idle EXCEPT !.pc = BlockStart(ip), !.ip = ip,
                                                    !.action = a]]
    BY <1>1 DEF RunBlock
  <2>2. BlockStart(ip) \in {"check", "log"}
    BY DEF BlockStart
  <2>3. /\ thr'[t].pc = BlockStart(ip) /\ thr'[t].ip = ip /\ thr'[t].action = a
        /\ thr'[t].undoes = NoAction /\ \A u \in Threads \ {t} : thr'[u] = thr[u]
    BY <2>1 DEF Base, Threaded, Idle
  <2> QED
    BY <2>1, <2>2, <2>3, OwnedStart, FirewallAssumption DEF Base
<1>2. ASSUME NEW t \in Threads, RunUnblock(t) PROVE Owned'
  <2>1. PICK ip \in Ips \cup {NoIp}, a \in Actions :
          /\ Create(a, "unblock_ip", ip)
          /\ thr' = [thr EXCEPT ![t] = [Idle EXCEPT !.pc = UnblockStart(ip), !.ip = ip,
                                                    !.action = a]]
    BY <1>2 DEF RunUnblock
  <2>2. UnblockStart(ip) \in {"delete", "log"}
    BY DEF UnblockStart
  <2>3. /\ thr'[t].pc = UnblockStart(ip) /\ thr'[t].ip = ip /\ thr'[t].action = a
        /\ thr'[t].undoes = NoAction /\ \A u \in Threads \ {t} : thr'[u] = thr[u]
    BY <2>1 DEF Base, Threaded, Idle
  <2> QED
    BY <2>1, <2>2, <2>3, OwnedStart, FirewallAssumption DEF Base
<1>3. ASSUME NEW t \in Threads, Revoke(t) PROVE Owned'
  <2>1. PICK a \in Actions, b \in Actions :
          /\ actions[a].status \notin {"none", "revoked"}
          /\ Create(b, "unblock_ip", actions[a].target)
          /\ thr' = [thr EXCEPT ![t] = [Idle EXCEPT !.pc = UnblockStart(actions[a].target),
                                       !.ip = actions[a].target, !.action = b, !.undoes = a]]
    BY <1>3 DEF Revoke
  <2>2. PICK ip \in Ips \cup {NoIp} : ip = actions[a].target
    BY DEF Base, Tables, Action
  <2>3. UnblockStart(ip) \in {"delete", "log"}
    BY DEF UnblockStart
  <2>4. a # b
    BY <2>1 DEF Create
  <2>5. Create(b, "unblock_ip", ip)
    BY <2>1, <2>2
  <2>6. /\ thr'[t].pc = UnblockStart(ip) /\ thr'[t].ip = ip /\ thr'[t].action = b
        /\ thr'[t].undoes = a /\ \A u \in Threads \ {t} : thr'[u] = thr[u]
    BY <2>1, <2>2 DEF Base, Threaded, Idle
  <2> QED
    BY <2>1, <2>2, <2>3, <2>4, <2>5, <2>6, OwnedStart DEF Base
<1>4. ASSUME NEW t \in Threads, AdminUnblock(t) PROVE Owned'
  <2>1. /\ thr'[t].action = NoAction /\ thr'[t].undoes = NoAction
        /\ \A u \in Threads \ {t} : thr'[u] = thr[u]
        /\ actions' = actions
    BY <1>4 DEF AdminUnblock, Idle, Base, Threaded
  <2> QED
    BY <2>1, FirewallAssumption DEF Owned
<1>5. ASSUME NEW t \in Threads, Check(t) PROVE Owned'
  BY <1>5, MovesStep, OwnedMoves DEF Base
<1>6. ASSUME NEW t \in Threads, CheckFails(t) PROVE Owned'
  BY <1>6, MovesStep, OwnedMoves DEF Base
<1>7. ASSUME NEW t \in Threads, CheckRaises(t) PROVE Owned'
  BY <1>7, MovesStep, OwnedMoves DEF Base
<1>8. ASSUME NEW t \in Threads, CheckHangs(t) PROVE Owned'
  BY <1>8, MovesStep, OwnedMoves DEF Base
<1>9. ASSUME NEW t \in Threads, Insert(t) PROVE Owned'
  BY <1>9, MovesStep, OwnedMoves DEF Base
<1>10. ASSUME NEW t \in Threads, InsertFails(t) PROVE Owned'
  BY <1>10, MovesStep, OwnedMoves DEF Base
<1>11. ASSUME NEW t \in Threads, Profile(t) PROVE Owned'
  BY <1>11, MovesStep, OwnedMoves DEF Base
<1>12. ASSUME NEW t \in Threads, ProfileFails(t) PROVE Owned'
  BY <1>12, MovesStep, OwnedMoves DEF Base
<1>13. ASSUME NEW t \in Threads, Delete(t) PROVE Owned'
  BY <1>13, MovesStep, OwnedMoves DEF Base
<1>14. ASSUME NEW t \in Threads, DeleteFails(t) PROVE Owned'
  BY <1>14, MovesStep, OwnedMoves DEF Base
<1>15. ASSUME NEW t \in Threads, Clear(t) PROVE Owned'
  BY <1>15, MovesStep, OwnedMoves DEF Base
<1>16. ASSUME NEW t \in Threads, ClearFails(t) PROVE Owned'
  BY <1>16, MovesStep, OwnedMoves DEF Base
<1>17. ASSUME NEW t \in Threads, AdminSave(t) PROVE Owned'
  BY <1>17, MovesStep, OwnedMoves DEF Base
<1>18. ASSUME NEW t \in Threads, TimesOut(t) PROVE Owned'
  BY <1>18, MovesStep, OwnedMoves DEF Base
<1>19. ASSUME NEW t \in Threads, Log(t) PROVE Owned'
  <2>1. /\ thr[t].pc = "log" /\ thr[t].action \in Actions
        /\ actions[thr[t].action].status = "pending"
    BY <1>19 DEF Log, Owned, Base, Threaded, Wired
  <2>2. PICK a \in Actions : a = thr[t].action
    BY <2>1
  <2>3. /\ actions'[a].status \in {"executed", "failed"}
        /\ \A c \in Actions \ {a} : actions'[c] = actions[c]
    BY <1>19, <2>2 DEF Log, Base, Tables
  <2>4. /\ \A u \in Threads \ {t} : thr'[u] = thr[u]
        /\ \/ thr'[t] = Idle
           \/ /\ thr'[t].pc = "mark" /\ thr'[t].action = a
              /\ thr'[t].ip = thr[t].ip /\ thr'[t].undoes = thr[t].undoes
    BY <1>19, <2>2 DEF Log, Base, Threaded, Thread
  <2>5. /\ Idle.action \notin Actions /\ Idle.undoes \notin Actions
        /\ Idle.action = NoAction
    BY FirewallAssumption DEF Idle
  <2>6. \A u \in Threads \ {t} : thr[u].action # a
    BY <2>2, FirewallAssumption DEF Owned
  <2>7. \A u \in Threads : thr[u].undoes = a => thr[u].ip \notin Ips
    BY <2>1, <2>2 DEF Owned
  <2>8. \A c \in Actions : actions'[c].status = "pending" => actions'[c].target = NoIp
    BY <2>3 DEF Owned
  <2>9. \A u \in Threads : thr'[u].action \in Actions =>
          IF thr'[u].pc = "mark" THEN actions'[thr'[u].action].status # "none"
          ELSE actions'[thr'[u].action].status = "pending"
    BY <2>3, <2>4, <2>5, <2>6 DEF Owned
  <2>10. \A u, v \in Threads : u # v /\ thr'[u].action = thr'[v].action => thr'[u].action = NoAction
    BY <2>2, <2>4, <2>5 DEF Owned
  <2>11. \A u \in Threads : thr'[u].undoes \in Actions /\ thr'[u].ip \in Ips =>
          /\ actions'[thr'[u].undoes].status \in {"executed", "failed", "revoked"}
          /\ actions'[thr'[u].undoes].target = thr'[u].ip
    BY <2>3, <2>4, <2>5, <2>7 DEF Owned
  <2> QED
    BY <2>8, <2>9, <2>10, <2>11 DEF Owned
<1>20. ASSUME NEW t \in Threads, Mark(t) PROVE Owned'
  <2>1. /\ thr[t].undoes \in Actions /\ thr[t].ip \in Ips
        /\ actions[thr[t].undoes].status \in {"executed", "failed", "revoked"}
    BY <1>20 DEF Mark, Owned, Base, Threaded, Wired
  <2>2. PICK b \in Actions : b = thr[t].undoes
    BY <2>1
  <2>3. /\ actions'[b].status = "revoked" /\ actions'[b].target = actions[b].target
        /\ \A c \in Actions \ {b} : actions'[c] = actions[c]
    BY <1>20, <2>2 DEF Mark, Base, Tables, Action
  <2>4. /\ \A u \in Threads \ {t} : thr'[u] = thr[u]
        /\ thr'[t] = Idle
    BY <1>20 DEF Mark, Base, Threaded
  <2>5. /\ Idle.action \notin Actions /\ Idle.undoes \notin Actions
        /\ Idle.action = NoAction
    BY FirewallAssumption DEF Idle
  <2>6. \A c \in Actions : actions'[c].status = "pending" => actions'[c].target = NoIp
    BY <2>3 DEF Owned
  <2>7. \A u \in Threads : thr'[u].action \in Actions =>
          IF thr'[u].pc = "mark" THEN actions'[thr'[u].action].status # "none"
          ELSE actions'[thr'[u].action].status = "pending"
    BY <2>1, <2>2, <2>3, <2>4, <2>5 DEF Owned
  <2>8. \A u, v \in Threads : u # v /\ thr'[u].action = thr'[v].action => thr'[u].action = NoAction
    BY <2>4, <2>5 DEF Owned
  <2>9. \A u \in Threads : thr'[u].undoes \in Actions /\ thr'[u].ip \in Ips =>
          /\ actions'[thr'[u].undoes].status \in {"executed", "failed", "revoked"}
          /\ actions'[thr'[u].undoes].target = thr'[u].ip
    BY <2>3, <2>4, <2>5 DEF Owned
  <2> QED
    BY <2>6, <2>7, <2>8, <2>9 DEF Owned
<1>21. ASSUME NEW t \in Threads, Abort(t) PROVE Owned'
  BY <1>21, MovesStep, OwnedMoves DEF Base
<1>22. ASSUME NEW ip \in Ips, AddProfile(ip) PROVE Owned'
  BY <1>22 DEF AddProfile, Owned
<1>23. ASSUME NEW ip \in Ips, EditProfile(ip) PROVE Owned'
  BY <1>23 DEF EditProfile, Owned
<1>24. ASSUME NEW ip \in Ips, NEW command \in {"insert", "delete"},
            LateCommand(ip, command)
       PROVE  Owned'
  BY <1>24 DEF LateCommand, Owned
<1>25. CASE UNCHANGED vars
  BY <1>25 DEF vars, Owned
<1> QED
  BY <1>1, <1>2, <1>3, <1>4, <1>5, <1>6, <1>7, <1>8, <1>9, <1>10, <1>11,
     <1>12, <1>13, <1>14, <1>15, <1>16, <1>17, <1>18, <1>19, <1>20, <1>21,
     <1>22, <1>23, <1>24, <1>25 DEF Next, Start, Step

(* Owned is an invariant. *)
LEMMA OwnedInvariant == Spec => []Owned
<1>1. Init => Owned
  BY FirewallAssumption DEF Init, Owned, Idle
<1>2. Base /\ Owned /\ [Next]_vars => Owned'
  BY OwnedStep
<1> QED
  BY BaseInvariant, <1>1, <1>2, PTL DEF Spec

-------------------------------------------------------------------------------
(* Spec => LogMovesForward: an outcome is written once, to a row that is pending,
   and a revoke is written to a row that has its outcome. *)
THEOREM LogIsFinal == Spec => LogMovesForward
<1> DEFINE Forward(a) ==
      LET was == actions[a].status
          is == actions'[a].status
      IN  \/ was = is
          \/ was = "none" /\ is = "pending"
          \/ was = "pending" /\ is \in {"executed", "failed"}
          \/ was \in {"executed", "failed"} /\ is = "revoked"
<1>1. ASSUME Base, Owned, Next PROVE \A a \in Actions : Forward(a)
  <2>1. CASE actions' = actions
    BY <2>1
  <2>2. ASSUME NEW b \in Actions, NEW type, NEW ip, Create(b, type, ip)
        PROVE  \A a \in Actions : Forward(a)
    BY <1>1, <2>2 DEF Create, Base, Tables
  <2>3. ASSUME NEW t \in Threads, Log(t) PROVE \A a \in Actions : Forward(a)
    <3>1. thr[t].action \in Actions /\ actions[thr[t].action].status = "pending"
      BY <1>1, <2>3 DEF Log, Owned, Base, Threaded, Wired
    <3>2. PICK b \in Actions : b = thr[t].action
      BY <3>1
    <3>3. /\ actions'[b].status \in {"executed", "failed"}
          /\ \A c \in Actions \ {b} : actions'[c] = actions[c]
      BY <1>1, <2>3, <3>2 DEF Log, Base, Tables
    <3> QED
      BY <3>1, <3>2, <3>3
  <2>4. ASSUME NEW t \in Threads, Mark(t) PROVE \A a \in Actions : Forward(a)
    <3>1. /\ thr[t].undoes \in Actions
          /\ actions[thr[t].undoes].status \in {"executed", "failed", "revoked"}
      BY <1>1, <2>4 DEF Mark, Owned, Base, Threaded, Wired
    <3>2. PICK b \in Actions : b = thr[t].undoes
      BY <3>1
    <3>3. /\ actions'[b].status = "revoked"
          /\ \A c \in Actions \ {b} : actions'[c] = actions[c]
      BY <1>1, <2>4, <3>2 DEF Mark, Base, Tables
    <3> QED
      BY <3>1, <3>2, <3>3
  <2>5. ASSUME NEW t \in Threads, Start(t)
        PROVE  actions' = actions \/ \E b \in Actions : \E type, ip : Create(b, type, ip)
    BY <2>5 DEF Start, RunBlock, RunUnblock, Revoke, AdminUnblock
  <2>6. ASSUME NEW t \in Threads, Step(t) \/ CheckHangs(t) \/ Abort(t), ~Log(t), ~Mark(t)
        PROVE  actions' = actions
    BY <1>1, <2>6, MovesStep DEF Step, Moves, Base
  <2>7. ASSUME NEW ip \in Ips, \/ AddProfile(ip) \/ EditProfile(ip)
                              \/ \E command \in {"insert", "delete"} : LateCommand(ip, command)
        PROVE  actions' = actions
    BY <2>7 DEF AddProfile, EditProfile, LateCommand
  <2> QED
    BY <1>1, <2>1, <2>2, <2>3, <2>4, <2>5, <2>6, <2>7 DEF Next
<1>2. Base /\ Owned /\ [Next]_vars => [\A a \in Actions : Forward(a)]_vars
  BY <1>1
<1> QED
  BY BaseInvariant, OwnedInvariant, <1>2, PTL DEF Spec, LogMovesForward

-------------------------------------------------------------------------------
(* Counting threads and rows: a subset has no more elements. *)
LEMMA CardSub ==
    ASSUME NEW S, IsFiniteSet(S), NEW T, T \subseteq S
    PROVE  /\ IsFiniteSet(T) /\ Cardinality(T) \in Nat /\ Cardinality(S) \in Nat
           /\ Cardinality(T) <= Cardinality(S)
  BY FS_Subset, FS_CardinalityType

(* One element more. *)
LEMMA CardAdd ==
    ASSUME NEW S, IsFiniteSet(S), NEW x, NEW T, T \subseteq S \cup {x}
    PROVE  /\ IsFiniteSet(T) /\ Cardinality(T) \in Nat /\ Cardinality(S) \in Nat
           /\ Cardinality(T) <= Cardinality(S) + 1
<1>1. IsFiniteSet(S \cup {x}) /\ Cardinality(S \cup {x}) <= Cardinality(S) + 1
  <2>1. Cardinality(S) \in Nat
    BY FS_CardinalityType
  <2>2. /\ IsFiniteSet(S \cup {x})
        /\ Cardinality(S \cup {x}) = IF x \in S THEN Cardinality(S) ELSE Cardinality(S) + 1
    BY FS_AddElement
  <2> QED
    BY <2>1, <2>2
<1> QED
  BY <1>1, CardSub, FS_CardinalityType

(* One element less. *)
LEMMA CardDrop ==
    ASSUME NEW S, IsFiniteSet(S), NEW x \in S, NEW T, T \subseteq S \ {x}
    PROVE  /\ IsFiniteSet(T) /\ Cardinality(T) \in Nat /\ Cardinality(S) \in Nat
           /\ Cardinality(T) + 1 <= Cardinality(S)
<1>1. IsFiniteSet(S \ {x}) /\ Cardinality(S \ {x}) = Cardinality(S) - 1
  BY FS_RemoveElement
<1> QED
  BY <1>1, CardSub, FS_CardinalityType

(* Rules there are, rules that may come late and rules a thread is about to
   insert: together they stay within one for each thread and each fault. *)
Inserting(ip) == {t \in Threads : thr[t].pc = "insert" /\ thr[t].ip = ip}
Budget(ip) ==
    /\ late[ip]["insert"] <= spent["fault"]
    /\ rules[ip] + late[ip]["insert"] + Cardinality(Inserting(ip))
         <= Cardinality(Threads) + spent["fault"]

(* The sets that are counted are finite. *)
LEMMA InsertingFinite ==
    /\ IsFiniteSet(Threads) /\ Cardinality(Threads) \in Nat
    /\ \A ip \in Ips : IsFiniteSet(Inserting(ip)) /\ Cardinality(Inserting(ip)) \in Nat
  BY FirewallAssumption, CardSub, FS_CardinalityType DEF Inserting

(* A step of t that does not take it to iptables -I. *)
LEMMA BudgetFrame ==
    ASSUME Tables, NEW ip \in Ips, Budget(ip), NEW t \in Threads,
           \A u \in Threads \ {t} : thr'[u] = thr[u],
           thr'[t].pc = "insert" => thr'[t] = thr[t],
           spent'["fault"] \in Nat, spent["fault"] <= spent'["fault"],
           rules'[ip] \in Nat, rules'[ip] <= rules[ip],
           late'[ip]["insert"] = late[ip]["insert"]
    PROVE  Budget(ip)'
<1>1. Inserting(ip)' \subseteq Inserting(ip)
  BY DEF Inserting
<1>2. /\ Cardinality(Inserting(ip)') \in Nat
      /\ Cardinality(Inserting(ip)') <= Cardinality(Inserting(ip))
  BY <1>1, InsertingFinite, CardSub
<1>3. /\ rules[ip] \in Nat /\ late[ip]["insert"] \in Nat /\ spent["fault"] \in Nat
  BY DEF Tables, Events
<1> QED
  BY <1>2, <1>3, InsertingFinite DEF Budget

(* The check sends t to iptables -I: there was no rule, or a fault is counted. *)
LEMMA BudgetCheck ==
    ASSUME Tables, NEW ip \in Ips, Budget(ip), NEW t \in Threads,
           \A u \in Threads \ {t} : thr'[u] = thr[u], thr[t].pc = "check",
           late' = late, rules' = rules,
           spent'["fault"] \in Nat, spent["fault"] <= spent'["fault"],
           thr'[t].ip = ip => rules[ip] = 0 \/ spent["fault"] + 1 <= spent'["fault"]
    PROVE  Budget(ip)'
<1>1. /\ Inserting(ip) \subseteq Threads \ {t}
      /\ Inserting(ip)' \subseteq Inserting(ip) \cup {t}
      /\ thr'[t].ip # ip => Inserting(ip)' \subseteq Inserting(ip)
  BY DEF Inserting
<1>2. Cardinality(Inserting(ip)) + 1 <= Cardinality(Threads)
  BY <1>1, InsertingFinite, CardDrop
<1>3. /\ Cardinality(Inserting(ip)') \in Nat
      /\ Cardinality(Inserting(ip)') <= Cardinality(Inserting(ip)) + 1
      /\ thr'[t].ip # ip => Cardinality(Inserting(ip)') <= Cardinality(Inserting(ip))
  BY <1>1, InsertingFinite, CardAdd, CardSub
<1>4. /\ rules[ip] \in Nat /\ late[ip]["insert"] \in Nat /\ spent["fault"] \in Nat
  BY DEF Tables, Events
<1> QED
  BY <1>2, <1>3, <1>4, InsertingFinite DEF Budget

(* What t was about to insert is inserted, or may come late. *)
LEMMA BudgetInsert ==
    ASSUME Tables, NEW ip \in Ips, Budget(ip), NEW t \in Inserting(ip),
           \A u \in Threads \ {t} : thr'[u] = thr[u], thr'[t].pc # "insert",
           spent'["fault"] \in Nat,
           \/ /\ rules'[ip] = rules[ip] + 1 /\ late' = late /\ spent' = spent
           \/ /\ rules' = rules /\ late'[ip]["insert"] = late[ip]["insert"] + 1
              /\ spent'["fault"] = spent["fault"] + 1
    PROVE  Budget(ip)'
<1>1. Inserting(ip)' \subseteq Inserting(ip) \ {t}
  BY DEF Inserting
<1>2. /\ Cardinality(Inserting(ip)') \in Nat
      /\ Cardinality(Inserting(ip)') + 1 <= Cardinality(Inserting(ip))
  BY <1>1, InsertingFinite, CardDrop
<1>3. /\ rules[ip] \in Nat /\ late[ip]["insert"] \in Nat /\ spent["fault"] \in Nat
  BY DEF Tables, Events
<1> QED
  BY <1>2, <1>3, InsertingFinite DEF Budget

(* Every step keeps every address within its budget. *)
LEMMA BudgetStep ==
    ASSUME Base, \A ip \in Ips : Budget(ip), [Next]_vars
    PROVE  (\A ip \in Ips : Budget(ip))'
<1>1. ASSUME NEW t \in Threads, RunBlock(t) PROVE (\A ip \in Ips : Budget(ip))'
  <2>1. /\ \A u \in Threads \ {t} : thr'[u] = thr[u]
        /\ thr'[t].pc # "insert" /\ UNCHANGED <<rules, late>>
    BY <1>1 DEF RunBlock, BlockStart, Idle, Base, Threaded
  <2>2. spent'["fault"] \in Nat /\ spent["fault"] <= spent'["fault"]
    BY <1>1 DEF RunBlock, Spend, Base, Tables, Events
  <2> QED
    BY <2>1, <2>2, BudgetFrame DEF Base, Tables
<1>2. ASSUME NEW t \in Threads, RunUnblock(t) PROVE (\A ip \in Ips : Budget(ip))'
  <2>1. /\ \A u \in Threads \ {t} : thr'[u] = thr[u]
        /\ thr'[t].pc # "insert" /\ UNCHANGED <<rules, late>>
    BY <1>2 DEF RunUnblock, UnblockStart, Idle, Base, Threaded
  <2>2. spent'["fault"] \in Nat /\ spent["fault"] <= spent'["fault"]
    BY <1>2 DEF RunUnblock, Spend, Base, Tables, Events
  <2> QED
    BY <2>1, <2>2, BudgetFrame DEF Base, Tables
<1>3. ASSUME NEW t \in Threads, Revoke(t) PROVE (\A ip \in Ips : Budget(ip))'
  <2>1. /\ \A u \in Threads \ {t} : thr'[u] = thr[u]
        /\ thr'[t].pc # "insert" /\ UNCHANGED <<rules, late>>
    BY <1>3 DEF Revoke, UnblockStart, Idle, Base, Threaded
  <2>2. spent'["fault"] \in Nat /\ spent["fault"] <= spent'["fault"]
    BY <1>3 DEF Revoke, Spend, Base, Tables, Events
  <2> QED
    BY <2>1, <2>2, BudgetFrame DEF Base, Tables
<1>4. ASSUME NEW t \in Threads, AdminUnblock(t) PROVE (\A ip \in Ips : Budget(ip))'
  <2>1. /\ \A u \in Threads \ {t} : thr'[u] = thr[u]
        /\ thr'[t].pc # "insert" /\ UNCHANGED <<rules, late>>
    BY <1>4 DEF AdminUnblock, Idle, Base, Threaded
  <2>2. spent'["fault"] \in Nat /\ spent["fault"] <= spent'["fault"]
    BY <1>4 DEF AdminUnblock, Spend, Base, Tables, Events
  <2> QED
    BY <2>1, <2>2, BudgetFrame DEF Base, Tables
<1>5. ASSUME NEW t \in Threads, Check(t) PROVE (\A ip \in Ips : Budget(ip))'
  <2>1. /\ \A u \in Threads \ {t} : thr'[u] = thr[u]
        /\ thr[t].pc = "check" /\ UNCHANGED <<rules, late, spent>>
    BY <1>5 DEF Check, Return, Goto, Base, Threaded
  <2>2. spent["fault"] \in Nat
    BY DEF Base, Tables, Events
  <2>3. CASE rules[thr[t].ip] > 0
    <3>1. thr'[t].pc # "insert"
      BY <1>5, <2>3 DEF Check, Return, Base, Threaded, Thread
    <3> QED
      BY <2>1, <2>2, <3>1, BudgetFrame DEF Base, Tables
  <2>4. CASE ~(rules[thr[t].ip] > 0)
    <3>1. thr'[t].ip = thr[t].ip /\ thr[t].ip \in Ips
      BY <1>5, <2>4 DEF Check, Goto, Base, Threaded, Thread, Wired
    <3>2. rules[thr[t].ip] = 0
      BY <2>4, <3>1 DEF Base, Tables
    <3> QED
      BY <2>1, <2>2, <3>1, <3>2, BudgetCheck DEF Base
  <2> QED
    BY <2>3, <2>4
<1>6. ASSUME NEW t \in Threads, CheckFails(t) PROVE (\A ip \in Ips : Budget(ip))'
  <2>1. /\ \A u \in Threads \ {t} : thr'[u] = thr[u]
        /\ thr[t].pc = "check" /\ UNCHANGED <<rules, late>>
    BY <1>6 DEF CheckFails, Goto, Base, Threaded
  <2>2. spent'["fault"] = spent["fault"] + 1 /\ spent["fault"] \in Nat
    BY <1>6 DEF CheckFails, Spend, Base, Tables, Events
  <2> QED
    BY <2>1, <2>2, BudgetCheck DEF Base
<1>7. ASSUME NEW t \in Threads, CheckRaises(t) PROVE (\A ip \in Ips : Budget(ip))'
  <2>1. /\ \A u \in Threads \ {t} : thr'[u] = thr[u]
        /\ thr'[t].pc # "insert" /\ UNCHANGED <<rules, late>>
    BY <1>7 DEF CheckRaises, Return, Base, Threaded, Thread
  <2>2. spent'["fault"] \in Nat /\ spent["fault"] <= spent'["fault"]
    BY <1>7 DEF CheckRaises, Spend, Base, Tables, Events
  <2> QED
    BY <2>1, <2>2, BudgetFrame DEF Base, Tables
<1>8. ASSUME NEW t \in Threads, CheckHangs(t) PROVE (\A ip \in Ips : Budget(ip))'
  <2>1. /\ \A u \in Threads \ {t} : thr'[u] = thr[u]
        /\ thr'[t].pc # "insert" /\ UNCHANGED <<rules, late>>
    BY <1>8 DEF CheckHangs, Goto, Base, Threaded, Thread
  <2>2. spent'["fault"] \in Nat /\ spent["fault"] <= spent'["fault"]
    BY <1>8 DEF CheckHangs, Spend, Base, Tables, Events
  <2> QED
    BY <2>1, <2>2, BudgetFrame DEF Base, Tables
<1>9. ASSUME NEW t \in Threads, Insert(t) PROVE (\A ip \in Ips : Budget(ip))'
  <2>1. /\ \A u \in Threads \ {t} : thr'[u] = thr[u]
        /\ thr'[t].pc = "profile" /\ UNCHANGED <<late, spent>>
    BY <1>9 DEF Insert, Goto, Base, Threaded, Thread
  <2>2. /\ thr[t].pc = "insert"
        /\ \A ip \in Ips : rules'[ip] = IF ip = thr[t].ip THEN rules[ip] + 1 ELSE rules[ip]
        /\ spent["fault"] \in Nat /\ \A ip \in Ips : rules[ip] \in Nat
    BY <1>9 DEF Insert, Base, Tables, Events
  <2>3. ASSUME NEW ip \in Ips, thr[t].ip = ip PROVE Budget(ip)'
    <3>1. t \in Inserting(ip)
      BY <2>2, <2>3 DEF Inserting
    <3> QED
      BY <2>1, <2>2, <2>3, <3>1, BudgetInsert DEF Base
  <2>4. ASSUME NEW ip \in Ips, thr[t].ip # ip PROVE Budget(ip)'
    BY <2>1, <2>2, <2>4, BudgetFrame DEF Base
  <2> QED
    BY <2>3, <2>4
<1>10. ASSUME NEW t \in Threads, InsertFails(t) PROVE (\A ip \in Ips : Budget(ip))'
  <2>1. /\ \A u \in Threads \ {t} : thr'[u] = thr[u]
        /\ thr'[t].pc # "insert" /\ UNCHANGED <<rules, late>>
    BY <1>10 DEF InsertFails, Return, Base, Threaded, Thread
  <2>2. spent'["fault"] \in Nat /\ spent["fault"] <= spent'["fault"]
    BY <1>10 DEF InsertFails, Spend, Base, Tables, Events
  <2> QED
    BY <2>1, <2>2, BudgetFrame DEF Base, Tables
<1>11. ASSUME NEW t \in Threads, Profile(t) PROVE (\A ip \in Ips : Budget(ip))'
  <2>1. /\ \A u \in Threads \ {t} : thr'[u] = thr[u]
        /\ thr'[t].pc # "insert" /\ UNCHANGED <<rules, late>>
    BY <1>11 DEF Profile, Return, Base, Threaded, Thread
  <2>2. spent'["fault"] \in Nat /\ spent["fault"] <= spent'["fault"]
    BY <1>11 DEF Profile, Spend, Base, Tables, Events
  <2> QED
    BY <2>1, <2>2, BudgetFrame DEF Base, Tables
<1>12. ASSUME NEW t \in Threads, ProfileFails(t) PROVE (\A ip \in Ips : Budget(ip))'
  <2>1. /\ \A u \in Threads \ {t} : thr'[u] = thr[u]
        /\ thr'[t].pc # "insert" /\ UNCHANGED <<rules, late>>
    BY <1>12 DEF ProfileFails, Return, Base, Threaded, Thread
  <2>2. spent'["fault"] \in Nat /\ spent["fault"] <= spent'["fault"]
    BY <1>12 DEF ProfileFails, Spend, Base, Tables, Events
  <2> QED
    BY <2>1, <2>2, BudgetFrame DEF Base, Tables
<1>13. ASSUME NEW t \in Threads, Delete(t) PROVE (\A ip \in Ips : Budget(ip))'
  <2>1. /\ \A u \in Threads \ {t} : thr'[u] = thr[u]
        /\ thr'[t].pc # "insert" /\ UNCHANGED <<late, spent>>
    BY <1>13 DEF Delete, Goto, Base, Threaded, Thread
  <2>2. \A ip \in Ips : rules'[ip] \in Nat /\ rules'[ip] <= rules[ip]
    BY <1>13 DEF Delete, Base, Tables
  <2>3. spent["fault"] \in Nat
    BY DEF Base, Tables, Events
  <2> QED
    BY <2>1, <2>2, <2>3, BudgetFrame DEF Base
<1>14. ASSUME NEW t \in Threads, DeleteFails(t) PROVE (\A ip \in Ips : Budget(ip))'
  <2>1. /\ \A u \in Threads \ {t} : thr'[u] = thr[u]
        /\ thr'[t].pc # "insert" /\ UNCHANGED <<rules, late>>
    BY <1>14 DEF DeleteFails, Goto, Base, Threaded, Thread
  <2>2. spent'["fault"] \in Nat /\ spent["fault"] <= spent'["fault"]
    BY <1>14 DEF DeleteFails, Spend, Base, Tables, Events
  <2> QED
    BY <2>1, <2>2, BudgetFrame DEF Base, Tables
<1>15. ASSUME NEW t \in Threads, Clear(t) PROVE (\A ip \in Ips : Budget(ip))'
  <2>1. /\ \A u \in Threads \ {t} : thr'[u] = thr[u]
        /\ thr'[t].pc # "insert" /\ UNCHANGED <<rules, late>>
    BY <1>15 DEF Clear, Goto, Unblocked, Base, Threaded, Thread
  <2>2. spent'["fault"] \in Nat /\ spent["fault"] <= spent'["fault"]
    BY <1>15 DEF Clear, Spend, Base, Tables, Events
  <2> QED
    BY <2>1, <2>2, BudgetFrame DEF Base, Tables
<1>16. ASSUME NEW t \in Threads, ClearFails(t) PROVE (\A ip \in Ips : Budget(ip))'
  <2>1. /\ \A u \in Threads \ {t} : thr'[u] = thr[u]
        /\ thr'[t].pc # "insert" /\ UNCHANGED <<rules, late>>
    BY <1>16 DEF ClearFails, Goto, Unblocked, Base, Threaded, Thread
  <2>2. spent'["fault"] \in Nat /\ spent["fault"] <= spent'["fault"]
    BY <1>16 DEF ClearFails, Spend, Base, Tables, Events
  <2> QED
    BY <2>1, <2>2, BudgetFrame DEF Base, Tables
<1>17. ASSUME NEW t \in Threads, AdminSave(t) PROVE (\A ip \in Ips : Budget(ip))'
  <2>1. /\ \A u \in Threads \ {t} : thr'[u] = thr[u]
        /\ thr'[t].pc # "insert" /\ UNCHANGED <<rules, late>>
    BY <1>17 DEF AdminSave, Idle, Base, Threaded
  <2>2. spent'["fault"] \in Nat /\ spent["fault"] <= spent'["fault"]
    BY <1>17 DEF AdminSave, Spend, Base, Tables, Events
  <2> QED
    BY <2>1, <2>2, BudgetFrame DEF Base, Tables
<1>18. ASSUME NEW t \in Threads, TimesOut(t) PROVE (\A ip \in Ips : Budget(ip))'
  <2>1. /\ \A u \in Threads \ {t} : thr'[u] = thr[u]
        /\ thr'[t].pc # "insert" /\ UNCHANGED rules
    BY <1>18 DEF TimesOut, Idle, Base, Threaded, Thread
  <2>2. spent'["fault"] = spent["fault"] + 1 /\ spent["fault"] \in Nat
    BY <1>18 DEF TimesOut, Spend, Base, Tables, Events
  <2>3. \A ip \in Ips : late'[ip]["insert"] =
          IF ip = thr[t].ip /\ thr[t].pc = "insert" THEN late[ip]["insert"] + 1
          ELSE late[ip]["insert"]
    BY <1>18 DEF TimesOut, Orphan, Base, Tables
  <2>4. ASSUME NEW ip \in Ips, thr[t].ip = ip, thr[t].pc = "insert" PROVE Budget(ip)'
    <3>1. t \in Inserting(ip)
      BY <2>4 DEF Inserting
    <3> QED
      BY <2>1, <2>2, <2>3, <2>4, <3>1, BudgetInsert DEF Base
  <2>5. ASSUME NEW ip \in Ips, ~(thr[t].ip = ip /\ thr[t].pc = "insert") PROVE Budget(ip)'
    BY <2>1, <2>2, <2>3, <2>5, BudgetFrame DEF Base, Tables
  <2> QED
    BY <2>4, <2>5
<1>19. ASSUME NEW t \in Threads, Log(t) PROVE (\A ip \in Ips : Budget(ip))'
  <2>1. /\ \A u \in Threads \ {t} : thr'[u] = thr[u]
        /\ thr'[t].pc # "insert" /\ UNCHANGED <<rules, late>>
    BY <1>19 DEF Log, Idle, Base, Threaded, Thread
  <2>2. spent'["fault"] \in Nat /\ spent["fault"] <= spent'["fault"]
    BY <1>19 DEF Log, Spend, Base, Tables, Events
  <2> QED
    BY <2>1, <2>2, BudgetFrame DEF Base, Tables
<1>20. ASSUME NEW t \in Threads, Mark(t) PROVE (\A ip \in Ips : Budget(ip))'
  <2>1. /\ \A u \in Threads \ {t} : thr'[u] = thr[u]
        /\ thr'[t].pc # "insert" /\ UNCHANGED <<rules, late>>
    BY <1>20 DEF Mark, Idle, Base, Threaded
  <2>2. spent'["fault"] \in Nat /\ spent["fault"] <= spent'["fault"]
    BY <1>20 DEF Mark, Spend, Base, Tables, Events
  <2> QED
    BY <2>1, <2>2, BudgetFrame DEF Base, Tables
<1>21. ASSUME NEW t \in Threads, Abort(t) PROVE (\A ip \in Ips : Budget(ip))'
  <2>1. /\ \A u \in Threads \ {t} : thr'[u] = thr[u]
        /\ thr'[t].pc # "insert" /\ UNCHANGED rules
    BY <1>21 DEF Abort, Idle, Base, Threaded, Thread
  <2>2. spent'["fault"] = spent["fault"] + 1 /\ spent["fault"] \in Nat
    BY <1>21 DEF Abort, Spend, Base, Tables, Events
  <2>3. \A ip \in Ips : late'[ip]["insert"] =
          IF ip = thr[t].ip /\ thr[t].pc = "insert" THEN late[ip]["insert"] + 1
          ELSE late[ip]["insert"]
    BY <1>21 DEF Abort, Orphan, Base, Tables
  <2>4. ASSUME NEW ip \in Ips, thr[t].ip = ip, thr[t].pc = "insert" PROVE Budget(ip)'
    <3>1. t \in Inserting(ip)
      BY <2>4 DEF Inserting
    <3> QED
      BY <2>1, <2>2, <2>3, <2>4, <3>1, BudgetInsert DEF Base
  <2>5. ASSUME NEW ip \in Ips, ~(thr[t].ip = ip /\ thr[t].pc = "insert") PROVE Budget(ip)'
    BY <2>1, <2>2, <2>3, <2>5, BudgetFrame DEF Base, Tables
  <2> QED
    BY <2>4, <2>5
<1>22. ASSUME NEW ip \in Ips, AddProfile(ip) PROVE (\A x \in Ips : Budget(x))'
  <2>1. UNCHANGED <<thr, rules, late>> /\ spent'["fault"] = spent["fault"]
    BY <1>22 DEF AddProfile, Spend, Base, Tables, Events
  <2>2. \A x \in Ips : Inserting(x)' = Inserting(x)
    BY <2>1 DEF Inserting
  <2> QED
    BY <2>1, <2>2 DEF Budget
<1>23. ASSUME NEW ip \in Ips, EditProfile(ip) PROVE (\A x \in Ips : Budget(x))'
  <2>1. UNCHANGED <<thr, rules, late>> /\ spent'["fault"] = spent["fault"]
    BY <1>23 DEF EditProfile, Spend, Base, Tables, Events
  <2>2. \A x \in Ips : Inserting(x)' = Inserting(x)
    BY <2>1 DEF Inserting
  <2> QED
    BY <2>1, <2>2 DEF Budget
<1>24. ASSUME NEW ip \in Ips, NEW command \in {"insert", "delete"},
            LateCommand(ip, command)
       PROVE  (\A x \in Ips : Budget(x))'
  <2>1. UNCHANGED <<thr, spent>>
    BY <1>24 DEF LateCommand
  <2>2. \A x \in Ips : Inserting(x)' = Inserting(x)
    BY <2>1 DEF Inserting
  <2>3. \A x \in Ips : /\ late'[x]["insert"] \in Nat /\ late'[x]["insert"] <= late[x]["insert"]
                       /\ rules'[x] \in Nat
                       /\ rules'[x] + late'[x]["insert"] <= rules[x] + late[x]["insert"]
    BY <1>24 DEF LateCommand, Base, Tables
  <2>4. /\ \A x \in Ips : rules[x] \in Nat /\ late[x]["insert"] \in Nat
        /\ spent["fault"] \in Nat
    BY DEF Base, Tables, Events
  <2> QED
    BY <2>1, <2>2, <2>3, <2>4, InsertingFinite DEF Budget
<1>25. CASE UNCHANGED vars
  <2>1. UNCHANGED <<thr, rules, late>> /\ spent'["fault"] = spent["fault"]
    BY <1>25 DEF vars, Spend, Base, Tables, Events
  <2>2. \A x \in Ips : Inserting(x)' = Inserting(x)
    BY <2>1 DEF Inserting
  <2> QED
    BY <2>1, <2>2 DEF Budget
<1> QED
  BY <1>1, <1>2, <1>3, <1>4, <1>5, <1>6, <1>7, <1>8, <1>9, <1>10, <1>11,
     <1>12, <1>13, <1>14, <1>15, <1>16, <1>17, <1>18, <1>19, <1>20, <1>21,
     <1>22, <1>23, <1>24, <1>25 DEF Next, Start, Step

(* Spec => []DuplicatesAreBounded: however many times an address is blocked. *)
THEOREM DuplicatesStayBounded == Spec => []DuplicatesAreBounded
<1>1. Init => \A ip \in Ips : Budget(ip)
  <2> SUFFICES ASSUME Init, NEW ip \in Ips PROVE Budget(ip)
    OBVIOUS
  <2>1. Inserting(ip) = {}
    BY DEF Init, Inserting, Idle
  <2>2. rules[ip] = 0 /\ late[ip]["insert"] = 0 /\ spent["fault"] = 0
    BY DEF Init, Events
  <2> QED
    BY <2>1, <2>2, FS_EmptySet, InsertingFinite DEF Budget
<1>2. Base /\ (\A ip \in Ips : Budget(ip)) /\ [Next]_vars => (\A ip \in Ips : Budget(ip))'
  BY BudgetStep
<1>3. Base /\ (\A ip \in Ips : Budget(ip)) => DuplicatesAreBounded
  BY InsertingFinite DEF Base, Tables, Budget, DuplicatesAreBounded, Events
<1> QED
  BY BaseInvariant, <1>1, <1>2, <1>3, PTL DEF Spec

-------------------------------------------------------------------------------
(* The blocks of an address that are revoked, the threads that have removed one
   of its rules and may still mark a block, and the rules it has: together they
   stay within the rules that were inserted. *)
Revoked(ip) == {a \in Actions : actions[a].status = "revoked" /\ actions[a].target = ip}
Owing(ip) == {t \in Threads : thr[t].ok /\ thr[t].undoes \in Actions /\ thr[t].ip = ip}
Backed(ip) == Cardinality(Revoked(ip)) + Cardinality(Owing(ip)) + rules[ip] <= put[ip]

(* The sets that are counted are finite. *)
LEMMA OwingFinite ==
    \A ip \in Ips :
        /\ IsFiniteSet(Revoked(ip)) /\ Cardinality(Revoked(ip)) \in Nat
        /\ IsFiniteSet(Owing(ip)) /\ Cardinality(Owing(ip)) \in Nat
  BY FirewallAssumption, CardSub, FS_CardinalityType DEF Revoked, Owing

(* A step that adds no revoke and no debt, and no rule that is not counted. *)
LEMMA BackedFrame ==
    ASSUME Tables, NEW ip \in Ips, Backed(ip),
           Revoked(ip)' \subseteq Revoked(ip), Owing(ip)' \subseteq Owing(ip),
           rules'[ip] \in Nat, put'[ip] \in Nat,
           rules'[ip] + put[ip] <= put'[ip] + rules[ip]
    PROVE  Backed(ip)'
<1>1. /\ Cardinality(Revoked(ip)') \in Nat /\ Cardinality(Owing(ip)') \in Nat
      /\ Cardinality(Revoked(ip)') <= Cardinality(Revoked(ip))
      /\ Cardinality(Owing(ip)') <= Cardinality(Owing(ip))
  BY OwingFinite, CardSub
<1>2. rules[ip] \in Nat /\ put[ip] \in Nat
  BY DEF Tables
<1> QED
  BY <1>1, <1>2, OwingFinite DEF Backed

(* t removes a rule. *)
LEMMA BackedDelete ==
    ASSUME Tables, NEW ip \in Ips, Backed(ip), NEW t \in Threads,
           Revoked(ip)' \subseteq Revoked(ip), Owing(ip)' \subseteq Owing(ip) \cup {t},
           rules'[ip] \in Nat, put'[ip] = put[ip], rules'[ip] + 1 <= rules[ip]
    PROVE  Backed(ip)'
<1>1. /\ Cardinality(Revoked(ip)') \in Nat
      /\ Cardinality(Revoked(ip)') <= Cardinality(Revoked(ip))
  BY OwingFinite, CardSub
<1>2. /\ Cardinality(Owing(ip)') \in Nat
      /\ Cardinality(Owing(ip)') <= Cardinality(Owing(ip)) + 1
  BY OwingFinite, CardAdd
<1>3. rules[ip] \in Nat /\ put[ip] \in Nat
  BY DEF Tables
<1> QED
  BY <1>1, <1>2, <1>3, OwingFinite DEF Backed

(* t marks the block whose rule it has removed. *)
LEMMA BackedMark ==
    ASSUME Tables, NEW ip \in Ips, Backed(ip), NEW t \in Owing(ip), NEW b,
           Revoked(ip)' \subseteq Revoked(ip) \cup {b}, Owing(ip)' \subseteq Owing(ip) \ {t},
           rules'[ip] = rules[ip], put'[ip] = put[ip]
    PROVE  Backed(ip)'
<1>1. /\ Cardinality(Revoked(ip)') \in Nat
      /\ Cardinality(Revoked(ip)') <= Cardinality(Revoked(ip)) + 1
  BY OwingFinite, CardAdd
<1>2. /\ Cardinality(Owing(ip)') \in Nat
      /\ Cardinality(Owing(ip)') + 1 <= Cardinality(Owing(ip))
  BY OwingFinite, CardDrop
<1>3. rules[ip] \in Nat /\ put[ip] \in Nat
  BY DEF Tables
<1> QED
  BY <1>1, <1>2, <1>3, OwingFinite DEF Backed

(* A move of t that puts it in nobody's debt. *)
LEMMA BackedMoves ==
    ASSUME Base, NEW t \in Threads, Moves(t), \A ip \in Ips : Backed(ip),
           thr'[t].undoes \in Actions => ~thr'[t].ok \/ thr[t].ok,
           \/ UNCHANGED <<rules, put>>
           \/ /\ \A x \in Ips : rules'[x] \in Nat /\ put'[x] \in Nat
              /\ \A x \in Ips : rules'[x] + put[x] <= put'[x] + rules[x]
    PROVE  \A ip \in Ips : Backed(ip)'
<1> SUFFICES ASSUME NEW ip \in Ips PROVE Backed(ip)'
  OBVIOUS
<1>1. Revoked(ip)' \subseteq Revoked(ip)
  BY DEF Moves, Revoked
<1>2. Idle.undoes \notin Actions
  BY FirewallAssumption DEF Idle
<1>3. Owing(ip)' \subseteq Owing(ip)
  BY <1>2 DEF Moves, Owing
<1>4. rules[ip] \in Nat /\ put[ip] \in Nat
  BY DEF Base, Tables
<1>5. /\ rules'[ip] \in Nat /\ put'[ip] \in Nat
      /\ rules'[ip] + put[ip] <= put'[ip] + rules[ip]
  BY <1>4
<1> QED
  BY <1>1, <1>3, <1>5, BackedFrame DEF Base

(* Starting: a new row is not revoked, and nothing was removed yet. *)
LEMMA BackedStart ==
    ASSUME Base, NEW t \in Threads, Start(t), \A ip \in Ips : Backed(ip)
    PROVE  \A ip \in Ips : Backed(ip)'
<1>1. ~thr'[t].ok /\ (\A u \in Threads \ {t} : thr'[u] = thr[u]) /\ UNCHANGED <<rules, put>>
  <2>1. CASE RunBlock(t)
    BY <2>1 DEF RunBlock, Base, Threaded, Idle
  <2>2. CASE RunUnblock(t)
    BY <2>2 DEF RunUnblock, Base, Threaded, Idle
  <2>3. CASE Revoke(t)
    BY <2>3 DEF Revoke, Base, Threaded, Idle
  <2>4. CASE AdminUnblock(t)
    BY <2>4 DEF AdminUnblock, Base, Threaded, Idle
  <2> QED
    BY <2>1, <2>2, <2>3, <2>4 DEF Start
<1>2. actions' = actions \/ \E b \in Actions : \E type, ip : Create(b, type, ip)
  BY DEF Start, RunBlock, RunUnblock, Revoke, AdminUnblock
<1>3. \A a \in Actions : actions'[a].status = "revoked" => actions'[a] = actions[a]
  BY <1>2 DEF Create, Base, Tables
<1> SUFFICES ASSUME NEW ip \in Ips PROVE Backed(ip)'
  OBVIOUS
<1>4. Revoked(ip)' \subseteq Revoked(ip) /\ Owing(ip)' \subseteq Owing(ip)
  BY <1>1, <1>3 DEF Revoked, Owing
<1>5. rules[ip] \in Nat /\ put[ip] \in Nat
  BY DEF Base, Tables
<1> QED
  BY <1>1, <1>4, <1>5, BackedFrame DEF Base

(* Every step keeps the revokes backed. *)
LEMMA BackedStep ==
    ASSUME Base, Owned, \A ip \in Ips : Backed(ip), [Next]_vars
    PROVE  \A ip \in Ips : Backed(ip)'
<1>1. ASSUME NEW t \in Threads, Start(t) PROVE \A ip \in Ips : Backed(ip)'
  BY <1>1, BackedStart
<1>2. ASSUME NEW t \in Threads, Check(t) PROVE \A ip \in Ips : Backed(ip)'
  <2>1. Moves(t) /\ UNCHANGED <<rules, put>>
    BY <1>2, MovesStep DEF Check, Base
  <2>2. thr[t].undoes = NoAction /\ thr'[t].undoes = thr[t].undoes
    BY <1>2 DEF Check, Return, Goto, Base, Threaded, Wired, Thread
  <2> QED
    BY <2>1, <2>2, FirewallAssumption, BackedMoves
<1>3. ASSUME NEW t \in Threads, CheckFails(t) PROVE \A ip \in Ips : Backed(ip)'
  <2>1. Moves(t) /\ UNCHANGED <<rules, put>>
    BY <1>3, MovesStep DEF CheckFails, Base
  <2>2. thr[t].undoes = NoAction /\ thr'[t].undoes = thr[t].undoes
    BY <1>3 DEF CheckFails, Goto, Base, Threaded, Wired, Thread
  <2> QED
    BY <2>1, <2>2, FirewallAssumption, BackedMoves
<1>4. ASSUME NEW t \in Threads, CheckRaises(t) PROVE \A ip \in Ips : Backed(ip)'
  <2>1. Moves(t) /\ UNCHANGED <<rules, put>>
    BY <1>4, MovesStep DEF CheckRaises, Base
  <2>2. thr[t].undoes = NoAction /\ thr'[t].undoes = thr[t].undoes
    BY <1>4 DEF CheckRaises, Return, Base, Threaded, Wired, Thread
  <2> QED
    BY <2>1, <2>2, FirewallAssumption, BackedMoves
<1>5. ASSUME NEW t \in Threads, CheckHangs(t) PROVE \A ip \in Ips : Backed(ip)'
  <2>1. Moves(t) /\ UNCHANGED <<rules, put>>
    BY <1>5, MovesStep DEF CheckHangs, Base
  <2>2. thr[t].undoes = NoAction /\ thr'[t].undoes = thr[t].undoes
    BY <1>5 DEF CheckHangs, Goto, Base, Threaded, Wired, Thread
  <2> QED
    BY <2>1, <2>2, FirewallAssumption, BackedMoves
<1>6. ASSUME NEW t \in Threads, InsertFails(t) PROVE \A ip \in Ips : Backed(ip)'
  <2>1. Moves(t) /\ UNCHANGED <<rules, put>>
    BY <1>6, MovesStep DEF InsertFails, Base
  <2>2. thr[t].undoes = NoAction /\ thr'[t].undoes = thr[t].undoes
    BY <1>6 DEF InsertFails, Return, Base, Threaded, Wired, Thread
  <2> QED
    BY <2>1, <2>2, FirewallAssumption, BackedMoves
<1>7. ASSUME NEW t \in Threads, Profile(t) PROVE \A ip \in Ips : Backed(ip)'
  <2>1. Moves(t) /\ UNCHANGED <<rules, put>>
    BY <1>7, MovesStep DEF Profile, Base
  <2>2. thr[t].undoes = NoAction /\ thr'[t].undoes = thr[t].undoes
    BY <1>7 DEF Profile, Return, Base, Threaded, Wired, Thread
  <2> QED
    BY <2>1, <2>2, FirewallAssumption, BackedMoves
<1>8. ASSUME NEW t \in Threads, ProfileFails(t) PROVE \A ip \in Ips : Backed(ip)'
  <2>1. Moves(t) /\ UNCHANGED <<rules, put>>
    BY <1>8, MovesStep DEF ProfileFails, Base
  <2>2. thr[t].undoes = NoAction /\ thr'[t].undoes = thr[t].undoes
    BY <1>8 DEF ProfileFails, Return, Base, Threaded, Wired, Thread
  <2> QED
    BY <2>1, <2>2, FirewallAssumption, BackedMoves
<1>9. ASSUME NEW t \in Threads, Insert(t) PROVE \A ip \in Ips : Backed(ip)'
  <2>1. Moves(t)
    BY <1>9, MovesStep DEF Base
  <2>2. thr[t].undoes = NoAction /\ thr'[t].undoes = thr[t].undoes
    BY <1>9 DEF Insert, Goto, Base, Threaded, Wired, Thread
  <2>3. PICK ip \in Ips : ip = thr[t].ip
    BY <1>9 DEF Insert, Base, Threaded, Wired
  <2>4. rules' = [rules EXCEPT ![ip] = @ + 1] /\ put' = [put EXCEPT ![ip] = @ + 1]
    BY <1>9, <2>3 DEF Insert
  <2>5. \A x \in Ips : /\ rules'[x] \in Nat /\ put'[x] \in Nat
                       /\ rules'[x] + put[x] <= put'[x] + rules[x]
    BY <2>4 DEF Base, Tables
  <2> QED
    BY <2>1, <2>2, <2>5, FirewallAssumption, BackedMoves
<1>10. ASSUME NEW t \in Threads, Delete(t) PROVE \A ip \in Ips : Backed(ip)'
  <2>1. Moves(t) /\ put' = put /\ thr[t].pc = "delete"
    BY <1>10, MovesStep DEF Delete, Base
  <2>2. PICK ip \in Ips : ip = thr[t].ip
    BY <1>10 DEF Delete, Base, Threaded, Wired
  <2>3. CASE rules[ip] > 0
    <3>1. rules' = [rules EXCEPT ![ip] = @ - 1]
      BY <1>10, <2>2, <2>3 DEF Delete
    <3>2. thr'[t].ip = ip
      BY <1>10, <2>2, <2>3 DEF Delete, Base, Threaded, Thread
    <3> SUFFICES ASSUME NEW x \in Ips PROVE Backed(x)'
      OBVIOUS
    <3>3. Revoked(x)' \subseteq Revoked(x)
      BY <2>1 DEF Moves, Revoked
    <3>4. CASE x = ip
      <4>1. Owing(x)' \subseteq Owing(x) \cup {t}
        BY <2>1 DEF Moves, Owing
      <4>2. rules'[x] \in Nat /\ rules'[x] + 1 <= rules[x]
        BY <2>3, <3>1, <3>4 DEF Base, Tables
      <4> QED
        BY <2>1, <3>3, <4>1, <4>2, BackedDelete DEF Base
    <3>5. CASE x # ip
      <4>1. Owing(x)' \subseteq Owing(x)
        BY <2>1, <3>2, <3>5 DEF Moves, Owing
      <4>2. rules'[x] = rules[x] /\ rules[x] \in Nat /\ put[x] \in Nat
        BY <3>1, <3>5 DEF Base, Tables
      <4> QED
        BY <2>1, <3>3, <4>1, <4>2, BackedFrame DEF Base
    <3> QED
      BY <3>4, <3>5
  <2>4. CASE ~(rules[ip] > 0)
    <3>1. rules' = rules /\ thr'[t].ok = thr[t].ok
      BY <1>10, <2>2, <2>4 DEF Delete, Goto, Base, Threaded, Thread
    <3> QED
      BY <2>1, <3>1, BackedMoves
  <2> QED
    BY <2>3, <2>4
<1>11. ASSUME NEW t \in Threads, DeleteFails(t) PROVE \A ip \in Ips : Backed(ip)'
  <2>1. Moves(t) /\ UNCHANGED <<rules, put>>
    BY <1>11, MovesStep DEF DeleteFails, Base
  <2>2. thr'[t].ok = thr[t].ok
    BY <1>11 DEF DeleteFails, Goto, Base, Threaded, Thread
  <2> QED
    BY <2>1, <2>2, BackedMoves
<1>12. ASSUME NEW t \in Threads, Clear(t) PROVE \A ip \in Ips : Backed(ip)'
  <2>1. Moves(t) /\ UNCHANGED <<rules, put>>
    BY <1>12, MovesStep DEF Clear, Base
  <2>2. thr'[t].ok = thr[t].ok
    BY <1>12 DEF Clear, Goto, Base, Threaded, Thread
  <2> QED
    BY <2>1, <2>2, BackedMoves
<1>13. ASSUME NEW t \in Threads, ClearFails(t) PROVE \A ip \in Ips : Backed(ip)'
  <2>1. Moves(t) /\ UNCHANGED <<rules, put>>
    BY <1>13, MovesStep DEF ClearFails, Base
  <2>2. thr'[t].ok = thr[t].ok
    BY <1>13 DEF ClearFails, Goto, Base, Threaded, Thread
  <2> QED
    BY <2>1, <2>2, BackedMoves
<1>14. ASSUME NEW t \in Threads, TimesOut(t) PROVE \A ip \in Ips : Backed(ip)'
  <2>1. Moves(t) /\ UNCHANGED <<rules, put>>
    BY <1>14, MovesStep DEF TimesOut, Base
  <2>2. thr'[t].ok = thr[t].ok
    BY <1>14 DEF TimesOut, Base, Threaded, Thread
  <2> QED
    BY <2>1, <2>2, BackedMoves
<1>15. ASSUME NEW t \in Threads, AdminSave(t) PROVE \A ip \in Ips : Backed(ip)'
  <2>1. Moves(t) /\ UNCHANGED <<rules, put>>
    BY <1>15, MovesStep DEF AdminSave, Base
  <2>2. ~thr'[t].ok
    BY <1>15 DEF AdminSave, Idle, Base, Threaded
  <2> QED
    BY <2>1, <2>2, BackedMoves
<1>16. ASSUME NEW t \in Threads, Abort(t) PROVE \A ip \in Ips : Backed(ip)'
  <2>1. Moves(t) /\ UNCHANGED <<rules, put>>
    BY <1>16, MovesStep DEF Abort, Base
  <2>2. ~thr'[t].ok
    BY <1>16 DEF Abort, Idle, Base, Threaded
  <2> QED
    BY <2>1, <2>2, BackedMoves
<1>17. ASSUME NEW t \in Threads, Log(t) PROVE \A ip \in Ips : Backed(ip)'
  <2>1. /\ thr[t].pc = "log" /\ thr[t].action \in Actions
        /\ UNCHANGED <<rules, put>>
    BY <1>17 DEF Log, Base, Threaded, Wired
  <2>2. PICK a \in Actions : a = thr[t].action
    BY <2>1
  <2>3. /\ actions'[a].status \in {"executed", "failed"}
        /\ \A c \in Actions \ {a} : actions'[c] = actions[c]
    BY <1>17, <2>2 DEF Log, Base, Tables
  <2>4. /\ \A u \in Threads \ {t} : thr'[u] = thr[u]
        /\ \/ ~thr'[t].ok
           \/ /\ thr'[t].ok = thr[t].ok /\ thr'[t].ip = thr[t].ip
              /\ thr'[t].undoes = thr[t].undoes
    BY <1>17 DEF Log, Idle, Base, Threaded, Thread
  <2> SUFFICES ASSUME NEW ip \in Ips PROVE Backed(ip)'
    OBVIOUS
  <2>5. Revoked(ip)' \subseteq Revoked(ip) /\ Owing(ip)' \subseteq Owing(ip)
    BY <2>3, <2>4 DEF Revoked, Owing
  <2>6. rules[ip] \in Nat /\ put[ip] \in Nat
    BY DEF Base, Tables
  <2> QED
    BY <2>1, <2>5, <2>6, BackedFrame DEF Base
<1>18. ASSUME NEW t \in Threads, Mark(t) PROVE \A ip \in Ips : Backed(ip)'
  <2>1. /\ thr[t].undoes \in Actions /\ thr[t].ip \in Ips /\ thr[t].ok
        /\ actions[thr[t].undoes].target = thr[t].ip
        /\ UNCHANGED <<rules, put>>
    BY <1>18 DEF Mark, Owned, Base, Threaded, Wired
  <2>2. PICK b \in Actions : b = thr[t].undoes
    BY <2>1
  <2>3. /\ actions'[b].target = actions[b].target
        /\ \A c \in Actions \ {b} : actions'[c] = actions[c]
    BY <1>18, <2>2 DEF Mark, Base, Tables, Action
  <2>4. /\ \A u \in Threads \ {t} : thr'[u] = thr[u]
        /\ ~thr'[t].ok
    BY <1>18 DEF Mark, Idle, Base, Threaded
  <2> SUFFICES ASSUME NEW ip \in Ips PROVE Backed(ip)'
    OBVIOUS
  <2>5. CASE ip = thr[t].ip
    <3>1. /\ t \in Owing(ip) /\ Owing(ip)' \subseteq Owing(ip) \ {t}
          /\ Revoked(ip)' \subseteq Revoked(ip) \cup {b}
      BY <2>1, <2>3, <2>4, <2>5 DEF Revoked, Owing
    <3> QED
      BY <2>1, <3>1, BackedMark DEF Base
  <2>6. CASE ip # thr[t].ip
    <3>1. Revoked(ip)' \subseteq Revoked(ip) /\ Owing(ip)' \subseteq Owing(ip)
      BY <2>1, <2>2, <2>3, <2>4, <2>6 DEF Revoked, Owing
    <3>2. rules[ip] \in Nat /\ put[ip] \in Nat
      BY DEF Base, Tables
    <3> QED
      BY <2>1, <3>1, <3>2, BackedFrame DEF Base
  <2> QED
    BY <2>5, <2>6
<1>19. ASSUME NEW ip \in Ips, AddProfile(ip) PROVE \A x \in Ips : Backed(x)'
  BY <1>19 DEF AddProfile, Backed, Revoked, Owing
<1>20. ASSUME NEW ip \in Ips, EditProfile(ip) PROVE \A x \in Ips : Backed(x)'
  BY <1>20 DEF EditProfile, Backed, Revoked, Owing
<1>21. ASSUME NEW ip \in Ips, NEW command \in {"insert", "delete"},
            LateCommand(ip, command)
       PROVE  \A x \in Ips : Backed(x)'
  <2> SUFFICES ASSUME NEW x \in Ips PROVE Backed(x)'
    OBVIOUS
  <2>1. Revoked(x)' = Revoked(x) /\ Owing(x)' = Owing(x)
    BY <1>21 DEF LateCommand, Revoked, Owing
  <2>2. /\ rules'[x] \in Nat /\ put'[x] \in Nat
        /\ rules'[x] + put[x] <= put'[x] + rules[x]
    BY <1>21 DEF LateCommand, Base, Tables
  <2> QED
    BY <2>1, <2>2, BackedFrame DEF Base
<1>22. CASE UNCHANGED vars
  BY <1>22 DEF vars, Backed, Revoked, Owing
<1> QED
  BY <1>1, <1>2, <1>3, <1>4, <1>5, <1>6, <1>7, <1>8, <1>9, <1>10, <1>11,
     <1>12, <1>13, <1>14, <1>15, <1>16, <1>17, <1>18, <1>19, <1>20, <1>21,
     <1>22 DEF Next, Step

(* Spec => []RevokesAreBacked: whatever fails or races, no block is marked as
   revoked that still drops its address by a rule of its own. *)
THEOREM RevokesStayBacked == Spec => []RevokesAreBacked
<1>1. Init => \A ip \in Ips : Backed(ip)
  <2> SUFFICES ASSUME Init, NEW ip \in Ips PROVE Backed(ip)
    OBVIOUS
  <2>1. Revoked(ip) = {} /\ Owing(ip) = {}
    BY DEF Init, Revoked, Owing, Idle
  <2>2. rules[ip] = 0 /\ put[ip] = 0
    BY DEF Init
  <2> QED
    BY <2>1, <2>2, FS_EmptySet DEF Backed
<1>2. Base /\ Owned /\ (\A ip \in Ips : Backed(ip)) /\ [Next]_vars => (\A ip \in Ips : Backed(ip))'
  BY BackedStep
<1>3. Base /\ (\A ip \in Ips : Backed(ip)) => RevokesAreBacked
  <2> SUFFICES ASSUME Base, NEW ip \in Ips, Backed(ip)
               PROVE  Cardinality(Revoked(ip)) + rules[ip] <= put[ip]
    BY DEF RevokesAreBacked, Revoked
  <2>1. rules[ip] \in Nat /\ put[ip] \in Nat
    BY DEF Base, Tables
  <2> QED
    BY <2>1, OwingFinite DEF Backed
<1> QED
  BY BaseInvariant, OwnedInvariant, <1>1, <1>2, <1>3, PTL DEF Spec

-------------------------------------------------------------------------------
(* Agreement of the three stores.  Typed: a row has the type of the handler its
   thread runs.  Settled: on an undisturbed address at most one thread is at work,
   and each of its program points says how far the stores have got. *)
Typed ==
    \A t \in Threads : thr[t].action \in Actions =>
        /\ thr[t].pc \in {"check", "hung", "insert", "profile"} =>
              actions[thr[t].action].type = "block_ip"
        /\ thr[t].pc \in {"delete", "clear"} \/ thr[t].undoes # NoAction =>
              actions[thr[t].action].type = "unblock_ip"

Up(ip) == rules[ip] = 1 /\ profile[ip] = "yes"
Down(ip) == rules[ip] = 0 /\ profile[ip] # "yes"
Agrees(ip) == Down(ip) \/ (Up(ip) /\ \E a \in Actions : InForce(a, ip))

Reached(t, ip) ==
    /\ thr[t].pc \in {"check", "hung", "delete"} => Agrees(ip)
    /\ thr[t].pc \in {"insert", "save", "mark"} => Down(ip)
    /\ thr[t].pc = "profile" => rules[ip] = 1
    /\ thr[t].pc = "clear" => rules[ip] = 0
    /\ thr[t].pc = "log" =>
          IF actions[thr[t].action].type = "block_ip"
          THEN IF thr[t].ok THEN Up(ip) ELSE Agrees(ip)
          ELSE Down(ip)

Settled(ip) ==
    /\ late[ip]["insert"] = 0 /\ late[ip]["delete"] = 0
    /\ \A t, u \in Threads : thr[t].ip = ip /\ thr[u].ip = ip => t = u
    /\ ~Busy(ip) => Agrees(ip)
    /\ \A t \in Threads : thr[t].ip = ip => Reached(t, ip)
AllSettled == \A ip \in Ips \ disturbed : Settled(ip)

(* No step changes the type of a row that is in use, or of a row in force anything
   but by a revoke: what the other threads rely on. *)
Kept(t) ==
    /\ \A a \in Actions : actions[a].status # "none" => actions'[a].type = actions[a].type
    /\ \A a \in Actions : actions[a].status = "executed" =>
          actions'[a] = actions[a] \/ (thr[t].pc = "mark" /\ a = thr[t].undoes)

(* Every step of a thread keeps the rows so. *)
LEMMA KeptStep ==
    ASSUME Base, Owned, NEW t \in Threads, Start(t) \/ Step(t) \/ CheckHangs(t) \/ Abort(t)
    PROVE  Kept(t)
<1>1. CASE actions' = actions
  BY <1>1 DEF Kept
<1>2. ASSUME NEW b \in Actions, NEW type, NEW ip, Create(b, type, ip) PROVE Kept(t)
  BY <1>2 DEF Create, Kept, Base, Tables
<1>3. CASE Log(t)
  <2>1. thr[t].action \in Actions /\ actions[thr[t].action].status = "pending"
    BY <1>3 DEF Log, Owned, Base, Threaded, Wired
  <2>2. PICK a \in Actions : a = thr[t].action
    BY <2>1
  <2>3. /\ actions'[a].type = actions[a].type
        /\ \A c \in Actions \ {a} : actions'[c] = actions[c]
    BY <1>3, <2>2 DEF Log, Base, Tables, Action
  <2> QED
    BY <2>1, <2>2, <2>3 DEF Kept
<1>4. CASE Mark(t)
  <2>1. thr[t].pc = "mark" /\ thr[t].undoes \in Actions
    BY <1>4 DEF Mark, Base, Threaded, Wired
  <2>2. PICK b \in Actions : b = thr[t].undoes
    BY <2>1
  <2>3. /\ actions'[b].type = actions[b].type
        /\ \A c \in Actions \ {b} : actions'[c] = actions[c]
    BY <1>4, <2>2 DEF Mark, Base, Tables, Action
  <2> QED
    BY <2>1, <2>2, <2>3 DEF Kept
<1>5. Start(t) => actions' = actions \/ \E b \in Actions : \E type, ip : Create(b, type, ip)
  BY DEF Start, RunBlock, RunUnblock, Revoke, AdminUnblock
<1>6. Step(t) \/ CheckHangs(t) \/ Abort(t) => Log(t) \/ Mark(t) \/ actions' = actions
  BY MovesStep DEF Step, Moves, Base
<1> QED
  BY <1>1, <1>2, <1>3, <1>4, <1>5, <1>6

(* t's record is replaced by one that fits the type of its row. *)
LEMMA TypedFrame ==
    ASSUME Owned, Typed, NEW t \in Threads, Kept(t),
           \A u \in Threads \ {t} : thr'[u] = thr[u],
           thr'[t].action \in Actions =>
              /\ thr'[t].pc \in {"check", "hung", "insert", "profile"} =>
                    actions'[thr'[t].action].type = "block_ip"
              /\ thr'[t].pc \in {"delete", "clear"} \/ thr'[t].undoes # NoAction =>
                    actions'[thr'[t].action].type = "unblock_ip"
    PROVE  Typed'
<1>1. \A u \in Threads : thr[u].action \in Actions =>
        /\ actions[thr[u].action].status # "none"
        /\ actions'[thr[u].action].type = actions[thr[u].action].type
  BY DEF Owned, Kept
<1> QED
  BY <1>1 DEF Typed

(* Every step keeps rows and threads of one type. *)
LEMMA TypedStep ==
    ASSUME Base, Owned, Typed, [Next]_vars
    PROVE  Typed'
<1>1. ASSUME NEW t \in Threads, RunBlock(t) PROVE Typed'
  <2>1. PICK ip \in Ips \cup {NoIp}, a \in Actions :
          /\ Create(a, "block_ip", ip)
          /\ thr' = [thr EXCEPT ![t] = [Idle EXCEPT !.pc = BlockStart(ip), !.ip = ip,
                                                    !.action = a]]
    BY <1>1 DEF RunBlock
  <2>2. /\ thr'[t].pc = BlockStart(ip) /\ thr'[t].action = a /\ thr'[t].undoes = NoAction
        /\ \A u \in Threads \ {t} : thr'[u] = thr[u]
    BY <2>1 DEF Base, Threaded, Idle
  <2>3. actions'[a].type = "block_ip"
    BY <2>1 DEF Create, Base, Tables
  <2>4. BlockStart(ip) \in {"check", "log"}
    BY DEF BlockStart
  <2>5. Kept(t)
    BY <1>1, KeptStep DEF Start
  <2> QED
    BY <2>2, <2>3, <2>4, <2>5, TypedFrame
<1>2. ASSUME NEW t \in Threads, RunUnblock(t) PROVE Typed'
  <2>1. PICK ip \in Ips \cup {NoIp}, a \in Actions :
          /\ Create(a, "unblock_ip", ip)
          /\ thr' = [thr EXCEPT ![t] = [Idle EXCEPT !.pc = UnblockStart(ip), !.ip = ip,
                                                    !.action = a]]
    BY <1>2 DEF RunUnblock
  <2>2. /\ thr'[t].pc = UnblockStart(ip) /\ thr'[t].action = a /\ thr'[t].undoes = NoAction
        /\ \A u \in Threads \ {t} : thr'[u] = thr[u]
    BY <2>1 DEF Base, Threaded, Idle
  <2>3. actions'[a].type = "unblock_ip"
    BY <2>1 DEF Create, Base, Tables
  <2>4. UnblockStart(ip) \in {"delete", "log"}
    BY DEF UnblockStart
  <2>5. Kept(t)
    BY <1>2, KeptStep DEF Start
  <2> QED
    BY <2>2, <2>3, <2>4, <2>5, TypedFrame
<1>3. ASSUME NEW t \in Threads, Revoke(t) PROVE Typed'
  <2>1. PICK a \in Actions, b \in Actions :
          /\ Create(b, "unblock_ip", actions[a].target)
          /\ thr' = [thr EXCEPT ![t] = [Idle EXCEPT !.pc = UnblockStart(actions[a].target),
                                       !.ip = actions[a].target, !.action = b, !.undoes = a]]
    BY <1>3 DEF Revoke
  <2>2. /\ thr'[t].pc = UnblockStart(actions[a].target) /\ thr'[t].action = b
        /\ \A u \in Threads \ {t} : thr'[u] = thr[u]
    BY <2>1 DEF Base, Threaded, Idle
  <2>3. actions'[b].type = "unblock_ip"
    BY <2>1 DEF Create, Base, Tables
  <2>4. UnblockStart(actions[a].target) \in {"delete", "log"}
    BY DEF UnblockStart
  <2>5. Kept(t)
    BY <1>3, KeptStep DEF Start
  <2> QED
    BY <2>2, <2>3, <2>4, <2>5, TypedFrame
<1>4. ASSUME NEW t \in Threads, AdminUnblock(t) PROVE Typed'
  <2>1. thr'[t].action = NoAction /\ \A u \in Threads \ {t} : thr'[u] = thr[u]
    BY <1>4 DEF AdminUnblock, Idle, Base, Threaded
  <2>2. Kept(t)
    BY <1>4, KeptStep DEF Start
  <2> QED
    BY <2>1, <2>2, FirewallAssumption, TypedFrame
<1>5. ASSUME NEW t \in Threads, Check(t) PROVE Typed'
  <2>1. /\ thr[t].pc \in {"check", "hung", "insert", "profile"}
        /\ thr'[t].pc \notin {"delete", "clear"}
    BY <1>5 DEF Check, Return, Goto, Base, Threaded, Thread
  <2>2. Moves(t) /\ Kept(t)
    BY <1>5, MovesStep, KeptStep DEF Step, Base
  <2> QED
    BY <2>1, <2>2, FirewallAssumption, TypedFrame DEF Moves, Typed, Idle
<1>6. ASSUME NEW t \in Threads, CheckFails(t) PROVE Typed'
  <2>1. /\ thr[t].pc \in {"check", "hung", "insert", "profile"}
        /\ thr'[t].pc \notin {"delete", "clear"}
    BY <1>6 DEF CheckFails, Goto, Base, Threaded, Thread
  <2>2. Moves(t) /\ Kept(t)
    BY <1>6, MovesStep, KeptStep DEF Step, Base
  <2> QED
    BY <2>1, <2>2, FirewallAssumption, TypedFrame DEF Moves, Typed, Idle
<1>7. ASSUME NEW t \in Threads, CheckRaises(t) PROVE Typed'
  <2>1. /\ thr[t].pc \in {"check", "hung", "insert", "profile"}
        /\ thr'[t].pc \notin {"delete", "clear"}
    BY <1>7 DEF CheckRaises, Return, Base, Threaded, Thread
  <2>2. Moves(t) /\ Kept(t)
    BY <1>7, MovesStep, KeptStep DEF Step, Base
  <2> QED
    BY <2>1, <2>2, FirewallAssumption, TypedFrame DEF Moves, Typed, Idle
<1>8. ASSUME NEW t \in Threads, CheckHangs(t) PROVE Typed'
  <2>1. /\ thr[t].pc \in {"check", "hung", "insert", "profile"}
        /\ thr'[t].pc \notin {"delete", "clear"}
    BY <1>8 DEF CheckHangs, Goto, Base, Threaded, Thread
  <2>2. Moves(t) /\ Kept(t)
    BY <1>8, MovesStep, KeptStep DEF Step, Base
  <2> QED
    BY <2>1, <2>2, FirewallAssumption, TypedFrame DEF Moves, Typed, Idle
<1>9. ASSUME NEW t \in Threads, Insert(t) PROVE Typed'
  <2>1. /\ thr[t].pc \in {"check", "hung", "insert", "profile"}
        /\ thr'[t].pc \notin {"delete", "clear"}
    BY <1>9 DEF Insert, Goto, Base, Threaded, Thread
  <2>2. Moves(t) /\ Kept(t)
    BY <1>9, MovesStep, KeptStep DEF Step, Base
  <2> QED
    BY <2>1, <2>2, FirewallAssumption, TypedFrame DEF Moves, Typed, Idle
<1>10. ASSUME NEW t \in Threads, InsertFails(t) PROVE Typed'
  <2>1. /\ thr[t].pc \in {"check", "hung", "insert", "profile"}
        /\ thr'[t].pc \notin {"delete", "clear"}
    BY <1>10 DEF InsertFails, Return, Base, Threaded, Thread
  <2>2. Moves(t) /\ Kept(t)
    BY <1>10, MovesStep, KeptStep DEF Step, Base
  <2> QED
    BY <2>1, <2>2, FirewallAssumption, TypedFrame DEF Moves, Typed, Idle
<1>11. ASSUME NEW t \in Threads, Profile(t) PROVE Typed'
  <2>1. /\ thr[t].pc \in {"check", "hung", "insert", "profile"}
        /\ thr'[t].pc \notin {"delete", "clear"}
    BY <1>11 DEF Profile, Return, Base, Threaded, Thread
  <2>2. Moves(t) /\ Kept(t)
    BY <1>11, MovesStep, KeptStep DEF Step, Base
  <2> QED
    BY <2>1, <2>2, FirewallAssumption, TypedFrame DEF Moves, Typed, Idle
<1>12. ASSUME NEW t \in Threads, ProfileFails(t) PROVE Typed'
  <2>1. /\ thr[t].pc \in {"check", "hung", "insert", "profile"}
        /\ thr'[t].pc \notin {"delete", "clear"}
    BY <1>12 DEF ProfileFails, Return, Base, Threaded, Thread
  <2>2. Moves(t) /\ Kept(t)
    BY <1>12, MovesStep, KeptStep DEF Step, Base
  <2> QED
    BY <2>1, <2>2, FirewallAssumption, TypedFrame DEF Moves, Typed, Idle
<1>13. ASSUME NEW t \in Threads, Delete(t) PROVE Typed'
  <2>1. thr[t].pc = "delete" /\ thr'[t].pc = "clear"
    BY <1>13 DEF Delete, Goto, Base, Threaded, Thread
  <2>2. Moves(t) /\ Kept(t)
    BY <1>13, MovesStep, KeptStep DEF Step, Base
  <2> QED
    BY <2>1, <2>2, FirewallAssumption, TypedFrame DEF Moves, Typed, Idle
<1>14. ASSUME NEW t \in Threads, DeleteFails(t) PROVE Typed'
  <2>1. thr[t].pc = "delete" /\ thr'[t].pc = "clear"
    BY <1>14 DEF DeleteFails, Goto, Base, Threaded, Thread
  <2>2. Moves(t) /\ Kept(t)
    BY <1>14, MovesStep, KeptStep DEF Step, Base
  <2> QED
    BY <2>1, <2>2, FirewallAssumption, TypedFrame DEF Moves, Typed, Idle
<1>15. ASSUME NEW t \in Threads, Clear(t) PROVE Typed'
  <2>1. thr'[t].pc \in {"save", "log"}
    BY <1>15 DEF Clear, Goto, Unblocked, Base, Threaded, Thread
  <2>2. Moves(t) /\ Kept(t)
    BY <1>15, MovesStep, KeptStep DEF Step, Base
  <2> QED
    BY <2>1, <2>2, FirewallAssumption, TypedFrame DEF Moves, Typed, Idle
<1>16. ASSUME NEW t \in Threads, ClearFails(t) PROVE Typed'
  <2>1. thr'[t].pc \in {"save", "log"}
    BY <1>16 DEF ClearFails, Goto, Unblocked, Base, Threaded, Thread
  <2>2. Moves(t) /\ Kept(t)
    BY <1>16, MovesStep, KeptStep DEF Step, Base
  <2> QED
    BY <2>1, <2>2, FirewallAssumption, TypedFrame DEF Moves, Typed, Idle
<1>17. ASSUME NEW t \in Threads, TimesOut(t) PROVE Typed'
  <2>1. thr'[t].pc \in {"save", "log"}
    BY <1>17 DEF TimesOut, Base, Threaded, Thread
  <2>2. Moves(t) /\ Kept(t)
    BY <1>17, MovesStep, KeptStep DEF Step, Base
  <2> QED
    BY <2>1, <2>2, FirewallAssumption, TypedFrame DEF Moves, Typed, Idle
<1>18. ASSUME NEW t \in Threads, AdminSave(t) PROVE Typed'
  <2>1. thr'[t].action = NoAction
    BY <1>18 DEF AdminSave, Idle, Base, Threaded
  <2>2. Moves(t) /\ Kept(t)
    BY <1>18, MovesStep, KeptStep DEF Step, Base
  <2> QED
    BY <2>1, <2>2, FirewallAssumption, TypedFrame DEF Moves, Typed, Idle
<1>19. ASSUME NEW t \in Threads, Abort(t) PROVE Typed'
  <2>1. thr'[t].action = NoAction
    BY <1>19 DEF Abort, Idle, Base, Threaded
  <2>2. Moves(t) /\ Kept(t)
    BY <1>19, MovesStep, KeptStep DEF Step, Base
  <2> QED
    BY <2>1, <2>2, FirewallAssumption, TypedFrame DEF Moves, Typed, Idle
<1>20. ASSUME NEW t \in Threads, Log(t) PROVE Typed'
  <2>1. /\ \A u \in Threads \ {t} : thr'[u] = thr[u]
        /\ \/ thr'[t].action = NoAction
           \/ /\ thr'[t].pc = "mark" /\ thr'[t].action = thr[t].action
              /\ thr'[t].undoes = thr[t].undoes
    BY <1>20 DEF Log, Idle, Base, Threaded, Thread
  <2>2. Kept(t)
    BY <1>20, KeptStep DEF Step
  <2>3. thr[t].action \in Actions => actions'[thr[t].action].type = actions[thr[t].action].type
    BY <2>2 DEF Kept, Owned
  <2> QED
    BY <2>1, <2>2, <2>3, FirewallAssumption, TypedFrame DEF Typed
<1>21. ASSUME NEW t \in Threads, Mark(t) PROVE Typed'
  <2>1. thr'[t].action = NoAction /\ \A u \in Threads \ {t} : thr'[u] = thr[u]
    BY <1>21 DEF Mark, Idle, Base, Threaded
  <2>2. Kept(t)
    BY <1>21, KeptStep DEF Step
  <2> QED
    BY <2>1, <2>2, FirewallAssumption, TypedFrame
<1>22. ASSUME NEW ip \in Ips, AddProfile(ip) \/ EditProfile(ip)
            \/ \E command \in {"insert", "delete"} : LateCommand(ip, command)
       PROVE  Typed'
  BY <1>22 DEF AddProfile, EditProfile, LateCommand, Typed
<1>23. CASE UNCHANGED vars
  BY <1>23 DEF vars, Typed
<1> QED
  BY <1>1, <1>2, <1>3, <1>4, <1>5, <1>6, <1>7, <1>8, <1>9, <1>10, <1>11,
     <1>12, <1>13, <1>14, <1>15, <1>16, <1>17, <1>18, <1>19, <1>20, <1>21,
     <1>22, <1>23 DEF Next, Start, Step

(* A block that is in force stays so while the threads that step are at work elsewhere. *)
LEMMA ForceElsewhere ==
    ASSUME Base, Owned, NEW ip \in Ips, NEW t \in Threads, Kept(t), thr[t].ip # ip
    PROVE  \A a \in Actions : InForce(a, ip) => InForce(a, ip)'
<1> SUFFICES ASSUME NEW a \in Actions, InForce(a, ip) PROVE actions'[a] = actions[a]
  BY DEF InForce
<1>1. actions[a].status = "executed" /\ actions[a].target = ip
  BY DEF InForce
<1>2. thr[t].pc = "mark" => thr[t].undoes # a
  BY <1>1 DEF Owned, Base, Threaded, Wired
<1> QED
  BY <1>1, <1>2 DEF Kept

(* t is at work elsewhere: what is settled stays settled. *)
LEMMA SettledElsewhere ==
    ASSUME Base, Owned, NEW ip \in Ips, Settled(ip), NEW t \in Threads, Kept(t),
           \A u \in Threads \ {t} : thr'[u] = thr[u],
           thr[t].ip # ip, thr'[t].ip # ip,
           rules'[ip] = rules[ip], profile'[ip] = profile[ip], late'[ip] = late[ip]
    PROVE  Settled(ip)'
<1>1. \A a \in Actions : InForce(a, ip) => InForce(a, ip)'
  BY ForceElsewhere
<1>2. (Up(ip) <=> Up(ip)') /\ (Down(ip) <=> Down(ip)') /\ (Agrees(ip) => Agrees(ip)')
  BY <1>1 DEF Up, Down, Agrees
<1>3. \A u \in Threads : (thr'[u].ip = ip) <=> (thr[u].ip = ip)
  OBVIOUS
<1>4. Busy(ip)' <=> Busy(ip)
  BY <1>3 DEF Busy
<1>5. \A u \in Threads : thr[u].ip = ip => (Reached(u, ip) => Reached(u, ip)')
  <2> SUFFICES ASSUME NEW u \in Threads, thr[u].ip = ip, Reached(u, ip)
               PROVE  Reached(u, ip)'
    OBVIOUS
  <2>1. thr'[u] = thr[u]
    OBVIOUS
  <2>2. thr[u].pc = "log" => actions'[thr[u].action].type = actions[thr[u].action].type
    BY DEF Kept, Owned, Base, Threaded, Wired
  <2> QED
    BY <1>2, <2>1, <2>2 DEF Reached
<1> QED
  BY <1>2, <1>3, <1>4, <1>5 DEF Settled

(* t is the one at work here, and has got one step further. *)
LEMMA SettledHere ==
    ASSUME NEW ip \in Ips, Settled(ip), NEW t \in Threads, thr[t].ip = ip,
           \A u \in Threads \ {t} : thr'[u] = thr[u], late'[ip] = late[ip],
           IF thr'[t].ip = ip THEN Reached(t, ip)' ELSE Agrees(ip)'
    PROVE  Settled(ip)'
<1>1. \A u \in Threads \ {t} : thr'[u].ip # ip
  BY DEF Settled
<1>2. Busy(ip)' => thr'[t].ip = ip
  BY <1>1 DEF Busy
<1>3. Busy(ip)' <=> thr'[t].ip = ip
  BY <1>2 DEF Busy
<1> QED
  BY <1>1, <1>3 DEF Settled

(* t comes to an address nobody is at work on. *)
LEMMA SettledStart ==
    ASSUME NEW ip \in Ips, Settled(ip), ~Busy(ip), NEW t \in Threads,
           \A u \in Threads \ {t} : thr'[u] = thr[u], late'[ip] = late[ip],
           thr'[t].ip = ip, Reached(t, ip)'
    PROVE  Settled(ip)'
<1>1. \A u \in Threads \ {t} : thr'[u].ip # ip
  BY DEF Busy
<1> QED
  BY <1>1 DEF Settled, Busy

(* Nothing about an address changes. *)
LEMMA SettledFrame ==
    ASSUME NEW ip \in Ips, Settled(ip), UNCHANGED <<thr, actions>>,
           rules'[ip] = rules[ip], profile'[ip] = profile[ip], late'[ip] = late[ip]
    PROVE  Settled(ip)'
<1>1. \A a \in Actions : InForce(a, ip)' <=> InForce(a, ip)
  BY DEF InForce
<1>2. (Up(ip) <=> Up(ip)') /\ (Down(ip) <=> Down(ip)') /\ (Agrees(ip) <=> Agrees(ip)')
  BY <1>1 DEF Up, Down, Agrees
<1>3. Busy(ip)' <=> Busy(ip)
  BY DEF Busy
<1>4. \A u \in Threads : Reached(u, ip) <=> Reached(u, ip)'
  BY <1>2 DEF Reached
<1> QED
  BY <1>3, <1>2, <1>4 DEF Settled

(* What starting an operation does: it may disturb the address it is about if another
   thread is at work there, and otherwise leaves the kernel and the profiles alone. *)
LEMMA StartsOne ==
    ASSUME Base, NEW t \in Threads, Start(t)
    PROVE  /\ \A u \in Threads \ {t} : thr'[u] = thr[u]
           /\ thr[t].ip = NoIp /\ ~thr'[t].ok /\ UNCHANGED <<rules, profile, late>>
           /\ thr'[t].ip \in Ips => thr'[t].pc \in {"check", "delete", "log"}
           /\ thr'[t].ip \in Ips => IF Busy(thr'[t].ip) THEN disturbed' = disturbed \cup {thr'[t].ip}
                                                     ELSE disturbed' = disturbed
           /\ thr'[t].ip \notin Ips => disturbed' = disturbed
           /\ thr'[t].ip \in Ips /\ thr'[t].pc = "log" => actions'[thr'[t].action].type = "block_ip"
<1>1. CASE RunBlock(t)
  <2>1. PICK ip \in Ips \cup {NoIp}, a \in Actions :
          /\ Create(a, "block_ip", ip) /\ Meet(ip)
          /\ thr' = [thr EXCEPT ![t] = [Idle EXCEPT !.pc = BlockStart(ip), !.ip = ip,
                                                    !.action = a]]
    BY <1>1 DEF RunBlock
  <2>2. /\ thr'[t].pc = BlockStart(ip) /\ thr'[t].ip = ip /\ thr'[t].action = a /\ ~thr'[t].ok
        /\ \A u \in Threads \ {t} : thr'[u] = thr[u]
    BY <2>1 DEF Base, Threaded, Idle
  <2>3. thr[t].ip = NoIp /\ UNCHANGED <<rules, profile, late>>
    BY <1>1 DEF RunBlock, Base, Threaded, Wired, Idle
  <2>4. actions'[a].type = "block_ip"
    BY <2>1 DEF Create, Base, Tables
  <2>5. BlockStart(ip) \in {"check", "log"}
    BY FirewallAssumption DEF BlockStart
  <2>6. ip \in Ips => IF Busy(ip) THEN disturbed' = disturbed \cup {ip}
                                ELSE disturbed' = disturbed
    BY <2>1 DEF Meet, Disturb
  <2>7. ip \notin Ips => disturbed' = disturbed
    BY <2>1 DEF Meet, Disturb
  <2> QED
    BY <2>2, <2>3, <2>4, <2>5, <2>6, <2>7
<1>2. CASE RunUnblock(t)
  <2>1. PICK ip \in Ips \cup {NoIp}, a \in Actions :
          /\ Create(a, "unblock_ip", ip) /\ Meet(ip)
          /\ thr' = [thr EXCEPT ![t] = [Idle EXCEPT !.pc = UnblockStart(ip), !.ip = ip,
                                                    !.action = a]]
    BY <1>2 DEF RunUnblock
  <2>2. /\ thr'[t].pc = UnblockStart(ip) /\ thr'[t].ip = ip /\ thr'[t].action = a /\ ~thr'[t].ok
        /\ \A u \in Threads \ {t} : thr'[u] = thr[u]
    BY <2>1 DEF Base, Threaded, Idle
  <2>3. thr[t].ip = NoIp /\ UNCHANGED <<rules, profile, late>>
    BY <1>2 DEF RunUnblock, Base, Threaded, Wired, Idle
  <2>4. actions'[a].type = "unblock_ip"
    BY <2>1 DEF Create, Base, Tables
  <2>5. ip \in Ips => UnblockStart(ip) = "delete"
    BY FirewallAssumption DEF UnblockStart
  <2>6. ip \in Ips => IF Busy(ip) THEN disturbed' = disturbed \cup {ip}
                                ELSE disturbed' = disturbed
    BY <2>1 DEF Meet, Disturb
  <2>7. ip \notin Ips => disturbed' = disturbed
    BY <2>1 DEF Meet, Disturb
  <2> QED
    BY <2>2, <2>3, <2>4, <2>5, <2>6, <2>7
<1>3. CASE Revoke(t)
  <2>1. PICK a \in Actions, b \in Actions :
          /\ Meet(actions[a].target)
          /\ thr' = [thr EXCEPT ![t] = [Idle EXCEPT !.pc = UnblockStart(actions[a].target),
                                       !.ip = actions[a].target, !.action = b, !.undoes = a]]
    BY <1>3 DEF Revoke
  <2>2. PICK ip \in Ips \cup {NoIp} : ip = actions[a].target
    BY DEF Base, Tables, Action
  <2>3. /\ thr'[t].pc = UnblockStart(ip) /\ thr'[t].ip = ip /\ ~thr'[t].ok
        /\ \A u \in Threads \ {t} : thr'[u] = thr[u]
    BY <2>1, <2>2 DEF Base, Threaded, Idle
  <2>4. thr[t].ip = NoIp /\ UNCHANGED <<rules, profile, late>>
    BY <1>3 DEF Revoke, Base, Threaded, Wired, Idle
  <2>5. ip \in Ips => UnblockStart(ip) = "delete"
    BY FirewallAssumption DEF UnblockStart
  <2>6. ip \in Ips => IF Busy(ip) THEN disturbed' = disturbed \cup {ip}
                                ELSE disturbed' = disturbed
    BY <2>1, <2>2 DEF Meet, Disturb
  <2>7. ip \notin Ips => disturbed' = disturbed
    BY <2>1, <2>2 DEF Meet, Disturb
  <2> QED
    BY <2>3, <2>4, <2>5, <2>6, <2>7
<1>4. CASE AdminUnblock(t)
  <2>1. PICK ip \in Ips : /\ Meet(ip)
                         /\ thr' = [thr EXCEPT ![t] = [Idle EXCEPT !.pc = "delete", !.ip = ip]]
    BY <1>4 DEF AdminUnblock
  <2>2. /\ thr'[t].pc = "delete" /\ thr'[t].ip = ip /\ ~thr'[t].ok
        /\ \A u \in Threads \ {t} : thr'[u] = thr[u]
    BY <2>1 DEF Base, Threaded, Idle
  <2>3. thr[t].ip = NoIp /\ UNCHANGED <<rules, profile, late>>
    BY <1>4 DEF AdminUnblock, Base, Threaded, Wired, Idle
  <2>4. IF Busy(ip) THEN disturbed' = disturbed \cup {ip} ELSE disturbed' = disturbed
    BY <2>1 DEF Meet, Disturb
  <2> QED
    BY <2>2, <2>3, <2>4
<1> QED
  BY <1>1, <1>2, <1>3, <1>4 DEF Start

(* Starts: the address is disturbed, or its stores agree. *)
LEMMA SettledStarts ==
    ASSUME Base, Owned, AllSettled, NEW t \in Threads, Start(t)
    PROVE  AllSettled'
<1>1. /\ \A u \in Threads \ {t} : thr'[u] = thr[u]
      /\ thr[t].ip = NoIp /\ ~thr'[t].ok /\ UNCHANGED <<rules, profile, late>>
      /\ thr'[t].ip \in Ips => thr'[t].pc \in {"check", "delete", "log"}
      /\ thr'[t].ip \in Ips => IF Busy(thr'[t].ip) THEN disturbed' = disturbed \cup {thr'[t].ip}
                                                ELSE disturbed' = disturbed
      /\ thr'[t].ip \notin Ips => disturbed' = disturbed
      /\ thr'[t].ip \in Ips /\ thr'[t].pc = "log" => actions'[thr'[t].action].type = "block_ip"
  BY StartsOne
<1> SUFFICES ASSUME NEW ip \in Ips \ disturbed' PROVE Settled(ip)'
  BY DEF AllSettled
<1>2. Settled(ip)
  BY <1>1 DEF AllSettled
<1>3. CASE thr'[t].ip = ip
  <2>1. ~Busy(ip) /\ Agrees(ip)
    BY <1>1, <1>2, <1>3 DEF Settled
  <2>2. Kept(t)
    BY KeptStep
  <2>3. thr[t].pc # "mark"
    BY <1>1, FirewallAssumption DEF Base, Threaded, Wired
  <2>4. \A a \in Actions : InForce(a, ip) => InForce(a, ip)'
    BY <2>2, <2>3 DEF Kept, InForce
  <2>5. Agrees(ip)'
    BY <1>1, <2>1, <2>4 DEF Agrees, Up, Down
  <2>6. Reached(t, ip)'
    BY <1>1, <1>3, <2>5 DEF Reached
  <2> QED
    BY <1>1, <1>2, <1>3, <2>1, <2>6, SettledStart
<1>4. CASE thr'[t].ip # ip
  BY <1>1, <1>2, <1>4, KeptStep, FirewallAssumption, SettledElsewhere
<1> QED
  BY <1>3, <1>4

(* What a step of t does to the other addresses: nothing. *)
LEMMA StepIsLocal ==
    ASSUME Base, NEW t \in Threads, Step(t) \/ CheckHangs(t) \/ Abort(t)
    PROVE  /\ \A ip \in Ips : ip # thr[t].ip =>
                 rules'[ip] = rules[ip] /\ profile'[ip] = profile[ip] /\ late'[ip] = late[ip]
           /\ thr'[t].ip \in {thr[t].ip, NoIp} /\ \A u \in Threads \ {t} : thr'[u] = thr[u]
           /\ disturbed \subseteq disturbed' /\ disturbed' \subseteq disturbed \cup {thr[t].ip}
<1> USE DEF Base
<1>1. CASE Check(t)
  <2>1. Moves(t)
    BY <1>1, MovesStep
  <2> QED
    BY <1>1, <2>1 DEF Check, Moves, Idle, Tables
<1>2. CASE CheckFails(t)
  <2>1. Moves(t)
    BY <1>2, MovesStep
  <2> QED
    BY <1>2, <2>1 DEF CheckFails, Disturb, Moves, Idle, Tables
<1>3. CASE CheckRaises(t)
  <2>1. Moves(t)
    BY <1>3, MovesStep
  <2> QED
    BY <1>3, <2>1 DEF CheckRaises, Moves, Idle, Tables
<1>4. CASE CheckHangs(t)
  <2>1. Moves(t)
    BY <1>4, MovesStep
  <2> QED
    BY <1>4, <2>1 DEF CheckHangs, Moves, Idle, Tables
<1>5. CASE Insert(t)
  <2>1. Moves(t)
    BY <1>5, MovesStep
  <2> QED
    BY <1>5, <2>1 DEF Insert, Moves, Idle, Tables
<1>6. CASE InsertFails(t)
  <2>1. Moves(t)
    BY <1>6, MovesStep
  <2> QED
    BY <1>6, <2>1 DEF InsertFails, Moves, Idle, Tables
<1>7. CASE Profile(t)
  <2>1. Moves(t)
    BY <1>7, MovesStep
  <2> QED
    BY <1>7, <2>1 DEF Profile, Moves, Idle, Tables
<1>8. CASE ProfileFails(t)
  <2>1. Moves(t)
    BY <1>8, MovesStep
  <2> QED
    BY <1>8, <2>1 DEF ProfileFails, Disturb, Moves, Idle, Tables
<1>9. CASE Delete(t)
  <2>1. Moves(t)
    BY <1>9, MovesStep
  <2> QED
    BY <1>9, <2>1 DEF Delete, Moves, Idle, Tables
<1>10. CASE DeleteFails(t)
  <2>1. Moves(t)
    BY <1>10, MovesStep
  <2> QED
    BY <1>10, <2>1 DEF DeleteFails, Disturb, Moves, Idle, Tables
<1>11. CASE Clear(t)
  <2>1. Moves(t)
    BY <1>11, MovesStep
  <2> QED
    BY <1>11, <2>1 DEF Clear, Moves, Idle, Tables
<1>12. CASE ClearFails(t)
  <2>1. Moves(t)
    BY <1>12, MovesStep
  <2> QED
    BY <1>12, <2>1 DEF ClearFails, Disturb, Moves, Idle, Tables
<1>13. CASE TimesOut(t)
  <2>1. Moves(t)
    BY <1>13, MovesStep
  <2> QED
    BY <1>13, <2>1 DEF TimesOut, Orphan, Disturb, Moves, Idle, Tables
<1>14. CASE AdminSave(t)
  <2>1. Moves(t)
    BY <1>14, MovesStep
  <2> QED
    BY <1>14, <2>1 DEF AdminSave, Moves, Idle, Tables
<1>15. CASE Abort(t)
  <2>1. Moves(t)
    BY <1>15, MovesStep
  <2> QED
    BY <1>15, <2>1 DEF Abort, Orphan, Disturb, Moves, Idle, Tables
<1>16. CASE Log(t)
  BY <1>16 DEF Log, Idle, Threaded, Thread
<1>17. CASE Mark(t)
  BY <1>17 DEF Mark, Idle, Threaded
<1> QED
  BY <1>1, <1>2, <1>3, <1>4, <1>5, <1>6, <1>7, <1>8, <1>9, <1>10, <1>11,
     <1>12, <1>13, <1>14, <1>15, <1>16, <1>17 DEF Step

(* What a step of t does to the address it works on. *)
LEMMA SettledSteps ==
    ASSUME Base, Owned, Typed, AllSettled,
           NEW t \in Threads, Step(t) \/ CheckHangs(t) \/ Abort(t)
    PROVE  AllSettled'
<1> SUFFICES ASSUME NEW ip \in Ips \ disturbed' PROVE Settled(ip)'
  BY DEF AllSettled
<1>1. Settled(ip) /\ Kept(t) /\ \A u \in Threads \ {t} : thr'[u] = thr[u]
  BY StepIsLocal, KeptStep DEF AllSettled
<1>2. CASE thr[t].ip # ip
  BY <1>1, <1>2, StepIsLocal, FirewallAssumption, SettledElsewhere
<1>3. CASE thr[t].ip = ip
  <2>1. /\ Reached(t, ip) /\ thr \in [Threads -> Thread] /\ rules \in [Ips -> Nat]
        /\ profile \in [Ips -> Marks]
    BY <1>1, <1>3 DEF Settled, Base, Tables, Threaded
  <2>2. thr[t].action \in Actions =>
          actions[thr[t].action].status # "none"
          /\ actions'[thr[t].action].type = actions[thr[t].action].type
    BY <1>1 DEF Kept, Owned
  <2>3. thr[t].pc # "mark" => \A a \in Actions : InForce(a, ip) => InForce(a, ip)'
    BY <1>1 DEF Kept, InForce
  <2>4. Idle.ip # ip
    BY FirewallAssumption DEF Idle
  <2>5. SUFFICES late'[ip] = late[ip] /\ IF thr'[t].ip = ip THEN Reached(t, ip)' ELSE Agrees(ip)'
    BY <1>1, <1>3, SettledHere
  <2>6. CASE Check(t)
    <3>1. /\ thr[t].pc = "check" /\ UNCHANGED <<rules, profile, late>> /\ Agrees(ip)
          /\ thr[t].action \in Actions /\ actions[thr[t].action].type = "block_ip"
      BY <2>6, <2>1 DEF Check, Reached, Typed, Base, Threaded, Wired
    <3>2. CASE rules[ip] > 0
      <4>1. /\ thr'[t].pc = "log" /\ thr'[t].ok /\ thr'[t].ip = ip
            /\ thr'[t].action = thr[t].action
        BY <2>6, <1>3, <2>1, <3>2 DEF Check, Return, Thread
      <4>2. Up(ip)'
        BY <3>1, <3>2 DEF Agrees, Up, Down
      <4> QED
        BY <2>2, <3>1, <4>1, <4>2 DEF Reached
    <3>3. CASE ~(rules[ip] > 0)
      <4>1. thr'[t].pc = "insert" /\ thr'[t].ip = ip
        BY <2>6, <1>3, <2>1, <3>3 DEF Check, Goto, Thread
      <4>2. Down(ip)'
        BY <3>1, <3>3 DEF Agrees, Up, Down
      <4> QED
        BY <3>1, <4>1, <4>2 DEF Reached
    <3> QED
      BY <3>2, <3>3
  <2>7. CASE CheckFails(t) \/ ProfileFails(t) \/ DeleteFails(t) \/ ClearFails(t)
             \/ TimesOut(t) \/ Abort(t)
    BY <2>7, <1>3 DEF CheckFails, ProfileFails, DeleteFails, ClearFails, TimesOut, Abort, Disturb
  <2>8. CASE CheckRaises(t)
    <3>1. /\ thr[t].pc = "check" /\ UNCHANGED <<rules, profile, late, actions>> /\ Agrees(ip)
          /\ thr[t].action \in Actions /\ actions[thr[t].action].type = "block_ip"
      BY <2>8, <2>1 DEF CheckRaises, Reached, Typed, Base, Threaded, Wired
    <3>2. /\ thr'[t].pc = "log" /\ ~thr'[t].ok /\ thr'[t].ip = ip
          /\ thr'[t].action = thr[t].action
      BY <2>8, <1>3, <2>1 DEF CheckRaises, Return, Thread
    <3>3. Agrees(ip)'
      BY <3>1 DEF Agrees, Up, Down, InForce
    <3> QED
      BY <3>1, <3>2, <3>3 DEF Reached
  <2>9. CASE CheckHangs(t)
    <3>1. thr[t].pc = "check" /\ UNCHANGED <<rules, profile, late, actions>> /\ Agrees(ip)
      BY <2>9, <2>1 DEF CheckHangs, Reached
    <3>2. thr'[t].pc = "hung" /\ thr'[t].ip = ip
      BY <2>9, <1>3, <2>1 DEF CheckHangs, Goto, Thread
    <3>3. Agrees(ip)'
      BY <3>1 DEF Agrees, Up, Down, InForce
    <3> QED
      BY <3>1, <3>2, <3>3 DEF Reached
  <2>10. CASE Insert(t)
    <3>1. UNCHANGED <<profile, late>> /\ Down(ip)
      BY <2>10, <2>1 DEF Insert, Reached
    <3>2. thr'[t].pc = "profile" /\ thr'[t].ip = ip
      BY <2>10, <1>3, <2>1 DEF Insert, Goto, Thread
    <3>3. rules'[ip] = 1
      BY <2>10, <1>3, <2>1, <3>1 DEF Insert, Down
    <3> QED
      BY <3>1, <3>2, <3>3 DEF Reached
  <2>11. CASE InsertFails(t)
    <3>1. /\ UNCHANGED <<rules, profile, late, actions>> /\ Down(ip)
          /\ thr[t].action \in Actions /\ actions[thr[t].action].type = "block_ip"
      BY <2>11, <2>1 DEF InsertFails, Reached, Typed, Base, Threaded, Wired
    <3>2. /\ thr'[t].pc = "log" /\ ~thr'[t].ok /\ thr'[t].ip = ip
          /\ thr'[t].action = thr[t].action
      BY <2>11, <1>3, <2>1 DEF InsertFails, Return, Thread
    <3>3. Agrees(ip)'
      BY <3>1 DEF Agrees, Down
    <3> QED
      BY <3>1, <3>2, <3>3 DEF Reached
  <2>12. CASE Profile(t)
    <3>1. /\ UNCHANGED <<rules, late, actions>> /\ rules[ip] = 1
          /\ thr[t].action \in Actions /\ actions[thr[t].action].type = "block_ip"
      BY <2>12, <2>1 DEF Profile, Reached, Typed, Base, Threaded, Wired
    <3>2. /\ thr'[t].pc = "log" /\ thr'[t].ok /\ thr'[t].ip = ip
          /\ thr'[t].action = thr[t].action
      BY <2>12, <1>3, <2>1 DEF Profile, Return, Thread
    <3>3. profile'[ip] = "yes"
      BY <2>12, <1>3, <2>1 DEF Profile
    <3> QED
      BY <3>1, <3>2, <3>3 DEF Reached, Up
  <2>13. CASE Delete(t)
    <3>1. thr[t].pc = "delete" /\ late' = late /\ Agrees(ip)
      BY <2>13, <2>1 DEF Delete, Reached
    <3>2. thr'[t].pc = "clear" /\ thr'[t].ip = ip
      BY <2>13, <1>3, <2>1 DEF Delete, Goto, Thread
    <3>3. rules'[ip] = 0
      BY <2>13, <1>3, <2>1, <3>1 DEF Delete, Agrees, Up, Down
    <3> QED
      BY <3>1, <3>2, <3>3 DEF Reached
  <2>14. CASE Clear(t)
    <3>1. /\ thr[t].pc = "clear" /\ UNCHANGED <<rules, late, actions>> /\ rules[ip] = 0
          /\ thr[t].action \in Actions => actions[thr[t].action].type = "unblock_ip"
      BY <2>14, <2>1 DEF Clear, Reached, Typed
    <3>2. /\ thr'[t].pc = Unblocked(t) /\ thr'[t].ip = ip /\ thr'[t].action = thr[t].action
      BY <2>14, <1>3, <2>1 DEF Clear, Goto, Thread
    <3>3. Down(ip)'
      BY <2>14, <1>3, <2>1, <3>1 DEF Clear, Down
    <3>4. thr[t].action \in Actions \cup {NoAction}
      BY <2>1 DEF Thread
    <3> QED
      BY <3>1, <3>2, <3>3, <3>4 DEF Reached, Unblocked
  <2>15. CASE AdminSave(t)
    <3>1. UNCHANGED <<rules, late>> /\ Down(ip) /\ thr'[t] = Idle
      BY <2>15, <2>1 DEF AdminSave, Reached
    <3>2. profile'[ip] = "no"
      BY <2>15, <1>3, <2>1 DEF AdminSave
    <3> QED
      BY <2>4, <3>1, <3>2 DEF Agrees, Down
  <2>16. CASE Log(t)
    <3>1. /\ thr[t].pc = "log" /\ thr[t].action \in Actions
          /\ UNCHANGED <<rules, profile, late>>
      BY <2>16 DEF Log, Base, Threaded, Wired
    <3>2. CASE actions[thr[t].action].type = "block_ip"
      <4>1. thr[t].undoes = NoAction
        BY <3>1, <3>2 DEF Typed
      <4>2. thr'[t] = Idle
        BY <2>16, <2>1, <4>1 DEF Log
      <4>3. CASE thr[t].ok
        <5>1. Up(ip)'
          BY <2>1, <3>1, <3>2, <4>3 DEF Reached, Up
        <5>2. PICK a \in Actions : a = thr[t].action
          BY <3>1
        <5>3. /\ actions'[a].status = "executed" /\ actions'[a].target = ip
              /\ actions'[a].type = "block_ip" /\ actions[a] \in Action
              /\ actions' = [actions EXCEPT ![a] = [actions[a] EXCEPT !.status = "executed",
                                                                      !.target = ip]]
          BY <2>16, <1>3, <3>2, <4>3, <5>2 DEF Log, Base, Tables, Action
        <5>4. InForce(a, ip)'
          BY <3>2, <5>2, <5>3 DEF InForce, Base, Tables, Action
        <5> QED
          BY <2>4, <3>1, <4>2, <5>1, <5>4 DEF Agrees
      <4>4. CASE ~thr[t].ok
        <5>1. Agrees(ip)
          BY <2>1, <3>1, <3>2, <4>4 DEF Reached
        <5>2. Agrees(ip)'
          BY <2>3, <3>1, <5>1 DEF Agrees, Up, Down
        <5> QED
          BY <2>4, <3>1, <4>2, <5>2
      <4> QED
        BY <4>3, <4>4
    <3>3. CASE actions[thr[t].action].type # "block_ip"
      <4>1. Down(ip)'
        BY <2>1, <3>1, <3>3 DEF Reached, Down
      <4>2. thr'[t] = Idle \/ (thr'[t].pc = "mark" /\ thr'[t].ip = ip)
        BY <2>16, <1>3, <2>1 DEF Log, Thread
      <4> QED
        BY <2>4, <3>1, <4>1, <4>2 DEF Reached, Agrees
    <3> QED
      BY <3>2, <3>3
  <2>17. CASE Mark(t)
    <3>1. UNCHANGED <<rules, profile, late>> /\ Down(ip) /\ thr'[t] = Idle
      BY <2>17, <2>1 DEF Mark, Reached
    <3> QED
      BY <2>4, <3>1 DEF Agrees, Down
  <2> QED
    BY <2>6, <2>7, <2>8, <2>9, <2>10, <2>11, <2>12, <2>13, <2>14, <2>15,
       <2>16, <2>17 DEF Step
<1> QED
  BY <1>2, <1>3

(* Every step keeps the undisturbed addresses settled. *)
LEMMA SettledStep ==
    ASSUME Base, Owned, Typed, AllSettled, [Next]_vars
    PROVE  AllSettled'
<1>1. ASSUME NEW x \in Ips, AddProfile(x) PROVE AllSettled'
  <2> SUFFICES ASSUME NEW ip \in Ips \ disturbed' PROVE Settled(ip)'
    BY DEF AllSettled
  <2>1. /\ UNCHANGED <<rules, late, actions, thr>> /\ ip \notin disturbed
        /\ profile' = [profile EXCEPT ![x] = "no"]
        /\ ip = x => ~(rules[x] > 0) /\ ~Busy(x)
    BY <1>1 DEF AddProfile, Disturb, Base, Tables
  <2>2. Settled(ip)
    BY <2>1 DEF AllSettled
  <2>3. CASE ip = x
    <3>1. ~Busy(ip) /\ ~Busy(ip)' /\ rules[ip] \in Nat /\ profile'[ip] = "no"
      BY <2>1, <2>3 DEF Busy, Base, Tables
    <3>2. Agrees(ip)'
      BY <2>1, <2>3, <3>1 DEF Agrees, Down
    <3> QED
      BY <2>1, <2>2, <3>1, <3>2 DEF Settled, Busy
  <2>4. CASE ip # x
    BY <2>1, <2>2, <2>4, SettledFrame DEF Base, Tables
  <2> QED
    BY <2>3, <2>4
<1>2. ASSUME NEW x \in Ips, EditProfile(x) PROVE AllSettled'
  <2> SUFFICES ASSUME NEW ip \in Ips \ disturbed' PROVE Settled(ip)'
    BY DEF AllSettled
  <2>1. /\ UNCHANGED <<rules, late, actions, thr>> /\ ip \notin disturbed /\ ip # x
        /\ \E mark \in Marks : profile' = [profile EXCEPT ![x] = mark]
    BY <1>2 DEF EditProfile, Disturb
  <2>2. Settled(ip)
    BY <2>1 DEF AllSettled
  <2>3. profile'[ip] = profile[ip]
    BY <2>1 DEF Base, Tables
  <2> QED
    BY <2>1, <2>2, <2>3, SettledFrame
<1>3. ASSUME NEW x \in Ips, NEW command \in {"insert", "delete"}, LateCommand(x, command)
      PROVE  AllSettled'
  <2> SUFFICES ASSUME NEW ip \in Ips \ disturbed' PROVE Settled(ip)'
    BY DEF AllSettled
  <2>1. ip \notin disturbed /\ UNCHANGED <<profile, actions, thr>> /\ late[x][command] > 0
    BY <1>3 DEF LateCommand
  <2>2. Settled(ip)
    BY <2>1 DEF AllSettled
  <2>3. ip # x
    BY <2>1, <2>2 DEF Settled
  <2>4. rules'[ip] = rules[ip] /\ late'[ip] = late[ip]
    BY <1>3, <2>3 DEF LateCommand, Base, Tables
  <2> QED
    BY <2>1, <2>2, <2>4, SettledFrame
<1>4. CASE UNCHANGED vars
  <2> SUFFICES ASSUME NEW ip \in Ips \ disturbed' PROVE Settled(ip)'
    BY DEF AllSettled
  <2>1. ip \notin disturbed /\ UNCHANGED <<rules, profile, late, actions, thr>>
    BY <1>4 DEF vars
  <2> QED
    BY <2>1, SettledFrame DEF AllSettled
<1> QED
  BY <1>1, <1>2, <1>3, <1>4, SettledStarts, SettledSteps DEF Next

(* Every reachable state is settled. *)
LEMMA SettledInvariant == Spec => [](Typed /\ AllSettled)
<1>1. Init => Typed /\ AllSettled
  <2> SUFFICES ASSUME Init PROVE Typed /\ AllSettled
    OBVIOUS
  <2>1. \A t \in Threads : thr[t].ip = NoIp /\ thr[t].action = NoAction
    BY DEF Init, Idle
  <2>2. \A ip \in Ips : /\ rules[ip] = 0 /\ profile[ip] # "yes"
                        /\ late[ip]["insert"] = 0 /\ late[ip]["delete"] = 0
    BY FirewallAssumption DEF Init
  <2>3. Typed
    BY <2>1, FirewallAssumption DEF Typed
  <2>4. AllSettled
    BY <2>1, <2>2, FirewallAssumption DEF AllSettled, Settled, Agrees, Down, Busy
  <2> QED
    BY <2>3, <2>4
<1>2. Base /\ Owned /\ Typed /\ AllSettled /\ [Next]_vars => Typed' /\ AllSettled'
  BY TypedStep, SettledStep
<1> QED
  BY BaseInvariant, OwnedInvariant, <1>1, <1>2, PTL DEF Spec

(* Spec => []StoresAgree: between operations, rule, profile and log say the same of
   every address that no fault, race or edit has touched. *)
THEOREM StoresKeepAgreeing == Spec => []StoresAgree
<1>1. AllSettled => StoresAgree
  <2> SUFFICES ASSUME AllSettled, NEW ip \in Ips \ disturbed, ~Busy(ip)
               PROVE  /\ rules[ip] <= 1
                      /\ rules[ip] = 1 <=> profile[ip] = "yes"
                      /\ rules[ip] = 1 => \E a \in Actions : InForce(a, ip)
    BY DEF StoresAgree, InForce
  <2>1. Agrees(ip)
    BY DEF AllSettled, Settled
  <2> QED
    BY <2>1 DEF Agrees, Up, Down
<1> QED
  BY SettledInvariant, <1>1, PTL

-------------------------------------------------------------------------------
(* The stores change in the order of BlockLifecycle.  A step moves at most one
   address to another phase (OneAddress), and where it moves it is allowed to. *)

\* Rest or trouble, or the next phase in the order of the lifecycle.
Advances(ip) ==
    \/ Phase(ip)' \in {Phase(ip), "disturbed"}
    \/ Phase(ip) = "open" /\ Phase(ip)' = "dropped"
    \/ Phase(ip) = "dropped" /\ Phase(ip)' \in {"recorded", "blocked"}
    \/ Phase(ip) = "recorded" /\ Phase(ip)' = "blocked"
    \/ Phase(ip) = "blocked" /\ Phase(ip)' = "lifted"
    \/ Phase(ip) = "lifted" /\ Phase(ip)' = "open"

(* One address advances, the others stay: a step of the lifecycle, or none. *)
LEMMA OneAddress ==
    ASSUME NEW x, \A ip \in Ips \ {x} : Phase(ip)' = Phase(ip), x \in Ips => Advances(x)
    PROVE  [Lifecycle!Next]_([ip \in Ips |-> Phase(ip)])
<1> DEFINE phase == [ip \in Ips |-> Phase(ip)]
<1>1. CASE x \notin Ips \/ Phase(x)' = Phase(x)
  <2>1. \A ip \in Ips : Phase(ip)' = Phase(ip)
    BY <1>1
  <2>2. phase' = phase
    BY <2>1
  <2> QED
    BY <2>2
<1>2. CASE x \in Ips /\ Phase(x)' # Phase(x)
  <2>1. phase[x] = Phase(x)
    BY <1>2
  <2>2. phase' = [phase EXCEPT ![x] = Phase(x)']
    <3>1. \A ip \in Ips : phase'[ip] = IF ip = x THEN Phase(x)' ELSE phase[ip]
      OBVIOUS
    <3> QED
      BY <3>1
  <2> HIDE DEF phase
  <2>3. ASSUME NEW from, NEW to, Phase(x) = from, Phase(x)' = to
        PROVE  phase[x] = from /\ phase' = [phase EXCEPT ![x] = to]
    BY <2>1, <2>2, <2>3
  <2>4. Lifecycle!Next
    <3>1. CASE Phase(x)' = "disturbed"
      BY <1>2, <2>2, <3>1 DEF Lifecycle!Next, Lifecycle!Disturb, phase
    <3>2. CASE Phase(x) = "open" /\ Phase(x)' = "dropped"
      BY <1>2, <2>3, <3>2 DEF Lifecycle!Next, Lifecycle!Drop, Lifecycle!Goes, phase
    <3>3. CASE Phase(x) = "dropped" /\ Phase(x)' \in {"recorded", "blocked"}
      BY <1>2, <2>1, <2>2, <3>3 DEF Lifecycle!Next, Lifecycle!Record, Lifecycle!Goes, phase
    <3>4. CASE Phase(x) = "recorded" /\ Phase(x)' = "blocked"
      BY <1>2, <2>3, <3>4 DEF Lifecycle!Next, Lifecycle!Log, Lifecycle!Goes, phase
    <3>5. CASE Phase(x) = "blocked" /\ Phase(x)' = "lifted"
      BY <1>2, <2>3, <3>5 DEF Lifecycle!Next, Lifecycle!Lift, Lifecycle!Goes, phase
    <3>6. CASE Phase(x) = "lifted" /\ Phase(x)' = "open"
      BY <1>2, <2>3, <3>6 DEF Lifecycle!Next, Lifecycle!Clear, Lifecycle!Goes, phase
    <3> QED
      BY <1>2, <3>1, <3>2, <3>3, <3>4, <3>5, <3>6 DEF Advances
  <2> QED
    BY <2>4
<1> QED
  BY <1>1, <1>2

(* What a phase depends on. *)
LEMMA PhaseFrame ==
    ASSUME NEW ip \in Ips, rules'[ip] = rules[ip], profile'[ip] = profile[ip],
           ip \in disturbed' <=> ip \in disturbed,
           (\E a \in Actions : InForce(a, ip)) <=> (\E a \in Actions : InForce(a, ip)')
    PROVE  Phase(ip)' = Phase(ip)
BY DEF Phase

(* No thread puts a block of another address in force. *)
LEMMA ForceIsOwn ==
    ASSUME Base, Owned, NEW ip \in Ips, NEW t \in Threads,
           Start(t) \/ Step(t) \/ CheckHangs(t) \/ Abort(t), thr[t].ip # ip
    PROVE  \A a \in Actions : InForce(a, ip)' => InForce(a, ip)
<1> SUFFICES ASSUME NEW a \in Actions, InForce(a, ip)' PROVE actions'[a] = actions[a]
  BY DEF InForce
<1>1. actions'[a].status = "executed" /\ actions'[a].target = ip
  BY DEF InForce
<1>2. ASSUME NEW b \in Actions, NEW type, NEW x, Create(b, type, x)
      PROVE  actions'[a] = actions[a]
  BY <1>1, <1>2 DEF Create, Base, Tables
<1>3. CASE Log(t)
  <2>1. thr[t].action \in Actions
    BY <1>3 DEF Log, Base, Threaded, Wired
  <2>2. PICK b \in Actions : b = thr[t].action
    BY <2>1
  <2>3. actions'[b].target = thr[t].ip /\ \A c \in Actions \ {b} : actions'[c] = actions[c]
    BY <1>3, <2>2 DEF Log, Base, Tables, Action
  <2> QED
    BY <1>1, <2>3
<1>4. CASE Mark(t)
  <2>1. thr[t].undoes \in Actions
    BY <1>4 DEF Mark, Base, Threaded, Wired
  <2>2. PICK b \in Actions : b = thr[t].undoes
    BY <2>1
  <2>3. actions'[b].status = "revoked" /\ \A c \in Actions \ {b} : actions'[c] = actions[c]
    BY <1>4, <2>2 DEF Mark, Base, Tables, Action
  <2> QED
    BY <1>1, <2>3
<1>5. Start(t) => actions' = actions \/ \E b \in Actions : \E type, x : Create(b, type, x)
  BY DEF Start, RunBlock, RunUnblock, Revoke, AdminUnblock
<1>6. Step(t) \/ CheckHangs(t) \/ Abort(t) => Log(t) \/ Mark(t) \/ actions' = actions
  BY MovesStep DEF Step, Moves, Base
<1> QED
  BY <1>2, <1>3, <1>4, <1>5, <1>6

(* To start an operation changes no phase, but may disturb the address it is about. *)
LEMMA LifecycleStart ==
    ASSUME Base, Owned, NEW t \in Threads, Start(t)
    PROVE  [Lifecycle!Next]_([ip \in Ips |-> Phase(ip)])
<1>0. PICK x : x = thr'[t].ip
  OBVIOUS
<1>1. /\ thr[t].ip = NoIp /\ UNCHANGED <<rules, profile>>
      /\ x \in Ips => disturbed' \in {disturbed, disturbed \cup {x}}
      /\ x \notin Ips => disturbed' = disturbed
  BY <1>0, StartsOne
<1>2. \A ip \in Ips : (\E a \in Actions : InForce(a, ip)) <=> (\E a \in Actions : InForce(a, ip)')
  BY <1>1, KeptStep, ForceElsewhere, ForceIsOwn, FirewallAssumption
<1>3. \A ip \in Ips : (ip \in disturbed' <=> ip \in disturbed) => Phase(ip)' = Phase(ip)
  BY <1>1, <1>2, PhaseFrame
<1>4. \A ip \in Ips \ {x} : Phase(ip)' = Phase(ip)
  BY <1>1, <1>3
<1>5. x \in Ips => Phase(x)' \in {Phase(x), "disturbed"}
  <2>1. x \in disturbed' => Phase(x)' = "disturbed"
    BY DEF Phase
  <2> QED
    BY <1>1, <1>3, <2>1
<1> QED
  BY <1>4, <1>5, OneAddress DEF Advances

(* The four ways the stores of an undisturbed address can stand when they agree or
   when one of them has just been written. *)
LEMMA PhaseIs ==
    ASSUME Base, NEW ip \in Ips \ disturbed
    PROVE  /\ Down(ip) => Phase(ip) = "open"
           /\ rules[ip] = 0 /\ profile[ip] = "yes" => Phase(ip) = "lifted"
           /\ rules[ip] = 1 /\ profile[ip] # "yes" => Phase(ip) = "dropped"
           /\ Up(ip) /\ (\E a \in Actions : InForce(a, ip)) => Phase(ip) = "blocked"
           /\ Up(ip) /\ ~(\E a \in Actions : InForce(a, ip)) => Phase(ip) = "recorded"
BY DEF Phase, Down, Up

(* The address a thread works on advances by the step the thread takes. *)
LEMMA LifecycleHere ==
    ASSUME Base, Base', Owned, Typed, AllSettled, NEW t \in Threads,
           Step(t) \/ CheckHangs(t) \/ Abort(t), NEW ip \in Ips, thr[t].ip = ip
    PROVE  Advances(ip)
<1> DEFINE Forced == \E a \in Actions : InForce(a, ip)
<1>1. CASE ip \in disturbed'
  BY <1>1 DEF Advances, Phase
<1>2. CASE ip \notin disturbed'
  <2>1. ip \notin disturbed
    BY <1>2, StepIsLocal
  <2>2. /\ Reached(t, ip) /\ thr \in [Threads -> Thread] /\ rules \in [Ips -> Nat]
        /\ profile \in [Ips -> Marks]
    BY <2>1 DEF AllSettled, Settled, Base, Tables, Threaded
  <2>3. /\ Down(ip) => Phase(ip) = "open"
        /\ rules[ip] = 0 /\ profile[ip] = "yes" => Phase(ip) = "lifted"
        /\ rules[ip] = 1 /\ profile[ip] # "yes" => Phase(ip) = "dropped"
        /\ Up(ip) /\ Forced => Phase(ip) = "blocked"
        /\ Up(ip) /\ ~Forced => Phase(ip) = "recorded"
    BY <2>1, PhaseIs
  <2>4. /\ Down(ip)' => Phase(ip)' = "open"
        /\ rules'[ip] = 0 /\ profile'[ip] = "yes" => Phase(ip)' = "lifted"
        /\ rules'[ip] = 1 /\ profile'[ip] # "yes" => Phase(ip)' = "dropped"
        /\ Up(ip)' /\ Forced' => Phase(ip)' = "blocked"
        /\ Up(ip)' /\ ~Forced' => Phase(ip)' = "recorded"
    BY <1>2 DEF Phase, Down, Up
  <2>5. thr[t].pc # "mark" /\ Forced => Forced'
    BY KeptStep DEF Kept, InForce
  <2> HIDE DEF Forced
  <2>6. UNCHANGED <<rules, profile>> /\ Down(ip) => Advances(ip)
    BY <2>3, <2>4 DEF Down, Advances
  <2>7. UNCHANGED <<rules, profile>> /\ thr[t].pc # "mark" /\ Agrees(ip) => Advances(ip)
    BY <2>3, <2>4, <2>5 DEF Agrees, Up, Down, Advances, Forced
  <2>8. CASE CheckFails(t) \/ ProfileFails(t) \/ DeleteFails(t) \/ ClearFails(t)
             \/ TimesOut(t) \/ Abort(t)
    BY <1>2, <2>8 DEF CheckFails, ProfileFails, DeleteFails, ClearFails, TimesOut, Abort, Disturb
  <2>9. CASE Check(t) \/ CheckRaises(t) \/ CheckHangs(t)
    BY <2>2, <2>7, <2>9 DEF Check, CheckRaises, CheckHangs, Reached
  <2>10. CASE Insert(t)
    <3>1. Down(ip) /\ profile' = profile /\ rules'[ip] = 1
      BY <2>2, <2>10 DEF Insert, Reached, Down
    <3> QED
      BY <2>3, <2>4, <3>1 DEF Down, Advances
  <2>11. CASE InsertFails(t)
    BY <2>2, <2>6, <2>11 DEF InsertFails, Reached
  <2>12. CASE Profile(t)
    <3>1. rules[ip] = 1 /\ profile'[ip] = "yes" /\ UNCHANGED <<rules, actions>>
      BY <2>2, <2>12 DEF Profile, Reached
    <3>2. Forced' <=> Forced
      BY <3>1 DEF Forced, InForce
    <3> QED
      BY <2>3, <2>4, <3>1, <3>2 DEF Up, Advances
  <2>13. CASE Delete(t)
    <3>1. Agrees(ip) /\ profile' = profile /\ rules'[ip] = 0
      BY <2>2, <2>13 DEF Delete, Reached, Agrees, Up, Down
    <3> QED
      BY <2>3, <2>4, <3>1 DEF Agrees, Up, Down, Advances, Forced
  <2>14. CASE Clear(t)
    <3>1. rules[ip] = 0 /\ rules' = rules /\ profile'[ip] # "yes"
      BY <2>2, <2>14 DEF Clear, Reached
    <3> QED
      BY <2>3, <2>4, <3>1 DEF Down, Advances
  <2>15. CASE AdminSave(t)
    <3>1. Down(ip) /\ rules' = rules /\ profile'[ip] # "yes"
      BY <2>2, <2>15 DEF AdminSave, Reached
    <3> QED
      BY <2>3, <2>4, <3>1 DEF Down, Advances
  <2>16. CASE Log(t)
    <3>1. thr[t].pc = "log" /\ UNCHANGED <<rules, profile>>
      BY <2>16 DEF Log
    <3>2. Up(ip) \/ Agrees(ip)
      BY <2>2, <3>1 DEF Reached, Agrees
    <3>3. Up(ip) => Up(ip)'
      BY <3>1 DEF Up
    <3> QED
      BY <2>3, <2>4, <2>5, <2>7, <3>1, <3>2, <3>3 DEF Advances
  <2>17. CASE Mark(t)
    BY <2>2, <2>6, <2>17 DEF Mark, Reached
  <2> QED
    BY <2>8, <2>9, <2>10, <2>11, <2>12, <2>13, <2>14, <2>15, <2>16, <2>17 DEF Step
<1> QED
  BY <1>1, <1>2

(* A step of a thread moves no address but its own. *)
LEMMA LifecycleThread ==
    ASSUME Base, Base', Owned, Typed, AllSettled, NEW t \in Threads,
           Step(t) \/ CheckHangs(t) \/ Abort(t)
    PROVE  [Lifecycle!Next]_([ip \in Ips |-> Phase(ip)])
<1>0. PICK x : x = thr[t].ip
  OBVIOUS
<1>1. ASSUME NEW ip \in Ips \ {x} PROVE Phase(ip)' = Phase(ip)
  <2>1. /\ rules'[ip] = rules[ip] /\ profile'[ip] = profile[ip]
        /\ ip \in disturbed' <=> ip \in disturbed
    BY <1>0, <1>1, StepIsLocal
  <2>2. (\E a \in Actions : InForce(a, ip)) <=> (\E a \in Actions : InForce(a, ip)')
    BY <1>0, <1>1, KeptStep, ForceElsewhere, ForceIsOwn
  <2> QED
    BY <2>1, <2>2, PhaseFrame
<1>2. x \in Ips => Advances(x)
  BY <1>0, LifecycleHere
<1> QED
  BY <1>1, <1>2, OneAddress

(* Every step of the system is a step of the lifecycle, or none. *)
LEMMA LifecycleStep ==
    ASSUME Base, Base', Owned, Typed, AllSettled, [Next]_vars
    PROVE  [Lifecycle!Next]_([ip \in Ips |-> Phase(ip)])
<1>1. ASSUME NEW x \in Ips, AddProfile(x)
      PROVE  [Lifecycle!Next]_([ip \in Ips |-> Phase(ip)])
  <2>1. /\ UNCHANGED <<rules, actions>> /\ disturbed' \in {disturbed, disturbed \cup {x}}
        /\ \A ip \in Ips : (profile'[ip] = "yes") <=> (profile[ip] = "yes")
    BY <1>1 DEF AddProfile, Disturb, Base, Tables
  <2>2. \A ip \in Ips : (ip \in disturbed' <=> ip \in disturbed) => Phase(ip)' = Phase(ip)
    BY <2>1 DEF Phase, InForce
  <2>3. x \in disturbed' => Phase(x)' = "disturbed"
    BY DEF Phase
  <2>4. Advances(x) /\ \A ip \in Ips \ {x} : Phase(ip)' = Phase(ip)
    BY <2>1, <2>2, <2>3 DEF Advances
  <2> QED
    BY <2>4, OneAddress
<1>2. ASSUME NEW x \in Ips, EditProfile(x)
      PROVE  [Lifecycle!Next]_([ip \in Ips |-> Phase(ip)])
  <2>1. /\ UNCHANGED <<rules, actions>> /\ disturbed' = disturbed \cup {x}
        /\ \A ip \in Ips \ {x} : profile'[ip] = profile[ip]
    BY <1>2 DEF EditProfile, Disturb, Base, Tables
  <2>2. Phase(x)' = "disturbed"
    BY <2>1 DEF Phase
  <2>3. \A ip \in Ips \ {x} : Phase(ip)' = Phase(ip)
    BY <2>1 DEF Phase, InForce
  <2> QED
    BY <2>2, <2>3, OneAddress DEF Advances
<1>3. ASSUME NEW x \in Ips, NEW command \in {"insert", "delete"}, LateCommand(x, command)
      PROVE  [Lifecycle!Next]_([ip \in Ips |-> Phase(ip)])
  <2>1. x \in disturbed
    BY <1>3 DEF LateCommand, AllSettled, Settled
  <2>2. /\ UNCHANGED <<profile, actions, disturbed>>
        /\ \A ip \in Ips \ {x} : rules'[ip] = rules[ip]
    BY <1>3 DEF LateCommand, Base, Tables
  <2>3. Phase(x)' = "disturbed"
    BY <2>1, <2>2 DEF Phase
  <2>4. \A ip \in Ips \ {x} : Phase(ip)' = Phase(ip)
    BY <2>2 DEF Phase, InForce
  <2> QED
    BY <2>3, <2>4, OneAddress DEF Advances
<1>4. CASE UNCHANGED vars
  BY <1>4 DEF vars, Phase, InForce
<1> QED
  BY <1>1, <1>2, <1>3, <1>4, LifecycleStart, LifecycleThread DEF Next

(* Spec => ImplementsBlockLifecycle: whoever acts and whatever fails, the stores of an
   undisturbed address change in one order: kernel, profile, log for a block, kernel
   and profile for its lifting, which only a complete block meets. *)
THEOREM FirewallImplementsBlockLifecycle == Spec => ImplementsBlockLifecycle
<1>1. Init => Lifecycle!Init
  <2> SUFFICES ASSUME Init PROVE Lifecycle!Init
    OBVIOUS
  <2>1. \A ip \in Ips : rules[ip] = 0 /\ profile[ip] # "yes" /\ ip \notin disturbed
    BY FirewallAssumption DEF Init
  <2>2. \A ip \in Ips : Phase(ip) = "open"
    BY <2>1 DEF Phase
  <2> QED
    BY <2>2 DEF Lifecycle!Init
<1>2. Base /\ Base' /\ Owned /\ Typed /\ AllSettled /\ [Next]_vars
        => [Lifecycle!Next]_([ip \in Ips |-> Phase(ip)])
  BY LifecycleStep
<1> QED
  BY BaseInvariant, OwnedInvariant, SettledInvariant, <1>1, <1>2, PTL
     DEF Spec, ImplementsBlockLifecycle, Lifecycle!Spec
===============================================================================
