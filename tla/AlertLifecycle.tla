---------------------------- MODULE AlertLifecycle ----------------------------
(***************************************************************************)
(* What the server promises of each alert it stores, without threads,      *)
(* queue or tables: it is classified and accepted by the hook of its       *)
(* creation, its response is queued, run and only then is it resolved.     *)
(* Work never goes back a phase.  A client may close an alert or reopen a  *)
(* resolved one; a fault, a deletion or a stale write ends the promise.    *)
(***************************************************************************)
CONSTANT Alerts

VARIABLE phase

\* The phases in which somebody still owes the alert something.
Open == {"stored", "accepted", "queued", "running"}

Init == phase = [x \in Alerts |-> "absent"]

Moves(x, from, to) == phase[x] = from /\ phase' = [phase EXCEPT ![x] = to]

Store(x)   == \E to \in {"stored", "resolved"} : Moves(x, "absent", to)
Accept(x)  == Moves(x, "stored", "accepted")
Queue(x)   == Moves(x, "accepted", "queued")
Run(x)     == Moves(x, "queued", "running")
Resolve(x) == Moves(x, "running", "resolved")

\* A client sets the status to resolved, whoever is still at work.
Close(x) == \E from \in Open \ {"running"} : Moves(x, from, "resolved")

\* Processing again: by the hook, by a client, or by what was still at work.
Reopen(x) == \E to \in Open \ {"stored"} : Moves(x, "resolved", to)

\* A crash may hit several alerts at once.
Disturb(hit) == phase' = [x \in Alerts |-> IF x \in hit THEN "disturbed" ELSE phase[x]]

Next ==
    \/ \E x \in Alerts : \/ Store(x) \/ Accept(x) \/ Queue(x) \/ Run(x) \/ Resolve(x)
                         \/ Close(x) \/ Reopen(x)
    \/ \E hit \in SUBSET Alerts : Disturb(hit)

Spec == Init /\ [][Next]_phase
===============================================================================
