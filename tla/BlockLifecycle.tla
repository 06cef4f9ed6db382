---------------------------- MODULE BlockLifecycle ----------------------------
(***************************************************************************)
(* What blocking promises of one address, without threads, commands or     *)
(* rows: the kernel comes first and the books follow.  A block goes into   *)
(* the firewall, then into the profile, then into the log; only a block    *)
(* that all three show is lifted, first from the firewall and then from    *)
(* the profile.  A fault, a race or an edit by hand ends the promise.      *)
(***************************************************************************)
CONSTANT Addresses

VARIABLE phase

\* No rule and no block on record, for any address.
Init == phase = [x \in Addresses |-> "open"]

Goes(x, from, to) == phase[x] = from /\ phase' = [phase EXCEPT ![x] = to]

Drop(x)   == Goes(x, "open", "dropped")
\* At once in force, if the log still holds an earlier block of this address.
Record(x) == \E to \in {"recorded", "blocked"} : Goes(x, "dropped", to)
Log(x)    == Goes(x, "recorded", "blocked")
Lift(x)   == Goes(x, "blocked", "lifted")
Clear(x)  == Goes(x, "lifted", "open")

Disturb(x) == phase' = [phase EXCEPT ![x] = "disturbed"]

Next == \E x \in Addresses :
          Drop(x) \/ Record(x) \/ Log(x) \/ Lift(x) \/ Clear(x) \/ Disturb(x)

Spec == Init /\ [][Next]_phase
===============================================================================
