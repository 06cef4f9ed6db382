------------------------------ MODULE MCDelivery ------------------------------
(* Small instances of Delivery. *)
EXTENDS Delivery, TLC

Server == [command |-> "none", noreload |-> FALSE, run_main |-> FALSE, setting |-> TRUE]
Parent == [Server EXCEPT !.command = "runserver"]
Child  == [Parent EXCEPT !.run_main = TRUE]
Plain  == [Parent EXCEPT !.noreload = TRUE]
EsSync == [Server EXCEPT !.command = "command"]

CONSTANTS p1, p2
Dev  == p1 :> {Parent, Child} @@ p2 :> {Plain, EsSync}
Prod == p1 :> {Server} @@ p2 :> {EsSync}

Once == [f \in Faults |-> 1]
Never == [f \in Faults |-> 0]
===============================================================================
