-------------------------------- MODULE MCKill --------------------------------
(* Small instances of KillProcess: init, a busy process and a free pid. *)
EXTENDS KillProcess, TLC

CONSTANTS systemd, miner, noName

MCPids == 1..3
MCBoot == <<systemd, miner, noName>>
Twice == [e \in Events |-> IF e = "run" THEN 2 ELSE 1]
Quiet == [e \in Events |-> IF e = "run" THEN 1 ELSE 0]
===============================================================================
