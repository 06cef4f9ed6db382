------------------------------ MODULE MCFirewall ------------------------------
(* Small instances of Firewall: a protected address, and one text more, either
   another address or a block of addresses that has the protected one in it. *)
EXTENDS Firewall, TLC

CONSTANTS gateway, attacker, subnet

MCAddresses == {gateway, attacker}
Cover == (gateway :> {gateway}) @@ (attacker :> {attacker}) @@ (subnet :> MCAddresses)

HostIps == {gateway, attacker}
HostCovers == [ip \in HostIps |-> Cover[ip]]
HostProfile == [ip \in HostIps |-> "none"]

BlockIps == {gateway, subnet}
BlockCovers == [ip \in BlockIps |-> Cover[ip]]
BlockProfile == [ip \in BlockIps |-> "none"]

MCProtected == {gateway}

OneEach == [e \in Events |-> 1]
NoFault == [e \in Events |-> 0]

Symmetry == Permutations(Threads) \cup Permutations(Actions)
===============================================================================
