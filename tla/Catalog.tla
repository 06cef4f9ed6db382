------------------------------- MODULE Catalog --------------------------------
(***************************************************************************)
(* What a new installation starts with: the AttackType rows that           *)
(* classification/migrations/0002 seeds, the response definitions and      *)
(* mappings that responses/migrations/0003 seeds, and the handlers that    *)
(* response_worker/handlers registers.                                     *)
(*                                                                         *)
(* A keyword is named by its first letters; descriptions are sets of them. *)
(***************************************************************************)
EXTENDS Integers, FiniteSets

Row(keywords, base_score, priority) ==
    [is_active |-> TRUE, keywords |-> keywords, base_score |-> base_score,
     priority |-> priority]

SeedTypes ==
    [command_injection |-> Row({"command"}, 90, 10),
     sql_injection     |-> Row({"sqli"}, 85, 20),
     traversal         |-> Row({"traversal"}, 75, 30),
     xss               |-> Row({"xss"}, 70, 40),
     dos               |-> Row({}, 70, 50),
     brute_force       |-> Row({"sshbrute", "sshroot"}, 60, 60),
     web_attack        |-> Row({}, 50, 70),
     scanning          |-> Row({"panel", "scanner", "scanning"}, 35, 80),
     malware           |-> Row({}, 80, 90),
     unknown           |-> Row({}, 20, 100)]

SeedKeys == DOMAIN SeedTypes
SeedKeywords == UNION {SeedTypes[k].keywords : k \in SeedKeys}

\* RESPONSE_HANDLERS, after the three handler modules have been imported.
Handlers == {"block_ip", "unblock_ip", "kill_process", "notify"}

\* DEFINITIONS: the handler key of each seeded response.
SeedDefinitions ==
    [block24 |-> "block_ip", block1 |-> "block_ip", kill |-> "kill_process",
     notify |-> "notify"]

\* Mutant: the summary is sent before there is anything to sum up.
Maps_NotifyFirst(first) ==
    [definition \in {first, "notify"} |-> IF definition = first THEN 1 ELSE 0]

\* A response, and after it the notification.
Maps(first) == [definition \in {first, "notify"} |-> IF definition = first THEN 0 ELSE 1]

\* MAPPINGS: the order in which an attack type's responses run.
SeedMappings ==
    [k \in SeedKeys |->
       CASE k \in {"sql_injection", "command_injection", "traversal", "xss",
                   "brute_force", "dos"} -> Maps("block24")
         [] k = "web_attack" -> Maps("block1")
         [] k = "malware" -> Maps("kill")
         [] k \in {"scanning", "unknown"} -> [definition \in {"notify"} |-> 0]]

\* order_by('order'): the handlers that run for an attack type before this one.
RunBefore(k, definition) ==
    {SeedDefinitions[d] : d \in {e \in DOMAIN SeedMappings[k] :
                                   SeedMappings[k][e] < SeedMappings[k][definition]}}

\* notify's summary covers the handlers whose results its context holds.
Summarised(k) ==
    UNION {RunBefore(k, d) : d \in {e \in DOMAIN SeedMappings[k] :
                                      SeedDefinitions[e] = "notify"}}
===============================================================================
