-------------------------------- MODULE Engine --------------------------------
(***************************************************************************)
(* The classification engine of classification-engine/, the module that    *)
(* the hooks and the AttackType table have replaced; nothing calls it any  *)
(* more.  It is pure but for the profile row it updates.                   *)
(*                                                                         *)
(* A description is the set of phrases that occur in it; a phrase is named *)
(* by its first letters.  Scores carry two decimals, so they are hundredths*)
(* here; the labels low, medium, high and critical are numbered 0 to 3.    *)
(***************************************************************************)
EXTENDS Integers

\* DESCRIPTION_TO_ATTACK_TYPE, in its order.
DescriptionTable ==
    << [phrase |-> "sqli",      type |-> "sql_injection"],
       [phrase |-> "xss",       type |-> "xss"],
       [phrase |-> "traversal", type |-> "traversal"],
       [phrase |-> "command",   type |-> "command_injection"],
       [phrase |-> "sshbrute",  type |-> "brute_force"],
       [phrase |-> "sshroot",   type |-> "brute_force"],
       [phrase |-> "panel",     type |-> "scanning"],
       [phrase |-> "scanner",   type |-> "scanning"] >>

\* Mutant: the description is compared with the phrase, not searched for it.
EngineType_Equals(desc) ==
    LET hits == {i \in 1..8 : desc = {DescriptionTable[i].phrase}}
    IN  IF hits = {} THEN "unknown"
        ELSE DescriptionTable[CHOOSE i \in hits : \A j \in hits : i <= j].type

\* get_attack_type_from_description: the first phrase that occurs decides.
EngineType(desc) ==
    LET hits == {i \in 1..8 : DescriptionTable[i].phrase \in desc}
    IN  IF hits = {} THEN "unknown"
        ELSE DescriptionTable[CHOOSE i \in hits : \A j \in hits : i <= j].type

\* ATTACK_BASE_SCORES
EngineBase ==
    [command_injection |-> 90, sql_injection |-> 85, traversal |-> 75, xss |-> 70,
     dos |-> 70, brute_force |-> 60, web_attack |-> 50, scanning |-> 35, unknown |-> 20]

EngineBonus(level) == IF level >= 12 THEN 15 ELSE IF level >= 8 THEN 10
                      ELSE IF level >= 4 THEN 5 ELSE 0

AtMost100(score) == IF score < 100 THEN score ELSE 100

AttackScore(type, level) == AtMost100(EngineBase[type] + EngineBonus(level))

\* FREQUENCY_SCORES, of the alerts this address raised in the last hour.
FrequencyScore(events) == IF events >= 51 THEN 30 ELSE IF events >= 21 THEN 25
                          ELSE IF events >= 6 THEN 15 ELSE IF events >= 1 THEN 5 ELSE 0

\* The profile row of the address; "blocked" is is_blocked or blocked_at, and
\* threat_score an integer of either sign, since clients enter it too.
Profiles == [known : BOOLEAN, threat : Int, blocked : BOOLEAN]

\* get_ip_behavior_score
BehaviorScore(profile) ==
    IF ~profile.known THEN 0
    ELSE 15 + (IF profile.threat > 50 THEN 10 ELSE 0) + (IF profile.blocked THEN 5 ELSE 0)

\* Mutant: the weights add up to more than one.
FinalScore_Unweighted(type, level, events, profile) ==
    100 * AtMost100(AttackScore(type, level) + FrequencyScore(events) + BehaviorScore(profile))

\* The weighted sum .40, .30, .30, in hundredths.
FinalScore(type, level, events, profile) ==
    40 * AttackScore(type, level) + 30 * FrequencyScore(events) + 30 * BehaviorScore(profile)

EngineSeverity(final) ==
    IF final >= 8000 THEN 3 ELSE IF final >= 6000 THEN 2 ELSE IF final >= 3000 THEN 1 ELSE 0

\* classify: the computed result, or the fallback when anything raised.
Verdicts(desc, level, events, profile) ==
    LET type  == EngineType(desc)
        final == FinalScore(type, level, events, profile)
    IN  {[type |-> type, final |-> final, severity |-> EngineSeverity(final)],
         [type |-> "unknown", final |-> 0, severity |-> 0]}

\* Seven tenths of the old threat and three of the score, in ten-thousandths.
Average(threat, final) == 30 * final + 7000 * threat

\* int() drops the fraction, toward zero on both sides of it.
Truncated(sum) == IF sum >= 0 THEN sum \div 10000 ELSE -((-sum) \div 10000)

(* update_ip_profile: int() of the score or of the moving average.  Binary
   fractions can fall just short of a whole number, one nearer to zero. *)
NewThreats(profile, final) ==
    LET sum == Average(profile.threat, final)
    IN  IF ~profile.known \/ profile.threat = 0 THEN {final \div 100}
        ELSE {Truncated(sum)} \cup
             (IF sum % 10000 # 0 \/ sum = 0 THEN {}
              ELSE {Truncated(sum) + (IF sum > 0 THEN -1 ELSE 1)})

Updated(profile, final) ==
    {[known |-> TRUE, threat |-> AtMost100(threat), blocked |-> profile.blocked] :
       threat \in NewThreats(profile, final)}
===============================================================================
