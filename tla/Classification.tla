---------------------------- MODULE Classification ----------------------------
(***************************************************************************)
(* The classifier in use: over the AttackType rows that an administrator   *)
(* edits one by one (classification/admin.py list_editable), against the   *)
(* loop of classify_description spelled out; over the rows and responses   *)
(* that an installation is seeded with; and the orphaned engine with the   *)
(* address profile it would keep.                                          *)
(***************************************************************************)
EXTENDS Classifier, Engine, Catalog

CONSTANTS Rows,               \* the rows an administrator may enter
          Descriptions,       \* what is classified with the edited rows
          Levels,             \* Wazuh rule levels
          Events,             \* alerts of one address in the last hour
          EngineDescriptions, \* what the engine is called with
          Threats             \* threat scores that a client or an administrator enters

ASSUME ClassificationAssumption ==
    /\ IsFiniteSet(Keys)
    /\ Rows \subseteq AttackType
    /\ Levels \subseteq Int
    /\ Events \subseteq Nat
    /\ Threats \subseteq Int

VARIABLES types,    \* the rows of AttackType
          seen,     \* the description and the rule level of the last alert
          address,  \* the profile row of the address the alerts name
          verdict   \* what the engine last said of it, with the type and the level

vars == <<types, seen, address, verdict>>

FirstRow     == [is_active |-> FALSE, keywords |-> {}, base_score |-> 45, priority |-> 1]
FirstTypes   == [k \in Keys |-> FirstRow]
FirstSeen    == [desc |-> {}, level |-> 0]
FirstAddress == [known |-> FALSE, threat |-> 0, blocked |-> FALSE]
FirstVerdict == [type |-> "unknown", level |-> 0, severity |-> 0]

Init == /\ types = FirstTypes /\ seen = FirstSeen
        /\ address = FirstAddress /\ verdict = FirstVerdict

EditRow(k) == /\ \E row \in Rows : types' = [types EXCEPT ![k] = row]
              /\ UNCHANGED <<seen, address, verdict>>

\* The hooks classify an alert with the seeded table.
See == /\ seen' \in [desc : SUBSET SeedKeywords, level : Levels]
       /\ UNCHANGED <<types, address, verdict>>

\* The engine classifies an alert that names the address, and averages the score
\* into its row unless that write, or anything before it, raises.
EngineRuns ==
    /\ \E desc \in EngineDescriptions, level \in Levels, events \in Events :
       \E said \in Verdicts(desc, level, events, address) :
          /\ verdict' = [type |-> said.type, level |-> level, severity |-> said.severity]
          /\ address' \in {address} \cup (IF said.final = 0 THEN {} ELSE Updated(address, said.final))
    /\ UNCHANGED <<types, seen>>

\* A response blocks or unblocks the address; only blocking creates its row.
AddressBlocked ==
    /\ \/ address' = [address EXCEPT !.known = TRUE, !.blocked = TRUE]
       \/ address' = [address EXCEPT !.blocked = FALSE]
    /\ UNCHANGED <<types, seen, verdict>>

\* IPProfileViewSet and IPProfileAdmin create, change and delete the row at will,
\* with any threat score: the only writers of it while nothing calls the engine.
ProfileEdited ==
    /\ \/ address' \in [known : {TRUE}, threat : Threats, blocked : BOOLEAN]
       \/ address' = FirstAddress
    /\ UNCHANGED <<types, seen, verdict>>

Next == (\E k \in Keys : EditRow(k)) \/ See \/ EngineRuns \/ AddressBlocked \/ ProfileEdited
Spec == Init /\ [][Next]_vars

-------------------------------------------------------------------------------
(* The reference: number the active rows in (priority, key) order, walk them,
   and stop at the first one of which a keyword is a non-empty substring. *)
Active == {k \in Keys : types[k].is_active}

RowLess(k, l) == \/ types[k].priority < types[l].priority
                 \/ types[k].priority = types[l].priority /\ KeyOrder[k] < KeyOrder[l]
Position(k) == Cardinality({l \in Active : RowLess(l, k)}) + 1
Ordered == [i \in 1..Cardinality(Active) |-> CHOOSE k \in Active : Position(k) = i]

Stops(desc) == {i \in 1..Cardinality(Active) :
                  (types[Ordered[i]].keywords \ {Blank}) \cap desc # {}}
Scan(desc) == IF Stops(desc) = {} THEN Unknown
              ELSE Ordered[CHOOSE i \in Stops(desc) : \A j \in Stops(desc) : i <= j]

(* Whatever the table, the classifier names the row the documented loop
   stops at: the lowest (priority, key) among the active rows that match. *)
ClassifyIsScan ==
    \A desc \in Descriptions : ClassifyDescription(types, desc).key = Scan(desc)

(* A rule level never lowers the severity, and its bonus lifts it by at most
   one band, whatever base score the winning row has. *)
LevelLiftsOneBand ==
    \A desc \in Descriptions, lo, hi \in 0..15 :
        LET base  == ClassifyDescription(types, desc).base_score
            from  == GetSeverity(Score(base, lo))
            to    == GetSeverity(Score(base, hi))
        IN  lo <= hi => to \in {from, from + 1}

(* An edit of one row reclassifies a description only away from that row or
   to it: the other rows' keywords, priorities and scores do not matter. *)
EditIsLocal ==
    [][\A k \in Keys :
         (\A l \in Keys \ {k} : types'[l] = types[l]) =>
         \A desc \in Descriptions :
            LET before == ClassifyDescription(types, desc).key
                after  == ClassifyDescription(types', desc).key
            IN  before # after => k \in {before, after}]_vars

-------------------------------------------------------------------------------
\* The seeded table.  Its priorities differ, so the rank of a key decides nothing.
Seeded == INSTANCE Classifier WITH
            Keys <- SeedKeys, Unknown <- "unknown", Keywords <- SeedKeywords, Blank <- "",
            KeyOrder <- [k \in SeedKeys |-> SeedTypes[k].priority]

SeedClass(desc) == Seeded!ClassifyDescription(SeedTypes, desc)

(* The seeded tables agree with one another: exactly the descriptions that score
   high or critical, whatever the rule level, are answered with a block, and the
   notification runs after every other response, so that its summary covers it.
   Scores, keywords and mappings are seeded by two migrations of two apps. *)
SevereIsBlocked ==
    LET class   == SeedClass(seen.desc)
        answers == {SeedDefinitions[d] : d \in DOMAIN SeedMappings[class.key]}
    IN  /\ GetSeverity(Score(class.base_score, seen.level)) >= 2 <=> "block_ip" \in answers
        /\ answers \subseteq Handlers
        /\ Summarised(class.key) = answers \ {"notify"}

(* The engine and the seeded table name the same attack type when all the phrases
   of a description speak of one type; the engine alone does not know the bare
   word "scanning".  With several types they differ: list order is not priority. *)
EngineNamesTheType ==
    /\ "scanning" \notin seen.desc
    /\ Cardinality({k \in SeedKeys : SeedTypes[k].keywords \cap seen.desc # {}}) <= 1
    => EngineType(seen.desc) = SeedClass(seen.desc).key

(* Of the same attack type and rule level the engine never gives a higher
   severity than the hooks that replaced it, whatever the history of the address
   and whatever threat score was entered for it: the weights leave it at medium
   at most. *)
EngineIsMilder ==
    /\ verdict.severity <= 1
    /\ verdict.severity <= GetSeverity(Score(EngineBase[verdict.type], verdict.level))
===============================================================================
