------------------------- MODULE ClassificationProofs -------------------------
(***************************************************************************)
(* Theorems about Classification, for every table of finitely many rows,   *)
(* every description and every run of the engine: each property its run    *)
(* checks.  EngineInv is inductive; the reference scan numbers the rows;   *)
(* the seeded tables are computed through row by row.                      *)
(***************************************************************************)
EXTENDS Classification, ClassifierProofs, FiniteSetTheorems, FunctionTheorems

(* The specification: every reachable state of the three parts. *)

Typed ==
    /\ types \in [Keys -> AttackType]
    /\ seen \in [desc : SUBSET SeedKeywords, level : Int]
    /\ address \in Profiles
    /\ verdict \in [type : DOMAIN EngineBase, level : Int, severity : 0..3]

(* What an engine run may return, and the profile it may leave: the induction
   step of EngineIsMilder. *)
LEMMA EngineTypeIsScored ==
    ASSUME NEW desc
    PROVE  EngineType(desc) \in DOMAIN EngineBase
<1> DEFINE hits == {i \in 1..8 : DescriptionTable[i].phrase \in desc}
           First(i) == \A j \in hits : i <= j
<1>1. CASE hits = {}
  BY <1>1 DEF EngineType, EngineBase
<1>2. CASE hits # {}
  <2>1. hits \in SUBSET Nat
    OBVIOUS
  <2>2. \E i \in hits : First(i)
    BY <1>2, <2>1, LeastNatural
  <2>3. (CHOOSE i \in hits : First(i)) \in 1..8
    BY <2>2
  <2>4. \A i \in 1..8 : DescriptionTable[i].type \in DOMAIN EngineBase
    BY DEF DescriptionTable, EngineBase
  <2>5. EngineType(desc) = DescriptionTable[CHOOSE i \in hits : First(i)].type
    BY <1>2 DEF EngineType
  <2> QED
    BY <2>3, <2>4, <2>5
<1> QED
  BY <1>1, <1>2

(* Weighted, the three scores come to 58 at most; the engine leaves a profile row
   behind, whatever threat score it finds in it. *)
Finals == 0..5800

LEMMA UpdatedIsProfile ==
    ASSUME NEW profile \in Profiles, NEW final \in Finals,
           NEW after \in Updated(profile, final)
    PROVE  after \in Profiles
<1>1. final \in Int /\ profile.threat \in Int
  BY DEF Finals, Profiles
<1>2. NewThreats(profile, final) \subseteq Int
  <2> DEFINE sum == Average(profile.threat, final)
  <2>1. sum \in Int
    BY <1>1 DEF Average
  <2> HIDE DEF sum
  <2>2. Truncated(sum) \in Int /\ final \div 100 \in Int
    BY <1>1, <2>1 DEF Truncated
  <2> QED
    BY <2>1, <2>2 DEF NewThreats, sum
<1>3. PICK new \in NewThreats(profile, final) :
         after = [known |-> TRUE, threat |-> AtMost100(new), blocked |-> profile.blocked]
  BY DEF Updated
<1>4. new \in Int /\ AtMost100(new) \in Int
  BY <1>2, <1>3 DEF AtMost100
<1> QED
  BY <1>3, <1>4 DEF Profiles

LEMMA FinalScoreIsBounded ==
    ASSUME NEW type \in DOMAIN EngineBase, NEW level \in Int, NEW events \in Nat,
           NEW profile \in Profiles
    PROVE  FinalScore(type, level, events, profile) \in Finals
<1>1. PICK attack \in 0..100 : attack = AttackScore(type, level)
  BY AttackScoreIsScore
<1>2. PICK frequency \in 0..30 : frequency = FrequencyScore(events)
  BY HistoryScores
<1>3. PICK behavior \in 0..30 : behavior = BehaviorScore(profile)
  BY HistoryScores
<1>4. 40 * attack + 30 * frequency + 30 * behavior \in Finals
  BY DEF Finals
<1> QED
  BY <1>1, <1>2, <1>3, <1>4 DEF FinalScore

(* The fallback verdict is mild too: its severity is low. *)
LEMMA VerdictIsMild ==
    ASSUME NEW desc, NEW level \in Int, NEW events \in Nat, NEW profile \in Profiles,
           NEW said \in Verdicts(desc, level, events, profile)
    PROVE  /\ said.type \in DOMAIN EngineBase
           /\ said.final \in Finals
           /\ said.severity \in 0..1
           /\ said.severity <= GetSeverity(Score(EngineBase[said.type], level))
<1> DEFINE type  == EngineType(desc)
           final == FinalScore(type, level, events, profile)
<1>1. type \in DOMAIN EngineBase
  BY EngineTypeIsScored
<1>2. CASE said = [type |-> type, final |-> final, severity |-> EngineSeverity(final)]
  <2>1. final \in Finals
    BY <1>1, FinalScoreIsBounded
  <2>2. EngineSeverity(final) \in 0..1
    <3>1. EngineSeverity(final) \in Nat
      BY DEF EngineSeverity
    <3>2. EngineSeverity(final) <= 1
      BY <1>1, EngineIsMilderAlways
    <3> QED
      BY <3>1, <3>2
  <2>3. EngineSeverity(final) <= GetSeverity(Score(EngineBase[type], level))
    BY <1>1, EngineIsMilderAlways
  <2> QED
    BY <1>1, <1>2, <2>1, <2>2, <2>3
<1>3. CASE said = [type |-> "unknown", final |-> 0, severity |-> 0]
  <2>1. EngineBase["unknown"] \in Nat /\ "unknown" \in DOMAIN EngineBase
    BY DEF EngineBase
  <2>2. Score(EngineBase["unknown"], level) \in Int
    <3>1. LevelBonus(level) \in Int
      BY DEF LevelBonus
    <3> QED
      BY <2>1, <3>1 DEF Score
  <2>3. 0 <= GetSeverity(Score(EngineBase["unknown"], level))
    BY <2>2 DEF GetSeverity
  <2> QED
    BY <1>3, <2>1, <2>3 DEF Finals
<1> QED
  BY <1>2, <1>3 DEF Verdicts

(* The inductive invariant of the specification: types and the engine's verdict. *)
EngineInv == Typed /\ EngineIsMilder

LEMMA EngineInvInit == Init => EngineInv
<1> SUFFICES ASSUME Init PROVE EngineInv
  OBVIOUS
<1> USE DEF Init
<1>1. types \in [Keys -> AttackType]
  BY DEF FirstTypes, FirstRow, AttackType, LowestPriority
<1>2. seen \in [desc : SUBSET SeedKeywords, level : Int]
  BY DEF FirstSeen
<1>3. address \in Profiles
  BY DEF FirstAddress, Profiles
<1>4. verdict \in [type : DOMAIN EngineBase, level : Int, severity : 0..3]
  BY DEF FirstVerdict, EngineBase
<1>5. EngineIsMilder
  <2>1. EngineBase["unknown"] = 20
    BY DEF EngineBase
  <2>2. Score(20, 0) = 20
    BY DEF Score, LevelBonus
  <2>3. GetSeverity(20) = 0
    BY DEF GetSeverity
  <2> QED
    BY <2>1, <2>2, <2>3 DEF EngineIsMilder, FirstVerdict
<1> QED
  BY <1>1, <1>2, <1>3, <1>4, <1>5 DEF EngineInv, Typed

LEMMA EngineInvStep == EngineInv /\ [Next]_vars => EngineInv'
<1> SUFFICES ASSUME EngineInv, [Next]_vars PROVE EngineInv'
  OBVIOUS
<1> USE DEF EngineInv
<1>1. ASSUME NEW k \in Keys, EditRow(k) PROVE EngineInv'
  <2>1. PICK row \in Rows : types' = [types EXCEPT ![k] = row]
    BY <1>1 DEF EditRow
  <2>2. types' \in [Keys -> AttackType]
    BY <2>1, ClassificationAssumption DEF Typed
  <2> QED
    BY <1>1, <2>2 DEF EditRow, Typed, EngineIsMilder
<1>2. CASE See
  <2>1. seen' \in [desc : SUBSET SeedKeywords, level : Int]
    BY <1>2, ClassificationAssumption DEF See
  <2> QED
    BY <1>2, <2>1 DEF See, Typed, EngineIsMilder
<1>3. CASE EngineRuns
  <2>1. PICK desc \in EngineDescriptions, level \in Levels, events \in Events :
          \E said \in Verdicts(desc, level, events, address) :
             /\ verdict' = [type |-> said.type, level |-> level, severity |-> said.severity]
             /\ address' \in {address} \cup (IF said.final = 0 THEN {}
                                             ELSE Updated(address, said.final))
    BY <1>3 DEF EngineRuns
  <2>2. PICK said \in Verdicts(desc, level, events, address) :
             /\ verdict' = [type |-> said.type, level |-> level, severity |-> said.severity]
             /\ address' \in {address} \cup (IF said.final = 0 THEN {}
                                             ELSE Updated(address, said.final))
    BY <2>1
  <2>3. level \in Int /\ events \in Nat /\ address \in Profiles
    BY ClassificationAssumption DEF Typed
  <2>4. /\ said.type \in DOMAIN EngineBase
        /\ said.final \in Finals
        /\ said.severity \in 0..1
        /\ said.severity <= GetSeverity(Score(EngineBase[said.type], level))
    BY <2>3, VerdictIsMild
  <2>5. address' \in Profiles
    BY <2>2, <2>3, <2>4, UpdatedIsProfile
  <2> QED
    BY <1>3, <2>2, <2>3, <2>4, <2>5 DEF EngineRuns, Typed, EngineIsMilder
<1>4. CASE AddressBlocked
  <2>1. address' \in Profiles
    BY <1>4 DEF AddressBlocked, Typed, Profiles
  <2> QED
    BY <1>4, <2>1 DEF AddressBlocked, Typed, EngineIsMilder
<1>5. CASE ProfileEdited
  <2>1. address' \in Profiles
    <3>1. CASE address' = FirstAddress
      BY <3>1 DEF FirstAddress, Profiles
    <3>2. CASE address' \in [known : {TRUE}, threat : Threats, blocked : BOOLEAN]
      BY <3>2, ClassificationAssumption DEF Profiles
    <3> QED
      BY <1>5, <3>1, <3>2 DEF ProfileEdited
  <2> QED
    BY <1>5, <2>1 DEF ProfileEdited, Typed, EngineIsMilder
<1>6. CASE UNCHANGED vars
  BY <1>6 DEF vars, Typed, EngineIsMilder
<1> QED
  BY <1>1, <1>2, <1>3, <1>4, <1>5, <1>6 DEF Next

THEOREM EngineInvariant == Spec => []EngineInv
  BY EngineInvInit, EngineInvStep, PTL DEF Spec

(* (priority, key) orders the rows strictly and totally. *)
LEMMA RowOrder ==
    ASSUME types \in [Keys -> AttackType]
    PROVE  /\ \A k \in Keys : ~RowLess(k, k)
           /\ \A k, l \in Keys : k = l \/ RowLess(k, l) \/ RowLess(l, k)
           /\ \A k, l, m \in Keys : RowLess(k, l) /\ RowLess(l, m) => RowLess(k, m)
<1> DEFINE p(k) == types[k].priority
<1>1. \A k \in Keys : p(k) \in Int /\ KeyOrder[k] \in Int
  <2> TAKE k \in Keys
  <2>1. types[k] \in AttackType
    OBVIOUS
  <2>2. types[k].priority \in Int
    BY <2>1 DEF AttackType
  <2>3. KeyOrder[k] \in Nat
    BY KeyOrderAssumption
  <2> QED
    BY <2>2, <2>3
<1>2. \A k, l \in Keys : KeyOrder[k] = KeyOrder[l] => k = l
  BY KeyOrderAssumption
<1>3. \A k, l : RowLess(k, l) <=> \/ p(k) < p(l)
                                  \/ p(k) = p(l) /\ KeyOrder[k] < KeyOrder[l]
  BY DEF RowLess
<1> HIDE DEF p
<1> QED
  BY <1>1, <1>2, <1>3

(* The positions number the active rows in their order, without a gap. *)
LEMMA PositionsNumberTheRows ==
    ASSUME types \in [Keys -> AttackType]
    PROVE  /\ Cardinality(Active) \in Nat
           /\ \A k \in Active : Position(k) \in 1..Cardinality(Active)
           /\ \A k, l \in Active : RowLess(k, l) => Position(k) < Position(l)
           /\ \A k \in Active : Ordered[Position(k)] = k
           /\ \A i \in 1..Cardinality(Active) :
                 Ordered[i] \in Active /\ Position(Ordered[i]) = i
<1> DEFINE n == Cardinality(Active)
           Less(k) == {l \in Active : RowLess(l, k)}
<1>1. Active \subseteq Keys /\ IsFiniteSet(Active) /\ n \in Nat
  <2>1. Active \subseteq Keys
    BY DEF Active
  <2> QED
    BY <2>1, FS_Subset, FS_CardinalityType, ClassificationAssumption
<1>2. \A k \in Active : /\ IsFiniteSet(Less(k)) /\ Cardinality(Less(k)) \in Nat
                        /\ Cardinality(Less(k)) < n
  <2> TAKE k \in Active
  <2>1. Less(k) \subseteq Active /\ k \notin Less(k)
    BY <1>1, RowOrder
  <2>2. IsFiniteSet(Less(k)) /\ Cardinality(Less(k)) <= n /\ Cardinality(Less(k)) # n
    <3> HIDE DEF Less
    <3> QED
      BY <1>1, <2>1, FS_Subset
  <2>3. Cardinality(Less(k)) \in Nat
    BY <2>2, FS_CardinalityType
  <2> QED
    BY <1>1, <2>2, <2>3
<1>3. \A k : Position(k) = Cardinality(Less(k)) + 1
  BY DEF Position
<1>4. \A k \in Active : Position(k) \in 1..n
  <2> HIDE DEF Less
  <2> TAKE k \in Active
  <2>1. Position(k) = Cardinality(Less(k)) + 1
    BY <1>3
  <2> QED
    BY <1>1, <1>2, <2>1
<1>5. ASSUME NEW k \in Active, NEW l \in Active, RowLess(k, l)
      PROVE  Position(k) < Position(l)
  <2>1. Less(k) \subseteq Less(l) /\ k \in Less(l) /\ k \notin Less(k)
    BY <1>1, <1>5, RowOrder
  <2>2. Cardinality(Less(k)) <= Cardinality(Less(l)) /\ Cardinality(Less(k)) # Cardinality(Less(l))
    <3>1. IsFiniteSet(Less(l))
      BY <1>2
    <3> HIDE DEF Less
    <3> QED
      BY <2>1, <3>1, FS_Subset
  <2> QED
    BY <1>2, <1>3, <2>2
<1>6. \A k, l \in Active : Position(k) = Position(l) => k = l
  <2> SUFFICES ASSUME NEW k \in Active, NEW l \in Active, Position(k) = Position(l), k # l
               PROVE  FALSE
    OBVIOUS
  <2>1. RowLess(k, l) \/ RowLess(l, k)
    BY <1>1, RowOrder
  <2>2. Position(k) < Position(l) \/ Position(l) < Position(k)
    BY <2>1, <1>5
  <2> QED
    BY <2>2, <1>4
<1>7. \A i \in 1..n : \E k \in Active : Position(k) = i
  <2> DEFINE f == [k \in Active |-> Position(k)]
  <2>1. f \in Injection(Active, 1..n)
    BY <1>4, <1>6, Fun_IsInj
  <2>2. IsFiniteSet(1..n) /\ Cardinality(1..n) = n
    BY <1>1, FS_Interval
  <2>3. f \in Surjection(Active, 1..n)
    <3> HIDE DEF f
    <3> QED
      BY <2>1, <2>2, FS_Injection
  <2> QED
    BY <2>3 DEF Surjection
<1>8. \A i \in 1..n : Ordered[i] \in Active /\ Position(Ordered[i]) = i
  <2> TAKE i \in 1..n
  <2>1. Ordered[i] = CHOOSE k \in Active : Position(k) = i
    BY DEF Ordered
  <2> QED
    BY <1>7, <2>1
<1>9. \A k \in Active : Ordered[Position(k)] = k
  BY <1>4, <1>6, <1>8
<1> QED
  BY <1>1, <1>4, <1>5, <1>8, <1>9

(* The loop and the choice of the least matching row agree. *)
LEMMA FirstHitIsScan ==
    ASSUME types \in [Keys -> AttackType], NEW desc
    PROVE  ClassifyDescription(types, desc).key = Scan(desc)
<1> DEFINE n == Cardinality(Active)
           H == Hits(types, desc)
           Least(i) == \A j \in Stops(desc) : i <= j
<1>1. n \in Nat /\ \A k \in Active : Position(k) \in 1..n /\ Ordered[Position(k)] = k
  BY PositionsNumberTheRows
<1>2. \A i \in 1..n : Ordered[i] \in Active /\ Position(Ordered[i]) = i
  BY PositionsNumberTheRows
<1>3. \A k \in Keys : k \in H <=> k \in Active /\ (types[k].keywords \ {Blank}) \cap desc # {}
  BY DEF Hits, Matches, Contained, Active
<1>4. Stops(desc) = {i \in 1..n : Ordered[i] \in H}
  BY <1>2, <1>3 DEF Stops, Active
<1>5. \A k \in H : k \in Active /\ Position(k) \in Stops(desc)
  BY <1>1, <1>3, <1>4 DEF Hits
<1>6. CASE H = {}
  BY <1>4, <1>6 DEF Scan, ClassifyDescription
<1>7. CASE H # {}
  <2> DEFINE k == FirstHit(types, desc)
  <2>1. k \in H /\ \A l \in H : l = k \/ Before(types, k, l)
    BY <1>7, FirstHitIsFirst
  <2>2. Position(k) \in Stops(desc) /\ Ordered[Position(k)] = k
    BY <1>1, <1>5, <2>1
  <2>3. Least(Position(k))
    <3> SUFFICES ASSUME NEW j \in Stops(desc) PROVE Position(k) <= j
      OBVIOUS
    <3>1. Ordered[j] \in H /\ Position(Ordered[j]) = j /\ j \in Int
      BY <1>2, <1>4
    <3>2. Position(k) \in Int
      BY <1>1, <1>5, <2>1
    <3>3. CASE Ordered[j] = k
      BY <3>1, <3>2, <3>3
    <3>4. CASE Before(types, k, Ordered[j])
      <4>1. RowLess(k, Ordered[j])
        BY <3>4 DEF Before, RowLess
      <4>2. Position(k) < Position(Ordered[j])
        BY <4>1, <1>5, <2>1, <3>1, PositionsNumberTheRows
      <4> QED
        BY <4>2, <3>1, <3>2
    <3> QED
      BY <2>1, <3>1, <3>3, <3>4
  <2>4. Stops(desc) \subseteq Int
    BY <1>4
  <2> HIDE DEF k
  <2>5. (CHOOSE i \in Stops(desc) : Least(i)) = Position(k)
    BY <2>2, <2>3, <2>4
  <2>6. Scan(desc) = k
    BY <2>2, <2>5 DEF Scan
  <2>7. ClassifyDescription(types, desc).key = k
    BY <1>7 DEF ClassifyDescription, k
  <2> QED
    BY <2>6, <2>7
<1> QED
  BY <1>6, <1>7

-------------------------------------------------------------------------------
(* The seeded rows, key by key. *)
LEMMA SeedRows ==
    /\ SeedKeys = {"command_injection", "sql_injection", "traversal", "xss", "dos",
                   "brute_force", "web_attack", "scanning", "malware", "unknown"}
    /\ SeedTypes["command_injection"].keywords = {"command"} /\ SeedTypes["command_injection"].base_score = 90
    /\ SeedTypes["sql_injection"].keywords = {"sqli"} /\ SeedTypes["sql_injection"].base_score = 85
    /\ SeedTypes["traversal"].keywords = {"traversal"} /\ SeedTypes["traversal"].base_score = 75
    /\ SeedTypes["xss"].keywords = {"xss"} /\ SeedTypes["xss"].base_score = 70
    /\ SeedTypes["dos"].keywords = {} /\ SeedTypes["dos"].base_score = 70
    /\ SeedTypes["brute_force"].keywords = {"sshbrute", "sshroot"} /\ SeedTypes["brute_force"].base_score = 60
    /\ SeedTypes["web_attack"].keywords = {} /\ SeedTypes["web_attack"].base_score = 50
    /\ SeedTypes["scanning"].keywords = {"panel", "scanner", "scanning"} /\ SeedTypes["scanning"].base_score = 35
    /\ SeedTypes["malware"].keywords = {} /\ SeedTypes["malware"].base_score = 80
    /\ SeedTypes["unknown"].keywords = {} /\ SeedTypes["unknown"].base_score = 20
  BY DEF SeedKeys, SeedTypes, Row

(* The seeded table, as the instance Seeded of Classifier sees it. *)
LEMMA SeedHits ==
    ASSUME NEW desc \in SUBSET SeedKeywords
    PROVE  Seeded!Hits(SeedTypes, desc) = {k \in SeedKeys : SeedTypes[k].keywords \cap desc # {}}
<1>1. \A k \in SeedKeys : SeedTypes[k].is_active = TRUE
  BY DEF SeedKeys, SeedTypes, Row
<1>2. \A k \in SeedKeys : "" \notin SeedTypes[k].keywords
  <2> TAKE k \in SeedKeys
  <2>1. CASE k = "command_injection"
    BY <2>1, SeedRows
  <2>2. CASE k = "sql_injection"
    BY <2>2, SeedRows
  <2>3. CASE k = "traversal"
    BY <2>3, SeedRows
  <2>4. CASE k = "xss"
    BY <2>4, SeedRows
  <2>5. CASE k = "dos"
    BY <2>5, SeedRows
  <2>6. CASE k = "brute_force"
    BY <2>6, SeedRows
  <2>7. CASE k = "web_attack"
    BY <2>7, SeedRows
  <2>8. CASE k = "scanning"
    BY <2>8, SeedRows
  <2>9. CASE k = "malware"
    BY <2>9, SeedRows
  <2>10. CASE k = "unknown"
    BY <2>10, SeedRows
  <2> QED
    BY SeedRows, <2>1, <2>2, <2>3, <2>4, <2>5, <2>6, <2>7, <2>8, <2>9, <2>10
<1>3. "" \notin SeedKeywords
  BY <1>2 DEF SeedKeywords
<1> QED
  BY <1>2, <1>1, <1>3 DEF Seeded!Hits, Seeded!Matches, Seeded!Contained

(* Priorities are seeded apart, so there is a first hit among the seeded rows. *)
LEMMA SeedFirstHit ==
    ASSUME NEW desc, Seeded!Hits(SeedTypes, desc) # {}
    PROVE  Seeded!FirstHit(SeedTypes, desc) \in Seeded!Hits(SeedTypes, desc)
<1> DEFINE H == Seeded!Hits(SeedTypes, desc)
           First(k) == \A l \in H : l = k \/ Seeded!Before(SeedTypes, k, l)
           P == {SeedTypes[k].priority : k \in H}
<1>1. H \subseteq SeedKeys
  BY DEF Seeded!Hits
<1>2. \A k \in SeedKeys : SeedTypes[k].priority \in Nat
  BY DEF SeedKeys, SeedTypes, Row
<1>3. \A k, l \in SeedKeys : SeedTypes[k].priority = SeedTypes[l].priority => k = l
  BY DEF SeedKeys, SeedTypes, Row
<1> HIDE DEF H
<1>4. P \in SUBSET Nat /\ P # {}
  BY <1>1, <1>2 DEF H
<1>5. PICK p \in P : \A q \in P : p <= q
  BY <1>4, LeastNatural
<1>6. PICK k \in H : SeedTypes[k].priority = p
  BY <1>5
<1>7. First(k)
  <2> SUFFICES ASSUME NEW l \in H, l # k PROVE Seeded!Before(SeedTypes, k, l)
    OBVIOUS
  <2>1. SeedTypes[k].priority <= SeedTypes[l].priority
    BY <1>5, <1>6
  <2>2. SeedTypes[k].priority # SeedTypes[l].priority
    BY <1>1, <1>3
  <2>3. SeedTypes[k].priority \in Nat /\ SeedTypes[l].priority \in Nat
    BY <1>1, <1>2
  <2> QED
    BY <2>1, <2>2, <2>3 DEF Seeded!Before
<1>8. Seeded!FirstHit(SeedTypes, desc) = CHOOSE k0 \in H : First(k0)
  BY DEF Seeded!FirstHit, H
<1> HIDE DEF First
<1> QED
  BY <1>6, <1>7, <1>8 DEF H

(* The seeded classifier returns a row that one of its keywords has matched, or
   the catch-all row. *)
LEMMA SeedClassIsRow ==
    ASSUME NEW desc \in SUBSET SeedKeywords
    PROVE  \/ /\ SeedClass(desc).key \in SeedKeys
              /\ SeedTypes[SeedClass(desc).key].keywords \cap desc # {}
              /\ SeedClass(desc).base_score = SeedTypes[SeedClass(desc).key].base_score
           \/ /\ \A k \in SeedKeys : SeedTypes[k].keywords \cap desc = {}
              /\ SeedClass(desc) = [key |-> "unknown", base_score |-> 20]
<1> DEFINE H == Seeded!Hits(SeedTypes, desc)
           k == Seeded!FirstHit(SeedTypes, desc)
<1>1. H = {l \in SeedKeys : SeedTypes[l].keywords \cap desc # {}}
  BY SeedHits
<1>2. CASE H = {}
  <2>1. SeedClass(desc) = [key |-> "unknown", base_score |-> 20]
    BY <1>2 DEF SeedClass, Seeded!ClassifyDescription
  <2> QED
    BY <1>1, <1>2, <2>1
<1>3. CASE H # {}
  <2>1. k \in H
    BY <1>3, SeedFirstHit
  <2>2. SeedClass(desc) = [key |-> k, base_score |-> SeedTypes[k].base_score]
    BY <1>3 DEF SeedClass, Seeded!ClassifyDescription
  <2> HIDE DEF H, k
  <2> QED
    BY <1>1, <2>1, <2>2
<1> QED
  BY <1>2, <1>3

(* What the seeded mappings run for an attack type, and what the notification's
   summary then covers. *)
Answers(k) == {SeedDefinitions[d] : d \in DOMAIN SeedMappings[k]}

LEMMA BlockedAnswers ==
    ASSUME NEW k \in {"command_injection", "sql_injection", "traversal", "xss", "brute_force"}
    PROVE  Answers(k) = {"block_ip", "notify"} /\ Summarised(k) = {"block_ip"}
<1>1. SeedMappings[k] = Maps("block24")
  BY SeedRows DEF SeedMappings
<1>2. /\ DOMAIN Maps("block24") = {"block24", "notify"}
      /\ Maps("block24")["block24"] = 0 /\ Maps("block24")["notify"] = 1
  BY DEF Maps
<1>3. SeedDefinitions["block24"] = "block_ip" /\ SeedDefinitions["notify"] = "notify"
  BY DEF SeedDefinitions
<1>4. Answers(k) = {"block_ip", "notify"}
  BY <1>1, <1>2, <1>3 DEF Answers
<1>5. {d \in DOMAIN SeedMappings[k] : SeedDefinitions[d] = "notify"} = {"notify"}
  BY <1>1, <1>2, <1>3
<1>6. {e \in DOMAIN SeedMappings[k] : SeedMappings[k][e] < SeedMappings[k]["notify"]}
        = {"block24"}
  BY <1>1, <1>2
<1>7. RunBefore(k, "notify") = {"block_ip"}
  BY <1>3, <1>6 DEF RunBefore
<1>8. Summarised(k) = UNION {RunBefore(k, d) : d \in {"notify"}}
  BY <1>5 DEF Summarised
<1> QED
  BY <1>4, <1>7, <1>8

LEMMA NotifiedAnswers ==
    ASSUME NEW k \in {"scanning", "unknown"}
    PROVE  Answers(k) = {"notify"} /\ Summarised(k) = {}
<1>1. SeedMappings[k] = [definition \in {"notify"} |-> 0]
  BY SeedRows DEF SeedMappings
<1>2. SeedDefinitions["notify"] = "notify"
  BY DEF SeedDefinitions
<1>3. Answers(k) = {"notify"}
  BY <1>1, <1>2 DEF Answers
<1>4. {d \in DOMAIN SeedMappings[k] : SeedDefinitions[d] = "notify"} = {"notify"}
  BY <1>1, <1>2
<1>5. {e \in DOMAIN SeedMappings[k] : SeedMappings[k][e] < SeedMappings[k]["notify"]} = {}
  BY <1>1
<1>6. RunBefore(k, "notify") = {}
  BY <1>5 DEF RunBefore
<1> QED
  BY <1>3, <1>4, <1>6 DEF Summarised

(* A base score of 60 or more is severe whatever the level; one of 35 or less
   never is. *)
LEMMA SevereScores ==
    ASSUME NEW base \in Nat, NEW level \in Int
    PROVE  /\ base >= 60 => GetSeverity(Score(base, level)) >= 2
           /\ base <= 35 => ~(GetSeverity(Score(base, level)) >= 2)
<1>1. LevelBonus(level) \in 0..15
  BY DEF LevelBonus
<1>2. Score(base, level) \in Int
  BY <1>1 DEF Score
<1>3. CASE base >= 60
  <2>1. Score(base, level) >= 60
    BY <1>1, <1>3 DEF Score
  <2> QED
    BY <1>2, <1>3, <2>1 DEF GetSeverity
<1>4. CASE base <= 35
  <2>1. Score(base, level) < 60
    BY <1>1, <1>4 DEF Score
  <2> QED
    BY <1>2, <1>4, <2>1 DEF GetSeverity
<1> QED
  BY <1>3, <1>4

LEMMA SeededIsBlocked == Typed => SevereIsBlocked
<1> SUFFICES ASSUME Typed PROVE SevereIsBlocked
  OBVIOUS
<1> DEFINE class == SeedClass(seen.desc)
<1>1. seen.desc \in SUBSET SeedKeywords /\ seen.level \in Int
  BY DEF Typed
<1>2. "block_ip" \in Handlers /\ "notify" \in Handlers
  BY DEF Handlers
<1>3. CASE /\ class.key \in {"command_injection", "sql_injection", "traversal", "xss",
                             "brute_force"}
           /\ class.base_score \in Nat /\ class.base_score >= 60
  <2>1. GetSeverity(Score(class.base_score, seen.level)) >= 2
    BY <1>1, <1>3, SevereScores
  <2>2. Answers(class.key) = {"block_ip", "notify"} /\ Summarised(class.key) = {"block_ip"}
    BY <1>3, BlockedAnswers
  <2> QED
    BY <1>2, <2>1, <2>2 DEF SevereIsBlocked, Answers
<1>4. CASE /\ class.key \in {"scanning", "unknown"}
           /\ class.base_score \in Nat /\ class.base_score <= 35
  <2>1. ~(GetSeverity(Score(class.base_score, seen.level)) >= 2)
    BY <1>1, <1>4, SevereScores
  <2>2. Answers(class.key) = {"notify"} /\ Summarised(class.key) = {}
    BY <1>4, NotifiedAnswers
  <2> QED
    BY <1>2, <2>1, <2>2 DEF SevereIsBlocked, Answers
<1>5. CASE class = [key |-> "unknown", base_score |-> 20]
  BY <1>4, <1>5
<1>6. CASE /\ class.key \in SeedKeys /\ SeedTypes[class.key].keywords # {}
           /\ class.base_score = SeedTypes[class.key].base_score
  <2>1. class.key \in {"command_injection", "sql_injection", "traversal", "xss",
                       "brute_force", "scanning"}
    BY <1>6, SeedRows
  <2> HIDE DEF class
  <2>2. CASE class.key = "command_injection"
    BY <1>3, <1>6, <2>2, SeedRows
  <2>3. CASE class.key = "sql_injection"
    BY <1>3, <1>6, <2>3, SeedRows
  <2>4. CASE class.key = "traversal"
    BY <1>3, <1>6, <2>4, SeedRows
  <2>5. CASE class.key = "xss"
    BY <1>3, <1>6, <2>5, SeedRows
  <2>6. CASE class.key = "brute_force"
    BY <1>3, <1>6, <2>6, SeedRows
  <2>7. CASE class.key = "scanning"
    BY <1>4, <1>6, <2>7, SeedRows
  <2> QED
    BY <2>1, <2>2, <2>3, <2>4, <2>5, <2>6, <2>7
<1> QED
  BY <1>1, <1>5, <1>6, SeedClassIsRow

(* The engine's phrases are keywords of the attack type they stand for, and all
   the seeded keywords but "scanning" are phrases of the engine. *)
LEMMA PhrasesAreKeywords ==
    /\ \A i \in 1..8 : /\ DescriptionTable[i].type \in SeedKeys
                       /\ DescriptionTable[i].phrase
                            \in SeedTypes[DescriptionTable[i].type].keywords
    /\ \A k \in SeedKeys : \A w \in SeedTypes[k].keywords \ {"scanning"} :
          \E i \in 1..8 : DescriptionTable[i].phrase = w
<1>1. ASSUME NEW i \in 1..8
      PROVE  /\ DescriptionTable[i].type \in SeedKeys
             /\ DescriptionTable[i].phrase \in SeedTypes[DescriptionTable[i].type].keywords
  <2>1. CASE i = 1
    BY <2>1, SeedRows DEF DescriptionTable
  <2>2. CASE i = 2
    BY <2>2, SeedRows DEF DescriptionTable
  <2>3. CASE i = 3
    BY <2>3, SeedRows DEF DescriptionTable
  <2>4. CASE i = 4
    BY <2>4, SeedRows DEF DescriptionTable
  <2>5. CASE i = 5
    BY <2>5, SeedRows DEF DescriptionTable
  <2>6. CASE i = 6
    BY <2>6, SeedRows DEF DescriptionTable
  <2>7. CASE i = 7
    BY <2>7, SeedRows DEF DescriptionTable
  <2>8. CASE i = 8
    BY <2>8, SeedRows DEF DescriptionTable
  <2> QED
    BY <2>1, <2>2, <2>3, <2>4, <2>5, <2>6, <2>7, <2>8
<1>2. ASSUME NEW k \in SeedKeys, NEW w \in SeedTypes[k].keywords \ {"scanning"}
      PROVE  \E i \in 1..8 : DescriptionTable[i].phrase = w
  <2>1. w \in {"sqli", "xss", "traversal", "command", "sshbrute", "sshroot", "panel", "scanner"}
    <3>1. CASE k = "command_injection"
      BY <3>1, SeedRows
    <3>2. CASE k = "sql_injection"
      BY <3>2, SeedRows
    <3>3. CASE k = "traversal"
      BY <3>3, SeedRows
    <3>4. CASE k = "xss"
      BY <3>4, SeedRows
    <3>5. CASE k = "dos"
      BY <3>5, SeedRows
    <3>6. CASE k = "brute_force"
      BY <3>6, SeedRows
    <3>7. CASE k = "web_attack"
      BY <3>7, SeedRows
    <3>8. CASE k = "scanning"
      BY <3>8, SeedRows
    <3>9. CASE k = "malware"
      BY <3>9, SeedRows
    <3>10. CASE k = "unknown"
      BY <3>10, SeedRows
    <3> QED
      BY SeedRows, <3>1, <3>2, <3>3, <3>4, <3>5, <3>6, <3>7, <3>8, <3>9, <3>10
  <2>2. /\ DescriptionTable[1].phrase = "sqli"
        /\ DescriptionTable[2].phrase = "xss"
        /\ DescriptionTable[3].phrase = "traversal"
        /\ DescriptionTable[4].phrase = "command"
        /\ DescriptionTable[5].phrase = "sshbrute"
        /\ DescriptionTable[6].phrase = "sshroot"
        /\ DescriptionTable[7].phrase = "panel"
        /\ DescriptionTable[8].phrase = "scanner"
    BY DEF DescriptionTable
  <2> QED
    BY <2>1, <2>2
<1> QED
  BY <1>1, <1>2

LEMMA SeededNamesTheType == Typed => EngineNamesTheType
<1> SUFFICES ASSUME Typed, "scanning" \notin seen.desc,
                    Cardinality({k \in SeedKeys : SeedTypes[k].keywords \cap seen.desc # {}}) <= 1
             PROVE  EngineType(seen.desc) = SeedClass(seen.desc).key
  BY DEF EngineNamesTheType
<1> DEFINE desc == seen.desc
           K    == {k \in SeedKeys : SeedTypes[k].keywords \cap desc # {}}
           hits == {i \in 1..8 : DescriptionTable[i].phrase \in desc}
           First(i) == \A j \in hits : i <= j
<1>1. desc \in SUBSET SeedKeywords
  BY DEF Typed
<1>2. \A k, l \in K : k = l
  <2> SUFFICES ASSUME NEW k \in K, NEW l \in K, k # l PROVE FALSE
    OBVIOUS
  <2>1. IsFiniteSet(SeedKeys)
    <3> DEFINE rank == [m \in SeedKeys |-> SeedTypes[m].priority]
    <3>1. \A m \in SeedKeys : SeedTypes[m].priority \in 1..100
      BY DEF SeedKeys, SeedTypes, Row
    <3>2. \A m, n \in SeedKeys : SeedTypes[m].priority = SeedTypes[n].priority => m = n
      BY DEF SeedKeys, SeedTypes, Row
    <3>3. rank \in Injection(SeedKeys, 1..100)
      BY <3>1, <3>2, Fun_IsInj
    <3>4. IsFiniteSet(1..100)
      <4>1. 1 \in Int /\ 100 \in Int
        OBVIOUS
      <4> QED
        BY <4>1, FS_Interval, Zenon
    <3> HIDE DEF rank
    <3> QED
      BY <3>3, <3>4, FS_Injection
  <2>2. IsFiniteSet(K)
    BY <2>1, FS_Subset
  <2>3. Cardinality({k}) = 1 /\ IsFiniteSet({k})
    BY FS_Singleton
  <2>4. PICK pair : pair = {k} \cup {l}
    OBVIOUS
  <2>5. Cardinality(pair) = 2
    <3>1. l \notin {k}
      OBVIOUS
    <3>2. Cardinality(pair) = IF l \in {k} THEN Cardinality({k}) ELSE Cardinality({k}) + 1
      BY <2>3, <2>4, FS_AddElement, Zenon
    <3>3. Cardinality(pair) = 1 + 1
      BY <2>3, <3>1, <3>2, Zenon
    <3> QED
      BY <3>3
  <2>6. Cardinality(pair) <= Cardinality(K)
    <3>1. pair \in SUBSET K
      BY <2>4
    <3> HIDE DEF K
    <3> QED
      BY <2>2, <3>1, FS_Subset
  <2> QED
    BY <2>2, <2>5, <2>6, FS_CardinalityType
<1>3. \/ /\ SeedClass(desc).key \in K
      \/ /\ K = {} /\ SeedClass(desc).key = "unknown"
  BY <1>1, SeedClassIsRow
<1>4. CASE hits = {}
  <2>1. EngineType(desc) = "unknown"
    BY <1>4 DEF EngineType
  <2>2. K = {}
    BY <1>4, PhrasesAreKeywords
  <2> QED
    BY <1>3, <2>1, <2>2
<1>5. CASE hits # {}
  <2>1. hits \in SUBSET Nat
    OBVIOUS
  <2>2. \E i \in hits : First(i)
    BY <1>5, <2>1, LeastNatural
  <2>3. PICK i \in hits : i = CHOOSE j \in hits : First(j)
    BY <2>2
  <2>4. EngineType(desc) = DescriptionTable[i].type
    BY <1>5, <2>3 DEF EngineType
  <2>5. DescriptionTable[i].type \in K
    BY PhrasesAreKeywords
  <2> QED
    BY <1>2, <1>3, <2>4, <2>5
<1> QED
  BY <1>4, <1>5

-------------------------------------------------------------------------------
(* On every reachable table the classifier names the row at which the loop over
   the ordered rows stops. *)
THEOREM ClassifyStaysScan == Spec => []ClassifyIsScan
<1>1. EngineInv => ClassifyIsScan
  BY FirstHitIsScan DEF EngineInv, Typed, ClassifyIsScan
<1> QED
  BY <1>1, EngineInvariant, PTL

(* On every reachable table, and for whatever row wins, a higher rule level lifts
   the severity by at most one band and never lowers it. *)
THEOREM LevelKeepsLiftingOneBand == Spec => []LevelLiftsOneBand
<1>1. EngineInv => LevelLiftsOneBand
  <2> SUFFICES ASSUME EngineInv, NEW desc \in Descriptions, NEW lo \in 0..15, NEW hi \in 0..15,
                      lo <= hi
               PROVE  LET base  == ClassifyDescription(types, desc).base_score
                          from  == GetSeverity(Score(base, lo))
                          to    == GetSeverity(Score(base, hi))
                      IN  to \in {from, from + 1}
    BY DEF LevelLiftsOneBand
  <2>1. ClassifyDescription(types, desc).base_score \in Nat
    BY ClassifyType DEF EngineInv, Typed
  <2>2. lo \in Int /\ hi \in Int
    OBVIOUS
  <2> QED
    BY <2>1, <2>2, LevelLiftsOneBandAlways
<1> QED
  BY <1>1, EngineInvariant, PTL

(* Exactly the severe among the seeded alerts are answered with a block, and the
   notification covers every other response, for every rule level. *)
THEOREM SevereStaysBlocked == Spec => []SevereIsBlocked
<1>1. EngineInv => SevereIsBlocked
  BY SeededIsBlocked DEF EngineInv
<1> QED
  BY <1>1, EngineInvariant, PTL

(* For every description that speaks of one attack type, the orphaned engine and
   the seeded table name the same one. *)
THEOREM EngineKeepsNamingTheType == Spec => []EngineNamesTheType
<1>1. EngineInv => EngineNamesTheType
  BY SeededNamesTheType DEF EngineInv
<1> QED
  BY <1>1, EngineInvariant, PTL

(* However often the engine has run, whatever it has averaged into the row of the
   address and whatever was entered there, it is not more severe than the hooks. *)
THEOREM EngineStaysMild == Spec => []EngineIsMilder
<1>1. EngineInv => EngineIsMilder
  BY DEF EngineInv
<1> QED
  BY <1>1, EngineInvariant, PTL

(* No edit of one row moves a description between two other rows. *)
THEOREM EditsStayLocal == Spec => EditIsLocal
<1>1. EngineInv /\ EngineInv' /\ [Next]_vars =>
        [\A k \in Keys :
           (\A l \in Keys \ {k} : types'[l] = types[l]) =>
           \A desc \in Descriptions :
              LET before == ClassifyDescription(types, desc).key
                  after  == ClassifyDescription(types', desc).key
              IN  before # after => k \in {before, after}]_vars
  BY EditIsLocalAlways DEF EngineInv, Typed
<1> QED
  BY <1>1, EngineInvariant, PTL DEF Spec, EditIsLocal
===============================================================================
