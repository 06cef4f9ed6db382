--------------------------- MODULE ClassifierProofs ---------------------------
(***************************************************************************)
(* What the classifier returns, for every table of AttackType rows and     *)
(* every description, and the engine for every history.  The rows need not *)
(* be finitely many: the order (priority, key) is well founded because     *)
(* both columns are bounded below.                                         *)
(***************************************************************************)
EXTENDS Classifier, Engine, WellFoundedInduction, TLAPS

(* A non-empty set of naturals has a least element. *)
LEMMA LeastNatural ==
    ASSUME NEW S \in SUBSET Nat, S # {}
    PROVE  \E m \in S : \A n \in S : m <= n
<1>1. PICK m \in S : \A n \in S : ~ (<<n, m>> \in OpToRel(<, Nat))
  BY NatLessThanWellFounded, WFMin
<1>2. \A n \in S : ~ (n < m)
  BY <1>1 DEF OpToRel
<1> QED
  BY <1>2

(* Among the rows that match there is one that order_by('priority', 'key')
   puts before all the others, so the loop has a first hit. *)
LEMMA FirstHitExists ==
    ASSUME NEW table \in [Keys -> AttackType], NEW desc, Hits(table, desc) # {}
    PROVE  \E k \in Hits(table, desc) :
               \A l \in Hits(table, desc) : l = k \/ Before(table, k, l)
<1> DEFINE H == Hits(table, desc)
           P == {table[k].priority - LowestPriority : k \in H}
<1>1. H \subseteq Keys
  BY DEF Hits
<1>2. \A k \in Keys : table[k].priority \in Int /\ table[k].priority >= LowestPriority
  BY DEF AttackType
<1>3. LowestPriority \in Int
  BY DEF LowestPriority
<1>4. P \in SUBSET Nat /\ P # {}
  BY <1>1, <1>2, <1>3
<1>5. PICK p \in P : \A q \in P : p <= q
  BY <1>4, LeastNatural
<1> DEFINE T == {k \in H : table[k].priority - LowestPriority = p}
           O == {KeyOrder[k] : k \in T}
<1>6. O \in SUBSET Nat /\ O # {}
  <2>1. T \subseteq Keys /\ T # {}
    BY <1>1, <1>5
  <2> QED
    BY <2>1, KeyOrderAssumption
<1>7. PICK o \in O : \A q \in O : o <= q
  BY <1>6, LeastNatural
<1>8. PICK k \in T : KeyOrder[k] = o
  BY <1>7
<1>9. ASSUME NEW l \in H
      PROVE  l = k \/ Before(table, k, l)
  <2>1. table[k].priority <= table[l].priority
    <3>1. table[l].priority - LowestPriority \in P
      OBVIOUS
    <3>2. p <= table[l].priority - LowestPriority
      BY <3>1, <1>5
    <3> QED
      BY <3>2, <1>1, <1>2, <1>3, <1>8
  <2>2. CASE table[k].priority < table[l].priority
    BY <2>2 DEF Before
  <2>3. CASE table[k].priority = table[l].priority
    <3>1. l \in T
      BY <2>3, <1>8
    <3>2. KeyOrder[k] <= KeyOrder[l]
      BY <3>1, <1>7, <1>8
    <3> QED
      BY <3>2, <2>3, <1>1, <1>8, KeyOrderAssumption DEF Before
  <2> QED
    BY <2>1, <2>2, <2>3, <1>1, <1>2, <1>8
<1> QED
  BY <1>8, <1>9

(* The first hit is a matching row and precedes every other matching row. *)
THEOREM FirstHitIsFirst ==
    ASSUME NEW table \in [Keys -> AttackType], NEW desc, Hits(table, desc) # {}
    PROVE  /\ FirstHit(table, desc) \in Hits(table, desc)
           /\ \A l \in Hits(table, desc) :
                 l = FirstHit(table, desc) \/ Before(table, FirstHit(table, desc), l)
<1> DEFINE First(k) == \A l \in Hits(table, desc) : l = k \/ Before(table, k, l)
<1>1. \E k \in Hits(table, desc) : First(k)
  BY FirstHitExists
<1>2. FirstHit(table, desc) = CHOOSE k \in Hits(table, desc) : First(k)
  BY DEF FirstHit
<1> HIDE DEF First
<1>3. /\ FirstHit(table, desc) \in Hits(table, desc)
      /\ First(FirstHit(table, desc))
  BY <1>1, <1>2
<1> QED
  BY <1>3 DEF First

(* The classifier returns the key of a row, and a natural base score. *)
THEOREM ClassifyType ==
    ASSUME NEW table \in [Keys -> AttackType], NEW desc
    PROVE  ClassifyDescription(table, desc) \in [key : Keys, base_score : Nat]
<1>1. CASE Hits(table, desc) = {}
  BY <1>1, KeysAssumption DEF ClassifyDescription
<1>2. CASE Hits(table, desc) # {}
  <2>1. FirstHit(table, desc) \in Keys
    BY <1>2, FirstHitIsFirst DEF Hits
  <2> QED
    BY <1>2, <2>1 DEF ClassifyDescription, AttackType
<1> QED
  BY <1>1, <1>2

(* An edit of one row moves a description only away from that row's key or to
   it, whatever the other rows hold. *)
THEOREM EditIsLocalAlways ==
    ASSUME NEW table \in [Keys -> AttackType], NEW table2 \in [Keys -> AttackType],
           NEW k \in Keys, \A l \in Keys \ {k} : table2[l] = table[l], NEW desc,
           ClassifyDescription(table, desc).key # ClassifyDescription(table2, desc).key
    PROVE  k \in {ClassifyDescription(table, desc).key,
                  ClassifyDescription(table2, desc).key}
<1> DEFINE f == FirstHit(table, desc)
           g == FirstHit(table2, desc)
<1>1. \A l \in Keys \ {k} : l \in Hits(table, desc) <=> l \in Hits(table2, desc)
  BY DEF Hits
<1>2. CASE Hits(table, desc) = {}
  <2>1. Hits(table2, desc) # {}
    BY <1>2 DEF ClassifyDescription
  <2>2. g \in Hits(table2, desc)
    BY <2>1, FirstHitIsFirst
  <2>3. g = k
    BY <2>2, <1>1, <1>2 DEF Hits
  <2> QED
    BY <2>1, <2>3 DEF ClassifyDescription
<1>3. CASE Hits(table2, desc) = {}
  <2>1. Hits(table, desc) # {}
    BY <1>3 DEF ClassifyDescription
  <2>2. f \in Hits(table, desc)
    BY <2>1, FirstHitIsFirst
  <2>3. f = k
    BY <2>2, <1>1, <1>3 DEF Hits
  <2> QED
    BY <2>1, <2>3 DEF ClassifyDescription
<1>4. CASE Hits(table, desc) # {} /\ Hits(table2, desc) # {}
  <2>1. f # g
    BY <1>4 DEF ClassifyDescription
  <2>2. /\ f \in Hits(table, desc)
        /\ \A l \in Hits(table, desc) : l = f \/ Before(table, f, l)
    BY <1>4, FirstHitIsFirst
  <2>3. /\ g \in Hits(table2, desc)
        /\ \A l \in Hits(table2, desc) : l = g \/ Before(table2, g, l)
    BY <1>4, FirstHitIsFirst
  <2>4. SUFFICES ASSUME f # k, g # k PROVE FALSE
    BY <1>4 DEF ClassifyDescription
  <2>5. f \in Hits(table2, desc) /\ g \in Hits(table, desc)
    BY <2>2, <2>3, <2>4, <1>1 DEF Hits
  <2>6. Before(table, f, g) /\ Before(table2, g, f)
    BY <2>1, <2>2, <2>3, <2>5
  <2>7. Before(table, g, f)
    BY <2>4, <2>6, <2>2, <2>3 DEF Before, Hits
  <2>8. /\ table[f].priority \in Int /\ table[g].priority \in Int
        /\ KeyOrder[f] \in Nat /\ KeyOrder[g] \in Nat
    BY <2>2, <2>3, KeyOrderAssumption DEF Hits, AttackType
  <2> QED
    BY <2>6, <2>7, <2>8 DEF Before
<1> QED
  BY <1>2, <1>3, <1>4

(* A higher rule level never lowers the severity, and the level bonus lifts it
   by at most one band, for every base score, also one above 100. *)
THEOREM LevelLiftsOneBandAlways ==
    ASSUME NEW base \in Nat, NEW lo \in Int, NEW hi \in Int, lo <= hi
    PROVE  LET from == GetSeverity(Score(base, lo))
               to   == GetSeverity(Score(base, hi))
           IN  to \in {from, from + 1}
<1>1. /\ LevelBonus(lo) \in 0..15 /\ LevelBonus(hi) \in 0..15
      /\ LevelBonus(lo) <= LevelBonus(hi)
  BY DEF LevelBonus
<1>2. /\ Score(base, lo) \in Nat /\ Score(base, hi) \in Nat
      /\ Score(base, lo) <= Score(base, hi)
      /\ Score(base, hi) <= Score(base, lo) + 15
  BY <1>1 DEF Score
<1> QED
  BY <1>2 DEF GetSeverity

-------------------------------------------------------------------------------
(* The two history scores of the engine are at most 30 each. *)
LEMMA HistoryScores ==
    ASSUME NEW events \in Nat, NEW profile \in Profiles
    PROVE  /\ FrequencyScore(events) \in 0..30
           /\ BehaviorScore(profile) \in 0..30
<1>1. FrequencyScore(events) \in 0..30
  BY DEF FrequencyScore
<1>2. BehaviorScore(profile) \in 0..30
  BY DEF BehaviorScore, Profiles
<1> QED
  BY <1>1, <1>2

(* The engine and the hooks compute the same attack score. *)
LEMMA AttackScoreIsScore ==
    ASSUME NEW type \in DOMAIN EngineBase, NEW level \in Int
    PROVE  /\ AttackScore(type, level) = Score(EngineBase[type], level)
           /\ AttackScore(type, level) \in 0..100
<1>1. EngineBase[type] \in 0..100
  BY DEF EngineBase
<1>2. EngineBonus(level) = LevelBonus(level) /\ EngineBonus(level) \in 0..15
  BY DEF EngineBonus, LevelBonus
<1> QED
  BY <1>1, <1>2 DEF AttackScore, AtMost100, Score

(* The weighted sum is at most 58, and what it reaches of a band the attack score
   reaches by itself: history is worth at most 18, and 30 - 18 of 40. *)
LEMMA WeightsKeepBelow ==
    \A attack \in 0..100, frequency \in 0..30, behavior \in 0..30, final \in Int :
        final = 40 * attack + 30 * frequency + 30 * behavior
        => /\ EngineSeverity(final) <= 1
           /\ EngineSeverity(final) <= GetSeverity(attack)
<1> SUFFICES ASSUME NEW attack \in 0..100, NEW frequency \in 0..30,
                    NEW behavior \in 0..30, NEW final \in Int,
                    final = 40 * attack + 30 * frequency + 30 * behavior
             PROVE  /\ EngineSeverity(final) <= 1
                    /\ EngineSeverity(final) <= GetSeverity(attack)
  OBVIOUS
<1>1. final \in 0..5800 /\ (final >= 3000 => attack >= 30)
  OBVIOUS
<1>2. EngineSeverity(final) = IF final >= 3000 THEN 1 ELSE 0
  BY <1>1 DEF EngineSeverity
<1>3. GetSeverity(attack) \in 0..3 /\ (attack >= 30 => GetSeverity(attack) >= 1)
  <2>1. CASE attack >= 80
    BY <2>1 DEF GetSeverity
  <2>2. CASE attack >= 60 /\ attack < 80
    BY <2>2 DEF GetSeverity
  <2>3. CASE attack >= 30 /\ attack < 60
    BY <2>3 DEF GetSeverity
  <2>4. CASE attack < 30
    BY <2>4 DEF GetSeverity
  <2> QED
    BY <2>1, <2>2, <2>3, <2>4
<1> QED
  BY <1>1, <1>2, <1>3

(* Whatever the attack type, the rule level and the history of the address, the
   engine's final score is at most 58, so it never says high or critical, and it
   never exceeds the severity that the hooks give the same type and level. *)
THEOREM EngineIsMilderAlways ==
    ASSUME NEW type \in DOMAIN EngineBase, NEW level \in Int, NEW events \in Nat,
           NEW profile \in Profiles
    PROVE  LET final == FinalScore(type, level, events, profile)
           IN  /\ final <= 5800
               /\ EngineSeverity(final) <= 1
               /\ EngineSeverity(final) <= GetSeverity(Score(EngineBase[type], level))
<1>1. PICK attack \in 0..100 : attack = AttackScore(type, level)
  BY AttackScoreIsScore
<1>2. PICK frequency \in 0..30 : frequency = FrequencyScore(events)
  BY HistoryScores
<1>3. PICK behavior \in 0..30 : behavior = BehaviorScore(profile)
  BY HistoryScores
<1>4. PICK final : final = FinalScore(type, level, events, profile)
  OBVIOUS
<1>5. final = 40 * attack + 30 * frequency + 30 * behavior
  BY <1>1, <1>2, <1>3, <1>4 DEF FinalScore
<1>6. final \in Int
  BY <1>5
<1>7. EngineSeverity(final) <= 1 /\ EngineSeverity(final) <= GetSeverity(attack)
  BY <1>1, <1>2, <1>3, <1>5, <1>6, WeightsKeepBelow
<1>8. final <= 5800
  <2>1. attack <= 100 /\ frequency <= 30 /\ behavior <= 30
    BY <1>1, <1>2, <1>3
  <2>2. attack \in Int /\ frequency \in Int /\ behavior \in Int
    BY <1>1, <1>2, <1>3
  <2> QED
    BY <2>1, <2>2, <1>5
<1>9. attack = Score(EngineBase[type], level)
  BY <1>1, AttackScoreIsScore
<1> QED
  BY <1>4, <1>7, <1>8, <1>9
===============================================================================
