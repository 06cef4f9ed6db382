------------------------------ MODULE Classifier ------------------------------
(***************************************************************************)
(* The rule classifier of django-backend/alerts/hooks.py and the           *)
(* dashboard-managed AttackType rows it reads                              *)
(* (django-backend/classification/models.py).                              *)
(*                                                                         *)
(* A description is the set of keywords that occur in it as substrings     *)
(* (case folded); the blank keyword "" occurs in every description.  A row *)
(* that does not exist is an inactive row: neither is ever read.           *)
(***************************************************************************)
EXTENDS Integers

CONSTANTS Keys,       \* AttackType.key values, with the literal 'unknown'
          Unknown,    \* UNKNOWN_ATTACK[0]
          KeyOrder,   \* the database's collation rank of a key
          Keywords,   \* the keyword strings the rows use
          Blank       \* the empty keyword, which the loop skips

ASSUME KeysAssumption == Unknown \in Keys
ASSUME KeyOrderAssumption ==
    /\ KeyOrder \in [Keys -> Nat]
    /\ \A k, l \in Keys : KeyOrder[k] = KeyOrder[l] => k = l

\* The least value of the IntegerField behind AttackType.priority.
LowestPriority == -2147483647 - 1

AttackType == [is_active  : BOOLEAN,
               keywords   : SUBSET Keywords,
               base_score : Nat,
               priority   : {p \in Int : p >= LowestPriority}]

\* The inner loop: some non-blank keyword is a substring of the description.
Contained(desc) == desc \cup {Blank}
\* Mutant: without "if keyword", the blank keyword matches everything.
Matches_Blank(row, desc) == \E w \in row.keywords : w \in Contained(desc)
Matches(row, desc) == \E w \in row.keywords : w # Blank /\ w \in Contained(desc)

\* order_by('priority', 'key')
Before(types, k, l) ==
    \/ types[k].priority < types[l].priority
    \/ /\ types[k].priority = types[l].priority
       /\ KeyOrder[k] < KeyOrder[l]

Hits(types, desc) == {k \in Keys : types[k].is_active /\ Matches(types[k], desc)}

FirstHit(types, desc) ==
    CHOOSE k \in Hits(types, desc) :
        \A l \in Hits(types, desc) : l = k \/ Before(types, k, l)

\* Mutant: the row is fetched with get(), which refuses more than one match.
ClassifyDescription_Unique(types, desc) ==
    IF \A k \in Keys : Hits(types, desc) # {k} THEN [key |-> Unknown, base_score |-> 20]
    ELSE LET k == FirstHit(types, desc)
         IN  [key |-> k, base_score |-> types[k].base_score]

\* The key and the base score the classifier returns for a description.
ClassifyDescription(types, desc) ==
    IF Hits(types, desc) = {} THEN [key |-> Unknown, base_score |-> 20]
    ELSE LET k == FirstHit(types, desc)
         IN  [key |-> k, base_score |-> types[k].base_score]

-------------------------------------------------------------------------------
(* Scoring, inlined in AlertHooksMixin.on_create_classify. *)

\* Mutant: "if" for "elif", so the bonuses of the lower levels add up.
LevelBonus_Sums(level) == IF level >= 12 THEN 30 ELSE IF level >= 8 THEN 15
                          ELSE IF level >= 4 THEN 5 ELSE 0

LevelBonus(level) ==
    CASE level >= 12               -> 15
      [] level >= 8 /\ level < 12  -> 10
      [] level >= 4 /\ level < 8   -> 5
      [] level < 4                 -> 0

Score(base_score, level) ==
    IF base_score + LevelBonus(level) < 100 THEN base_score + LevelBonus(level)
    ELSE 100

\* get_severity, with the labels low, medium, high, critical numbered 0 to 3.
GetSeverity(score) ==
    CASE score >= 80                -> 3
      [] score >= 60 /\ score < 80  -> 2
      [] score >= 30 /\ score < 60  -> 1
      [] score < 30                 -> 0
===============================================================================
