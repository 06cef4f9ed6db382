----------------------------- MODULE MCClassifier -----------------------------
(***************************************************************************)
(* A small instance of Classification: three keys, two keywords and the    *)
(* blank one.                                                              *)
(***************************************************************************)
EXTENDS Classification

CONSTANTS a, b, unknown, x, y, blank

MCKeys == {a, b, unknown}
MCKeyOrder == [k \in MCKeys |-> IF k = a THEN 1 ELSE IF k = b THEN 2 ELSE 3]
MCKeywords == {x, y, blank}

\* Bounds: two priorities, four keyword lists, scores on both sides of a band.
MCRows == [is_active : BOOLEAN, keywords : {{}, {blank, y}, {x}, {x, y}},
           base_score : {45}, priority : {-1, 1}]
          \cup [is_active : {TRUE}, keywords : {{x}},
                base_score : {15, 29, 55, 65, 130}, priority : {1}]

MCDescriptions == SUBSET {x, y}

\* Bounds: a rule level of each bonus, an event count of each bracket.
MCLevels == {0, 4, 8, 12}
MCEvents == {0, 1, 6, 21, 51}

\* Bound: descriptions of one phrase or none, of base scores from 90 down to 20.
MCEngineDescriptions == {{"command"}, {"xss"}, {"sshroot"}, {"scanner"}, {}}

\* Bound: threat scores of both signs, the ones at which a bonus and the cap begin.
MCThreats == {-7, 51, 1000}

(* Neither the seeded table nor the engine depends on the edited table, nor the
   engine on the hooks: each of the three is stepped with the others at rest, and
   the hooks from their first alert, since See does not depend on the last one. *)
TableRests  == types = FirstTypes
HooksRest   == seen = FirstSeen
EngineRests == address = FirstAddress /\ verdict = FirstVerdict

MCNext == \/ HooksRest /\ EngineRests /\ \E k \in Keys : EditRow(k)
          \/ TableRests /\ EngineRests /\ HooksRest /\ See
          \/ TableRests /\ EngineRests /\ seen' = FirstSeen /\ See
          \/ TableRests /\ HooksRest /\ EngineRuns
          \/ TableRests /\ HooksRest /\ (AddressBlocked \/ ProfileEdited)
MCSpec == Init /\ [][MCNext]_vars
===============================================================================
