------------------------------ MODULE MCPipeline ------------------------------
(***************************************************************************)
(* Small instances of AlertPipeline: up to two web threads and two workers *)
(* in two processes, an attack description and a noise description, and    *)
(* two responses of which one names an unregistered handler.               *)
(***************************************************************************)
EXTENDS AlertPipeline, TLC

CONSTANTS r1, r2, w1, w2, p1, p2, a1, a2, t1, t2, d1, d2, brute, unknown,
          failed, blank, e1, none

\* A serving process has one worker loop; the second process serves no request.
Paired == [x \in {r1, r2, w1, w2} |-> IF x = w2 THEN p2 ELSE p1]
RowSymmetry == Permutations({a1, a2}) \cup Permutations({t1, t2})
Symmetric == Permutations({r1, r2}) \cup RowSymmetry
MCKeys == {brute, unknown}
MCKeyOrder == brute :> 0 @@ unknown :> 1
MCKeywords == {failed, blank}
MCDescriptions == {{failed}, {}}

Row(active) == [is_active |-> active, keywords |-> {failed, blank},
                base_score |-> 65, priority |-> 100]
MCTypes == brute :> Row(TRUE) @@ unknown :> Row(FALSE)
MCAdminRows == {Row(FALSE)}
\* Only the attack type has responses: one, or two in the order given.
OneMapped == brute :> (d1 :> 1) @@ unknown :> (d1 :> Off)
Attacks == {{failed}}
MCMapped == brute :> (d1 :> 1 @@ d2 :> 2) @@ unknown :> (d1 :> Off @@ d2 :> Off)

\* How often each outside event may happen in a run; the rest never happen.
AtMost(f) == [e \in Events |-> IF e \in DOMAIN f THEN f[e] ELSE 0]
RaceLimit  == AtMost([patch |-> 1, delete |-> 1])
LiveLimit  == AtMost([post |-> 1, crash |-> 1, hang |-> 1])
FaultLimit == AtMost([crash |-> 1, error |-> 1, hang |-> 1, edit |-> 1])
===============================================================================
