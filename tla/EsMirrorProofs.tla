---------------------------- MODULE EsMirrorProofs ----------------------------
(* What the mirror guarantees for any number of rows, threads and writes. *)
EXTENDS EsMirror, TLAPS

(* A row nothing has touched: no stray request, at most one thread about to
   index it, with its current content and not while es_sync will index it too;
   what es_sync has read is current; and otherwise the document is. *)
Settled(r) ==
    /\ ~Delayed(r)
    /\ \A v, w \in Writers : wr[v].row = r /\ wr[w].row = r => v = w
    /\ \A w \in Writers : wr[w].row = r => wr[w].content = row[r] /\ r \notin todo
    /\ r \in todo => seen[r] = row[r]
    /\ Written(r) \/ r \in todo \/ doc[r] = row[r]

Undisturbed == \A r \in Rows \ touched : Settled(r)
\* es_sync backfills after it has created the index, never during it.
Preparing == sync => todo = {}
MirrorInv == TypeOK /\ Undisturbed /\ Preparing

LEMMA MirrorInit == Init => MirrorInv
<1> SUFFICES ASSUME Init PROVE MirrorInv
  OBVIOUS
<1>1. TypeOK
  BY DEF Init, TypeOK, Idle, Writing
<1>2. ASSUME NEW r \in Rows PROVE Settled(r)
  <2>1. ~Delayed(r) /\ r \notin todo /\ doc[r] = row[r]
    BY DEF Init, Delayed
  <2>2. \A w \in Writers : wr[w].row # r
    BY MirrorAssumption DEF Init, Idle
  <2> QED BY <2>1, <2>2 DEF Settled, Written
<1> QED BY <1>1, <1>2 DEF MirrorInv, Undisturbed, Preparing, Init

-------------------------------------------------------------------------------
(* Every step keeps the types. *)

LEMMA MirrorTypes == TypeOK /\ [Next]_vars => TypeOK'
<1> SUFFICES ASSUME TypeOK, [Next]_vars PROVE TypeOK'
  OBVIOUS
<1> USE MirrorAssumption DEF TypeOK, Writing, Spend, Idle, Arrives, indexVars
<1>1. ASSUME NEW w \in Writers, Save(w) PROVE TypeOK'
  BY <1>1 DEF Save
<1>2. ASSUME NEW w \in Writers, Index(w) PROVE TypeOK'
  BY <1>2 DEF Index
<1>3. ASSUME NEW w \in Writers, IndexSkipped(w) PROVE TypeOK'
  BY <1>3 DEF IndexSkipped, Events
<1>4. ASSUME NEW w \in Writers, IndexFails(w) PROVE TypeOK'
  BY <1>4 DEF IndexFails, Events
<1>5. ASSUME NEW w \in Writers, IndexTimesOut(w) PROVE TypeOK'
  BY <1>5 DEF IndexTimesOut, Events
<1>6. ASSUME LateIndex PROVE TypeOK'
  <2>1. PICK request \in late :
          /\ late' = late \ {request}
          /\ doc' \in {doc, [doc EXCEPT ![request[1]] = request[2]]}
          /\ index' \in {index, "guessed"}
          /\ UNCHANGED <<row, stamp, wr, client, todo, seen, touched, spent, sync, ready>>
    BY <1>6 DEF LateIndex
  <2>2. request[1] \in Rows /\ request[2] \in Nat
    OBVIOUS
  <2> QED BY <2>1, <2>2
<1>7. ASSUME NEW r \in Rows, UpdateStatus(r) PROVE TypeOK'
  BY <1>7 DEF UpdateStatus, Events
<1>8. ASSUME NEW r \in Rows, Destroy(r) PROVE TypeOK'
  BY <1>8 DEF Destroy, Events
<1>9. ASSUME Crash PROVE TypeOK'
  BY <1>9 DEF Crash, Events
<1>10. ASSUME SyncStart PROVE TypeOK'
  BY <1>10 DEF SyncStart, Backfill, Events
<1>11. ASSUME NEW r \in Rows, SyncDoc(r) PROVE TypeOK'
  BY <1>11 DEF SyncDoc
<1>12. ASSUME NEW r \in Rows, SyncFails(r) PROVE TypeOK'
  BY <1>12 DEF SyncFails, Events
<1>13. ASSUME SyncStops PROVE TypeOK'
  BY <1>13 DEF SyncStops, Events
<1>14. ASSUME SyncExists PROVE TypeOK'
  BY <1>14 DEF SyncExists, Events
<1>15. ASSUME SyncCreate PROVE TypeOK'
  BY <1>15 DEF SyncCreate, Backfill
<1>16. ASSUME SyncCreateFails PROVE TypeOK'
  <2>1. sync' = FALSE
    BY <1>16 DEF SyncCreateFails
  <2>2. spent' \in [Events -> Nat]
    BY <1>16 DEF SyncCreateFails, Events
  <2>3. UNCHANGED <<row, stamp, wr, doc, client, late, todo, seen, touched, index, ready>>
    BY <1>16 DEF SyncCreateFails
  <2> QED BY <2>1, <2>2, <2>3
<1>17. CASE UNCHANGED vars
  BY <1>17 DEF vars
<1> QED BY <1>1, <1>2, <1>3, <1>4, <1>5, <1>6, <1>7, <1>8, <1>9, <1>10, <1>11,
           <1>12, <1>13, <1>14, <1>15, <1>16, <1>17 DEF Next, Signal

-------------------------------------------------------------------------------
(* Every step keeps the rows nothing has touched settled. *)

LEMMA PreparingKept == Preparing /\ [Next]_vars => Preparing'
<1> SUFFICES ASSUME Preparing, [Next]_vars, sync' PROVE todo' = {}
  BY DEF Preparing
<1> USE DEF Preparing, indexVars
<1>1. ASSUME NEW w \in Writers, Save(w) \/ Signal(w) PROVE todo' = {}
  BY <1>1 DEF Save, Signal, Index, IndexSkipped, IndexFails, IndexTimesOut
<1>2. ASSUME NEW r \in Rows, UpdateStatus(r) \/ Destroy(r) \/ SyncDoc(r) \/ SyncFails(r)
      PROVE  todo' = {}
  BY <1>2 DEF UpdateStatus, Destroy, SyncDoc, SyncFails
<1>3. ASSUME LateIndex \/ Crash \/ SyncExists \/ SyncStart \/ SyncStops PROVE todo' = {}
  BY <1>3 DEF LateIndex, Crash, SyncExists, SyncStart, SyncStops
<1>4. ASSUME SyncCreate \/ SyncCreateFails PROVE todo' = {}
  BY <1>4 DEF SyncCreate, SyncCreateFails
<1>5. CASE UNCHANGED vars
  BY <1>5 DEF vars
<1> QED BY <1>1, <1>2, <1>3, <1>4, <1>5 DEF Next

LEMMA MirrorKept == MirrorInv /\ [Next]_vars => Undisturbed'
<1> SUFFICES ASSUME TypeOK, Undisturbed, Preparing, [Next]_vars,
                    NEW x \in Rows, x \notin touched'
             PROVE Settled(x)'
  BY DEF MirrorInv, Undisturbed
<1> USE MirrorAssumption DEF TypeOK, Writing, Idle, Written, Delayed
<1>1. ASSUME NEW w \in Writers, Save(w) PROVE Settled(x)'
  <2>1. PICK r \in Rows :
          /\ row' = [row EXCEPT ![r] = stamp + 1]
          /\ wr' = [wr EXCEPT ![w] = [row |-> r, content |-> stamp + 1]]
          /\ touched' = IF Written(r) \/ Delayed(r) \/ r \in todo
                        THEN touched \cup {r} ELSE touched \ {r}
    BY <1>1 DEF Save
  <2>2. ~Writing(w) /\ UNCHANGED <<doc, late, todo, seen>>
    BY <1>1 DEF Save
  <2>3. CASE x = r
    BY <2>1, <2>2, <2>3 DEF Settled
  <2>4. CASE x # r
    <3>1. Settled(x)
      BY <2>1, <2>4 DEF Undisturbed
    <3>2. \A v \in Writers : wr'[v].row = x => wr'[v] = wr[v]
      BY <2>1, <2>4
    <3>3. \A v \in Writers : wr[v].row = x => wr'[v] = wr[v]
      BY <2>1, <2>2
    <3> QED BY <3>1, <3>2, <3>3, <2>1, <2>2, <2>4 DEF Settled
  <2> QED BY <2>3, <2>4
<1>2. ASSUME NEW w \in Writers, Index(w) PROVE Settled(x)'
  <2>1. Settled(x)
    BY <1>2 DEF Index, Undisturbed
  <2>2. CASE x = wr[w].row
    BY <2>1, <2>2, <1>2 DEF Settled, Index
  <2>3. CASE x # wr[w].row
    BY <2>1, <2>3, <1>2 DEF Settled, Index
  <2> QED BY <2>2, <2>3
<1>3. ASSUME NEW w \in Writers, IndexSkipped(w) \/ IndexFails(w) \/ IndexTimesOut(w)
      PROVE  Settled(x)'
  <2>1. /\ touched' = touched \cup {wr[w].row} /\ wr' = [wr EXCEPT ![w] = Idle]
        /\ UNCHANGED <<row, doc, todo, seen>>
        /\ late' \in {late, late \cup {<<wr[w].row, wr[w].content>>}}
    BY <1>3 DEF IndexSkipped, IndexFails, IndexTimesOut
  <2>2. Settled(x) /\ x # wr[w].row
    BY <2>1 DEF Undisturbed
  <2> QED BY <2>1, <2>2 DEF Settled
<1>4. ASSUME LateIndex PROVE Settled(x)'
  <2>1. PICK request \in late :
          /\ late' = late \ {request}
          /\ doc' \in {doc, [doc EXCEPT ![request[1]] = request[2]]}
          /\ UNCHANGED <<row, wr, todo, seen, touched>>
    BY <1>4 DEF LateIndex
  <2>2. Settled(x) /\ x # request[1]
    BY <2>1 DEF Undisturbed, Settled
  <2> QED BY <2>1, <2>2 DEF Settled
<1>5. ASSUME NEW r \in Rows, UpdateStatus(r) \/ Destroy(r) PROVE Settled(x)'
  <2>1. /\ touched' = touched \cup {r} /\ UNCHANGED <<doc, wr, late, todo, seen>>
        /\ \A y \in Rows \ {r} : row'[y] = row[y]
    BY <1>5 DEF UpdateStatus, Destroy
  <2>2. Settled(x) /\ x # r
    BY <2>1 DEF Undisturbed
  <2> QED BY <2>1, <2>2 DEF Settled
<1>6. ASSUME Crash PROVE Settled(x)'
  <2>1. PICK sent \in SUBSET {w \in Writers : Writing(w)} :
          late' = late \cup {<<wr[w].row, wr[w].content>> : w \in sent}
    BY <1>6 DEF Crash
  <2>2. /\ wr' = [w \in Writers |-> Idle] /\ UNCHANGED <<row, doc, todo, seen>>
        /\ touched' = touched \cup {r \in Rows : Written(r)}
    BY <1>6 DEF Crash
  <2>3. Settled(x) /\ ~Written(x)
    BY <2>2 DEF Undisturbed
  <2>4. ~Delayed(x)'
    BY <2>1, <2>3 DEF Settled
  <2> QED BY <2>2, <2>3, <2>4 DEF Settled
<1>7. ASSUME SyncStart \/ SyncCreate PROVE Settled(x)'
  <2>1. Backfill /\ todo = {}
    BY <1>7 DEF SyncStart, SyncCreate, Preparing
  <2>2. CASE Present(x)
    BY <2>1, <2>2 DEF Backfill, Settled
  <2>3. CASE ~Present(x)
    BY <2>1, <2>3 DEF Backfill, Undisturbed, Settled
  <2> QED BY <2>2, <2>3
<1>8. ASSUME NEW r \in Rows, SyncDoc(r) PROVE Settled(x)'
  BY <1>8 DEF SyncDoc, Undisturbed, Settled
<1>9. ASSUME NEW r \in Rows, SyncFails(r) PROVE Settled(x)'
  BY <1>9 DEF SyncFails, Undisturbed, Settled
<1>10. ASSUME SyncStops PROVE Settled(x)'
  BY <1>10 DEF SyncStops, Undisturbed, Settled
<1>11. ASSUME SyncExists \/ SyncCreateFails PROVE Settled(x)'
  BY <1>11 DEF SyncExists, SyncCreateFails, Undisturbed, Settled
<1>12. CASE UNCHANGED vars
  BY <1>12 DEF vars, Undisturbed, Settled
<1> QED BY <1>1, <1>2, <1>3, <1>4, <1>5, <1>6, <1>7, <1>8, <1>9, <1>10, <1>11, <1>12
        DEF Next, Signal

-------------------------------------------------------------------------------
(* The inductive invariant of the mirror. *)
THEOREM MirrorInvariant == Spec => []MirrorInv
<1>1. MirrorInv /\ [Next]_vars => MirrorInv'
  BY MirrorTypes, MirrorKept, PreparingKept DEF MirrorInv
<1> QED BY MirrorInit, <1>1, PTL DEF Spec

(* Rows, documents and threads keep their types, whatever the bounds. *)
THEOREM MirrorTypeCorrect == Spec => []TypeOK
<1>1. MirrorInv => TypeOK
  BY DEF MirrorInv
<1> QED BY MirrorInvariant, <1>1, PTL

(* A row that nothing touched and nobody is indexing is mirrored: writers,
   stray requests, crashes and es_sync passes may interleave as they like. *)
THEOREM MirrorStaysCurrent == Spec => []MirrorIsCurrent
<1>1. MirrorInv => MirrorIsCurrent
  BY DEF MirrorInv, Undisturbed, Settled, MirrorIsCurrent
<1> QED BY MirrorInvariant, <1>1, PTL
-------------------------------------------------------------------------------
(* The index and the dashboard. *)

\* Every field a panel aggregates has the type it needs, when es_sync typed it.
LEMMA TypedAnswers == DashboardWorks("typed")
<1>1. ASSUME NEW panel \in AlertPanels PROVE Answerable("typed", panel)
  BY <1>1 DEF AlertPanels, Pie, Table, HBarKeyword, MetricOf, TimeSeries, Aggregation,
              Answerable, Mapping, AlertMapping
<1>2. ASSUME NEW panel \in ResponsePanels PROVE Answerable("typed", panel)
  BY <1>2 DEF ResponsePanels, Pie, Table, TimeSeries, Aggregation,
              Answerable, Mapping, ResponseMapping
<1> QED BY <1>1, <1>2 DEF DashboardWorks, Panels

\* No step takes the types from an index that es_sync created.
LEMMA TypesStay ==
    (ready => index = "typed") /\ [Next]_vars => (ready => index = "typed")'
<1> SUFFICES ASSUME ready => index = "typed", [Next]_vars
             PROVE  (ready => index = "typed")'
  OBVIOUS
<1> USE DEF indexVars, Arrives
<1>1. ASSUME NEW w \in Writers, Save(w) \/ Signal(w) PROVE (ready => index = "typed")'
  BY <1>1 DEF Save, Signal, Index, IndexSkipped, IndexFails, IndexTimesOut
<1>2. ASSUME NEW r \in Rows, UpdateStatus(r) \/ Destroy(r) \/ SyncDoc(r) \/ SyncFails(r)
      PROVE  (ready => index = "typed")'
  BY <1>2 DEF UpdateStatus, Destroy, SyncDoc, SyncFails
<1>3. ASSUME LateIndex \/ Crash PROVE (ready => index = "typed")'
  BY <1>3 DEF LateIndex, Crash
<1>4. ASSUME SyncExists \/ SyncCreate \/ SyncCreateFails \/ SyncStart \/ SyncStops
      PROVE  (ready => index = "typed")'
  BY <1>4 DEF SyncExists, SyncCreate, SyncCreateFails, SyncStart, SyncStops
<1>5. CASE UNCHANGED vars
  BY <1>5 DEF vars
<1> QED BY <1>1, <1>2, <1>3, <1>4, <1>5 DEF Next

(* The dashboard works once an es_sync that found no index has prepared it,
   however the signals of other processes raced its creation. *)
THEOREM DashboardStaysUsable == Spec => []PanelsWork
<1>1. Init => (ready => index = "typed")
  BY DEF Init
<1>2. (ready => index = "typed") => PanelsWork
  BY TypedAnswers DEF PanelsWork
<1> QED BY <1>1, TypesStay, <1>2, PTL DEF Spec
===============================================================================
