------------------------------- MODULE EsMirror -------------------------------
(***************************************************************************)
(* The Elasticsearch mirror (search/): one document per Alert or           *)
(* ResponseAction row, written by a post_save signal in the thread that    *)
(* saved the row, and backfilled by the es_sync command.  Nothing orders   *)
(* the index calls of two threads, a failed call is logged and dropped,    *)
(* and a queryset update or a deletion sends no signal at all.             *)
(*                                                                         *)
(* What a row or a document holds is the stamp of the write it comes from; *)
(* 0 is no row, or no document.  es_sync walks the rows of one table after *)
(* those of the other; no property relates two rows, so Rows is one table. *)
(*                                                                         *)
(* es_sync creates the indices with the mapping that the dashboard needs,  *)
(* but so does, without a mapping, the first document that finds none.     *)
(***************************************************************************)
EXTENDS Naturals, FiniteSets, Dashboard

CONSTANTS Rows,      \* primary keys
          Writers,   \* web and worker threads of the Django process
          NoRow,
          MaxStamp,  \* how many writes: a bound
          Limit      \* how often each outside event may happen: a bound

Events == {"fault", "crash", "delete", "update", "disabled", "sync"}

ASSUME MirrorAssumption ==
    /\ NoRow \notin Rows
    /\ MaxStamp \in Nat
    /\ Limit \in [Events -> Nat]

VARIABLES row, doc,  \* the database and the index
          stamp,     \* the last write
          wr,        \* the instance each thread is about to index
          client,    \* what get_client's cache holds in this process
          late,      \* index requests that outlive their caller
          todo,      \* rows es_sync has read and not yet indexed
          seen,      \* what it read
          index,     \* "absent", or how the index came to be
          sync,      \* whether es_sync has seen that there is no index
          ready,     \* history: es_sync found none and said "Indices ready."
          touched,   \* history: rows whose document may have been left behind
          spent      \* how often each outside event has happened

indexVars == <<index, sync, ready>>
vars == <<row, doc, stamp, wr, client, late, todo, seen, touched, spent, indexVars>>

-------------------------------------------------------------------------------
Idle == [row |-> NoRow, content |-> 0]
Present(r) == row[r] # 0
Writing(w) == wr[w].row # NoRow
Written(r) == \E w \in Writers : wr[w].row = r
Delayed(r) == \E request \in late : request[1] = r
Clients == IF client = "unbuilt" THEN {"ready", "none"} ELSE {client}
May(event) == spent[event] < Limit[event]
\* A document that arrives where there is no index creates one.
Arrives == index' = IF index = "absent" THEN "guessed" ELSE index
Spend(event) == spent' = [spent EXCEPT ![event] = @ + 1]

Init ==
    /\ row = [r \in Rows |-> 0] /\ doc = [r \in Rows |-> 0] /\ stamp = 0
    /\ wr = [w \in Writers |-> Idle]
    /\ client = "unbuilt" /\ late = {}
    /\ todo = {} /\ seen = [r \in Rows |-> 0]
    /\ touched = {} /\ spent = [e \in Events |-> 0]
    /\ index = "absent" /\ sync = FALSE /\ ready = FALSE

-------------------------------------------------------------------------------
(* save() and its signal. *)

\* Mutant: the signal runs before the row is written (pre_save).
Save_PreSave(w) ==
    /\ ~Writing(w) /\ stamp < MaxStamp
    /\ stamp' = stamp + 1
    /\ \E r \in Rows :
         /\ row' = [row EXCEPT ![r] = stamp + 1]
         /\ wr' = [wr EXCEPT ![w] = [row |-> r, content |-> row[r]]]
         /\ touched' = IF Written(r) \/ Delayed(r) \/ r \in todo
                       THEN touched \cup {r} ELSE touched \ {r}
    /\ UNCHANGED <<doc, client, late, todo, seen, spent, indexVars>>

(* The row is committed; the thread holds the instance it will index.  The
   document is safe again if no other index call for this row is under way. *)
Save(w) ==
    /\ ~Writing(w) /\ stamp < MaxStamp
    /\ stamp' = stamp + 1
    /\ \E r \in Rows :
         /\ row' = [row EXCEPT ![r] = stamp + 1]
         /\ wr' = [wr EXCEPT ![w] = [row |-> r, content |-> stamp + 1]]
         /\ touched' = IF Written(r) \/ Delayed(r) \/ r \in todo
                       THEN touched \cup {r} ELSE touched \ {r}
    /\ UNCHANGED <<doc, client, late, todo, seen, spent, indexVars>>

\* _index_doc; the document is replaced, whatever it held.
Index(w) ==
    /\ Writing(w) /\ "ready" \in Clients
    /\ client' = "ready"
    /\ doc' = [doc EXCEPT ![wr[w].row] = wr[w].content]
    /\ Arrives
    /\ wr' = [wr EXCEPT ![w] = Idle]
    /\ UNCHANGED <<row, stamp, late, todo, seen, touched, spent, sync, ready>>

\* Switched off, not installed or not configured: None stays in the cache.
IndexSkipped(w) ==
    /\ Writing(w) /\ "none" \in Clients
    /\ IF client = "none" THEN UNCHANGED spent ELSE May("disabled") /\ Spend("disabled")
    /\ client' = "none"
    /\ touched' = touched \cup {wr[w].row}
    /\ wr' = [wr EXCEPT ![w] = Idle]
    /\ UNCHANGED <<row, doc, stamp, late, todo, seen, indexVars>>

\* The call raised: logged, never repeated.
IndexFails(w) ==
    /\ Writing(w) /\ "ready" \in Clients /\ May("fault") /\ Spend("fault")
    /\ client' = "ready"
    /\ touched' = touched \cup {wr[w].row}
    /\ wr' = [wr EXCEPT ![w] = Idle]
    /\ UNCHANGED <<row, doc, stamp, late, todo, seen, indexVars>>

\* request_timeout: the same for the caller, but the request is on its way.
IndexTimesOut(w) ==
    /\ Writing(w) /\ "ready" \in Clients /\ May("fault") /\ Spend("fault")
    /\ client' = "ready"
    /\ late' = late \cup {<<wr[w].row, wr[w].content>>}
    /\ touched' = touched \cup {wr[w].row}
    /\ wr' = [wr EXCEPT ![w] = Idle]
    /\ UNCHANGED <<row, doc, stamp, todo, seen, indexVars>>

\* An abandoned request reaches the index after all, or never.
LateIndex ==
    \E request \in late :
        /\ late' = late \ {request}
        /\ \/ doc' = [doc EXCEPT ![request[1]] = request[2]] /\ Arrives
           \/ UNCHANGED <<doc, index>>
        /\ UNCHANGED <<row, stamp, wr, client, todo, seen, touched, spent, sync, ready>>

-------------------------------------------------------------------------------
(* Writes without a signal. *)

\* The executor's queryset update of the alert's status.
UpdateStatus(r) ==
    /\ Present(r) /\ stamp < MaxStamp /\ May("update") /\ Spend("update")
    /\ stamp' = stamp + 1
    /\ row' = [row EXCEPT ![r] = stamp + 1]
    /\ touched' = touched \cup {r}
    /\ UNCHANGED <<doc, wr, client, late, todo, seen, indexVars>>

\* There is no post_delete receiver: the document stays.
Destroy(r) ==
    /\ Present(r) /\ May("delete") /\ Spend("delete")
    /\ row' = [row EXCEPT ![r] = 0]
    /\ touched' = touched \cup {r}
    /\ UNCHANGED <<doc, stamp, wr, client, late, todo, seen, indexVars>>

\* Mutant: what a thread held survives its process.
Crash_KeepsContent ==
    /\ May("crash") /\ Spend("crash")
    /\ \E sent \in SUBSET {w \in Writers : Writing(w)} :
         late' = late \cup {<<wr[w].row, wr[w].content>> : w \in sent}
    /\ wr' = [w \in Writers |-> [wr[w] EXCEPT !.row = NoRow]]
    /\ client' = "unbuilt"
    /\ touched' = touched \cup {r \in Rows : Written(r)}
    /\ UNCHANGED <<row, doc, stamp, todo, seen, indexVars>>

\* The process dies; what its threads had sent may still arrive.
Crash ==
    /\ May("crash") /\ Spend("crash")
    /\ \E sent \in SUBSET {w \in Writers : Writing(w)} :
         late' = late \cup {<<wr[w].row, wr[w].content>> : w \in sent}
    /\ wr' = [w \in Writers |-> Idle]
    /\ client' = "unbuilt"
    /\ touched' = touched \cup {r \in Rows : Written(r)}
    /\ UNCHANGED <<row, doc, stamp, todo, seen, indexVars>>

-------------------------------------------------------------------------------
(* manage.py es_sync, a process of its own. *)

(* Client and info() are there (otherwise it stops without an effect), and
   ensure_indices asks whether the index exists. *)
SyncExists ==
    /\ ~sync /\ todo = {} /\ index = "absent" /\ May("sync") /\ Spend("sync")
    /\ sync' = TRUE
    /\ UNCHANGED <<row, doc, stamp, wr, client, late, todo, seen, touched, index, ready>>

\* The query of the backfill: iterator() hands out what it read then.
Backfill ==
    /\ todo' = {r \in Rows : Present(r)}
    /\ seen' = row
    /\ touched' = {r \in touched : ~Present(r)}
                    \cup {r \in Rows : Present(r) /\ (Written(r) \/ Delayed(r))}
    /\ UNCHANGED <<row, doc, stamp, wr, client, late>>

\* There is an index, whoever created it: it is left as it is.
SyncStart ==
    /\ ~sync /\ todo = {} /\ index # "absent" /\ May("sync") /\ Spend("sync")
    /\ Backfill
    /\ UNCHANGED indexVars

\* Mutant: an index that has appeared meanwhile is as good as one's own.
SyncCreate_Tolerates ==
    /\ sync /\ sync' = FALSE
    /\ index' = IF index = "absent" THEN "typed" ELSE index
    /\ ready' = TRUE
    /\ Backfill /\ UNCHANGED spent

\* indices.create with the mapping.
SyncCreate ==
    /\ sync /\ sync' = FALSE
    /\ index = "absent" /\ index' = "typed"
    /\ ready' = TRUE
    /\ Backfill /\ UNCHANGED spent

\* It raises, since a signal has created the index meanwhile or on an error:
\* "Failed to create indices", and nothing is backfilled.
SyncCreateFails ==
    /\ sync /\ sync' = FALSE
    /\ IF index = "absent" THEN May("fault") /\ Spend("fault") ELSE UNCHANGED spent
    /\ UNCHANGED <<row, doc, stamp, wr, client, late, todo, seen, touched, index, ready>>

SyncDoc(r) ==
    /\ r \in todo
    /\ doc' = [doc EXCEPT ![r] = seen[r]]
    /\ Arrives
    /\ todo' = todo \ {r}
    /\ UNCHANGED <<row, stamp, wr, client, late, seen, touched, spent, sync, ready>>

\* The same _index_doc: an error is logged, a request that timed out may arrive.
SyncFails(r) ==
    /\ r \in todo /\ May("fault") /\ Spend("fault")
    /\ todo' = todo \ {r}
    /\ late' \in {late, late \cup {<<r, seen[r]>>}}
    /\ touched' = touched \cup {r}
    /\ UNCHANGED <<row, doc, stamp, wr, client, seen, indexVars>>

\* Interrupted, or its cursor was lost: the rest is not indexed.
SyncStops ==
    /\ todo # {} /\ May("crash") /\ Spend("crash")
    /\ late' \in {late} \cup {late \cup {<<r, seen[r]>>} : r \in todo}
    /\ touched' = touched \cup todo
    /\ todo' = {}
    /\ UNCHANGED <<row, doc, stamp, wr, client, seen, indexVars>>

-------------------------------------------------------------------------------
\* What the signal does by itself once the row is saved.
Signal(w) == Index(w) \/ IndexSkipped(w) \/ IndexFails(w) \/ IndexTimesOut(w)

Next ==
    \/ \E w \in Writers : Save(w) \/ Signal(w)
    \/ \E r \in Rows : UpdateStatus(r) \/ Destroy(r) \/ SyncDoc(r) \/ SyncFails(r)
    \/ LateIndex \/ Crash \/ SyncExists \/ SyncCreate \/ SyncCreateFails
    \/ SyncStart \/ SyncStops

Spec == Init /\ [][Next]_vars

-------------------------------------------------------------------------------
(* Rows and documents hold stamps of writes; threads hold instances of rows. *)
TypeOK ==
    /\ row \in [Rows -> Nat] /\ doc \in [Rows -> Nat] /\ seen \in [Rows -> Nat]
    /\ stamp \in Nat
    /\ wr \in [Writers -> [row : Rows \cup {NoRow}, content : Nat]]
    /\ \A w \in Writers : ~Writing(w) => wr[w] = Idle
    /\ client \in {"unbuilt", "ready", "none"}
    /\ late \subseteq Rows \X Nat
    /\ todo \subseteq Rows /\ touched \subseteq Rows
    /\ index \in {"absent", "typed", "guessed"}
    /\ sync \in BOOLEAN /\ ready \in BOOLEAN
    /\ spent \in [Events -> Nat]

(* Whenever nobody is about to index a row, its document is the row, unless an
   index call for it was lost, was overtaken or overlapped another, or the row
   was changed without a signal, and neither a later save nor an es_sync pass
   that ran alone has made up for it since. *)
MirrorIsCurrent ==
    \A r \in Rows \ touched : Written(r) \/ r \in todo \/ doc[r] = row[r]

(* When es_sync found no index and went on to the backfill, every panel of the
   dashboard can be computed, although a signal may create the index at any
   time, between the question and the creation too. *)
PanelsWork == ready => DashboardWorks(index)
===============================================================================
