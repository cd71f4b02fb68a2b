------------------------------- MODULE PspFees -------------------------------
(***************************************************************************)
(* The catalogue of the PSP fees (services/psp_fee.py): a sync downloads   *)
(* the whole catalogue, and replaces the rows in one transaction.  Nothing *)
(* keeps two syncs apart but the database: a DELETE sees the rows that     *)
(* were committed when it starts, waits for a transaction that is deleting *)
(* one of them, and skips those that this one has removed (READ            *)
(* COMMITTED).                                                             *)
(*                                                                         *)
(* The rows of one sync come and go together: they are one batch.          *)
(***************************************************************************)
EXTENDS Integers, FiniteSets

CONSTANTS
  Syncs,     \* syncs that may overlap
  Catalogs,  \* [versions of the catalogue -> records in it]; 0: no content
  MaxBatches \* bound: batches ever written

VARIABLES
  source,  \* the version that is published
  table,   \* the batches in psp_fee_services: [id, records]
  status,  \* item_count of psp_fee_sync_status, 0: no row
  pc,      \* [Syncs -> phase]
  got,     \* records downloaded
  seen,    \* batches that the DELETE sees
  gone,    \* batches deleted and not committed
  had,     \* the item_count it has read
  batches  \* batches committed, the last one has this id

sync == <<pc, got, seen, gone, had>>
vars == <<source, table, status, sync, batches>>

Init ==
  /\ source \in DOMAIN Catalogs
  /\ table = {} /\ status = 0
  /\ pc = [s \in Syncs |-> "idle"] /\ got = [s \in Syncs |-> 0]
  /\ seen = [s \in Syncs |-> {}] /\ gone = [s \in Syncs |-> {}] /\ had = [s \in Syncs |-> 0]
  /\ batches = 0

Publish(v) ==
  /\ v # source
  /\ source' = v
  /\ UNCHANGED <<table, status, sync, batches>>

(* The sync returns or raises; what is not committed is rolled back. *)
Over(s) ==
  /\ pc' = [pc EXCEPT ![s] = "idle"] /\ got' = [got EXCEPT ![s] = 0]
  /\ seen' = [seen EXCEPT ![s] = {}] /\ gone' = [gone EXCEPT ![s] = {}]
  /\ had' = [had EXCEPT ![s] = 0]

(* fetch_catalog: an empty catalogue is refused before anything is deleted. *)
Fetch(s) ==
  /\ pc[s] = "idle" /\ Catalogs[source] > 0
  /\ got' = [got EXCEPT ![s] = Catalogs[source]]
  /\ pc' = [pc EXCEPT ![s] = "fetched"]
  /\ UNCHANGED <<source, table, status, seen, gone, had, batches>>

(* The DELETE starts. *)
Delete(s) ==
  /\ pc[s] = "fetched"
  /\ seen' = [seen EXCEPT ![s] = table]
  /\ pc' = [pc EXCEPT ![s] = "deleting"]
  /\ UNCHANGED <<source, table, status, got, gone, had, batches>>

(* Its rows are its own when no other transaction is deleting them. *)
Deleted(s) ==
  /\ pc[s] = "deleting" /\ \A o \in Syncs : seen[s] \intersect gone[o] = {}
  /\ gone' = [gone EXCEPT ![s] = seen[s] \intersect table]
  /\ pc' = [pc EXCEPT ![s] = "deleted"]
  /\ UNCHANGED <<source, table, status, got, seen, had, batches>>

ReadStatus(s) ==
  /\ pc[s] = "deleted"
  /\ had' = [had EXCEPT ![s] = status]
  /\ pc' = [pc EXCEPT ![s] = "ready"]
  /\ UNCHANGED <<source, table, status, got, seen, gone, batches>>

(* The rows after the sync. *)
Replaced(s, batch) == (table \ gone[s]) \union {batch}

(* The key of the status: the second of two first syncs is refused. *)
Accepted(s) == had[s] # 0 \/ status = 0

(* Only a value that differs from the one it has read is written. *)
Counted(s) == IF got[s] = had[s] THEN status ELSE got[s]

Commit(s) ==
  /\ pc[s] = "ready" /\ batches < MaxBatches
  /\ IF Accepted(s)
     THEN /\ table' = Replaced(s, [id |-> batches + 1, records |-> got[s]])
          /\ status' = Counted(s)
          /\ batches' = batches + 1
     ELSE UNCHANGED <<table, status, batches>>
  /\ Over(s)
  /\ UNCHANGED source

(* Fault: the deletion is a transaction of its own. *)
Undone_Deleted(s) == table \ gone[s]

(* A rollback restores what was deleted. *)
Undone(s) == table

(* A record is not valid, the database fails or the process stops. *)
Stop(s) ==
  /\ pc[s] # "idle"
  /\ table' = Undone(s)
  /\ Over(s)
  /\ UNCHANGED <<source, status, batches>>

Next ==
  \/ \E v \in DOMAIN Catalogs : Publish(v)
  \/ \E s \in Syncs : Fetch(s) \/ Delete(s) \/ Deleted(s) \/ ReadStatus(s) \/ Commit(s) \/ Stop(s)

Spec == Init /\ [][Next]_vars

-----------------------------------------------------------------------------
(* Properties *)

(* Whatever fails, and however syncs overlap, the page shows the whole     *)
(* catalogue of the last sync that succeeded: it may show more (syncs that *)
(* overlap leave one catalogue each, until the next one), but never less,  *)
(* and never more catalogues than syncs that can overlap; and shown once,  *)
(* the catalogue has as many records as the status of the sync says.       *)
CatalogueServed ==
  /\ batches # 0 => \E b \in table : b.id = batches
  /\ Cardinality(table) <= Cardinality(Syncs)
  /\ Cardinality(table) = 1 => \A b \in table : b.records = status
=============================================================================
