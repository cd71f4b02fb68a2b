---------------------------- MODULE GpdPositions ----------------------------
(***************************************************************************)
(* The snapshots of the GPD positions (services/gpd_position.py).  Every   *)
(* day a workflow writes a report in its log; a sync, started by the       *)
(* scheduler or by a person, walks the successful runs from the newest     *)
(* until one it has, and stores the reports it could read in one           *)
(* transaction.  Syncs may overlap: the unique keys of the table decide.   *)
(***************************************************************************)
EXTENDS Integers, FiniteSets

CONSTANTS
  Last,     \* runs are 1..Last, oldest first
  Day,      \* [1..Last -> the day of created_at]
  Reported, \* runs whose log holds a complete report
  Unread,   \* runs whose log can fail to be read
  Syncs,    \* syncs that may overlap
  PerPage,  \* runs in a listing
  Backfill  \* BACKFILL_DAYS

AllRuns == 1..Last

VARIABLES
  ended,   \* runs that have succeeded
  late,    \* those of them that did after a newer one, at a second attempt
  snaps,   \* run_id of the snapshots
  missed,  \* history: those that overlapping first syncs leave behind
  count,   \* item_count of the status, -1: no row
  pc,      \* [Syncs -> phase]
  known,   \* existing_run_ids
  page,    \* the runs listed
  new,     \* the snapshots to add
  had      \* the item_count it has read

sync == <<pc, known, page, new, had>>
vars == <<ended, late, snaps, missed, count, sync>>

Init ==
  /\ ended = {} /\ late = {}
  /\ snaps = {} /\ missed = {} /\ count = -1
  /\ pc = [s \in Syncs |-> "idle"]
  /\ known = [s \in Syncs |-> {}] /\ page = [s \in Syncs |-> {}] /\ new = [s \in Syncs |-> {}]
  /\ had = [s \in Syncs |-> -1]

(* The sync returns, raises, or its process stops: the session rolls back. *)
Over(s) ==
  /\ pc' = [pc EXCEPT ![s] = "idle"]
  /\ known' = [known EXCEPT ![s] = {}] /\ page' = [page EXCEPT ![s] = {}] /\ new' = [new EXCEPT ![s] = {}]
  /\ had' = [had EXCEPT ![s] = -1]

(* A run of the workflow succeeds. *)
Succeed(r) ==
  /\ r \notin ended
  /\ ended' = ended \union {r}
  /\ late' = late \union {q \in {r} : \E p \in ended : q < p}
  /\ UNCHANGED <<snaps, missed, count, sync>>

ReadKnown(s) ==
  /\ pc[s] = "idle"
  /\ known' = [known EXCEPT ![s] = snaps]
  /\ pc' = [pc EXCEPT ![s] = "known"]
  /\ UNCHANGED <<ended, late, snaps, missed, count, page, new, had>>

(* list_workflow_runs: the newest ones, in one page. *)
List(s) ==
  /\ pc[s] = "known"
  /\ page' = [page EXCEPT ![s] = {r \in ended : Cardinality({q \in ended : q > r}) < PerPage}]
  /\ pc' = [pc EXCEPT ![s] = "listed"]
  /\ UNCHANGED <<ended, late, snaps, missed, count, known, new, had>>

(* cutoff, where it is the day of the newest run. *)
TooOld(r) == \E q \in ended : Day[r] + Backfill < Day[q]

(* Where the walk stops: at the first run that is known and, in the first  *)
(* sync, at the first that is too old.                                     *)
Walked(s) ==
  LET stops == {r \in page[s] : r \in known[s] \/ (known[s] = {} /\ TooOld(r))}
  IN  {r \in page[s] : \A t \in stops : t < r}

(* A run without a complete report is left out. *)
Collected(s, failing) == (Walked(s) \intersect Reported) \ failing

(* Fault: a log that cannot be read is taken for one without a report. *)
Fails_Never(s, failing) == FALSE

(* A log that cannot be read ends the sync. *)
Fails(s, failing) == Walked(s) \intersect failing # {}

ReadLogs(s) ==
  /\ pc[s] = "listed"
  /\ \E failing \in SUBSET Unread :
       IF Fails(s, failing) THEN Over(s)
       ELSE /\ new' = [new EXCEPT ![s] = Collected(s, failing)]
            /\ pc' = [pc EXCEPT ![s] = "collected"]
            /\ UNCHANGED <<known, page, had>>
  /\ UNCHANGED <<ended, late, snaps, missed, count>>

ReadStatus(s) ==
  /\ pc[s] = "collected"
  /\ had' = [had EXCEPT ![s] = count]
  /\ pc' = [pc EXCEPT ![s] = "ready"]
  /\ UNCHANGED <<ended, late, snaps, missed, count, known, page, new>>

(* The unique keys: run_id, report_date, and the id of the status. *)
Accepted(s) ==
  /\ new[s] \intersect snaps = {}
  /\ \A q, r \in snaps \union new[s] : q # r => Day[q] # Day[r]
  /\ had[s] # -1 \/ count = -1

(* Only a value that differs from the one it has read is written. *)
Counted(s) ==
  LET items == Cardinality(known[s]) + Cardinality(new[s]) IN IF items = had[s] THEN count ELSE items

(* A first sync commits and another one has done so: one of them may have  *)
(* left out what is too old, and the other has stored what is older still. *)
LeftBehind(s) ==
  IF known[s] = {} /\ snaps # {}
  THEN {r \in ended \ (snaps \union new[s]) : \E u \in ended : r <= u /\ TooOld(u)} ELSE {}

Commit(s) ==
  /\ pc[s] = "ready"
  /\ IF Accepted(s)
     THEN /\ snaps' = snaps \union new[s]
          /\ missed' = missed \union LeftBehind(s)
          /\ count' = Counted(s)
     ELSE UNCHANGED <<snaps, missed, count>>
  /\ Over(s)
  /\ UNCHANGED <<ended, late>>

(* GitHub does not answer, or the process stops. *)
Stop(s) ==
  /\ pc[s] # "idle"
  /\ Over(s)
  /\ UNCHANGED <<ended, late, snaps, missed, count>>

Next ==
  \/ \E r \in AllRuns : Succeed(r)
  \/ \E s \in Syncs : ReadKnown(s) \/ List(s) \/ ReadLogs(s) \/ ReadStatus(s) \/ Commit(s) \/ Stop(s)

Spec == Init /\ [][Next]_vars

-----------------------------------------------------------------------------
(* Properties *)

(* The walk stops at the first run it has and never looks behind it, so    *)
(* what a sync left out would be lost: yet however syncs fail and overlap, *)
(* there is no hole among the runs that a sync has seen when it commits:   *)
(* every report since the oldest snapshot is there, but for runs that      *)
(* succeeded after newer ones and for what two first syncs that overlap    *)
(* leave behind, because it is too old for a first sync (BACKFILL_DAYS).   *)
NoHoles ==
  [][\A s \in Syncs : pc[s] = "ready" /\ snaps' # snaps /\ pc'[s] = "idle" =>
       \A r \in (page[s] \intersect Reported) \ (late \union missed') : (\E q \in snaps' : q < r) => r \in snaps']_vars
=============================================================================
