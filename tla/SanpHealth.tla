----------------------------- MODULE SanpHealth -----------------------------
(***************************************************************************)
(* The import of the SANP Health reports (app/services/sanp_health.py).    *)
(* Every completed run of a GitHub workflow leaves artifacts; a sync,      *)
(* started every hour by the scheduler or by a person, downloads those of  *)
(* the runs it does not hold completely yet and stores them.  It downloads *)
(* with no transaction open, and writes under an advisory lock that only   *)
(* its transaction holds.                                                  *)
(*                                                                         *)
(* Times are hours; 0 stands for a missing one.                            *)
(***************************************************************************)
EXTENDS Integers, FiniteSets

CONSTANTS
  Runs,       \* completed runs of the workflow
  Items,      \* the artifacts that each run leaves
  Workers,    \* syncs that may be executing
  None,       \* no worker, no report
  Retention,  \* RETENTION_DAYS
  Retry,      \* ARTIFACT_RETRY_HOURS
  MaxTime     \* bound: hours observed

ASSUME ItemsAssumption == Items # {}
ASSUME NoneAssumption == None \notin Workers /\ None \notin Runs
ASSUME TimesAssumption ==
  Retention \in Nat /\ Retry \in Nat /\ Retry <= Retention /\ MaxTime \in Nat \ {0}

ImportStatus == {"FAILED", "PARTIAL", "COMPLETE"}

VARIABLES
  now,
  done,      \* completed_at of the workflow runs on GitHub, 0: not yet
  row,       \* import_status of the sanp_health_runs rows, "none": no row
  results,   \* the artifacts stored for each row
  status,    \* the row of sanp_health_sync_status
  lock,      \* owner of the advisory lock SYNC_LOCK_ID
  pc,        \* phase of a sync
  att,       \* attempted_at of a sync
  todo,      \* the runs it imports
  got        \* the artifacts it downloaded

syncVars == <<pc, att, todo, got>>
vars == <<now, done, row, results, status, lock, syncVars>>

Init ==
  /\ now = 1
  /\ done \in [Runs -> {0, 1}]
  /\ row = [r \in Runs |-> "none"]
  /\ results = [r \in Runs |-> {}]
  /\ status = [attempt |-> 0, success |-> 0, error |-> FALSE]
  /\ lock = None
  /\ pc = [w \in Workers |-> "idle"]
  /\ att = [w \in Workers |-> 0]
  /\ todo = [w \in Workers |-> {}]
  /\ got = [w \in Workers |-> [r \in Runs |-> {}]]

Complete == {r \in Runs : row[r] = "COMPLETE"}

----------------------------------------------------------------------------
(* sync_from_source *)

(* The sync returns or raises; its variables are gone. *)
End(w) ==
  /\ pc' = [pc EXCEPT ![w] = "idle"]
  /\ att' = [att EXCEPT ![w] = 0]
  /\ todo' = [todo EXCEPT ![w] = {}]
  /\ got' = [got EXCEPT ![w] = [r \in Runs |-> {}]]

(* The listing, cut to the runs that are recent enough to be retried. *)
List(w) ==
  /\ pc[w] = "idle"
  /\ pc' = [pc EXCEPT ![w] = "listed"]
  /\ att' = [att EXCEPT ![w] = now]
  /\ todo' = [todo EXCEPT ![w] = {r \in Runs : done[r] # 0 /\ done[r] + Retry >= now}]
  /\ UNCHANGED <<now, done, row, results, status, lock, got>>

(* Reports that are complete already are not downloaded. *)
SkipComplete(w) ==
  /\ pc[w] = "listed"
  /\ pc' = [pc EXCEPT ![w] = "collecting"]
  /\ todo' = [todo EXCEPT ![w] = @ \ Complete]
  /\ UNCHANGED <<now, done, row, results, status, lock, att, got>>

(* _collect_run: any artifact may be expired, broken or unreachable, and   *)
(* all of a run's when they cannot be listed.  If no run at all could be   *)
(* listed the sync fails.                                                  *)
Collect(w) ==
  /\ pc[w] = "collecting"
  /\ \E g \in [todo[w] -> SUBSET Items], listed \in SUBSET todo[w] :
       /\ \A r \in todo[w] \ listed : g[r] = {}
       /\ got' = [got EXCEPT ![w] = [r \in Runs |-> IF r \in todo[w] THEN g[r] ELSE {}]]
       /\ pc' = [pc EXCEPT ![w] = IF todo[w] # {} /\ listed = {}
                                  THEN "failing" ELSE "collected"]
  /\ UNCHANGED <<now, done, row, results, status, lock, att, todo>>

(* GitHub does not answer, or is not configured. *)
CollectFails(w) ==
  /\ pc[w] \in {"listed", "collecting"}
  /\ pc' = [pc EXCEPT ![w] = "failing"]
  /\ UNCHANGED <<now, done, row, results, status, lock, att, todo, got>>

LockFree == lock = None      \* pg_try_advisory_xact_lock

(* Fault: what another sync completed in the meantime is not looked up. *)
StillMissing_Listed(w) == todo[w]

StillMissing(w) == todo[w] \ Complete

(* The transaction takes the lock and looks up again what is complete. *)
Lock(w) ==
  /\ pc[w] = "collected" /\ LockFree
  /\ lock' = w
  /\ todo' = [todo EXCEPT ![w] = StillMissing(w)]
  /\ pc' = [pc EXCEPT ![w] = "locked"]
  /\ UNCHANGED <<now, done, row, results, status, att, got>>

(* SanpHealthSyncInProgressError: nothing is recorded. *)
Refused(w) ==
  /\ pc[w] = "collected" /\ ~LockFree
  /\ End(w)
  /\ UNCHANGED <<now, done, row, results, status, lock>>

(* Fault: errors about single artifacts are forgotten. *)
Imported_Any(items) == IF items = {} THEN "FAILED" ELSE "COMPLETE"

(* import_status of a run of which these artifacts were stored. *)
Imported(items) ==
  CASE items = {}    -> "FAILED"
    [] items = Items -> "COMPLETE"
    [] OTHER         -> "PARTIAL"

(* The outcome of each run; a run that could not be stored is rolled back. *)
Outcome(w, lost) ==
  [r \in todo[w] |-> IF r \in lost THEN "FAILED" ELSE Imported(got[w][r])]
AllFailed(outcome) ==
  DOMAIN outcome # {} /\ \A r \in DOMAIN outcome : outcome[r] = "FAILED"

(* Rows past the retention, removed unless every run has failed. *)
Outdated(w, outcome) ==
  {r \in Runs : ~AllFailed(outcome) /\ row[r] # "none" /\ done[r] + Retention < att[w]}

Succeeded(w, failed) == IF failed THEN status.success ELSE att[w]

(* _set_sync_status *)
SetStatus(w, failed, error) ==
  status' = [attempt |-> att[w], success |-> Succeeded(w, failed), error |-> error]

(* _persist_run for each run, retention, the outcome, the commit. *)
Commit(w) ==
  /\ pc[w] = "locked"
  /\ \E lost \in SUBSET todo[w] :
       LET outcome == Outcome(w, lost)
           stored  == todo[w] \ lost
           removed == Outdated(w, outcome)
       IN  /\ row' = [r \in Runs |-> CASE r \in removed -> "none"
                                       [] r \in stored \ removed -> outcome[r]
                                       [] OTHER -> row[r]]
           /\ results' = [r \in Runs |-> CASE r \in removed -> {}
                                           [] r \in stored \ removed
                                                -> results[r] \union got[w][r]
                                           [] OTHER -> results[r]]
           /\ SetStatus(w, AllFailed(outcome),
                        \E r \in todo[w] : outcome[r] # "COMPLETE")
  /\ lock' = None
  /\ End(w)
  /\ UNCHANGED <<now, done>>

Released(w) == IF lock = w THEN None ELSE lock

(* The transaction fails and is rolled back. *)
TransactionFails(w) ==
  /\ pc[w] = "locked"
  /\ lock' = Released(w)
  /\ pc' = [pc EXCEPT ![w] = "failing"]
  /\ UNCHANGED <<now, done, row, results, status, att, todo, got>>

(* _record_failed_sync_status, in a transaction of its own. *)
RecordFailure(w) ==
  /\ pc[w] = "failing"
  /\ SetStatus(w, TRUE, TRUE)
  /\ End(w)
  /\ UNCHANGED <<now, done, row, results, lock>>

(* The process stops; its transaction is rolled back. *)
Crash(w) ==
  /\ pc[w] # "idle"
  /\ lock' = Released(w)
  /\ End(w)
  /\ UNCHANGED <<now, done, row, results, status>>

----------------------------------------------------------------------------
(* The report that get_latest_report shows. *)
Latest == {r \in Complete : \A q \in Complete : done[q] <= done[r]}

----------------------------------------------------------------------------
(* A run of the workflow completes. *)
Publish(r) ==
  /\ done[r] = 0
  /\ done' = [done EXCEPT ![r] = now]
  /\ UNCHANGED <<now, row, results, status, lock, syncVars>>

Tick ==
  /\ now < MaxTime
  /\ now' = now + 1
  /\ UNCHANGED <<done, row, results, status, lock, syncVars>>

Next ==
  \/ \E w \in Workers :
       \/ List(w) \/ SkipComplete(w) \/ Collect(w) \/ CollectFails(w)
       \/ Lock(w) \/ Refused(w) \/ Commit(w) \/ TransactionFails(w)
       \/ RecordFailure(w) \/ Crash(w)
  \/ \E r \in Runs : Publish(r)
  \/ Tick

Spec == Init /\ [][Next]_vars

----------------------------------------------------------------------------
(* Properties *)

(* Types; the lock belongs to a transaction that is open. *)
TypeOK ==
  /\ now \in 1..MaxTime
  /\ done \in [Runs -> 0..MaxTime]
  /\ row \in [Runs -> ImportStatus \union {"none"}]
  /\ results \in [Runs -> SUBSET Items]
  /\ status \in [attempt : 0..MaxTime, success : 0..MaxTime, error : BOOLEAN]
  /\ lock \in Workers \union {None}
  /\ lock # None => pc[lock] = "locked"
  /\ pc \in [Workers -> {"idle", "listed", "collecting", "collected", "locked", "failing"}]
  /\ att \in [Workers -> 0..MaxTime]
  /\ todo \in [Workers -> SUBSET Runs]
  /\ got \in [Workers -> [Runs -> SUBSET Items]]

(* A complete report is never imported again: what another sync completed  *)
(* while this one was downloading is not overwritten with less, and a      *)
(* complete report goes only with the retention.                           *)
CompleteIsFinal ==
  [][\A r \in Runs : row[r] = "COMPLETE" =>
        \/ row'[r] = "COMPLETE" /\ results'[r] = results[r]
        \/ row'[r] = "none" /\ done[r] + Retention < now]_vars

(* A report that is called complete holds the results of every artifact,   *)
(* and a partial one some, over any sequence of attempts.                  *)
StatusMatchesResults ==
  \A r \in Runs : /\ row[r] = "COMPLETE" => results[r] = Items
                  /\ row[r] = "PARTIAL" => results[r] # {}

(* Reports disappear only when a sync succeeds: no failure removes one.    *)
RemovedOnSuccess ==
  [][(\E r \in Runs : row[r] # "none" /\ row'[r] = "none")
        => status'.success # 0 /\ status'.success = status'.attempt]_vars

(* While some report holds results of a successful import, the time of the *)
(* last success is known, whatever failed afterwards.                      *)
SuccessRecorded ==
  (\E r \in Runs : row[r] \in {"PARTIAL", "COMPLETE"}) => status.success # 0

(* What is stored can be told from its status, also over both.             *)
ReportsHonest == StatusMatchesResults /\ SuccessRecorded

(* "Un errore GitHub o di un artifact non elimina l'ultimo report completo" *)
(* (README.md): a sync that meets an error keeps the last complete report.  *)
LastCompleteKept ==
  [][\A w \in Workers : Commit(w) /\ status'.error =>
        (Complete # {} => \E r \in Latest : row'[r] = "COMPLETE")]_vars
=============================================================================
