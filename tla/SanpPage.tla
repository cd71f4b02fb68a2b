------------------------------- MODULE SanpPage -------------------------------
(***************************************************************************)
(* What the SANP Health pages show (app/services/sanp_health.py, the       *)
(* readers, and sanp_health_artifacts.py).  A page is read with several    *)
(* statements while syncs commit and remove reports.  How syncs keep out   *)
(* of each other's way is in SanpHealth; to a reader a sync is its commit, *)
(* and here what it stores of every artifact matters.                      *)
(*                                                                         *)
(* Times are hours; 0 stands for a missing one.                            *)
(***************************************************************************)
EXTENDS Integers, Sequences, FiniteSets, SequencesExt

CONSTANTS
  Runs,       \* completed runs of the workflow
  Artifacts,  \* run -> sequence of [prefix, file, env, levels]
  Retention,  \* RETENTION_DAYS
  Retry,      \* ARTIFACT_RETRY_HOURS
  Pages,      \* the reports that are asked for, "latest" among them
  Lag,        \* bound: hours that a sync takes; a report it imports is not past the retention
  MaxTime,    \* bound: hours observed
  MaxSyncs    \* bound: syncs that end

Missing == "none"

VARIABLES
  now,
  done,    \* completed_at of the workflow runs, 0: not yet
  rows,    \* sanp_health_runs and their results
  status,  \* the row of sanp_health_sync_status
  ended,   \* number of syncs that ended
  pc, mem  \* a request for a page, and what it has read

vars == <<now, done, rows, status, ended, pc, mem>>

-----------------------------------------------------------------------------
(* From the artifacts to the rows *)

(* The environment that the name of an artifact requires, and its name in  *)
(* the report.                                                             *)
Expected == [d |-> "DEV", u |-> "UAT", p |-> "PROD"]
EnvironmentOf == [DEV |-> "SANP", UAT |-> "COLLAUDO", PROD |-> "PRODUZIONE"]
Environments == {"SANP", "COLLAUDO", "PRODUZIONE"}

(* _artifact_is_relevant *)
Relevant(r) == {i \in DOMAIN Artifacts[r] : Artifacts[r][i].prefix \in DOMAIN Expected}

(* parse_drift_artifact: results about MAIN are left out without an error. *)
Parsed(a) ==
  CASE a.env = "MAIN"                               -> "skipped"
    [] a.env # "MAIN" /\ Expected[a.prefix] # a.env -> "invalid"
    [] OTHER                                        -> "payload"

Levels(r, i) == Artifacts[r][i].levels
Key(r, i) == <<Artifacts[r][i].file, EnvironmentOf[Artifacts[r][i].env]>>

(* classify_result *)
Classified(levels) == <<"OK", "INFO", "WARNING", "KO">>[1 + Max(ToSet(levels) \union {0})]

(* _collect_run: what was read of a run, and whether an artifact is        *)
(* missing.                                                                *)
Payloads(r, read) == {i \in read : Parsed(Artifacts[r][i]) = "payload"}
Errors(r, read) ==
  Relevant(r) = {} \/ \E i \in Relevant(r) : i \notin read \/ Parsed(Artifacts[r][i]) = "invalid"

(* _upsert_result, one after the other: a result is the artifact it is of. *)
Upserted(r, results, payloads) ==
  {i \in results : \A j \in payloads : Key(r, j) # Key(r, i)}
    \union {i \in payloads : \A j \in payloads : j > i => Key(r, j) # Key(r, i)}

Changes(r, items, level) ==
  UNION {{<<i, k>> : k \in {k \in DOMAIN Levels(r, i) : Levels(r, i)[k] = level}} : i \in items}

(* Fault: what earlier attempts have stored is not counted. *)
Counted_New(results, payloads) == payloads

(* What _refresh_run_counts counts. *)
Counted(results, payloads) == results

Counts(r, items) == [l \in 1..3 |-> Cardinality(Changes(r, items, l))]
Absent == [status |-> Missing, results |-> {}, counts |-> <<0, 0, 0>>]

(* _persist_run *)
Persisted(r, read) ==
  LET payloads == Payloads(r, read)
      results  == Upserted(r, rows[r].results, payloads)
  IN  [status  |-> CASE payloads = {} -> "FAILED" [] payloads # {} /\ Errors(r, read) -> "PARTIAL" [] OTHER -> "COMPLETE",
       results |-> results,
       counts  |-> Counts(r, Counted(results, payloads))]

-----------------------------------------------------------------------------
(* The world, and the syncs as they commit *)

Init ==
  /\ now = 1
  /\ done = [r \in Runs |-> 0]
  /\ rows = [r \in Runs |-> Absent]
  /\ status = [attempt |-> 0, success |-> 0, error |-> FALSE]
  /\ ended = 0
  /\ pc = "idle" /\ mem = [asked |-> Missing]

Publish(r) ==
  /\ done[r] = 0
  /\ done' = [done EXCEPT ![r] = now]
  /\ UNCHANGED <<now, rows, status, ended, pc, mem>>

Tick ==
  /\ now < MaxTime
  /\ now' = now + 1
  /\ UNCHANGED <<done, rows, status, ended, pc, mem>>

Stored == {r \in Runs : rows[r].status # Missing}
Complete == {r \in Runs : rows[r].status = "COMPLETE"}

(* What may become of a report: stored with any of its artifacts, or its   *)
(* part of the transaction rolled back.                                    *)
Outcomes(r) ==
  {[row |-> Persisted(r, read), lost |-> FALSE, error |-> Errors(r, read)] : read \in SUBSET Relevant(r)}
    \union {[row |-> rows[r], lost |-> TRUE, error |-> TRUE]}

(* A sync that began at att ends. *)
Ends(att) == now - att <= Lag /\ ended < MaxSyncs /\ ended' = ended + 1

(* sync_from_source: the reports it imports, the retention, the outcome.   *)
(* What completed after it began may not be in its listing.                *)
Sync(att) ==
  LET recent == {r \in Runs \ Complete : done[r] # 0 /\ done[r] + Retry >= att}
      late   == {r \in recent : done[r] >= att}
  IN  /\ Ends(att)
      /\ \E outcomes \in {UNION {{<<r, o>> : o \in Outcomes(r)} : r \in recent}}, unseen \in SUBSET late :
         \E new \in [recent \ unseen -> {o[2] : o \in outcomes}] :
        LET todo   == recent \ unseen
            failed == todo # {} /\ \A r \in todo : new[r].lost \/ new[r].row.status = "FAILED"
            after  == [r \in Runs |-> IF r \in todo THEN new[r].row ELSE rows[r]]
        IN  /\ \A r \in todo : <<r, new[r]>> \in outcomes
            /\ rows' = [r \in Runs |-> IF ~failed /\ done[r] + Retention < att THEN Absent ELSE after[r]]
            /\ status' = [attempt |-> att, success |-> IF failed THEN status.success ELSE att,
                          error |-> \E r \in todo : new[r].error]
            /\ UNCHANGED <<now, done, pc, mem>>

(* _record_failed_sync_status *)
RecordFailure(att) ==
  /\ Ends(att)
  /\ status' = [status EXCEPT !.attempt = att, !.error = TRUE]
  /\ UNCHANGED <<now, done, rows, pc, mem>>

-----------------------------------------------------------------------------
(* The pages *)

Newest(set) == {r \in set : \A q \in set : done[q] <= done[r]}
World == <<now, done, rows, status, ended>>
Goto(phase, m) == pc' = phase /\ mem' = m /\ UNCHANGED World

(* A request; start is history: the reports that were complete by then.    *)
(* get_latest_report looks for the newest one.                             *)
Ask(asked) ==
  /\ pc = "idle"
  /\ \E id \in IF asked # "latest" THEN {asked} ELSE IF Complete = {} THEN {Missing} ELSE Newest(Complete) :
       Goto(IF id = Missing THEN "status" ELSE "run",
            [asked |-> asked, start |-> Complete, id |-> id, row |-> Absent, results |-> {}, found |-> FALSE])

(* get_report_detail: the report, its results and their changes are read   *)
(* one after the other.                                                    *)
ReadRun ==
  /\ pc = "run"
  /\ IF mem.id \in Stored THEN Goto("results", [mem EXCEPT !.row = [rows[mem.id] EXCEPT !.results = {}], !.found = TRUE])
     ELSE Goto(IF mem.asked = "latest" THEN "status" ELSE "answer", mem)

ReadResults == pc = "results" /\ Goto("changes", [mem EXCEPT !.results = rows[mem.id].results])

(* The matrix: a row for every spec with a result, a cell for every        *)
(* environment.                                                            *)
NotConfigured == [status |-> "NOT_CONFIGURED", counts |-> <<0, 0, 0>>, changes |-> {}]
Cell(r, results, stored, key) ==
  IF \E i \in results : Key(r, i) = key
  THEN LET i == CHOOSE i \in results : Key(r, i) = key
       IN  [status |-> Classified(Levels(r, i)), counts |-> Counts(r, {i}),
            changes |-> UNION {ToSet(Levels(r, j)) : j \in {j \in stored : Key(r, j) = key}}]
  ELSE NotConfigured
Matrix(r, results, stored) ==
  [key \in {Key(r, i)[1] : i \in results} \X Environments |-> Cell(r, results, stored, key)]

ReadChanges ==
  /\ pc = "changes"
  /\ Goto(IF mem.asked = "latest" THEN "status" ELSE "answer",
          [asked |-> mem.asked, start |-> mem.start, id |-> mem.id, row |-> mem.row, found |-> TRUE,
           matrix |-> Matrix(mem.id, mem.results, rows[mem.id].results)])

ReadStatus ==
  /\ pc = "status"
  /\ Goto("newest", [shown |-> mem, status |-> status])

(* The last attempt has failed as a whole. *)
SyncFailed(s) == s.error /\ (s.success = 0 \/ s.attempt > s.success)

(* A newer report is not complete, and may still be. *)
Awaited(id, s, newest) ==
  /\ done[newest] > done[id]
  /\ done[newest] + Retry >= (IF s.attempt = 0 THEN now ELSE s.attempt)
  /\ rows[newest].status # "COMPLETE"

ReadNewest ==
  /\ pc = "newest"
  /\ \E newest \in IF Stored = {} THEN {Missing} ELSE Newest(Stored) :
       Goto("answer", [asked |-> "latest", shown |-> mem.shown, status |-> mem.status,
                       stale |-> \/ SyncFailed(mem.status)
                                 \/ mem.shown.found /\ newest # Missing /\ Awaited(mem.shown.id, mem.status, newest)])

Answer == pc = "answer" /\ Goto("idle", [asked |-> Missing])

Next ==
  \/ \E r \in Runs : Publish(r)
  \/ Tick
  \/ \E att \in 1..now : Sync(att) \/ RecordFailure(att)
  \/ \E asked \in Pages : Ask(asked)
  \/ ReadRun \/ ReadResults \/ ReadChanges \/ ReadStatus \/ ReadNewest \/ Answer

Spec == Init /\ [][Next]_vars

-----------------------------------------------------------------------------
(* Properties *)

(* The page of a complete report that is still there when it is answered   *)
(* shows the last result of every artifact, whatever attempts it took, no  *)
(* other one, and totals that agree.                                       *)
Final(r) ==
  {i \in Relevant(r) : /\ Artifacts[r][i].env # "MAIN"
                       /\ \A j \in Relevant(r) : j > i /\ Artifacts[r][j].env # "MAIN" => Key(r, j) # Key(r, i)}
Whole(page) ==
  LET r     == page.id
      shown == {key \in DOMAIN page.matrix : page.matrix[key] # NotConfigured}
  IN  /\ shown = {Key(r, i) : i \in Final(r)}
      /\ \A i \in Final(r) : /\ page.matrix[Key(r, i)].status = Classified(Levels(r, i))
                             /\ page.matrix[Key(r, i)].changes = ToSet(Levels(r, i))
      /\ \A l \in 1..3 : page.row.counts[l] = Cardinality(UNION {{i} \X {k \in DOMAIN Levels(r, i) : Levels(r, i)[k] = l} : i \in Final(r)})

(* The latest page shows a report if there was one that nobody removed     *)
(* meanwhile, never an older one than it could, and says that it is stale  *)
(* if the last attempt failed or the newest report, a newer one, is stored *)
(* in part and may still be completed, however syncs commit meanwhile.     *)
Latest(m) ==
  LET page == m.shown IN
  /\ page.found => \A r \in page.start : done[r] <= done[page.id]
  /\ ~page.found => page.start \intersect Complete \intersect {page.id} = {}
  /\ ~m.stale =>
       /\ m.status.error => m.status.success >= m.status.attempt
       /\ page.found /\ Newest(Stored) \intersect Complete = {} =>
            \A r \in Newest(Stored) : done[r] > done[page.id] => done[r] + Retry < m.status.attempt

(* All of it, for every request that is answered.                          *)
PageHonest ==
  [][pc # "answer" /\ pc' = "answer" =>
       LET page == IF mem'.asked = "latest" THEN mem'.shown ELSE mem' IN
       /\ mem'.asked = "latest" => Latest(mem')
       /\ page.found /\ page.id \in page.start \intersect Complete => Whole(page)]_vars
=============================================================================
