----------------------------- MODULE EaSyncRuns -----------------------------
(***************************************************************************)
(* The life of a run of the EA Map sync (app/services/ea/sync/engine.py,   *)
(* runner.py, app/tasks/sync_ea.py, POST /ea/sync): registration under a   *)
(* Postgres advisory lock, hand-over to a worker, the phases of the        *)
(* worker, and the closing of runs that look abandoned.                    *)
(*                                                                         *)
(* Every attempt to run the sync has an identity in Runs.  Its row in      *)
(* ea_sync_runs is described by runStatus, startedAt and finishedAt; the   *)
(* process that serves it is described by pc.  The two are separate: a row *)
(* can be closed by somebody else while its process still works, and a     *)
(* process can die without touching its row.                               *)
(***************************************************************************)
EXTENDS Integers, FiniteSets

CONSTANTS
  Runs,        \* identities of the attempts (one ea_sync_runs row each)
  None,        \* no run
  StaleAfter,  \* STALE_AFTER: age at which a running row counts as abandoned
  MaxTime      \* bound on the clock

ASSUME NoneAssumption == None \notin Runs
ASSUME StaleAssumption == StaleAfter \in Nat \ {0}
ASSUME TimeAssumption == MaxTime \in Nat

VARIABLES
  now,         \* the clock
  lock,        \* holder of pg_advisory_xact_lock(SYNC_LOCK_ID)
  pc,          \* where the process of an attempt is
  trigger,     \* who asked: POST /ea/sync, the weekly beat, the command line
  dry,         \* --dry-run (command line only)
  seen,        \* running rows that create_run has read and will close
  runStatus,   \* ea_sync_runs.status, "absent" when there is no row
  startedAt,
  finishedAt,
  syncStatus   \* the singleton row of ea_sync_status

row  == <<runStatus, startedAt, finishedAt>>
vars == <<now, lock, pc, trigger, dry, seen, row, syncStatus>>

Triggers  == {"api", "beat", "cli"}
Finished  == {"success", "partial", "failed"}
Working   == {"reading", "collecting", "applying", "closing"}
Handed    == {"registered", "queued"} \union Working
Phases    == {"idle", "checked", "done", "lost"} \union Handed

(* A run is served by a process that still means to finish it. *)
Live(r) == pc[r] \in Handed

(* Faults: the age filter applied too early, or not at all. *)
Fresh_TooEarly(r) == now + 1 < startedAt[r] + StaleAfter
Fresh_Always(r) == TRUE

(* EaSyncRun.started_at > now - STALE_AFTER *)
Fresh(r) == now < startedAt[r] + StaleAfter

(* running_run: the row that makes a new sync answer 409. *)
RunningRun(r) == runStatus[r] = "running" /\ Fresh(r)
Busy == \E r \in Runs : RunningRun(r)

Init ==
  /\ now = 0
  /\ lock = None
  /\ pc = [r \in Runs |-> "idle"]
  /\ trigger \in [Runs -> Triggers]
  /\ dry \in [Runs -> BOOLEAN]
  /\ \A r \in Runs : dry[r] => trigger[r] = "cli"
  /\ seen = [r \in Runs |-> {}]
  /\ runStatus = [r \in Runs |-> "absent"]
  /\ startedAt = [r \in Runs |-> 0]
  /\ finishedAt = [r \in Runs |-> 0]
  /\ syncStatus = [lastRun |-> None, lastAttempt |-> 0, lastSuccess |-> 0]

----------------------------------------------------------------------------
(* Registration: create_run *)

Goto(r, phase) == pc' = [pc EXCEPT ![r] = phase]

(* Fault: the registration does not wait for the lock. *)
LockFree_NoLock == TRUE

(* pg_advisory_xact_lock is free. *)
LockFree == lock = None

(* The lock is taken and, unless a fresh running row is found (then the     *)
(* transaction is rolled back and the caller gets a 409), every row still  *)
(* "running" is read, to be closed.                                        *)
CheckRuns(r) ==
  /\ pc[r] = "idle" /\ LockFree
  /\ ~Busy
  /\ now + StaleAfter <= MaxTime     \* bound: room for the run to go stale
  /\ lock' = r
  /\ seen' = [seen EXCEPT ![r] = {q \in Runs : runStatus[q] = "running"}]
  /\ startedAt' = [startedAt EXCEPT ![r] = now]
  /\ Goto(r, "checked")
  /\ UNCHANGED <<now, trigger, dry, runStatus, finishedAt, syncStatus>>

(* One commit closes the rows that were read, whatever they have become    *)
(* since, inserts the new one and releases the lock.                       *)
InsertRun(r) ==
  /\ pc[r] = "checked"
  /\ runStatus' = [q \in Runs |-> IF q = r THEN "running"
                                  ELSE IF q \in seen[r] THEN "failed"
                                  ELSE runStatus[q]]
  /\ finishedAt' = [q \in Runs |-> IF q \in seen[r] THEN startedAt[r]
                                   ELSE finishedAt[q]]
  /\ seen' = [seen EXCEPT ![r] = {}]
  /\ lock' = None
  /\ Goto(r, "registered")
  /\ UNCHANGED <<now, trigger, dry, startedAt, syncStatus>>

(* Hand-over of an API run: Celery, or a background task of the API        *)
(* process when the broker does not answer.                                *)
Dispatch(r) ==
  /\ pc[r] = "registered" /\ trigger[r] = "api"
  /\ Goto(r, "queued")
  /\ UNCHANGED <<now, lock, trigger, dry, seen, row, syncStatus>>

----------------------------------------------------------------------------
(* Execution: run_with_default_sources and execute_run *)

(* The beat task and the command line go on in the process that registered *)
(* the run.                                                                *)
ReadyToStart(r) == \/ pc[r] = "queued"
                   \/ pc[r] = "registered" /\ trigger[r] # "api"

StartRunner(r) ==
  /\ ReadyToStart(r)
  /\ Goto(r, "reading")
  /\ UNCHANGED <<now, lock, trigger, dry, seen, row, syncStatus>>

(* Fault: a failure is recorded as a success. *)
RecordStatus_AnyOutcome(r, outcome) ==
  syncStatus' = [lastRun |-> r, lastAttempt |-> startedAt[r], lastSuccess |-> now]

(* _record_status, in the transaction that writes the outcome. *)
RecordStatus(r, outcome) ==
  syncStatus' = [lastRun     |-> r,
                 lastAttempt |-> startedAt[r],
                 lastSuccess |-> IF outcome \in {"success", "partial"}
                                 THEN now ELSE syncStatus.lastSuccess]

CloseRow(r, outcome) ==
  /\ runStatus' = [runStatus EXCEPT ![r] = outcome]
  /\ finishedAt' = [finishedAt EXCEPT ![r] = now]
  /\ RecordStatus(r, outcome)

(* _discard_run: the row of a dry run is deleted. *)
DiscardRow(r) ==
  /\ runStatus' = [runStatus EXCEPT ![r] = "absent"]
  /\ UNCHANGED <<finishedAt, syncStatus>>

(* Without a GitHub token the run is closed before any phase: _fail, which *)
(* does not know whether the run is dry.                                   *)
FailNoSource(r) ==
  /\ ReadyToStart(r)
  /\ CloseRow(r, "failed")
  /\ Goto(r, "done")
  /\ UNCHANGED <<now, lock, trigger, dry, seen, startedAt>>

ReadState(r) ==
  /\ pc[r] = "reading"
  /\ Goto(r, "collecting")
  /\ UNCHANGED <<now, lock, trigger, dry, seen, row, syncStatus>>

Collect(r) ==
  /\ pc[r] = "collecting"
  /\ Goto(r, "applying")
  /\ UNCHANGED <<now, lock, trigger, dry, seen, row, syncStatus>>

(* The commit of the apply phase; "partial" when a source did not answer. *)
Finish(r) ==
  /\ pc[r] = "applying"
  /\ \/ /\ ~dry[r]
        /\ \E outcome \in {"success", "partial"} : CloseRow(r, outcome)
     \/ dry[r] /\ DiscardRow(r)
  /\ Goto(r, "done")
  /\ UNCHANGED <<now, lock, trigger, dry, seen, startedAt>>

(* Any exception of a phase (the census failing included) rolls the phase  *)
(* back and leads to the handler ...                                       *)
Raise(r) ==
  /\ pc[r] \in {"reading", "collecting", "applying"}
  /\ Goto(r, "closing")
  /\ UNCHANGED <<now, lock, trigger, dry, seen, row, syncStatus>>

(* Fault: the handler ends the process without closing the row. *)
CloseFailed_RowLeft(r) ==
  /\ pc[r] = "closing"
  /\ Goto(r, "done")
  /\ UNCHANGED <<now, lock, trigger, dry, seen, row, syncStatus>>

(* ... which closes the run: "every failure must close the run". *)
CloseFailed(r) ==
  /\ pc[r] = "closing"
  /\ \/ ~dry[r] /\ CloseRow(r, "failed")
     \/ dry[r] /\ DiscardRow(r)
  /\ Goto(r, "done")
  /\ UNCHANGED <<now, lock, trigger, dry, seen, startedAt>>

----------------------------------------------------------------------------
(* The environment *)

(* A process dies, or a Celery message is lost: the row stays as it is. A  *)
(* registration that dies loses its transaction and with it the lock.      *)
Crash(r) ==
  /\ \/ /\ pc[r] = "checked"
        /\ lock' = None
        /\ seen' = [seen EXCEPT ![r] = {}]
        /\ Goto(r, "idle")
     \/ /\ Live(r)
        /\ Goto(r, "lost")
        /\ UNCHANGED <<lock, seen>>
  /\ UNCHANGED <<now, trigger, dry, row, syncStatus>>

(* Time passes, whatever is under way: nothing limits a Celery task. *)
Tick ==
  /\ now < MaxTime
  /\ now' = now + 1
  /\ UNCHANGED <<lock, pc, trigger, dry, seen, row, syncStatus>>

Step(r) ==
  \/ CheckRuns(r) \/ InsertRun(r) \/ Dispatch(r)
  \/ StartRunner(r) \/ FailNoSource(r)
  \/ ReadState(r) \/ Collect(r) \/ Finish(r) \/ Raise(r) \/ CloseFailed(r)
  \/ Crash(r)

Next == Tick \/ \E r \in Runs : Step(r)

Spec == Init /\ [][Next]_vars

(* What a process that does not die goes on to do, and the clock. *)
Progress(r) ==
  \/ InsertRun(r) \/ Dispatch(r) \/ StartRunner(r)
  \/ ReadState(r) \/ Collect(r) \/ Finish(r) \/ CloseFailed(r)

----------------------------------------------------------------------------
(* Properties *)

TypeOK ==
  /\ now \in Nat
  /\ lock \in Runs \union {None}
  /\ pc \in [Runs -> Phases]
  /\ trigger \in [Runs -> Triggers]
  /\ dry \in [Runs -> BOOLEAN]
  /\ seen \in [Runs -> SUBSET Runs]
  /\ runStatus \in [Runs -> {"absent", "running"} \union Finished]
  /\ startedAt \in [Runs -> Nat]
  /\ finishedAt \in [Runs -> Nat]
  /\ syncStatus \in [lastRun : Runs \union {None},
                     lastAttempt : Nat, lastSuccess : Nat]

(* However registrations, crashes and late workers interleave, the table   *)
(* never holds two running rows: the advisory lock of create_run covers    *)
(* the check, the closing of old rows and the insert.                      *)
OneRunningRow ==
  \A r, q \in Runs :
     runStatus[r] = "running" /\ runStatus[q] = "running" => r = q

(* "Una sola run alla volta" (DESIGN.md:172), as far as the code enforces   *)
(* it: nothing stops a worker that outlives STALE_AFTER, so two may be in   *)
(* the phases at once.  But a registration lets a second process in only    *)
(* beside such a one, so that those at work, or about to be, are at least   *)
(* that far apart, however many registrations, deaths and late workers     *)
(* there were.                                                             *)
Apart(r, q) == startedAt[r] + StaleAfter <= startedAt[q]
OverlapOnlyStale ==
  \A r, q \in Runs : Live(r) /\ Live(q) => r = q \/ Apart(r, q) \/ Apart(q, r)

(* The outcome of a run, once written, changes only for a run that is      *)
(* STALE_AFTER old, and only in two ways: its own worker, late, writes over *)
(* the "failed" of a registration that took it for dead, or a registration *)
(* that read it still running writes "failed" over what it has become.     *)
OutcomeIsFinal ==
  [][\A r \in Runs :
       runStatus[r] \in Finished /\ runStatus'[r] # runStatus[r]
         => /\ now >= startedAt[r] + StaleAfter
            /\ \/ Live(r) /\ runStatus[r] = "failed"
               \/ (\E q \in Runs : r \in seen[q]) /\ runStatus'[r] = "failed"]_vars

(* ea_sync_status follows the order of the runs: one that started earlier  *)
(* takes the place of a later one only if it has outlived STALE_AFTER.     *)
AttemptsInOrder ==
  [][syncStatus'.lastAttempt < syncStatus.lastAttempt
       => syncStatus'.lastAttempt + StaleAfter <= syncStatus.lastAttempt]_vars

(* last_success_at is the finish time of the latest run that the table     *)
(* shows as successful, and zero only when there is none.  The exception:  *)
(* a stale run that ended well just when a registration, which had read it *)
(* running, was closing it.                                                *)
Successful(r) == runStatus[r] \in {"success", "partial"}
ClosedOver(r) ==
  /\ runStatus[r] = "failed" /\ pc[r] = "done"
  /\ \E q \in Runs : Apart(r, q) /\ finishedAt[r] = startedAt[q]
SuccessAgrees ==
  /\ \A r \in Runs : Successful(r) => finishedAt[r] <= syncStatus.lastSuccess
  /\ \/ syncStatus.lastSuccess = 0
     \/ \E r \in Runs : \/ Successful(r) /\ finishedAt[r] = syncStatus.lastSuccess
                        \/ ClosedOver(r) /\ finishedAt[r] <= syncStatus.lastSuccess

(* A worker that keeps running closes its run, whatever its phases raise;  *)
(* only a crash can leave the row behind.                                  *)
EveryRunClosed ==
  \A r \in Runs : Live(r) ~> (pc[r] = "lost" \/ runStatus[r] # "running")

(* A run whose worker is lost does not block the sync for ever. *)
LockoutEnds == Busy ~> ~Busy
=============================================================================
