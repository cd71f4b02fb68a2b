---------------------------- MODULE EaSyncProofs ----------------------------
(***************************************************************************)
(* Proofs about the runs of the sync, for every set of runs and however    *)
(* long their workers take (EaSyncRuns), and about what they read again,   *)
(* for every set of repositories and any bounds (EaSnapshots).             *)
(***************************************************************************)
EXTENDS EaSync, TLAPS

(* What concerns one part is a behaviour of that part. *)

LEMMA PartRuns == SyncSpec => Spec
<1>1. SyncInit => Init
  BY DEF SyncInit
<1>2. [SyncNext]_syncVars => [Next]_vars
  BY DEF SyncNext, OfRuns, OfSnapshots, syncVars
<1> QED BY <1>1, <1>2, PTL DEF SyncSpec, Spec

LEMMA PartSnapshots == SyncSpec => Snap!Spec
<1>1. SyncInit => Snap!Init
  BY DEF SyncInit
<1>2. [SyncNext]_syncVars => [Snap!Next]_(Snap!vars)
  BY DEF SyncNext, OfRuns, OfSnapshots, syncVars, snapVars, Snap!vars, Snap!runVars
<1> QED BY <1>1, <1>2, PTL DEF SyncSpec, Snap!Spec

USE NoneAssumption, StaleAssumption, TimeAssumption

(* The lock protects the registration: its holder has read every running   *)
(* row, and a row only appears when its holder commits.                    *)
RegistrationInv ==
  /\ \A r \in Runs : pc[r] = "checked" => lock = r
  /\ \A r \in Runs : pc[r] \in {"idle", "checked"} => runStatus[r] = "absent"
  /\ \A r \in Runs : pc[r] = "checked"
        => \A q \in Runs :
              /\ runStatus[q] = "running" => q \in seen[r]
              /\ q \in seen[r] => pc[q] \notin {"idle", "checked"}

RowInv == TypeOK /\ RegistrationInv /\ OneRunningRow

LEMMA TypeInit == Init => TypeOK
  BY DEF Init, TypeOK, Phases

LEMMA TypeStep == TypeOK /\ [Next]_vars => TypeOK'
<1> SUFFICES ASSUME TypeOK, [Next]_vars PROVE TypeOK'
  OBVIOUS
<1> USE DEF TypeOK, Phases, Handed, Working, Finished, Goto, row
<1>1. CASE Tick
  BY <1>1 DEF Tick
<1>2. ASSUME NEW r \in Runs, CheckRuns(r) PROVE TypeOK'
  BY <1>2 DEF CheckRuns
<1>3. ASSUME NEW r \in Runs, InsertRun(r) PROVE TypeOK'
  BY <1>3 DEF InsertRun
<1>4. ASSUME NEW r \in Runs,
             Dispatch(r) \/ StartRunner(r) \/ ReadState(r) \/ Collect(r) \/ Raise(r)
      PROVE TypeOK'
  BY <1>4 DEF Dispatch, StartRunner, ReadState, Collect, Raise
<1>5. ASSUME NEW r \in Runs, FailNoSource(r) PROVE TypeOK'
  BY <1>5 DEF FailNoSource, CloseRow, RecordStatus
<1>6. ASSUME NEW r \in Runs, Finish(r) PROVE TypeOK'
  <2>1. CASE DiscardRow(r)
    BY <1>6, <2>1 DEF Finish, DiscardRow
  <2>2. ASSUME NEW outcome \in {"success", "partial"}, CloseRow(r, outcome)
        PROVE TypeOK'
    BY <1>6, <2>2 DEF Finish, CloseRow, RecordStatus
  <2> QED BY <1>6, <2>1, <2>2 DEF Finish
<1>7. ASSUME NEW r \in Runs, CloseFailed(r) PROVE TypeOK'
  BY <1>7 DEF CloseFailed, CloseRow, DiscardRow, RecordStatus
<1>8. ASSUME NEW r \in Runs, Crash(r) PROVE TypeOK'
  BY <1>8 DEF Crash
<1>9. CASE UNCHANGED vars
  BY <1>9 DEF vars
<1> QED BY <1>1, <1>2, <1>3, <1>4, <1>5, <1>6, <1>7, <1>8, <1>9 DEF Next, Step

(* Every variable keeps its type along every behaviour. *)
THEOREM TypeCorrect == Spec => []TypeOK
  BY TypeInit, TypeStep, PTL DEF Spec

(* What the steps of a worker have in common, whichever phase it is in: it *)
(* holds no registration, and it can only take its own row out of          *)
(* "running".                                                              *)
WorkerStep(r) ==
  \/ Dispatch(r) \/ StartRunner(r) \/ FailNoSource(r)
  \/ ReadState(r) \/ Collect(r) \/ Finish(r) \/ Raise(r) \/ CloseFailed(r)

LEMMA WorkerFrame ==
  ASSUME TypeOK, NEW r \in Runs, WorkerStep(r)
  PROVE  /\ Live(r)
         /\ \E phase \in Working \union {"queued", "done"} :
               pc' = [pc EXCEPT ![r] = phase]
         /\ UNCHANGED <<now, lock, seen, startedAt>>
         /\ \A q \in Runs : q # r => runStatus'[q] = runStatus[q]
         /\ \/ runStatus' = runStatus /\ pc'[r] # "done"
            \/ runStatus'[r] \in Finished \union {"absent"} /\ pc'[r] = "done"
<1> USE DEF TypeOK, Working, Live, Handed, Goto, row, Finished
<1>1. CASE Dispatch(r)
  BY <1>1 DEF Dispatch
<1>2. CASE StartRunner(r)
  BY <1>2 DEF StartRunner, ReadyToStart
<1>3. CASE FailNoSource(r)
  BY <1>3 DEF FailNoSource, ReadyToStart, CloseRow
<1>4. CASE ReadState(r) \/ Collect(r)
  BY <1>4 DEF ReadState, Collect
<1>5. CASE Finish(r)
  BY <1>5 DEF Finish, CloseRow, DiscardRow
<1>6. CASE Raise(r)
  BY <1>6 DEF Raise
<1>7. CASE CloseFailed(r)
  BY <1>7 DEF CloseFailed, CloseRow, DiscardRow
<1> QED BY <1>1, <1>2, <1>3, <1>4, <1>5, <1>6, <1>7 DEF WorkerStep

LEMMA RowInit == Init => RowInv
  BY TypeInit DEF Init, RowInv, RegistrationInv, OneRunningRow

LEMMA RowStep == RowInv /\ [Next]_vars => RowInv'
<1> SUFFICES ASSUME RowInv, [Next]_vars PROVE (RegistrationInv /\ OneRunningRow)'
  BY TypeStep DEF RowInv
<1> USE DEF RowInv, RegistrationInv, OneRunningRow
<1>1. CASE Tick
  BY <1>1 DEF Tick, row
<1>2. ASSUME NEW r \in Runs, CheckRuns(r)
      PROVE (RegistrationInv /\ OneRunningRow)'
  BY <1>2 DEF CheckRuns, LockFree, Goto, TypeOK
<1>3. ASSUME NEW r \in Runs, InsertRun(r)
      PROVE (RegistrationInv /\ OneRunningRow)'
  <2>1. \A q \in Runs : runStatus'[q] = "running" => q = r
    BY <1>3 DEF InsertRun, TypeOK
  <2>2. \A q \in Runs : pc'[q] # "checked"
    BY <1>3 DEF InsertRun, Goto, TypeOK
  <2>3. \A q \in Runs : pc'[q] = "idle" => runStatus'[q] = "absent"
    <3> SUFFICES ASSUME NEW q \in Runs, pc'[q] = "idle"
                 PROVE  runStatus'[q] = "absent"
      OBVIOUS
    <3>1. q # r /\ pc[q] = "idle" /\ runStatus[q] = "absent"
      BY <1>3 DEF InsertRun, Goto, TypeOK
    <3>2. pc[r] = "checked" /\ q \notin seen[r]
      BY <1>3, <3>1 DEF InsertRun
    <3> QED BY <1>3, <3>1, <3>2 DEF InsertRun, TypeOK
  <2> QED BY <2>1, <2>2, <2>3
<1>4. ASSUME NEW r \in Runs, WorkerStep(r)
      PROVE (RegistrationInv /\ OneRunningRow)'
  BY <1>4, WorkerFrame DEF Live, Handed, Working, Finished, TypeOK
<1>5. ASSUME NEW r \in Runs, Crash(r)
      PROVE (RegistrationInv /\ OneRunningRow)'
  BY <1>5 DEF Crash, Goto, TypeOK, row, Live, Handed, Working
<1>6. CASE UNCHANGED vars
  BY <1>6 DEF vars, row
<1> QED BY <1>1, <1>2, <1>3, <1>4, <1>5, <1>6 DEF Next, Step, WorkerStep

(* The table never holds two running rows, however late the workers are:   *)
(* the advisory lock is enough.                                            *)
THEOREM RowsExclusive == Spec => []OneRunningRow
<1>1. RowInv => OneRunningRow
  BY DEF RowInv
<1> QED BY RowInit, RowStep, <1>1, PTL DEF Spec

\* So it is of the sync as a whole (EaSync).
COROLLARY RowsOfTheSync == SyncSpec => []OneRunningRow
BY RowsExclusive, PartRuns, PTL

----------------------------------------------------------------------------
(* The age of the rows.  A process may outlive STALE_AFTER: what create_run *)
(* keeps is that a registration comes at least STALE_AFTER after the start *)
(* of every process still at work and of every row it is going to close.   *)

AgeInv ==
  /\ syncStatus.lastAttempt <= now
  /\ \A r \in Runs : startedAt[r] <= now
  /\ \A r, q \in Runs : pc[r] = "checked" /\ Live(q) => Apart(q, r)
  /\ \A r \in Runs : pc[r] = "checked" => \A q \in seen[r] : q # r /\ Apart(q, r)
  /\ \A r \in Runs : Live(r) /\ runStatus[r] # "running"
        => runStatus[r] = "failed" /\ startedAt[r] + StaleAfter <= now
  /\ \A r \in Runs : Live(r) \/ pc[r] = "checked"
        => \/ syncStatus.lastAttempt <= startedAt[r]
           \/ startedAt[r] + StaleAfter <= syncStatus.lastAttempt

WorkInv == RowInv /\ OverlapOnlyStale /\ AgeInv

LEMMA WorkInit == Init => WorkInv
  BY RowInit DEF Init, WorkInv, OverlapOnlyStale, AgeInv, Live, Handed, Working

(* What the steps of a worker write to ea_sync_status. *)
LEMMA WorkerStatus ==
  ASSUME TypeOK, NEW r \in Runs, WorkerStep(r)
  PROVE  syncStatus'.lastAttempt \in {syncStatus.lastAttempt, startedAt[r]}
<1> USE DEF TypeOK, row
<1>1. CASE Dispatch(r) \/ StartRunner(r) \/ ReadState(r) \/ Collect(r) \/ Raise(r)
  BY <1>1 DEF Dispatch, StartRunner, ReadState, Collect, Raise
<1>2. CASE FailNoSource(r)
  BY <1>2 DEF FailNoSource, CloseRow, RecordStatus
<1>3. CASE Finish(r)
  BY <1>3 DEF Finish, CloseRow, DiscardRow, RecordStatus
<1>4. CASE CloseFailed(r)
  BY <1>4 DEF CloseFailed, CloseRow, DiscardRow, RecordStatus
<1> QED BY <1>1, <1>2, <1>3, <1>4 DEF WorkerStep

(* Whoever passes the check of create_run comes long after those at work.  *)
LEMMA CheckComesLate ==
  ASSUME WorkInv, NEW r \in Runs, CheckRuns(r), NEW q \in Runs,
         Live(q) \/ runStatus[q] = "running"
  PROVE  q # r /\ startedAt[q] + StaleAfter <= now
<1>1. runStatus[q] = "running" => startedAt[q] + StaleAfter <= now
  BY DEF CheckRuns, Busy, RunningRun, Fresh, WorkInv, RowInv, TypeOK
<1>2. q # r
  BY DEF CheckRuns, WorkInv, RowInv, RegistrationInv, Live, Handed, Working
<1> QED BY <1>1, <1>2 DEF WorkInv, AgeInv

LEMMA WorkStep == WorkInv /\ [Next]_vars => WorkInv'
<1> SUFFICES ASSUME WorkInv, [Next]_vars PROVE (OverlapOnlyStale /\ AgeInv)'
  BY RowStep DEF WorkInv
<1>0. TypeOK /\ TypeOK' /\ RegistrationInv /\ OverlapOnlyStale /\ AgeInv
  BY TypeStep DEF WorkInv, RowInv
<1> DEFINE Goal == (OverlapOnlyStale /\ AgeInv)'
<1>1. CASE Tick
  BY <1>0, <1>1 DEF Tick, OverlapOnlyStale, AgeInv, Apart, Live, row, TypeOK
<1>2. ASSUME NEW r \in Runs, CheckRuns(r) PROVE Goal
  <2>1. /\ pc' = [pc EXCEPT ![r] = "checked"] /\ pc[r] = "idle"
        /\ startedAt' = [startedAt EXCEPT ![r] = now]
        /\ seen'[r] = {q \in Runs : runStatus[q] = "running"}
        /\ UNCHANGED <<now, runStatus, syncStatus>>
    BY <1>0, <1>2 DEF CheckRuns, Goto, TypeOK
  <2>2. \A q \in Runs : pc'[q] = "checked" => q = r
    BY <1>0, <1>2, <2>1 DEF CheckRuns, LockFree, RegistrationInv, TypeOK
  <2>3. \A q \in Runs : Live(q)' <=> Live(q)
    BY <1>0, <2>1 DEF Live, Handed, Working, TypeOK
  <2>4. \A q \in Runs : Live(q) \/ runStatus[q] = "running"
          => q # r /\ startedAt[q] + StaleAfter <= now
    BY <1>2, CheckComesLate
  <2>5. /\ startedAt'[r] = now
        /\ \A q \in Runs : q # r => startedAt'[q] = startedAt[q]
    BY <1>0, <2>1 DEF TypeOK
  <2>6. OverlapOnlyStale'
    BY <1>0, <2>3, <2>4, <2>5 DEF OverlapOnlyStale, Apart
  <2>7. AgeInv'
    BY <1>0, <2>1, <2>2, <2>3, <2>4, <2>5 DEF AgeInv, Apart, TypeOK
  <2> QED BY <2>6, <2>7
<1>3. ASSUME NEW r \in Runs, InsertRun(r) PROVE Goal
  <2>1. /\ pc' = [pc EXCEPT ![r] = "registered"] /\ pc[r] = "checked"
        /\ UNCHANGED <<now, startedAt, syncStatus>>
    BY <1>3 DEF InsertRun, Goto
  <2>2. \A q \in Runs : pc'[q] # "checked"
    BY <1>0, <1>3, <2>1 DEF RegistrationInv, TypeOK
  <2>3. \A q \in Runs : Live(q)' <=> q = r \/ Live(q)
    BY <1>0, <2>1 DEF Live, TypeOK, Handed, Working
  <2>4. OverlapOnlyStale'
    BY <1>0, <2>1, <2>3 DEF OverlapOnlyStale, AgeInv, Apart
  <2>5. \A q \in Runs : Live(q)' /\ runStatus'[q] # "running"
          => runStatus'[q] = "failed" /\ startedAt[q] + StaleAfter <= now
    <3> SUFFICES ASSUME NEW q \in Runs, Live(q)', runStatus'[q] # "running"
                 PROVE  runStatus'[q] = "failed" /\ startedAt[q] + StaleAfter <= now
      OBVIOUS
    <3>1. q # r /\ Live(q)
      BY <1>0, <1>3, <2>3 DEF InsertRun, TypeOK
    <3>2. CASE q \in seen[r]
      BY <1>0, <1>3, <2>1, <3>1, <3>2 DEF InsertRun, AgeInv, Apart, TypeOK
    <3>3. CASE q \notin seen[r]
      BY <1>0, <1>3, <3>1, <3>3 DEF InsertRun, AgeInv, TypeOK
    <3> QED BY <3>2, <3>3
  <2>6. AgeInv'
    BY <1>0, <2>1, <2>2, <2>3, <2>5 DEF AgeInv, Apart, TypeOK
  <2> QED BY <2>4, <2>6
<1>4. ASSUME NEW r \in Runs, WorkerStep(r) PROVE Goal
  <2>1. Live(r) /\ UNCHANGED <<now, seen, startedAt>>
    BY <1>0, <1>4, WorkerFrame
  <2>2. \A q \in Runs : /\ Live(q)' => Live(q)
                        /\ pc'[q] = "checked" <=> pc[q] = "checked"
    BY <1>0, <1>4, WorkerFrame DEF Live, TypeOK, Handed, Working
  <2>3. \A q \in Runs : Live(q)' => runStatus'[q] = runStatus[q]
    BY <1>0, <1>4, WorkerFrame DEF Live, Handed, Working
  <2>4. \A q \in Runs : Live(q) \/ pc[q] = "checked"
          => \/ syncStatus'.lastAttempt <= startedAt[q]
             \/ startedAt[q] + StaleAfter <= syncStatus'.lastAttempt
    <3>1. CASE syncStatus'.lastAttempt = syncStatus.lastAttempt
      BY <1>0, <3>1 DEF AgeInv
    <3>2. CASE syncStatus'.lastAttempt = startedAt[r]
      BY <1>0, <2>1, <3>2 DEF AgeInv, OverlapOnlyStale, Apart, TypeOK
    <3> QED BY <1>0, <1>4, <3>1, <3>2, WorkerStatus
  <2>5. syncStatus'.lastAttempt <= now
    BY <1>0, <1>4, WorkerStatus DEF AgeInv
  <2>6. OverlapOnlyStale'
    BY <1>0, <2>1, <2>2 DEF OverlapOnlyStale, Apart
  <2>7. AgeInv'
    BY <1>0, <2>1, <2>2, <2>3, <2>4, <2>5 DEF AgeInv, Apart, TypeOK
  <2> QED BY <2>6, <2>7
<1>5. ASSUME NEW r \in Runs, Crash(r) PROVE Goal
  <2>1. UNCHANGED <<now, row, syncStatus>>
    BY <1>5 DEF Crash
  <2>2. \A q \in Runs : /\ Live(q)' => Live(q)
                        /\ pc'[q] = "checked" => pc[q] = "checked" /\ seen'[q] = seen[q]
    BY <1>0, <1>5 DEF Crash, Goto, Live, Handed, Working, TypeOK
  <2> QED BY <1>0, <2>1, <2>2 DEF OverlapOnlyStale, AgeInv, Apart, row
<1>6. CASE UNCHANGED vars
  BY <1>0, <1>6 DEF vars, row, OverlapOnlyStale, AgeInv, Apart, Live
<1> QED BY <1>1, <1>2, <1>3, <1>4, <1>5, <1>6 DEF Next, Step, WorkerStep

LEMMA WorkInvariant == Spec => []WorkInv
  BY WorkInit, WorkStep, PTL DEF Spec

(* Two processes are at work together only if one has outlived STALE_AFTER *)
(* when the other registers, whatever registrations cross, die or wait.    *)
THEOREM OverlapsAreStale == SyncSpec => []OverlapOnlyStale
<1>1. WorkInv => OverlapOnlyStale
  BY DEF WorkInv
<1> QED BY WorkInvariant, <1>1, PartRuns, PTL

(* An outcome is rewritten only for a run older than STALE_AFTER, by its   *)
(* own late worker or by the registration that takes it for dead.          *)
THEOREM OutcomesFinal == SyncSpec => OutcomeIsFinal
<1>1. ASSUME WorkInv, [Next]_vars
      PROVE  \A r \in Runs :
               runStatus[r] \in Finished /\ runStatus'[r] # runStatus[r]
                 => /\ now >= startedAt[r] + StaleAfter
                    /\ \/ Live(r) /\ runStatus[r] = "failed"
                       \/ (\E q \in Runs : r \in seen[q]) /\ runStatus'[r] = "failed"
  <2> DEFINE Rewrites(q) == /\ now >= startedAt[q] + StaleAfter
                           /\ \/ Live(q) /\ runStatus[q] = "failed"
                              \/ (\E r \in Runs : q \in seen[r]) /\ runStatus'[q] = "failed"
  <2> SUFFICES ASSUME NEW q \in Runs, runStatus[q] \in Finished, runStatus'[q] # runStatus[q]
               PROVE  Rewrites(q)
    OBVIOUS
  <2>0. TypeOK /\ RegistrationInv /\ AgeInv
    BY <1>1 DEF WorkInv, RowInv
  <2>1. CASE Tick \/ (\E r \in Runs : CheckRuns(r) \/ Crash(r)) \/ UNCHANGED vars
    BY <2>1 DEF Tick, CheckRuns, Crash, vars, row
  <2>2. ASSUME NEW r \in Runs, InsertRun(r) PROVE Rewrites(q)
    <3>1. q # r
      BY <2>0, <2>2 DEF InsertRun, RegistrationInv, Finished
    <3>2. q \in seen[r] /\ runStatus'[q] = "failed"
      BY <2>0, <2>2, <3>1 DEF InsertRun, TypeOK
    <3>3. now >= startedAt[q] + StaleAfter
      BY <2>0, <2>2, <3>2 DEF InsertRun, AgeInv, Apart, TypeOK
    <3> QED BY <3>2, <3>3
  <2>3. ASSUME NEW r \in Runs, WorkerStep(r) PROVE Rewrites(q)
    <3>1. q = r /\ Live(q)
      BY <2>0, <2>3, WorkerFrame
    <3> QED BY <2>0, <3>1 DEF AgeInv, Finished, TypeOK
  <2> QED BY <1>1, <2>1, <2>2, <2>3 DEF Next, Step, WorkerStep
<1>2. Spec => OutcomeIsFinal
  BY WorkInvariant, <1>1, PTL DEF Spec, OutcomeIsFinal
<1> QED BY <1>2, PartRuns, PTL

(* ea_sync_status goes back only from a run to one that had outlived       *)
(* STALE_AFTER when that run registered.                                   *)
THEOREM AttemptsOrdered == SyncSpec => AttemptsInOrder
<1>1. ASSUME WorkInv, [Next]_vars
      PROVE  syncStatus'.lastAttempt < syncStatus.lastAttempt
               => syncStatus'.lastAttempt + StaleAfter <= syncStatus.lastAttempt
  <2>0. TypeOK /\ AgeInv
    BY <1>1 DEF WorkInv, RowInv
  <2>1. CASE \/ Tick \/ UNCHANGED vars
             \/ \E r \in Runs : CheckRuns(r) \/ InsertRun(r) \/ Crash(r)
    <3>1. syncStatus' = syncStatus
      BY <2>1 DEF Tick, CheckRuns, InsertRun, Crash, vars
    <3> QED BY <2>0, <3>1 DEF TypeOK
  <2>2. ASSUME NEW r \in Runs, WorkerStep(r)
        PROVE  syncStatus'.lastAttempt < syncStatus.lastAttempt
                 => syncStatus'.lastAttempt + StaleAfter <= syncStatus.lastAttempt
    BY <2>0, <2>2, WorkerFrame, WorkerStatus DEF AgeInv, TypeOK
  <2> QED BY <1>1, <2>1, <2>2 DEF Next, Step, WorkerStep
<1>2. Spec => AttemptsInOrder
  BY WorkInvariant, <1>1, PTL DEF Spec, AttemptsInOrder
<1> QED BY <1>2, PartRuns, PTL

(* What a step writes of the outcome of its run: nothing, the outcome that *)
(* ea_sync_status records, or the end of a dry run.                        *)
LEMMA WorkerOutcome ==
  ASSUME TypeOK, NEW r \in Runs, WorkerStep(r)
  PROVE  \/ UNCHANGED <<runStatus, finishedAt, syncStatus>>
         \/ DiscardRow(r)
         \/ \E outcome \in Finished : CloseRow(r, outcome)
<1> USE DEF row, Finished
<1>1. CASE Dispatch(r) \/ StartRunner(r) \/ ReadState(r) \/ Collect(r) \/ Raise(r)
  BY <1>1 DEF Dispatch, StartRunner, ReadState, Collect, Raise
<1>2. CASE FailNoSource(r)
  BY <1>2 DEF FailNoSource
<1>3. CASE Finish(r)
  BY <1>3 DEF Finish
<1>4. CASE CloseFailed(r)
  BY <1>4 DEF CloseFailed
<1> QED BY <1>1, <1>2, <1>3, <1>4 DEF WorkerStep

(* Who closed a run that had ended well has registered, and will not start *)
(* again; a row that is going to be closed was written after its check.    *)
ClosedBy(r, q) ==
  /\ runStatus[r] = "failed" /\ pc[r] = "done"
  /\ pc[q] \notin {"idle", "checked"} /\ Apart(r, q) /\ finishedAt[r] = startedAt[q]

Shown ==
  \/ syncStatus.lastSuccess = 0
  \/ \E r \in Runs : Successful(r) /\ finishedAt[r] = syncStatus.lastSuccess
  \/ \E r, q \in Runs : ClosedBy(r, q) /\ finishedAt[r] <= syncStatus.lastSuccess

SuccessInv ==
  /\ syncStatus.lastSuccess <= now
  /\ \A r \in Runs : Successful(r) => pc[r] = "done" /\ finishedAt[r] <= syncStatus.lastSuccess
  /\ \A r \in Runs : pc[r] = "checked"
        => \A q \in seen[r] : runStatus[q] \in Finished => startedAt[r] <= finishedAt[q]
  /\ Shown

LEMMA SuccessStep == WorkInv /\ SuccessInv /\ [Next]_vars => SuccessInv'
<1> SUFFICES ASSUME WorkInv, SuccessInv, [Next]_vars PROVE SuccessInv'
  OBVIOUS
<1>0. TypeOK /\ TypeOK' /\ RegistrationInv /\ AgeInv
  BY TypeStep DEF WorkInv, RowInv
<1>1. CASE Tick
  BY <1>0, <1>1 DEF Tick, row, SuccessInv, Shown, Successful, ClosedBy, Apart, TypeOK
<1>2. ASSUME NEW r \in Runs, CheckRuns(r) PROVE SuccessInv'
  <2>1. /\ pc' = [pc EXCEPT ![r] = "checked"] /\ pc[r] = "idle"
        /\ startedAt' = [startedAt EXCEPT ![r] = now]
        /\ seen'[r] = {q \in Runs : runStatus[q] = "running"}
        /\ UNCHANGED <<now, runStatus, finishedAt, syncStatus>>
    BY <1>0, <1>2 DEF CheckRuns, Goto, TypeOK
  <2>2. \A q \in Runs : pc'[q] = "checked" => q = r
    BY <1>0, <1>2, <2>1 DEF CheckRuns, LockFree, RegistrationInv, TypeOK
  <2>3. \A q, x \in Runs : ClosedBy(q, x) => ClosedBy(q, x)'
    BY <1>0, <2>1 DEF ClosedBy, Apart, TypeOK
  <2>4. Shown'
    BY <2>1, <2>3 DEF SuccessInv, Shown, Successful
  <2>5. \A q \in Runs : Successful(q)' => pc'[q] = "done" /\ finishedAt'[q] <= syncStatus'.lastSuccess
    BY <1>0, <2>1 DEF SuccessInv, Successful, TypeOK
  <2> QED BY <2>1, <2>2, <2>4, <2>5 DEF SuccessInv, Finished
<1>3. ASSUME NEW r \in Runs, InsertRun(r) PROVE SuccessInv'
  <2>1. /\ pc' = [pc EXCEPT ![r] = "registered"] /\ pc[r] = "checked"
        /\ UNCHANGED <<now, startedAt, syncStatus>>
    BY <1>3 DEF InsertRun, Goto
  <2>2. \A q \in Runs : pc'[q] # "checked"
    BY <1>0, <1>3, <2>1 DEF RegistrationInv, TypeOK
  <2>3. \A q \in Runs : q # r => pc'[q] = pc[q]
    BY <1>0, <2>1 DEF TypeOK
  <2>4. runStatus'[r] = "running" /\ runStatus[r] = "absent"
    BY <1>0, <1>3 DEF InsertRun, RegistrationInv, TypeOK
  <2>5. \A q \in Runs : q # r /\ q \notin seen[r]
          => runStatus'[q] = runStatus[q] /\ finishedAt'[q] = finishedAt[q]
    BY <1>0, <1>3 DEF InsertRun, TypeOK
  <2>6. \A q \in seen[r] : /\ q \in Runs /\ q # r
                           /\ runStatus'[q] = "failed" /\ finishedAt'[q] = startedAt[r]
    BY <1>0, <1>3, <2>1 DEF InsertRun, AgeInv, TypeOK
  <2>7. \A q \in Runs : Successful(q)' => q # r /\ q \notin seen[r]
    BY <2>4, <2>6 DEF Successful
  <2>8. \A q \in Runs : Successful(q)' => pc'[q] = "done" /\ finishedAt'[q] <= syncStatus'.lastSuccess
    BY <2>1, <2>3, <2>5, <2>7 DEF SuccessInv, Successful
  <2>9. ASSUME NEW q \in seen[r], pc[q] = "done", runStatus[q] \in Finished,
               finishedAt[q] <= syncStatus.lastSuccess
        PROVE  Shown'
    <3>1. Apart(q, r) /\ startedAt[r] <= finishedAt[q]
      BY <1>0, <2>1, <2>9 DEF AgeInv, SuccessInv
    <3>2. ClosedBy(q, r)'
      BY <1>0, <2>1, <2>3, <2>6, <2>9, <3>1 DEF ClosedBy, Apart, TypeOK
    <3>3. finishedAt'[q] <= syncStatus'.lastSuccess
      BY <1>0, <2>1, <2>6, <2>9, <3>1 DEF TypeOK
    <3> QED BY <2>6, <3>2, <3>3 DEF Shown
  <2>10. ASSUME syncStatus.lastSuccess = 0 PROVE Shown'
    <3>1. syncStatus'.lastSuccess = 0
      BY <2>1, <2>10
    <3> QED BY <3>1 DEF Shown
  <2>11. ASSUME NEW q \in Runs, Successful(q), finishedAt[q] = syncStatus.lastSuccess PROVE Shown'
    <3>1. CASE q \in seen[r]
      BY <1>0, <2>9, <2>11, <3>1 DEF SuccessInv, Successful, Finished, TypeOK
    <3>2. CASE q \notin seen[r]
      BY <2>1, <2>4, <2>5, <2>11, <3>2 DEF Shown, Successful
    <3> QED BY <3>1, <3>2
  <2>12. ASSUME NEW q \in Runs, NEW x \in Runs, ClosedBy(q, x), finishedAt[q] <= syncStatus.lastSuccess
         PROVE  Shown'
    <3>1. CASE q \in seen[r]
      BY <2>9, <2>12, <3>1 DEF ClosedBy, Finished
    <3>2. CASE q \notin seen[r]
      <4>1. ClosedBy(q, x)'
        BY <1>0, <2>1, <2>3, <2>4, <2>5, <2>12, <3>2 DEF ClosedBy, Apart, TypeOK
      <4> QED BY <2>1, <2>4, <2>5, <2>12, <3>2, <4>1 DEF Shown, ClosedBy
    <3> QED BY <3>1, <3>2
  <2> QED BY <2>1, <2>2, <2>8, <2>10, <2>11, <2>12 DEF SuccessInv, Shown
<1>4. ASSUME NEW r \in Runs, WorkerStep(r) PROVE SuccessInv'
  <2>1. /\ Live(r) /\ UNCHANGED <<now, seen, startedAt>>
        /\ \A q \in Runs : q # r => pc'[q] = pc[q]
        /\ pc'[r] \notin {"idle", "checked"}
    BY <1>0, <1>4, WorkerFrame DEF TypeOK, Working
  <2>2. \A q \in Runs : pc[q] \in {"done", "checked"} => q # r
    BY <2>1 DEF Live, Handed, Working
  <2>3. ~Successful(r)
    BY <2>2 DEF SuccessInv
  <2>4. CASE UNCHANGED <<runStatus, finishedAt, syncStatus>>
    <3>1. \A q, x \in Runs : ClosedBy(q, x) => ClosedBy(q, x)'
      BY <2>1, <2>2, <2>4 DEF ClosedBy, Apart
    <3> QED BY <2>1, <2>2, <2>4, <3>1 DEF SuccessInv, Shown, Successful
  <2>5. ASSUME /\ syncStatus'.lastSuccess = syncStatus.lastSuccess
               /\ \A q \in Runs : q # r => runStatus'[q] = runStatus[q] /\ finishedAt'[q] = finishedAt[q]
               /\ ~Successful(r)'
               /\ runStatus'[r] \in Finished => finishedAt'[r] = now
        PROVE  SuccessInv'
    <3>1. \A q, x \in Runs : ClosedBy(q, x) => ClosedBy(q, x)' /\ q # r
      BY <2>1, <2>2, <2>5 DEF ClosedBy, Apart
    <3>2. \A q \in Runs : Successful(q)' <=> Successful(q)
      BY <2>3, <2>5 DEF Successful
    <3>3. Shown'
      BY <2>3, <2>5, <3>1, <3>2 DEF SuccessInv, Shown
    <3>4. \A x \in Runs : pc'[x] = "checked"
             => \A q \in seen'[x] : runStatus'[q] \in Finished => startedAt'[x] <= finishedAt'[q]
      BY <1>0, <2>1, <2>5 DEF SuccessInv, AgeInv, TypeOK
    <3> QED BY <2>1, <2>3, <2>5, <3>2, <3>3, <3>4 DEF SuccessInv
  <2>6. CASE DiscardRow(r)
    BY <1>0, <2>5, <2>6 DEF DiscardRow, Successful, Finished, TypeOK
  <2>7. CASE CloseRow(r, "failed")
    <3>1. /\ runStatus'[r] = "failed" /\ finishedAt'[r] = now
          /\ \A q \in Runs : q # r => runStatus'[q] = runStatus[q] /\ finishedAt'[q] = finishedAt[q]
      BY <1>0, <2>7 DEF CloseRow, TypeOK
    <3>2. syncStatus'.lastSuccess = syncStatus.lastSuccess
      BY <2>7 DEF CloseRow, RecordStatus
    <3> QED BY <2>5, <3>1, <3>2 DEF Successful
  <2>8. ASSUME NEW outcome \in {"success", "partial"}, CloseRow(r, outcome) PROVE SuccessInv'
    <3>1. /\ runStatus'[r] = outcome /\ finishedAt'[r] = now
          /\ syncStatus'.lastSuccess = now /\ pc'[r] = "done"
          /\ \A q \in Runs : q # r => runStatus'[q] = runStatus[q] /\ finishedAt'[q] = finishedAt[q]
      <4>1. runStatus'[r] = outcome /\ runStatus[r] # outcome
        BY <1>0, <2>3, <2>8 DEF CloseRow, Successful, TypeOK
      <4> QED BY <1>0, <1>4, <2>8, <4>1, WorkerFrame DEF CloseRow, RecordStatus, TypeOK
    <3>2. Shown'
      BY <3>1 DEF Shown, Successful
    <3>3. \A q \in Runs : Successful(q)' => pc'[q] = "done" /\ finishedAt'[q] <= syncStatus'.lastSuccess
      <4> SUFFICES ASSUME NEW q \in Runs, q # r, Successful(q)'
                   PROVE  pc'[q] = "done" /\ finishedAt'[q] <= syncStatus'.lastSuccess
        BY <1>0, <3>1 DEF TypeOK
      <4>1. Successful(q) /\ pc[q] = "done" /\ finishedAt[q] <= now
        BY <1>0, <3>1 DEF Successful, SuccessInv, TypeOK
      <4> QED BY <2>1, <3>1, <4>1
    <3>4. \A x \in Runs : pc'[x] = "checked"
             => \A q \in seen'[x] : runStatus'[q] \in Finished => startedAt'[x] <= finishedAt'[q]
      BY <1>0, <2>1, <3>1 DEF SuccessInv, AgeInv, TypeOK
    <3> QED BY <1>0, <2>1, <3>1, <3>2, <3>3, <3>4 DEF SuccessInv, TypeOK
  <2> QED BY <1>0, <1>4, <2>4, <2>6, <2>7, <2>8, WorkerOutcome DEF Finished
<1>5. ASSUME NEW r \in Runs, Crash(r) PROVE SuccessInv'
  <2>1. UNCHANGED <<now, runStatus, startedAt, finishedAt, syncStatus>>
    BY <1>5 DEF Crash, row
  <2>2. /\ \A q \in Runs : pc'[q] = "checked" => pc[q] = "checked" /\ seen'[q] = seen[q]
        /\ \A q \in Runs : pc[q] = "done" => pc'[q] = "done"
        /\ \A q \in Runs : pc[q] \notin {"idle", "checked"} => pc'[q] \notin {"idle", "checked"}
    BY <1>0, <1>5 DEF Crash, Goto, Live, Handed, Working, TypeOK
  <2>3. \A q, x \in Runs : ClosedBy(q, x) => ClosedBy(q, x)'
    BY <2>1, <2>2 DEF ClosedBy, Apart
  <2> QED BY <2>1, <2>2, <2>3 DEF SuccessInv, Shown, Successful
<1>6. CASE UNCHANGED vars
  BY <1>6 DEF vars, row, SuccessInv, Shown, Successful, ClosedBy, Apart
<1> QED BY <1>1, <1>2, <1>3, <1>4, <1>5, <1>6 DEF Next, Step, WorkerStep

(* last_success_at is the time at which the last run that the table shows  *)
(* as successful ended, but for one closed in the moment it ended.         *)
THEOREM SuccessShown == SyncSpec => []SuccessAgrees
<1>1. Init => SuccessInv
  BY DEF Init, SuccessInv, Shown, Successful
<1>2. SuccessInv => SuccessAgrees
  <2> SUFFICES ASSUME SuccessInv PROVE SuccessAgrees
    OBVIOUS
  <2>1. \A r, q \in Runs : ClosedBy(r, q) => ClosedOver(r)
    BY DEF ClosedBy, ClosedOver
  <2> QED BY <2>1 DEF SuccessInv, Shown, SuccessAgrees
<1>3. Spec => []SuccessAgrees
  BY <1>1, <1>2, WorkInvariant, SuccessStep, PTL DEF Spec
<1> QED BY <1>3, PartRuns, PTL

-----------------------------------------------------------------------------
(* Snapshots *)

\* The snapshots and the state of a run keep their types (_collect, _apply).
THEOREM SnapshotsTyped == Snap!Spec => []Snap!TypeOK
<1> USE SnapshotsAssumption
<1>1. Snap!Init => Snap!TypeOK
  BY SMT DEF Snap!Init, Snap!TypeOK, Snap!NoSnapshot, Snap!Snapshot, Snap!Outcomes, Snap!Unread
<1>2. Snap!TypeOK /\ [Snap!Next]_(Snap!vars) => Snap!TypeOK'
  <2> SUFFICES ASSUME Snap!TypeOK, [Snap!Next]_(Snap!vars)
               PROVE  Snap!TypeOK'
    OBVIOUS
  <2> USE DEF Snap!TypeOK, Snap!Outcomes
  <2>1. ASSUME NEW listed \in SUBSET Repos, Snap!Census(listed)
        PROVE  Snap!TypeOK'
    BY <2>1 DEF Snap!Census
  <2>2. ASSUME NEW r \in Repos, Snap!GetTree(r)
        PROVE  Snap!TypeOK'
    BY <2>2 DEF Snap!GetTree
  <2>3. ASSUME NEW r \in Repos, Snap!GetFiles(r)
        PROVE  Snap!TypeOK'
    BY <2>3 DEF Snap!GetFiles
  <2>4. ASSUME NEW r \in Repos, Snap!ReadFails(r)
        PROVE  Snap!TypeOK'
    BY <2>4 DEF Snap!ReadFails
  <2>5. ASSUME NEW r \in Repos, Snap!Push(r)
        PROVE  Snap!TypeOK'
    BY <2>5 DEF Snap!Push, Snap!runVars
  <2>6. CASE Snap!Apply
    <3>1. snap' \in [Repos -> Snap!Snapshot]
      BY <2>6 DEF Snap!Apply, Snap!Snapshot, Snap!ParserOf
    <3>2. pushed' \in [Repos -> BOOLEAN]
      BY <2>6, Zenon DEF Snap!Apply
    <3> QED BY <2>6, <3>1, <3>2 DEF Snap!Apply, Snap!Over, Snap!Unread
  <2>7. CASE Snap!Abort
    BY <2>7 DEF Snap!Abort, Snap!Over, Snap!Unread
  <2>8. CASE Snap!Deploy
    BY <2>8 DEF Snap!Deploy, Snap!runVars
  <2>9. CASE UNCHANGED Snap!vars
    BY <2>9 DEF Snap!vars, Snap!runVars
  <2> QED BY <2>1, <2>2, <2>3, <2>4, <2>5, <2>6, <2>7, <2>8, <2>9 DEF Snap!Next
<1> QED BY <1>1, <1>2, PTL DEF Snap!Spec

-----------------------------------------------------------------------------
(* The parser.  A release comes between two runs, when nothing is reused.  *)

Rested == reading = "idle" => \A r \in Repos : found[r] = "unlisted"

ParserInv == Snap!TypeOK /\ Rested /\ Snap!ParserIsCurrent

\* No Terraform snapshot of an older parser is taken as read (infra/sync.py
\* collect).
THEOREM ParserKept == SyncSpec => []ParserIsCurrent
<1> USE SnapshotsAssumption
<1>1. Snap!Init => Rested /\ Snap!ParserIsCurrent
  BY DEF Snap!Init, Rested, Snap!ParserIsCurrent
<1>2. ParserInv /\ Snap!TypeOK' /\ [Snap!Next]_(Snap!vars) => ParserInv'
  <2> SUFFICES ASSUME ParserInv, Snap!TypeOK', [Snap!Next]_(Snap!vars)
               PROVE  Rested' /\ Snap!ParserIsCurrent'
    BY DEF ParserInv
  <2> USE DEF ParserInv, Snap!TypeOK, Rested, Snap!ParserIsCurrent
  <2>1. ASSUME NEW listed \in SUBSET Repos, Snap!Census(listed)
        PROVE  Rested' /\ Snap!ParserIsCurrent'
    BY <2>1 DEF Snap!Census, Snap!Reusable, Snap!Comparable, Snap!ParserOf
  <2>2. ASSUME NEW r \in Repos, Snap!GetTree(r)
        PROVE  Rested' /\ Snap!ParserIsCurrent'
    BY <2>2 DEF Snap!GetTree, Snap!MayRead, Snap!Comparable, Snap!ParserOf
  <2>3. ASSUME NEW r \in Repos, Snap!GetFiles(r)
        PROVE  Rested' /\ Snap!ParserIsCurrent'
    BY <2>3 DEF Snap!GetFiles, Snap!MayRead
  <2>4. ASSUME NEW r \in Repos, Snap!ReadFails(r)
        PROVE  Rested' /\ Snap!ParserIsCurrent'
    BY <2>4 DEF Snap!ReadFails, Snap!MayRead
  <2>5. ASSUME NEW r \in Repos, Snap!Push(r)
        PROVE  Rested' /\ Snap!ParserIsCurrent'
    BY <2>5 DEF Snap!Push, Snap!runVars
  <2>6. CASE Snap!Apply \/ Snap!Abort
    BY <2>6 DEF Snap!Apply, Snap!Abort, Snap!Over
  <2>7. CASE Snap!Deploy
    BY <2>7 DEF Snap!Deploy, Snap!runVars
  <2>8. CASE UNCHANGED Snap!vars
    BY <2>8 DEF Snap!vars, Snap!runVars
  <2> QED BY <2>1, <2>2, <2>3, <2>4, <2>5, <2>6, <2>7, <2>8 DEF Snap!Next
<1> QED BY <1>1, <1>2, SnapshotsTyped, PartSnapshots, PTL DEF Snap!Spec, ParserInv, ParserIsCurrent

-----------------------------------------------------------------------------
(* Snapshots only advance, with pushes at any time: what a run has read is *)
(* between the snapshot and the tip of the branch.                         *)

Bounded ==
  \A r \in Repos :
    /\ snap[r].sha <= head[r]
    /\ snap[r].content <= head[r]
    /\ tree[r] <= head[r]
    /\ files[r] <= head[r]
    /\ found[r] \in {"tree", "fresh"} => snap[r].sha <= tree[r]
    /\ found[r] = "fresh" => snap[r].content <= files[r]

LEMMA BoundedInvariant == Snap!Spec => []Bounded
<1> USE SnapshotsAssumption
<1>1. Snap!Init => Bounded
  <2>1. ASSUME Snap!Init, NEW r \in Repos
        PROVE  /\ snap[r].sha = 0 /\ snap[r].content = 0 /\ head[r] = 1
               /\ tree[r] = 0 /\ files[r] = 0 /\ found[r] = "unlisted"
    BY <2>1 DEF Snap!Init, Snap!NoSnapshot, Snap!Unread
  <2>2. 0 <= 1 /\ "unlisted" \notin {"tree", "fresh"}
    OBVIOUS
  <2> QED BY <2>1, <2>2, Zenon DEF Bounded
<1>2. Snap!TypeOK /\ Bounded /\ [Snap!Next]_(Snap!vars) => Bounded'
  <2> SUFFICES ASSUME Snap!TypeOK, Bounded, [Snap!Next]_(Snap!vars)
               PROVE  Bounded'
    OBVIOUS
  <2> USE DEF Snap!TypeOK, Bounded, Snap!Snapshot
  <2>1. ASSUME NEW listed \in SUBSET Repos, Snap!Census(listed)
        PROVE  Bounded'
    BY <2>1 DEF Snap!Census
  <2>2. ASSUME NEW r \in Repos, Snap!GetTree(r)
        PROVE  Bounded'
    BY <2>2 DEF Snap!GetTree
  <2>3. ASSUME NEW r \in Repos, Snap!GetFiles(r)
        PROVE  Bounded'
    BY <2>3 DEF Snap!GetFiles
  <2>4. ASSUME NEW r \in Repos, Snap!ReadFails(r)
        PROVE  Bounded'
    BY <2>4 DEF Snap!ReadFails
  <2>5. ASSUME NEW r \in Repos, Snap!Push(r)
        PROVE  Bounded'
    BY <2>5 DEF Snap!Push, Snap!runVars
  <2>6. CASE Snap!Apply
    BY <2>6 DEF Snap!Apply, Snap!Over, Snap!Unread
  <2>7. CASE Snap!Abort
    BY <2>7 DEF Snap!Abort, Snap!Over, Snap!Unread
  <2>8. CASE Snap!Deploy \/ UNCHANGED Snap!vars
    BY <2>8 DEF Snap!Deploy, Snap!vars, Snap!runVars
  <2> QED BY <2>1, <2>2, <2>3, <2>4, <2>5, <2>6, <2>7, <2>8 DEF Snap!Next
<1> QED BY <1>1, <1>2, SnapshotsTyped, PTL DEF Snap!Spec

\* No run puts an older commit in place of a snapshot (_apply).
THEOREM SnapshotsForward == Snap!Spec => Snap!SnapshotsAdvance
<1> USE SnapshotsAssumption
<1> DEFINE Forward == \A r \in Repos : /\ snap'[r].sha >= snap[r].sha
                                       /\ snap'[r].content >= snap[r].content
<1>1. Snap!TypeOK /\ Bounded /\ [Snap!Next]_(Snap!vars) => [Forward]_(Snap!vars)
  <2> SUFFICES ASSUME Snap!TypeOK, Bounded, [Snap!Next]_(Snap!vars)
               PROVE  Forward
    OBVIOUS
  <2> USE DEF Snap!TypeOK, Bounded, Snap!Snapshot
  <2>1. CASE Snap!Apply
    BY <2>1 DEF Snap!Apply, Snap!Written
  <2>2. CASE ~Snap!Apply
    <3>1. snap' = snap
      BY <2>2 DEF Snap!Next, Snap!Census, Snap!GetTree, Snap!GetFiles, Snap!ReadFails, Snap!Push, Snap!Abort,
                  Snap!Deploy, Snap!vars
    <3> QED BY <3>1
  <2> QED BY <2>1, <2>2
<1> QED BY <1>1, SnapshotsTyped, BoundedInvariant, PTL DEF Snap!Spec, Snap!SnapshotsAdvance

-----------------------------------------------------------------------------
(* What a run holds was the tip of the branch when it read it, and is still *)
(* unless a push came; only that push parts the tree from the files, too.  *)

Held ==
  \A r \in Repos :
    /\ tree[r] <= head[r]
    /\ found[r] \in {"touched", "tree", "fresh"} => tree[r] # 0
    /\ found[r] = "touched" => snap[r].sha = tree[r]
    /\ found[r] = "fresh" => files[r] \in tree[r]..head[r]
    /\ snap[r].sha # snap[r].content => snap[r].sha < head[r]

MissInv == Held /\ Snap!NothingMissed

\* A repository the next run would skip is at its snapshot, or was pushed
\* between its last read and the apply of that run (_collect, _apply).
THEOREM OnlyThoseMissed == SyncSpec => []NothingMissed
<1> USE SnapshotsAssumption
<1>1. Snap!Init => MissInv
  BY DEF Snap!Init, MissInv, Held, Snap!NothingMissed, Snap!NoSnapshot, Snap!Stored, Snap!Unread
<1>2. Snap!TypeOK /\ Snap!TypeOK' /\ MissInv /\ [Snap!Next]_(Snap!vars) => MissInv'
  <2> SUFFICES ASSUME Snap!TypeOK, Snap!TypeOK', MissInv, [Snap!Next]_(Snap!vars)
               PROVE  MissInv'
    OBVIOUS
  <2> USE DEF Snap!TypeOK, Snap!Snapshot, MissInv, Held, Snap!NothingMissed, Snap!AtTip, Snap!Stored
  <2>1. ASSUME NEW listed \in SUBSET Repos, Snap!Census(listed)
        PROVE  MissInv'
    BY <2>1 DEF Snap!Census
  <2>2. ASSUME NEW r \in Repos, Snap!GetTree(r)
        PROVE  MissInv'
    BY <2>2 DEF Snap!GetTree
  <2>3. ASSUME NEW r \in Repos, Snap!GetFiles(r)
        PROVE  MissInv'
    BY <2>3 DEF Snap!GetFiles
  <2>4. ASSUME NEW r \in Repos, Snap!ReadFails(r)
        PROVE  MissInv'
    BY <2>4 DEF Snap!ReadFails
  <2>5. ASSUME NEW r \in Repos, Snap!Push(r)
        PROVE  MissInv'
    BY <2>5 DEF Snap!Push, Snap!runVars
  <2>6. CASE Snap!Apply
    <3>1. ASSUME NEW r \in Repos, Snap!Written(r)
          PROVE  /\ snap'[r].sha = tree[r] /\ snap'[r].content = files[r]
                 /\ r \notin missed' => tree[r] = head[r]
                 /\ tree[r] <= files[r] /\ files[r] <= head[r]
                 /\ tree[r] \in Nat /\ files[r] \in Nat /\ head[r] \in Nat
      <4>1. tree[r] \in Nat /\ files[r] \in Nat /\ head[r] \in Nat
        BY <3>1
      <4>2. tree[r] # 0 /\ tree[r] <= files[r] /\ files[r] <= head[r]
        BY <3>1, <4>1 DEF Snap!Written
      <4>3. r \in missed' <=> tree[r] \in 1..(head[r] - 1)
        BY <2>6, <3>1 DEF Snap!Apply, Snap!Stamped, Snap!Overtaken
      <4>4. snap'[r].sha = tree[r] /\ snap'[r].content = files[r]
        BY <2>6, <3>1 DEF Snap!Apply
      <4> QED BY <4>1, <4>2, <4>3, <4>4
    <3>2. ASSUME NEW r \in Repos, found[r] = "touched"
          PROVE  /\ snap'[r] = snap[r]
                 /\ Snap!Stored(r) /\ ~pushed'[r] /\ r \notin missed' => Snap!AtTip(r)
      <4>1. tree[r] \in Nat /\ head[r] \in Nat /\ snap[r].sha \in Nat
        BY <3>2
      <4>2. tree[r] # 0 /\ tree[r] <= head[r] /\ snap[r].sha = tree[r]
        BY <3>2, <4>1
      <4>3. snap'[r] = snap[r]
        BY <2>6, <3>2 DEF Snap!Apply, Snap!Written
      <4>4. CASE Snap!Stamped(r)
        <5>1. r \in missed' <=> tree[r] \in 1..(head[r] - 1)
          BY <2>6, <4>4 DEF Snap!Apply, Snap!Overtaken
        <5>2. r \notin missed' => snap[r].sha = head[r]
          BY <4>1, <4>2, <5>1
        <5>3. snap[r].sha = head[r] => snap[r].content = snap[r].sha
          BY <4>1
        <5> QED BY <4>3, <5>2, <5>3
      <4>5. CASE ~Snap!Stamped(r)
        <5>1. (r \in missed' <=> r \in missed) /\ pushed'[r] = pushed[r]
          BY <2>6, <4>5 DEF Snap!Apply
        <5> QED BY <4>3, <5>1
      <4> QED BY <4>3, <4>4, <4>5
    <3>3. ASSUME NEW r \in Repos, ~Snap!Written(r), found[r] # "touched"
          PROVE  /\ snap'[r] = snap[r] /\ pushed'[r] = pushed[r]
                 /\ r \in missed' <=> r \in missed
      BY <2>6, <3>3 DEF Snap!Apply, Snap!Written, Snap!Stamped
    <3>4. UNCHANGED head /\ \A r \in Repos : tree'[r] = 0 /\ found'[r] = "unlisted"
      BY <2>6 DEF Snap!Apply, Snap!Over, Snap!Unread
    <3>5. ASSUME NEW r \in Repos
          PROVE  snap'[r].sha # snap'[r].content => snap'[r].sha < head'[r]
      <4>1. CASE Snap!Written(r)
        <5>1. tree[r] # files[r] => tree[r] < head[r]
          BY <3>1, <4>1
        <5> QED BY <3>1, <3>4, <4>1, <5>1
      <4>2. CASE ~Snap!Written(r)
        BY <3>2, <3>3, <3>4, <4>2
      <4> QED BY <4>1, <4>2
    <3>6. ASSUME NEW r \in Repos, Snap!Stored(r)', ~pushed'[r], r \notin missed'
          PROVE  snap'[r].sha = head'[r] /\ snap'[r].content = head'[r]
      <4>1. CASE Snap!Written(r)
        <5>1. tree[r] = head[r] /\ files[r] = head[r]
          BY <3>1, <3>6, <4>1
        <5> QED BY <3>1, <3>4, <4>1, <5>1
      <4>2. CASE found[r] = "touched"
        BY <3>2, <3>4, <3>6, <4>2
      <4>3. CASE ~Snap!Written(r) /\ found[r] # "touched"
        BY <3>3, <3>4, <3>6, <4>3
      <4> QED BY <4>1, <4>2, <4>3
    <3> QED BY <3>4, <3>5, <3>6
  <2>7. CASE Snap!Abort
    BY <2>7 DEF Snap!Abort, Snap!Over, Snap!Unread
  <2>8. CASE Snap!Deploy \/ UNCHANGED Snap!vars
    BY <2>8 DEF Snap!Deploy, Snap!vars, Snap!runVars
  <2> QED BY <2>1, <2>2, <2>3, <2>4, <2>5, <2>6, <2>7, <2>8 DEF Snap!Next
<1> QED BY <1>1, <1>2, SnapshotsTyped, PartSnapshots, PTL DEF Snap!Spec, MissInv, NothingMissed
=============================================================================
