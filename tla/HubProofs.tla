------------------------------ MODULE HubProofs ------------------------------
(* Proofs about the parts of the Hub that import and show reports, load    *)
(* the EA Map, and keep the accounts, for every value of their constants.  *)
EXTENDS Hub, FiniteSetTheorems, TLAPS

----------------------------------------------------------------------------
(* Types *)

LEMMA TypeInit == Init => TypeOK
BY TimesAssumption DEF Init, TypeOK

LEMMA EndTypes ==
  ASSUME TypeOK, NEW w \in Workers, End(w)
  PROVE  /\ pc' \in [Workers -> {"idle", "listed", "collecting", "collected", "locked", "failing"}]
         /\ att' \in [Workers -> 0..MaxTime]
         /\ todo' \in [Workers -> SUBSET Runs]
         /\ got' \in [Workers -> [Runs -> SUBSET Items]]
BY TimesAssumption DEF End, TypeOK

LEMMA ImportedType ==
  ASSUME NEW some \in SUBSET Items
  PROVE  /\ Imported(some) \in ImportStatus
         /\ Imported(some) = "COMPLETE" <=> some = Items
         /\ Imported(some) = "PARTIAL" => some # {}
BY DEF Imported, ImportStatus

LEMMA OutcomeType ==
  ASSUME TypeOK, NEW w \in Workers, NEW lost, NEW r \in todo[w]
  PROVE  Outcome(w, lost)[r] \in ImportStatus
BY ImportedType DEF Outcome, TypeOK, ImportStatus

LEMMA StatusType ==
  ASSUME TypeOK, NEW w \in Workers, NEW failed, NEW error \in BOOLEAN,
         SetStatus(w, failed, error)
  PROVE  status' \in [attempt : 0..MaxTime, success : 0..MaxTime, error : BOOLEAN]
<1>1. Succeeded(w, failed) \in 0..MaxTime
  BY DEF Succeeded, TypeOK
<1> QED BY <1>1 DEF SetStatus, TypeOK

LEMMA TypeStep == TypeOK /\ [Next]_vars => TypeOK'
<1> SUFFICES ASSUME TypeOK, [Next]_vars PROVE TypeOK'
  OBVIOUS
<1> USE DEF syncVars
<1>1. ASSUME NEW w \in Workers, List(w) PROVE TypeOK'
  BY <1>1 DEF List, TypeOK
<1>2. ASSUME NEW w \in Workers, SkipComplete(w) PROVE TypeOK'
  BY <1>2 DEF SkipComplete, TypeOK
<1>3. ASSUME NEW w \in Workers, Collect(w) PROVE TypeOK'
  <2>1. got' \in [Workers -> [Runs -> SUBSET Items]]
    BY <1>3 DEF Collect, TypeOK
  <2>2. pc' \in [Workers -> {"idle", "listed", "collecting", "collected", "locked", "failing"}]
    BY <1>3 DEF Collect, TypeOK
  <2>3. lock # None => pc'[lock] = "locked"
    BY <1>3 DEF Collect, TypeOK
  <2> QED BY <1>3, <2>1, <2>2, <2>3 DEF Collect, TypeOK
<1>4. ASSUME NEW w \in Workers, CollectFails(w) PROVE TypeOK'
  BY <1>4 DEF CollectFails, TypeOK
<1>5. ASSUME NEW w \in Workers, Lock(w) PROVE TypeOK'
  <2>1. todo' \in [Workers -> SUBSET Runs]
    BY <1>5 DEF Lock, StillMissing, TypeOK
  <2> QED BY <1>5, <2>1 DEF Lock, TypeOK
<1>6. ASSUME NEW w \in Workers, Refused(w) PROVE TypeOK'
  <2>1. lock # None => pc'[lock] = "locked"
    BY <1>6 DEF Refused, End, TypeOK
  <2> QED BY <1>6, <2>1, EndTypes DEF Refused, TypeOK
<1>7. ASSUME NEW w \in Workers, Commit(w) PROVE TypeOK'
  <2>1. PICK lost \in SUBSET todo[w] :
          /\ row' = [r \in Runs |->
                CASE r \in Outdated(w, Outcome(w, lost)) -> "none"
                  [] r \in (todo[w] \ lost) \ Outdated(w, Outcome(w, lost))
                       -> Outcome(w, lost)[r]
                  [] OTHER -> row[r]]
          /\ results' = [r \in Runs |->
                CASE r \in Outdated(w, Outcome(w, lost)) -> {}
                  [] r \in (todo[w] \ lost) \ Outdated(w, Outcome(w, lost))
                       -> results[r] \union got[w][r]
                  [] OTHER -> results[r]]
          /\ SetStatus(w, AllFailed(Outcome(w, lost)),
                       \E r \in todo[w] : Outcome(w, lost)[r] # "COMPLETE")
    BY <1>7 DEF Commit
  <2>2. row' \in [Runs -> ImportStatus \union {"none"}]
    BY <2>1, OutcomeType DEF TypeOK
  <2>3. results' \in [Runs -> SUBSET Items]
    BY <2>1 DEF TypeOK
  <2>4. status' \in [attempt : 0..MaxTime, success : 0..MaxTime, error : BOOLEAN]
    BY <2>1, StatusType
  <2> QED BY <1>7, <2>2, <2>3, <2>4, EndTypes DEF Commit, TypeOK
<1>8. ASSUME NEW w \in Workers, TransactionFails(w) PROVE TypeOK'
  BY <1>8 DEF TransactionFails, Released, TypeOK
<1>9. ASSUME NEW w \in Workers, RecordFailure(w) PROVE TypeOK'
  <2>1. lock # None => pc'[lock] = "locked"
    BY <1>9 DEF RecordFailure, End, TypeOK
  <2> QED BY <1>9, <2>1, EndTypes, StatusType DEF RecordFailure, TypeOK
<1>10. ASSUME NEW w \in Workers, Crash(w) PROVE TypeOK'
  <2>1. lock' \in Workers \union {None} /\ (lock' # None => pc'[lock'] = "locked")
    BY <1>10 DEF Crash, Released, End, TypeOK
  <2> QED BY <1>10, <2>1, EndTypes DEF Crash, TypeOK
<1>12. ASSUME NEW r \in Runs, Publish(r) PROVE TypeOK'
  BY <1>12 DEF Publish, TypeOK
<1>13. CASE Tick
  BY <1>13, TimesAssumption DEF Tick, TypeOK
<1>14. CASE UNCHANGED vars
  BY <1>14 DEF vars, TypeOK
<1> QED
  BY <1>1, <1>2, <1>3, <1>4, <1>5, <1>6, <1>7, <1>8, <1>9, <1>10, <1>12,
     <1>13, <1>14
  DEF Next

(* Every row has its type, and the advisory lock always belongs to a       *)
(* transaction that is open, whatever fails (sync_from_source).            *)
THEOREM TypeCorrect == Spec => []TypeOK
BY TypeInit, TypeStep, PTL DEF Spec

----------------------------------------------------------------------------
(* What a commit does to one report: removes it, imports it, or nothing. *)

Removes(w, r) ==
  /\ row[r] # "none" /\ done[r] + Retention < att[w]
  /\ row'[r] = "none" /\ results'[r] = {}
  /\ status'.success = att[w] /\ status'.attempt = att[w]
Imports(w, r) ==
  /\ r \in todo[w]
  /\ row'[r] = Imported(got[w][r]) /\ results'[r] = results[r] \union got[w][r]
  /\ row'[r] # "FAILED" => status'.success = att[w]
Leaves(r) == row'[r] = row[r] /\ results'[r] = results[r]

LEMMA CommitEffect ==
  ASSUME TypeOK, NEW w \in Workers, Commit(w), NEW r \in Runs
  PROVE  Removes(w, r) \/ Imports(w, r) \/ Leaves(r)
<1>1. PICK lost \in SUBSET todo[w] :
        /\ row' = [q \in Runs |->
              CASE q \in Outdated(w, Outcome(w, lost)) -> "none"
                [] q \in (todo[w] \ lost) \ Outdated(w, Outcome(w, lost))
                     -> Outcome(w, lost)[q]
                [] OTHER -> row[q]]
        /\ results' = [q \in Runs |->
              CASE q \in Outdated(w, Outcome(w, lost)) -> {}
                [] q \in (todo[w] \ lost) \ Outdated(w, Outcome(w, lost))
                     -> results[q] \union got[w][q]
                [] OTHER -> results[q]]
        /\ SetStatus(w, AllFailed(Outcome(w, lost)),
                     \E q \in todo[w] : Outcome(w, lost)[q] # "COMPLETE")
  BY DEF Commit
<1> DEFINE fate == Outcome(w, lost)
           removed == Outdated(w, fate)
<1>2. ~AllFailed(fate) => status'.success = att[w] /\ status'.attempt = att[w]
  BY <1>1 DEF SetStatus, Succeeded
<1>3. \A q \in todo[w] \ lost : fate[q] = Imported(got[w][q])
  BY DEF Outcome
<1>4. \A q \in todo[w] : fate[q] # "FAILED" => ~AllFailed(fate)
  BY DEF AllFailed, Outcome
<1> HIDE DEF fate, removed
<1>5. CASE r \in removed
  <2>1. row'[r] = "none" /\ results'[r] = {}
    BY <1>1, <1>5 DEF fate, removed
  <2>2. ~AllFailed(fate) /\ row[r] # "none" /\ done[r] + Retention < att[w]
    BY <1>5 DEF removed, Outdated
  <2> QED BY <2>1, <2>2, <1>2 DEF Removes
<1>6. CASE r \in (todo[w] \ lost) \ removed
  <2>1. row'[r] = fate[r] /\ results'[r] = results[r] \union got[w][r]
    BY <1>1, <1>6 DEF fate, removed
  <2>2. fate[r] = Imported(got[w][r])
    BY <1>3, <1>6
  <2>3. fate[r] # "FAILED" => status'.success = att[w]
    BY <1>2, <1>4, <1>6
  <2> QED BY <2>1, <2>2, <2>3, <1>6 DEF Imports
<1>7. CASE r \notin removed /\ r \notin todo[w] \ lost
  BY <1>1, <1>7 DEF fate, removed, Leaves
<1> QED BY <1>5, <1>6, <1>7

LEMMA OnlyCommitWrites ==
  ASSUME [Next]_vars, ~ \E w \in Workers : Commit(w)
  PROVE  UNCHANGED <<row, results>>
BY DEF Next, List, SkipComplete, Collect, CollectFails, Lock, Refused, TransactionFails,
       RecordFailure, Crash, Publish, Tick, vars, syncVars

----------------------------------------------------------------------------
(* The sync that holds the lock is the only one that writes, so what it    *)
(* has looked up under the lock is still missing when it commits.          *)

LockInv ==
  \A w \in Workers : /\ att[w] <= now
                     /\ pc[w] # "idle" => att[w] # 0
                     /\ pc[w] = "locked" => lock = w /\ todo[w] \intersect Complete = {}

LEMMA LockInit == Init => LockInv
BY DEF Init, LockInv

LEMMA LockStep == TypeOK /\ LockInv /\ [Next]_vars => LockInv'
<1> SUFFICES ASSUME TypeOK, LockInv, [Next]_vars PROVE LockInv'
  OBVIOUS
<1> USE DEF syncVars
<1>0. UNCHANGED row => Complete' = Complete
  BY DEF Complete
<1>1. ASSUME NEW w \in Workers, List(w) PROVE LockInv'
  BY <1>0, <1>1 DEF List, LockInv, TypeOK
<1>2. ASSUME NEW w \in Workers, SkipComplete(w) PROVE LockInv'
  BY <1>0, <1>2 DEF SkipComplete, LockInv, TypeOK
<1>3. ASSUME NEW w \in Workers, Collect(w) PROVE LockInv'
  <2>1. \A v \in Workers : v # w => pc'[v] = pc[v]
    BY <1>3 DEF Collect, TypeOK
  <2>2. pc[w] # "idle" /\ pc'[w] # "locked"
    BY <1>3 DEF Collect, TypeOK
  <2>3. UNCHANGED <<att, now, lock, todo, row>>
    BY <1>3 DEF Collect
  <2> QED BY <1>0, <2>1, <2>2, <2>3 DEF LockInv
<1>4. ASSUME NEW w \in Workers, CollectFails(w) PROVE LockInv'
  BY <1>0, <1>4 DEF CollectFails, LockInv, TypeOK
<1>5. ASSUME NEW w \in Workers, Lock(w) PROVE LockInv'
  <2>1. \A v \in Workers : pc[v] # "locked"
    BY <1>5, NoneAssumption DEF Lock, LockFree, LockInv
  <2> QED BY <1>0, <1>5, <2>1 DEF Lock, StillMissing, LockInv, TypeOK
<1>6. ASSUME NEW w \in Workers, Refused(w) PROVE LockInv'
  BY <1>0, <1>6 DEF Refused, End, LockInv, TypeOK
<1>7. ASSUME NEW w \in Workers, Commit(w) PROVE LockInv'
  <2>1. \A v \in Workers : v # w => pc[v] # "locked"
    BY <1>7 DEF Commit, LockInv
  <2>2. \A v \in Workers : pc'[v] # "locked" /\ (pc'[v] # "idle" => pc[v] # "idle" /\ v # w)
    BY <1>7, <2>1 DEF Commit, End, TypeOK
  <2>3. att' = [att EXCEPT ![w] = 0] /\ UNCHANGED now
    BY <1>7 DEF Commit, End
  <2> QED BY <2>2, <2>3 DEF LockInv, TypeOK
<1>8. ASSUME NEW w \in Workers, TransactionFails(w) PROVE LockInv'
  <2>1. \A v \in Workers : v # w => pc[v] # "locked"
    BY <1>8 DEF TransactionFails, LockInv
  <2> QED BY <1>8, <2>1 DEF TransactionFails, LockInv, TypeOK
<1>9. ASSUME NEW w \in Workers, RecordFailure(w) PROVE LockInv'
  BY <1>0, <1>9 DEF RecordFailure, End, LockInv, TypeOK
<1>10. ASSUME NEW w \in Workers, Crash(w) PROVE LockInv'
  <2>1. \A v \in Workers : v # w /\ pc[v] = "locked" => lock' = v
    BY <1>10 DEF Crash, Released, LockInv
  <2> QED BY <1>0, <1>10, <2>1 DEF Crash, End, LockInv, TypeOK
<1>12. ASSUME NEW r \in Runs, Publish(r) PROVE LockInv'
  BY <1>0, <1>12 DEF Publish, LockInv
<1>13. CASE Tick
  BY <1>0, <1>13 DEF Tick, LockInv, TypeOK
<1>14. CASE UNCHANGED vars
  BY <1>0, <1>14 DEF vars, LockInv
<1> QED
  BY <1>1, <1>2, <1>3, <1>4, <1>5, <1>6, <1>7, <1>8, <1>9, <1>10, <1>12,
     <1>13, <1>14
  DEF Next

LEMMA LockInvariant == Spec => [](TypeOK /\ LockInv)
BY TypeInit, TypeStep, LockInit, LockStep, PTL DEF Spec

(* A complete report is neither imported again nor removed before its      *)
(* time, however many syncs overlap (the second look-up under the lock).   *)
THEOREM CompleteFinal == Spec => CompleteIsFinal
<1> DEFINE Kept(r) == row[r] = "COMPLETE" =>
                        \/ row'[r] = "COMPLETE" /\ results'[r] = results[r]
                        \/ row'[r] = "none" /\ done[r] + Retention < now
           Step == \A r \in Runs : Kept(r)
<1>1. TypeOK /\ LockInv /\ [Next]_vars => [Step]_vars
  <2> SUFFICES ASSUME TypeOK, LockInv, [Next]_vars, NEW r \in Runs, row[r] = "COMPLETE"
               PROVE  \/ row'[r] = "COMPLETE" /\ results'[r] = results[r]
                      \/ row'[r] = "none" /\ done[r] + Retention < now
    OBVIOUS
  <2>1. ASSUME NEW w \in Workers, Commit(w) PROVE Removes(w, r) \/ Leaves(r)
    <3>1. r \notin todo[w]
      BY <2>1 DEF Commit, LockInv, Complete
    <3> QED BY <2>1, <3>1, CommitEffect DEF Imports
  <2>2. ASSUME NEW w \in Workers, Removes(w, r)
        PROVE  row'[r] = "none" /\ done[r] + Retention < now
    BY <2>2, TimesAssumption DEF Removes, LockInv, TypeOK
  <2>3. Leaves(r) => row'[r] = "COMPLETE" /\ results'[r] = results[r]
    BY DEF Leaves
  <2>4. (~ \E w \in Workers : Commit(w)) => Leaves(r)
    BY OnlyCommitWrites DEF Leaves
  <2> QED BY <2>1, <2>2, <2>3, <2>4
<1> QED BY <1>1, LockInvariant, PTL DEF Spec, CompleteIsFinal

(* A complete report holds every result and a partial one some, whatever   *)
(* the attempts that led to it (_persist_run).                             *)
THEOREM StatusMatches == Spec => []StatusMatchesResults
<1>1. Init => StatusMatchesResults
  BY DEF Init, StatusMatchesResults
<1>2. TypeOK /\ StatusMatchesResults /\ [Next]_vars => StatusMatchesResults'
  <2> SUFFICES ASSUME TypeOK, StatusMatchesResults, [Next]_vars, NEW r \in Runs
               PROVE  /\ row'[r] = "COMPLETE" => results'[r] = Items
                      /\ row'[r] = "PARTIAL" => results'[r] # {}
    BY DEF StatusMatchesResults
  <2>1. CASE Leaves(r)
    BY <2>1 DEF Leaves, StatusMatchesResults
  <2>2. ASSUME NEW w \in Workers, Removes(w, r)
        PROVE  row'[r] # "COMPLETE" /\ row'[r] # "PARTIAL"
    BY <2>2 DEF Removes
  <2>3. ASSUME NEW w \in Workers, Imports(w, r)
        PROVE  /\ row'[r] = "COMPLETE" => results'[r] = Items
               /\ row'[r] = "PARTIAL" => results'[r] # {}
    <3>1. got[w][r] \in SUBSET Items /\ results[r] \in SUBSET Items
      BY DEF TypeOK
    <3> QED BY <2>3, <3>1, ImportedType DEF Imports
  <2>4. (~ \E w \in Workers : Commit(w)) => Leaves(r)
    BY OnlyCommitWrites DEF Leaves
  <2> QED BY <2>1, <2>2, <2>3, <2>4, CommitEffect
<1> QED BY <1>1, <1>2, TypeCorrect, PTL DEF Spec

(* No failure removes a report: a sync that removes one records a success  *)
(* (the retention of sync_from_source).                                    *)
THEOREM RemovalsOnSuccess == Spec => RemovedOnSuccess
<1> DEFINE Step == (\E r \in Runs : row[r] # "none" /\ row'[r] = "none")
                     => status'.success # 0 /\ status'.success = status'.attempt
<1>1. TypeOK /\ LockInv /\ [Next]_vars => [Step]_vars
  <2> SUFFICES ASSUME TypeOK, LockInv, [Next]_vars, NEW r \in Runs,
                      row[r] # "none", row'[r] = "none"
               PROVE  status'.success # 0 /\ status'.success = status'.attempt
    OBVIOUS
  <2>1. ~Leaves(r)
    BY DEF Leaves
  <2>2. PICK w \in Workers : Commit(w)
    BY <2>1, OnlyCommitWrites DEF Leaves
  <2>3. ~Imports(w, r)
    <3>1. got[w][r] \in SUBSET Items
      BY DEF TypeOK
    <3> QED BY <3>1, ImportedType DEF Imports, ImportStatus
  <2>4. Removes(w, r)
    BY <2>1, <2>2, <2>3, CommitEffect
  <2>5. att[w] # 0
    BY <2>2 DEF Commit, LockInv
  <2> QED BY <2>4, <2>5 DEF Removes
<1> QED BY <1>1, LockInvariant, PTL DEF Spec, RemovedOnSuccess

(* A report with results implies a recorded success, which no failure      *)
(* clears (_set_sync_status).                                              *)
THEOREM SuccessKnown == Spec => []SuccessRecorded
<1>1. Init => SuccessRecorded
  BY DEF Init, SuccessRecorded
<1>2. TypeOK /\ LockInv /\ SuccessRecorded /\ [Next]_vars => SuccessRecorded'
  <2> SUFFICES ASSUME TypeOK, LockInv, SuccessRecorded, [Next]_vars,
                      NEW r \in Runs, row'[r] \in {"PARTIAL", "COMPLETE"}
               PROVE  status'.success # 0
    BY DEF SuccessRecorded
  <2>1. ASSUME status.success # 0 PROVE status'.success # 0
    <3>1. ASSUME NEW w \in Workers, NEW failed, NEW error, pc[w] # "idle",
                 SetStatus(w, failed, error)
          PROVE  status'.success # 0
      BY <2>1, <3>1 DEF SetStatus, Succeeded, LockInv
    <3>2. ASSUME NEW w \in Workers, Commit(w) PROVE status'.success # 0
      <4>1. PICK failed, error : SetStatus(w, failed, error)
        BY <3>2 DEF Commit
      <4> QED BY <3>1, <3>2, <4>1 DEF Commit
    <3>3. ASSUME NEW w \in Workers, RecordFailure(w) PROVE status'.success # 0
      BY <3>1, <3>3 DEF RecordFailure
    <3>4. \/ \E w \in Workers : Commit(w) \/ RecordFailure(w)
          \/ UNCHANGED status
      BY DEF Next, List, SkipComplete, Collect, CollectFails, Lock, Refused,
             TransactionFails, Crash, Publish, Tick, vars
    <3> QED BY <2>1, <3>2, <3>3, <3>4
  <2>2. CASE Leaves(r)
    BY <2>1, <2>2 DEF Leaves, SuccessRecorded
  <2>3. ASSUME NEW w \in Workers, Commit(w), Imports(w, r) PROVE status'.success # 0
    BY <2>3 DEF Commit, Imports, LockInv
  <2>4. ASSUME NEW w \in Workers, Removes(w, r) PROVE FALSE
    BY <2>4 DEF Removes
  <2>5. (~ \E w \in Workers : Commit(w)) => Leaves(r)
    BY OnlyCommitWrites DEF Leaves
  <2> QED BY <2>2, <2>3, <2>4, <2>5, CommitEffect
<1> QED BY <1>1, <1>2, LockInvariant, PTL DEF Spec


(* Both: what is stored of a report can be told from its status, and that  *)
(* some import has succeeded from the status of the syncs.                 *)
THEOREM ReportsAreHonest == Spec => []ReportsHonest
BY StatusMatches, SuccessKnown, PTL DEF ReportsHonest

----------------------------------------------------------------------------
(* A behaviour of the Hub is one of each part. *)

LEMMA PartPsp == HubSpec => Psp!Spec
<1>1. HubInit => Psp!Init
  BY DEF HubInit
<1>2. [HubNext]_hubVars => [Psp!Next]_(Psp!vars)
  BY DEF HubNext, hubVars, pspVars, Psp!vars, Psp!sync
<1> QED BY <1>1, <1>2, PTL DEF HubSpec, Psp!Spec

LEMMA PartGpd == HubSpec => Gpd!Spec
<1>1. HubInit => Gpd!Init
  BY DEF HubInit
<1>2. [HubNext]_hubVars => [Gpd!Next]_(Gpd!vars)
  BY DEF HubNext, hubVars, gpdVars, Gpd!vars, Gpd!sync
<1> QED BY <1>1, <1>2, PTL DEF HubSpec, Gpd!Spec

LEMMA PartAcc == HubSpec => Acc!Spec
<1>1. HubInit => Acc!Init
  BY DEF HubInit
<1>2. [HubNext]_hubVars => [Acc!Next]_(Acc!vars)
  BY DEF HubNext, hubVars, accVars, Acc!vars
<1> QED BY <1>1, <1>2, PTL DEF HubSpec, Acc!Spec

LEMMA PartLoad == HubSpec => Load!Spec
<1>1. HubInit => Load!Init
  BY DEF HubInit
<1>2. [HubNext]_hubVars => [Load!Next]_(Load!vars)
  BY DEF HubNext, hubVars, loadVars, Load!vars
<1> QED BY <1>1, <1>2, PTL DEF HubSpec, Load!Spec

LEMMA PartPage == HubSpec => Page!Spec
<1>1. HubInit => Page!Init
  BY DEF HubInit
<1>2. [HubNext]_hubVars => [Page!Next]_(Page!vars)
  BY DEF HubNext, hubVars, pageVars, Page!vars
<1> QED BY <1>1, <1>2, PTL DEF HubSpec, Page!Spec

----------------------------------------------------------------------------
(* The catalogue of the PSP fees *)

Batch == [id : Nat, records : Nat]

(* The rows that a sync is about to remove are in the table, no two syncs  *)
(* remove the same one, and batches are numbered as they are committed.    *)
TableInv ==
  /\ table \in SUBSET Batch /\ IsFiniteSet(table)
  /\ batches \in Nat /\ items \in Nat
  /\ pspPc \in [PspSyncs -> {"idle", "fetched", "deleting", "deleted", "ready"}]
  /\ records \in [PspSyncs -> Nat] /\ pspHad \in [PspSyncs -> Nat]
  /\ seen \in [PspSyncs -> SUBSET Batch] /\ gone \in [PspSyncs -> SUBSET Batch]
  /\ \A s \in PspSyncs : gone[s] \subseteq table
  /\ \A s \in PspSyncs : gone[s] # {} => pspPc[s] \in {"deleted", "ready"}
  /\ \A b \in table : b.id <= batches

(* Every batch is of one sync, a sync has one at most, and what it has     *)
(* deleted includes its own.                                               *)
Owned(f) ==
  /\ f \in [table -> PspSyncs]
  /\ \A a, b \in table : f[a] = f[b] => a = b
  /\ \A b \in table : /\ pspPc[f[b]] = "deleting" => b \in seen[f[b]]
                      /\ pspPc[f[b]] \in {"deleted", "ready"} => b \in gone[f[b]]

(* A sync that is about to commit has read the status as it is, or another *)
(* has committed since and its batch stays.                                *)
LastBatch ==
  /\ batches # 0 => \E b \in table : b.id = batches
  /\ \A s \in PspSyncs : pspPc[s] = "ready" =>
       \/ pspHad[s] = items
       \/ \E b \in table : b.id = batches /\ b \notin gone[s]
  /\ Cardinality(table) = 1 => \A b \in table : b.records = items

PspInv == TableInv /\ (\E f : Owned(f)) /\ LastBatch

PspPhases == {"idle", "fetched", "deleting", "deleted", "ready"}

LEMMA PspOver ==
  ASSUME TableInv, NEW s \in PspSyncs, Psp!Over(s)
  PROVE  /\ pspPc' \in [PspSyncs -> {"idle", "fetched", "deleting", "deleted", "ready"}]
         /\ records' \in [PspSyncs -> Nat] /\ pspHad' \in [PspSyncs -> Nat]
         /\ seen' \in [PspSyncs -> SUBSET Batch] /\ gone' \in [PspSyncs -> SUBSET Batch]
         /\ pspPc'[s] = "idle" /\ gone'[s] = {}
         /\ \A o \in PspSyncs : o # s => /\ pspPc'[o] = pspPc[o] /\ gone'[o] = gone[o]
                                         /\ seen'[o] = seen[o] /\ pspHad'[o] = pspHad[o]
BY DEF TableInv, Psp!Over

(* No two syncs remove one batch: a DELETE waits.                          *)
Apart == \A s, o \in PspSyncs : s # o => gone[s] \intersect gone[o] = {}

LEMMA PspInit ==
  ASSUME Psp!Init, PspSyncs # {}
  PROVE  PspInv /\ Apart
<1>1. TableInv /\ Apart
  BY FS_EmptySet DEF Psp!Init, TableInv, Apart, Batch
<1>2. Owned([b \in {} |-> CHOOSE s \in PspSyncs : TRUE])
  BY DEF Psp!Init, Owned
<1>3. LastBatch
  <2>1. Cardinality(table) = 0
    BY FS_EmptySet DEF Psp!Init
  <2> QED BY <2>1 DEF Psp!Init, LastBatch
<1> QED BY <1>1, <1>2, <1>3 DEF PspInv

(* A step that changes neither the table nor what is being removed.        *)
LEMMA PspFrame ==
  ASSUME TableInv, Apart, LastBatch, NEW f, Owned(f),
         UNCHANGED <<table, items, batches>>,
         NEW s \in PspSyncs,
         pspPc' \in [PspSyncs -> PspPhases], records' \in [PspSyncs -> Nat],
         pspHad' \in [PspSyncs -> Nat],
         seen' \in [PspSyncs -> SUBSET Batch], gone' \in [PspSyncs -> SUBSET Batch],
         \A o \in PspSyncs : o # s => /\ pspPc'[o] = pspPc[o] /\ gone'[o] = gone[o]
                                      /\ seen'[o] = seen[o] /\ pspHad'[o] = pspHad[o],
         \/ pspPc'[s] \in {"idle", "fetched"} /\ gone'[s] = {}
         \/ pspPc'[s] = "deleting" /\ gone'[s] = {} /\ seen'[s] = table
         \/ pspPc[s] = "deleted" /\ pspPc'[s] = "ready" /\ gone'[s] = gone[s] /\ pspHad'[s] = items
  PROVE  PspInv' /\ Apart'
<1>1. TableInv'
  BY DEF TableInv, PspPhases
<1>2. Apart'
  BY DEF Apart
<1>3. Owned(f)'
  <2> SUFFICES ASSUME NEW b \in table
               PROVE  /\ pspPc'[f[b]] = "deleting" => b \in seen'[f[b]]
                      /\ pspPc'[f[b]] \in {"deleted", "ready"} => b \in gone'[f[b]]
    BY DEF Owned
  <2>1. f[b] \in PspSyncs
    BY DEF Owned
  <2>2. CASE f[b] # s
    BY <2>1, <2>2 DEF Owned
  <2>3. CASE f[b] = s
    BY <2>1, <2>3 DEF Owned
  <2> QED BY <2>2, <2>3
<1>4. LastBatch'
  BY DEF LastBatch
<1> QED BY <1>1, <1>2, <1>3, <1>4 DEF PspInv

(* The rows of a DELETE that has waited are its own.                       *)
LEMMA PspDeleted ==
  ASSUME TableInv, Apart, LastBatch, NEW f, Owned(f), NEW s \in PspSyncs, Psp!Deleted(s)
  PROVE  PspInv' /\ Apart'
<1>1. /\ UNCHANGED <<table, items, batches, records, seen, pspHad>>
      /\ pspPc[s] = "deleting" /\ \A o \in PspSyncs : seen[s] \intersect gone[o] = {}
      /\ gone' = [gone EXCEPT ![s] = seen[s] \intersect table]
      /\ pspPc' = [pspPc EXCEPT ![s] = "deleted"]
  BY DEF Psp!Deleted
<1>2. TableInv'
  BY <1>1 DEF TableInv
<1>3. Apart'
  BY <1>1 DEF Apart, TableInv
<1>4. Owned(f)'
  BY <1>1 DEF Owned, TableInv
<1>5. LastBatch'
  BY <1>1 DEF LastBatch, TableInv
<1> QED BY <1>2, <1>3, <1>4, <1>5 DEF PspInv

LEMMA PspCommit ==
  ASSUME TableInv, Apart, LastBatch, NEW f, Owned(f), NEW s \in PspSyncs, Psp!Commit(s),
         Psp!Accepted(s)
  PROVE  PspInv' /\ Apart'
<1> DEFINE new == [id |-> batches + 1, records |-> records[s]]
           g == [b \in table' |-> IF b = new THEN s ELSE f[b]]
<1>1. /\ pspPc[s] = "ready" /\ Psp!Over(s)
      /\ table' = (table \ gone[s]) \union {new} /\ batches' = batches + 1
      /\ items' = IF records[s] = pspHad[s] THEN items ELSE records[s]
  BY DEF Psp!Commit, Psp!Replaced, Psp!Counted
<1>2. new \in Batch /\ new.id = batches + 1 /\ new.records = records[s] /\ new \notin table
  BY DEF TableInv, Batch
<1>3. /\ pspPc' \in [PspSyncs -> {"idle", "fetched", "deleting", "deleted", "ready"}]
      /\ records' \in [PspSyncs -> Nat] /\ pspHad' \in [PspSyncs -> Nat]
      /\ seen' \in [PspSyncs -> SUBSET Batch] /\ gone' \in [PspSyncs -> SUBSET Batch]
      /\ pspPc'[s] = "idle" /\ gone'[s] = {}
      /\ \A o \in PspSyncs : o # s => /\ pspPc'[o] = pspPc[o] /\ gone'[o] = gone[o]
                                      /\ seen'[o] = seen[o] /\ pspHad'[o] = pspHad[o]
  BY <1>1, PspOver
<1> HIDE DEF new
<1>4. TableInv'
  <2>1. table' \in SUBSET Batch /\ batches' \in Nat /\ items' \in Nat
    BY <1>1, <1>2 DEF TableInv
  <2>5. IsFiniteSet(table')
    <3>1. IsFiniteSet(table \ gone[s])
      BY FS_Difference DEF TableInv
    <3> QED BY <1>1, <3>1, FS_AddElement
  <2>2. \A o \in PspSyncs : gone'[o] \subseteq table'
    BY <1>1, <1>3 DEF TableInv, Apart
  <2>3. \A b \in table' : b.id <= batches'
    BY <1>1, <1>2 DEF TableInv, Batch
  <2>4. \A o \in PspSyncs : gone'[o] # {} => pspPc'[o] \in {"deleted", "ready"}
    BY <1>3 DEF TableInv
  <2> QED BY <1>3, <2>1, <2>2, <2>3, <2>4, <2>5 DEF TableInv
<1>5. Apart'
  BY <1>3 DEF Apart
<1>6. (\E h : Owned(h))'
  <2>1. \A b \in table' : b # new => /\ b \in table /\ b \notin gone[s] /\ g[b] = f[b]
                                     /\ f[b] \in PspSyncs /\ f[b] # s
    BY <1>1 DEF Owned
  <2>2. new \in table' /\ g[new] = s
    BY <1>1
  <2>3. g \in [table' -> PspSyncs]
    BY <2>1
  <2>4. \A a, b \in table' : g[a] = g[b] => a = b
    BY <2>1, <2>2 DEF Owned
  <2>5. ASSUME NEW b \in table'
        PROVE  /\ pspPc'[g[b]] = "deleting" => b \in seen'[g[b]]
               /\ pspPc'[g[b]] \in {"deleted", "ready"} => b \in gone'[g[b]]
    <3>1. CASE b = new
      BY <1>3, <2>2, <3>1
    <3>2. CASE b # new
      BY <1>3, <2>1, <3>2 DEF Owned
    <3> QED BY <3>1, <3>2
  <2> HIDE DEF g
  <2>6. PICK h : h = g
    OBVIOUS
  <2>7. Owned(h)'
    BY <2>3, <2>4, <2>5, <2>6 DEF Owned
  <2> QED BY <2>7
<1>7. LastBatch'
  <2>1. new \in table' /\ new.id = batches'
    BY <1>1, <1>2
  <2>2. \A o \in PspSyncs : new \notin gone'[o]
    BY <1>2, <1>3 DEF TableInv
  <2>3. ASSUME Cardinality(table') = 1, NEW b \in table' PROVE b.records = items'
    <3>1. PICK x : table' = {x}
      BY <1>4, <2>3, FS_Singleton DEF TableInv
    <3>2. b = new /\ table \subseteq gone[s]
      BY <1>1, <2>1, <2>3, <3>1, <1>2
    <3>3. pspHad[s] = items
      BY <1>1, <3>2 DEF LastBatch
    <3> QED BY <1>1, <1>2, <3>2, <3>3
  <2> QED BY <2>1, <2>2, <2>3 DEF LastBatch
<1> QED BY <1>4, <1>5, <1>6, <1>7 DEF PspInv

LEMMA PspStep ==
  ASSUME source \in DOMAIN Catalogs, PspInv, Apart, [Psp!Next]_pspVars
  PROVE  source' \in DOMAIN Catalogs /\ PspInv' /\ Apart'
<1>1. PICK f : Owned(f)
  BY DEF PspInv
<1>2. TableInv /\ LastBatch
  BY DEF PspInv
<1>3. CASE UNCHANGED pspVars
  <2>1. TableInv' /\ LastBatch' /\ Apart' /\ Owned(f)'
    BY <1>1, <1>2, <1>3 DEF TableInv, LastBatch, Apart, Owned, pspVars
  <2> QED BY <1>3, <2>1 DEF PspInv, pspVars
<1>4. ASSUME NEW v \in DOMAIN Catalogs, Psp!Publish(v)
      PROVE  source' \in DOMAIN Catalogs /\ PspInv' /\ Apart'
  <2>1. TableInv' /\ LastBatch' /\ Apart' /\ Owned(f)'
    BY <1>1, <1>2, <1>4 DEF TableInv, LastBatch, Apart, Owned, Psp!Publish, Psp!sync
  <2> QED BY <1>4, <2>1 DEF PspInv, Psp!Publish
<1>5. ASSUME NEW s \in PspSyncs, Psp!Fetch(s)
      PROVE  source' \in DOMAIN Catalogs /\ PspInv' /\ Apart'
  <2>1. UNCHANGED <<source, table, items, batches, seen, gone, pspHad>> /\ pspPc[s] = "idle"
    BY <1>5 DEF Psp!Fetch
  <2>2. /\ pspPc' = [pspPc EXCEPT ![s] = "fetched"]
        /\ records' = [records EXCEPT ![s] = Catalogs[source]] /\ Catalogs[source] \in Nat
    BY <1>5, CatalogAssumption DEF Psp!Fetch
  <2>3. gone[s] = {}
    BY <1>2, <2>1 DEF TableInv
  <2> QED BY <1>1, <1>2, <2>1, <2>2, <2>3, PspFrame DEF TableInv, PspPhases
<1>6. ASSUME NEW s \in PspSyncs, Psp!Delete(s)
      PROVE  source' \in DOMAIN Catalogs /\ PspInv' /\ Apart'
  <2>1. /\ UNCHANGED <<source, table, items, batches, records, gone, pspHad>> /\ pspPc[s] = "fetched"
        /\ pspPc' = [pspPc EXCEPT ![s] = "deleting"] /\ seen' = [seen EXCEPT ![s] = table]
    BY <1>6 DEF Psp!Delete
  <2>2. gone[s] = {}
    BY <1>2, <2>1 DEF TableInv
  <2> QED BY <1>1, <1>2, <2>1, <2>2, PspFrame DEF TableInv, PspPhases
<1>7. ASSUME NEW s \in PspSyncs, Psp!Deleted(s)
      PROVE  source' \in DOMAIN Catalogs /\ PspInv' /\ Apart'
  BY <1>1, <1>2, <1>7, PspDeleted DEF Psp!Deleted
<1>8. ASSUME NEW s \in PspSyncs, Psp!ReadStatus(s)
      PROVE  source' \in DOMAIN Catalogs /\ PspInv' /\ Apart'
  <2>1. /\ UNCHANGED <<source, table, items, batches, records, seen, gone>> /\ pspPc[s] = "deleted"
        /\ pspPc' = [pspPc EXCEPT ![s] = "ready"] /\ pspHad' = [pspHad EXCEPT ![s] = items]
    BY <1>8 DEF Psp!ReadStatus
  <2> QED BY <1>1, <1>2, <2>1, PspFrame DEF TableInv, PspPhases
<1>9. ASSUME NEW s \in PspSyncs, Psp!Over(s), UNCHANGED <<source, table, items, batches>>
      PROVE  source' \in DOMAIN Catalogs /\ PspInv' /\ Apart'
  BY <1>1, <1>2, <1>9, PspOver, PspFrame DEF PspPhases
<1>10. ASSUME NEW s \in PspSyncs, Psp!Commit(s)
       PROVE  source' \in DOMAIN Catalogs /\ PspInv' /\ Apart'
  <2>1. CASE Psp!Accepted(s)
    BY <1>1, <1>2, <1>10, <2>1, PspCommit DEF Psp!Commit
  <2>2. CASE ~Psp!Accepted(s)
    BY <1>9, <1>10, <2>2 DEF Psp!Commit
  <2> QED BY <2>1, <2>2
<1>11. ASSUME NEW s \in PspSyncs, Psp!Stop(s)
       PROVE  source' \in DOMAIN Catalogs /\ PspInv' /\ Apart'
  BY <1>9, <1>11 DEF Psp!Stop, Psp!Undone
<1> QED BY <1>3, <1>4, <1>5, <1>6, <1>7, <1>8, <1>10, <1>11 DEF Psp!Next

LEMMA PspServed ==
  ASSUME PspInv
  PROVE  CatalogueServed
<1>1. PICK f : Owned(f)
  BY DEF PspInv
<1>2. f \in Injection(table, PspSyncs)
  BY <1>1 DEF Owned, Injection, IsInjective
<1>3. Cardinality(table) <= Cardinality(PspSyncs)
  BY <1>2, FS_Injection, CatalogAssumption
<1>4. \A S : Psp!Cardinality(S) = Cardinality(S)
  BY Zenon DEF Psp!Cardinality, Cardinality
<1> QED BY <1>3, <1>4 DEF PspInv, LastBatch, CatalogueServed, Psp!CatalogueServed

(* Whatever fails and however syncs overlap, the catalogue of the last     *)
(* sync that succeeded is in the table, whole, there are at most as many   *)
(* catalogues as syncs, and a catalogue that is alone has as many records  *)
(* as the status says (psp_fee.py): for any number of syncs and any        *)
(* catalogues.                                                             *)
THEOREM CatalogueKept == HubSpec => []CatalogueServed
<1> DEFINE Inv == source \in DOMAIN Catalogs /\ PspInv /\ Apart
<1>1. Psp!Init => Inv
  BY PspInit, CatalogAssumption DEF Psp!Init
<1>2. Inv /\ [Psp!Next]_(Psp!vars) => Inv'
  BY PspStep DEF pspVars, Psp!vars, Psp!sync
<1>3. Inv => CatalogueServed
  BY PspServed
<1> HIDE DEF Inv
<1> QED BY <1>1, <1>2, <1>3, PartPsp, PTL DEF Psp!Spec

----------------------------------------------------------------------------
(* The snapshots of the GPD positions *)

(* The runs that a listing would show. *)
Newest == {r \in ended : Cardinality({q \in ended : q > r}) < PerPage}
Settled == (Newest \intersect Reported) \ late

GpdTyped ==
  /\ ended \subseteq 1..Last /\ snaps \subseteq ended /\ late \subseteq ended
  /\ gpdPc \in [GpdSyncs -> {"idle", "known", "listed", "collected", "ready"}]
  /\ known \in [GpdSyncs -> SUBSET snaps]
  /\ page \in [GpdSyncs -> SUBSET ended]
  /\ gpdNew \in [GpdSyncs -> SUBSET ended]
  /\ \A s \in GpdSyncs : gpdPc[s] \in {"idle", "known"} => page[s] = {}
  /\ \A s \in GpdSyncs : gpdPc[s] \notin {"collected", "ready"} => gpdNew[s] = {}

(* A report may be left out if it is older than every snapshot and too old *)
(* for a first sync.                                                       *)
Old(r) == \E u \in ended : r <= u /\ Gpd!TooOld(u)
Behind(r) == Old(r) /\ \A q \in snaps : q >= r
Spared(r) == r \in snaps \/ r \in missed \/ Behind(r)

(* What was written before a snapshot is there, or is spared. *)
Whole == \A r \in Settled, t \in snaps : r < t => Spared(r)

(* So it is for what a sync has listed and what it knew. *)
Seen(s) ==
  /\ \A r \in (page[s] \intersect Reported) \ late, t \in known[s] : r < t => Spared(r)
  /\ \A r \in Settled, t \in page[s] : r < t => r \in page[s]
  /\ \A q \in page[s], t \in known[s] : q < t => t \in page[s]

(* What a sync adds is all that is newer than where it stopped. *)
Collects(s) ==
  gpdPc[s] \in {"collected", "ready"} =>
    \E stops \in SUBSET page[s] :
      /\ page[s] \intersect known[s] \subseteq stops
      /\ stops \subseteq known[s] \/ (known[s] = {} /\ \A u \in stops : Gpd!TooOld(u))
      /\ gpdNew[s] = {r \in page[s] \intersect Reported : \A u \in stops : u < r}

GpdInv == GpdTyped /\ Whole /\ \A s \in GpdSyncs : Seen(s) /\ Collects(s)

LEMMA SameCardinality == \A S : Gpd!Cardinality(S) = Cardinality(S)
BY Zenon DEF Gpd!Cardinality, Cardinality

(* A listing shows what is newer than what it shows, and a run leaves it   *)
(* for good.                                                               *)
LEMMA NewestKept ==
  ASSUME ended \subseteq 1..Last, NEW more \in SUBSET (1..Last), ended \subseteq more,
         NEW r \in ended, NEW t \in ended, r <= t,
         Cardinality({q \in more : q > r}) < PerPage
  PROVE  t \in Newest
<1>1. IsFiniteSet({q \in more : q > r})
  <2>1. IsFiniteSet(1..Last)
    BY FS_Interval, LogAssumption
  <2> QED BY <2>1, FS_Subset
<1>2. {q \in ended : q > t} \subseteq {q \in more : q > r}
  <2> SUFFICES ASSUME NEW q \in ended, q > t PROVE q \in more /\ q > r
    OBVIOUS
  <2>1. q \in 1..Last /\ r \in 1..Last /\ t \in 1..Last /\ Last \in Nat
    BY LogAssumption
  <2> QED BY <2>1
<1>3. /\ Cardinality({q \in ended : q > t}) <= Cardinality({q \in more : q > r})
      /\ IsFiniteSet({q \in ended : q > t})
  BY <1>1, <1>2, FS_Subset
<1>4. Cardinality({q \in ended : q > t}) \in Nat /\ Cardinality({q \in more : q > r}) \in Nat
  BY <1>1, <1>3, FS_CardinalityType
<1> QED BY <1>3, <1>4, LogAssumption DEF Newest

LEMMA GpdStart == Gpd!Init => GpdInv
BY DEF Gpd!Init, GpdInv, GpdTyped, Whole, Seen, Collects, Settled, Newest

(* What is too old stays so, and what is spared while nothing is stored.   *)
LEMMA OldStays ==
  ASSUME ended \subseteq ended', NEW r
  PROVE  (Gpd!TooOld(r) => Gpd!TooOld(r)') /\ (Old(r) => Old(r)')
BY DEF Old, Gpd!TooOld

LEMMA SparedKept ==
  ASSUME UNCHANGED <<ended, late, snaps, missed>>
  PROVE  \A r : Spared(r)' = Spared(r) /\ Gpd!TooOld(r)' = Gpd!TooOld(r)
<1>1. \A r : Gpd!TooOld(r)' = Gpd!TooOld(r)
  BY DEF Gpd!TooOld
<1>2. \A r : Old(r)' = Old(r)
  BY <1>1 DEF Old
<1> QED BY <1>1, <1>2 DEF Spared, Behind

(* A sync that ends, or whose step leaves the snapshots as they are.       *)
LEMMA GpdFrame ==
  ASSUME GpdInv, UNCHANGED <<ended, late, snaps, missed>>, NEW s \in GpdSyncs,
         GpdTyped', Seen(s)', Collects(s)',
         \A o \in GpdSyncs : o # s => /\ gpdPc'[o] = gpdPc[o] /\ known'[o] = known[o]
                                      /\ page'[o] = page[o] /\ gpdNew'[o] = gpdNew[o]
  PROVE  GpdInv'
<1>0. /\ Settled' = Settled /\ \A r : Spared(r)' = Spared(r)
      /\ \A r : Gpd!TooOld(r)' = Gpd!TooOld(r)
  BY SparedKept DEF Settled, Newest
<1>1. Whole'
  BY <1>0 DEF GpdInv, Whole
<1>2. ASSUME NEW o \in GpdSyncs, o # s PROVE Seen(o)' /\ Collects(o)'
  <2>1. Seen(o) /\ Collects(o)
    BY DEF GpdInv
  <2>2. Seen(o)'
    BY <1>0, <1>2, <2>1 DEF Seen
  <2>3. Collects(o)'
    BY <1>0, <1>2, <2>1 DEF Collects
  <2> QED BY <2>2, <2>3
<1> QED BY <1>1, <1>2 DEF GpdInv

LEMMA GpdOver ==
  ASSUME GpdInv, NEW s \in GpdSyncs, Gpd!Over(s), UNCHANGED <<ended, late, snaps, missed>>
  PROVE  GpdInv'
<1>1. /\ gpdPc' = [gpdPc EXCEPT ![s] = "idle"]
      /\ known' = [known EXCEPT ![s] = {}] /\ page' = [page EXCEPT ![s] = {}]
      /\ gpdNew' = [gpdNew EXCEPT ![s] = {}]
  BY DEF Gpd!Over
<1>2. GpdTyped'
  BY <1>1 DEF GpdInv, GpdTyped
<1>3. Seen(s)' /\ Collects(s)'
  BY <1>1 DEF GpdInv, GpdTyped, Seen, Collects
<1>4. \A o \in GpdSyncs : o # s => /\ gpdPc'[o] = gpdPc[o] /\ known'[o] = known[o]
                                   /\ page'[o] = page[o] /\ gpdNew'[o] = gpdNew[o]
  BY <1>1 DEF GpdInv, GpdTyped
<1> QED BY <1>2, <1>3, <1>4, GpdFrame

(* A run succeeds: behind none, or late. *)
LEMMA GpdSucceed ==
  ASSUME GpdInv, NEW r \in 1..Last, Gpd!Succeed(r)
  PROVE  GpdInv'
<1>1. /\ r \notin ended /\ ended' = ended \union {r}
      /\ late' = late \union {q \in {r} : \E p \in ended : q < p}
      /\ UNCHANGED <<snaps, missed, gpdPc, known, page, gpdNew>>
  BY DEF Gpd!Succeed, Gpd!sync
<1>2. GpdTyped'
  BY <1>1 DEF GpdInv, GpdTyped
<1>3. ASSUME NEW x \in Settled', NEW t \in ended, x < t
      PROVE  x \in Settled
  <2>1. x \in ended' /\ x \in Reported /\ x \notin late /\ x \notin late'
    BY <1>1, <1>3 DEF Settled, Newest
  <2>2. x \in ended
    BY <1>1, <1>3, <2>1
  <2>3. Cardinality({q \in ended' : q > x}) < PerPage
    BY <1>3 DEF Settled, Newest
  <2>4. x \in Newest
    <3>1. ended \subseteq 1..Last /\ ended' \in SUBSET (1..Last) /\ ended \subseteq ended' /\ x <= x
      BY <1>1, <2>2, LogAssumption DEF GpdInv, GpdTyped
    <3> QED BY <2>2, <2>3, <3>1, NewestKept
  <2> QED BY <2>1, <2>4 DEF Settled
<1>6. \A x : (Gpd!TooOld(x) => Gpd!TooOld(x)') /\ (Spared(x) => Spared(x)')
  BY <1>1, OldStays DEF Spared, Behind
<1>4. Whole'
  BY <1>1, <1>3, <1>6 DEF GpdInv, GpdTyped, Whole
<1>5. ASSUME NEW s \in GpdSyncs PROVE Seen(s)' /\ Collects(s)'
  <2>1. Seen(s) /\ Collects(s)
    BY DEF GpdInv
  <2>2. Seen(s)'
    <3>1. page[s] \subseteq ended /\ known[s] \subseteq snaps /\ late \subseteq late'
      BY <1>1 DEF GpdInv, GpdTyped
    <3> QED BY <1>1, <1>3, <1>6, <2>1, <3>1 DEF Seen
  <2>3. Collects(s)'
    <3> SUFFICES ASSUME gpdPc[s] \in {"collected", "ready"} PROVE Collects(s)'
      BY <1>1 DEF Collects
    <3>1. PICK stops \in SUBSET page[s] :
            /\ page[s] \intersect known[s] \subseteq stops
            /\ stops \subseteq known[s] \/ (known[s] = {} /\ \A u \in stops : Gpd!TooOld(u))
            /\ gpdNew[s] = {x \in page[s] \intersect Reported : \A u \in stops : u < x}
      BY <2>1 DEF Collects
    <3>2. stops \subseteq known[s] \/ (known[s] = {} /\ \A u \in stops : Gpd!TooOld(u)')
      BY <1>6, <3>1
    <3> QED BY <1>1, <3>1, <3>2 DEF Collects
  <2> QED BY <2>2, <2>3
<1> QED BY <1>2, <1>4, <1>5 DEF GpdInv

(* The steps of a sync before its commit. *)
LEMMA GpdReadKnown ==
  ASSUME GpdInv, NEW s \in GpdSyncs, Gpd!ReadKnown(s)
  PROVE  GpdInv'
<1>1. /\ gpdPc[s] = "idle" /\ known' = [known EXCEPT ![s] = snaps]
      /\ gpdPc' = [gpdPc EXCEPT ![s] = "known"]
      /\ UNCHANGED <<ended, late, snaps, missed, page, gpdNew>>
  BY DEF Gpd!ReadKnown
<1>2. GpdTyped'
  BY <1>1 DEF GpdInv, GpdTyped
<1>3. page[s] = {}
  BY <1>1 DEF GpdInv, GpdTyped
<1>4. Seen(s)' /\ Collects(s)'
  BY <1>1, <1>3 DEF GpdInv, GpdTyped, Seen, Collects
<1>5. \A o \in GpdSyncs : o # s => /\ gpdPc'[o] = gpdPc[o] /\ known'[o] = known[o]
                                   /\ page'[o] = page[o] /\ gpdNew'[o] = gpdNew[o]
  BY <1>1 DEF GpdInv, GpdTyped
<1> QED BY <1>1, <1>2, <1>4, <1>5, GpdFrame

LEMMA GpdList ==
  ASSUME GpdInv, NEW s \in GpdSyncs, Gpd!List(s)
  PROVE  GpdInv'
<1>1. /\ gpdPc[s] = "known" /\ page' = [page EXCEPT ![s] = Newest]
      /\ gpdPc' = [gpdPc EXCEPT ![s] = "listed"]
      /\ UNCHANGED <<ended, late, snaps, missed, known, gpdNew>>
  BY SameCardinality DEF Gpd!List, Newest
<1>2. Newest \subseteq ended
  BY DEF Newest
<1>3. GpdTyped'
  BY <1>1, <1>2 DEF GpdInv, GpdTyped
<1>4. page'[s] = Newest /\ gpdPc'[s] = "listed"
  BY <1>1 DEF GpdInv, GpdTyped
<1>5. Seen(s)'
  <2>2. ASSUME NEW r \in (Newest \intersect Reported) \ late, NEW t \in known[s], r < t
        PROVE  Spared(r)
    BY <2>2 DEF GpdInv, GpdTyped, Whole, Settled
  <2>3. ASSUME NEW q \in Newest, NEW t \in known[s], q < t PROVE t \in Newest
    <3>1. ended \subseteq 1..Last /\ t \in ended /\ q \in ended /\ q <= t
      BY <1>2, <2>3, LogAssumption DEF GpdInv, GpdTyped
    <3>2. Cardinality({x \in ended : x > q}) < PerPage
      BY DEF Newest
    <3> QED BY <3>1, <3>2, NewestKept
  <2>4. Settled' = Settled /\ Settled \subseteq Newest
    BY <1>1 DEF Settled, Newest
  <2>5. \A r \in (page'[s] \intersect Reported) \ late', t \in known'[s] : r < t => Spared(r)'
    <3>1. \A r : Spared(r)' = Spared(r)
      BY <1>1, SparedKept
    <3> QED BY <1>1, <1>4, <2>2, <3>1
  <2>6. \A r \in Settled', t \in page'[s] : r < t => r \in page'[s]
    BY <1>4, <2>4
  <2>7. \A q \in page'[s], t \in known'[s] : q < t => t \in page'[s]
    BY <1>1, <1>4, <2>3
  <2> QED BY <2>5, <2>6, <2>7 DEF Seen
<1>6. Collects(s)'
  BY <1>4 DEF Collects
<1>7. \A o \in GpdSyncs : o # s => /\ gpdPc'[o] = gpdPc[o] /\ known'[o] = known[o]
                                   /\ page'[o] = page[o] /\ gpdNew'[o] = gpdNew[o]
  BY <1>1 DEF GpdInv, GpdTyped
<1> QED BY <1>1, <1>3, <1>5, <1>6, <1>7, GpdFrame

(* The walk stops where it knows a run or, in a first sync, where runs are *)
(* too old; every log on the way was read.                                 *)
LEMMA GpdReadLogs ==
  ASSUME GpdInv, NEW s \in GpdSyncs, Gpd!ReadLogs(s)
  PROVE  GpdInv'
<1>1. gpdPc[s] = "listed" /\ UNCHANGED <<ended, late, snaps, missed>>
  BY DEF Gpd!ReadLogs
<1>2. CASE Gpd!Over(s)
  BY <1>1, <1>2, GpdOver
<1>3. ASSUME NEW failing \in SUBSET Unread, ~Gpd!Fails(s, failing),
             gpdNew' = [gpdNew EXCEPT ![s] = Gpd!Collected(s, failing)],
             gpdPc' = [gpdPc EXCEPT ![s] = "collected"],
             UNCHANGED <<known, page>>
      PROVE  GpdInv'
  <2> DEFINE stops == {r \in page[s] : r \in known[s] \/ (known[s] = {} /\ Gpd!TooOld(r))}
  <2>1. Gpd!Collected(s, failing) = {r \in page[s] \intersect Reported : \A u \in stops : u < r}
    <3>1. Gpd!Walked(s) = {r \in page[s] : \A u \in stops : u < r}
      BY DEF Gpd!Walked
    <3>2. Gpd!Walked(s) \intersect failing = {}
      BY <1>3 DEF Gpd!Fails
    <3> HIDE DEF stops
    <3> QED BY <3>1, <3>2 DEF Gpd!Collected
  <2>2. GpdTyped'
    <3> HIDE DEF stops
    <3>1. Gpd!Collected(s, failing) \subseteq ended
      BY <2>1 DEF GpdInv, GpdTyped
    <3> QED BY <1>1, <1>3, <3>1 DEF GpdInv, GpdTyped
  <2>3. Seen(s)'
    <3>1. Seen(s) /\ gpdPc[s] # "idle"
      BY <1>1 DEF GpdInv
    <3>2. Settled' = Settled /\ \A r : Spared(r)' = Spared(r)
      BY <1>1, SparedKept DEF Settled, Newest
    <3> QED BY <1>1, <1>3, <3>1, <3>2 DEF Seen
  <2>4. stops \subseteq known[s] \/ (known[s] = {} /\ \A u \in stops : Gpd!TooOld(u))
    OBVIOUS
  <2>5. Collects(s)'
    <3>1. stops \in SUBSET page[s] /\ page[s] \intersect known[s] \subseteq stops
      OBVIOUS
    <3> HIDE DEF stops
    <3>2. gpdNew'[s] = {r \in page[s] \intersect Reported : \A u \in stops : u < r}
      BY <1>3, <2>1 DEF GpdInv, GpdTyped
    <3>3. \A u : Gpd!TooOld(u)' = Gpd!TooOld(u)
      BY <1>1, SparedKept
    <3> QED BY <1>3, <2>4, <3>1, <3>2, <3>3 DEF Collects
  <2>6. \A o \in GpdSyncs : o # s => /\ gpdPc'[o] = gpdPc[o] /\ known'[o] = known[o]
                                     /\ page'[o] = page[o] /\ gpdNew'[o] = gpdNew[o]
    BY <1>3 DEF GpdInv, GpdTyped
  <2> QED BY <1>1, <2>2, <2>3, <2>5, <2>6, GpdFrame
<1> QED BY <1>2, <1>3 DEF Gpd!ReadLogs

LEMMA GpdReadStatus ==
  ASSUME GpdInv, NEW s \in GpdSyncs, Gpd!ReadStatus(s)
  PROVE  GpdInv'
<1>1. /\ gpdPc[s] = "collected"
      /\ gpdPc' = [gpdPc EXCEPT ![s] = "ready"]
      /\ UNCHANGED <<ended, late, snaps, missed, known, page, gpdNew>>
  BY DEF Gpd!ReadStatus
<1>2. GpdTyped'
  BY <1>1 DEF GpdInv, GpdTyped
<1>3. Seen(s)' /\ Collects(s)'
  <2>1. Seen(s) /\ Collects(s)
    BY DEF GpdInv
  <2>2. Settled' = Settled /\ \A r : Spared(r)' = Spared(r) /\ Gpd!TooOld(r)' = Gpd!TooOld(r)
    BY <1>1, SparedKept DEF Settled, Newest
  <2> QED BY <1>1, <2>1, <2>2 DEF Seen, Collects
<1>4. \A o \in GpdSyncs : o # s => /\ gpdPc'[o] = gpdPc[o] /\ known'[o] = known[o]
                                   /\ page'[o] = page[o] /\ gpdNew'[o] = gpdNew[o]
  BY <1>1 DEF GpdInv, GpdTyped
<1> QED BY <1>1, <1>2, <1>3, <1>4, GpdFrame

(* What a sync adds leaves no hole, nor does it make one. *)
LEMMA GpdCommit ==
  ASSUME GpdInv, NEW s \in GpdSyncs, Gpd!Commit(s), Gpd!Accepted(s)
  PROVE  GpdInv' /\ \A r \in (page[s] \intersect Reported) \ (late \union missed') : (\E q \in snaps' : q < r) => r \in snaps'
<1>1. /\ gpdPc[s] = "ready" /\ snaps' = snaps \union gpdNew[s] /\ UNCHANGED <<ended, late>>
      /\ gpdPc' = [gpdPc EXCEPT ![s] = "idle"]
      /\ known' = [known EXCEPT ![s] = {}] /\ page' = [page EXCEPT ![s] = {}]
      /\ gpdNew' = [gpdNew EXCEPT ![s] = {}]
  BY DEF Gpd!Commit, Gpd!Over
<1>2. Seen(s) /\ Collects(s) /\ missed' = missed \union Gpd!LeftBehind(s)
  BY DEF GpdInv, Gpd!Commit
<1>3. PICK stops \in SUBSET page[s] :
        /\ page[s] \intersect known[s] \subseteq stops
        /\ stops \subseteq known[s] \/ (known[s] = {} /\ \A u \in stops : Gpd!TooOld(u))
        /\ gpdNew[s] = {r \in page[s] \intersect Reported : \A u \in stops : u < r}
  BY <1>1, <1>2 DEF Collects
<1>4. /\ known[s] \subseteq snaps /\ page[s] \subseteq ended /\ snaps \subseteq ended
      /\ ended \subseteq Int
  BY DEF GpdInv, GpdTyped
<1>5. /\ \A r : (Gpd!TooOld(r)' = Gpd!TooOld(r)) /\ (Old(r)' = Old(r))
      /\ Settled' = Settled /\ Settled \subseteq ((ended \intersect Reported) \ late)
  BY <1>1 DEF Gpd!TooOld, Old, Settled, Newest
(* A first sync beside others leaves behind all that is too old.           *)
<1>6. ASSUME known[s] = {}, snaps # {}, NEW r \in ended, Old(r), r \notin snaps'
      PROVE  r \in missed'
  BY <1>1, <1>2, <1>6 DEF Gpd!LeftBehind, Old
(* What it adds is not older than what is behind the others.               *)
<1>7. ASSUME NEW r \in ended, Behind(r), r \notin snaps', r \notin missed', snaps # {}, NEW q \in gpdNew[s]
      PROVE  q >= r
  <2>1. PICK k \in known[s] : TRUE
    BY <1>6, <1>7 DEF Behind
  <2>2. k >= r /\ q \in page[s] /\ q \in Int /\ k \in Int /\ r \in Int
    BY <1>3, <1>4, <1>7, <2>1 DEF Behind
  <2>3. CASE q < k
    <3>1. k \in stops
      BY <1>2, <1>3, <2>1, <2>2, <2>3 DEF Seen
    <3>2. k < q
      BY <1>3, <3>1
    <3> QED BY <2>2, <2>3, <3>2
  <2>4. CASE ~(q < k)
    BY <2>2, <2>4
  <2> QED BY <2>3, <2>4
<1>8. ASSUME NEW r \in ended, Spared(r), snaps # {} PROVE Spared(r)'
  <2> SUFFICES ASSUME r \notin snaps', r \notin missed' PROVE Old(r) /\ \A q \in snaps' : q >= r
    BY <1>5 DEF Spared, Behind
  <2>1. Behind(r)
    BY <1>1, <1>2, <1>8 DEF Spared
  <2>2. \A q \in gpdNew[s] : q >= r
    BY <1>7, <1>8, <2>1
  <2> QED BY <1>1, <2>1, <2>2 DEF Behind
(* What is listed and was not collected is older than all that is added.   *)
<1>9. ASSUME NEW r \in (page[s] \intersect Reported) \ late, r \notin snaps', r \notin missed'
      PROVE  Old(r) /\ (\A q \in snaps' : q >= r)
  <2>1. PICK u \in stops : ~(u < r)
    BY <1>1, <1>3, <1>9
  <2>2. u >= r /\ u \in page[s] /\ u \in Int /\ r \in Int /\ r \in ended
    <3>1. u \in page[s] /\ u \in Int /\ r \in Int
      BY <1>4, <1>9
    <3> QED BY <1>4, <1>9, <2>1, <3>1
  <2>3. CASE u \in known[s]
    <3>1. r < u
      <4>1. r # u
        BY <1>1, <1>4, <1>9, <2>3
      <4> QED BY <2>2, <4>1
    <3>2. Spared(r) /\ snaps # {}
      BY <1>2, <1>4, <1>9, <2>3, <3>1 DEF Seen
    <3>3. Spared(r)'
      BY <1>8, <2>2, <3>2
    <3> QED BY <1>5, <1>9, <3>3 DEF Spared, Behind
  <2>4. CASE u \notin known[s]
    <3>1. known[s] = {} /\ Gpd!TooOld(u)
      BY <1>3, <2>1, <2>4
    <3>2. Old(r)
      <4>1. u \in ended /\ r <= u
        BY <1>4, <2>2
      <4> QED BY <3>1, <4>1 DEF Old
    <3>3. snaps = {}
      BY <1>6, <1>9, <2>2, <3>1, <3>2
    <3>4. ASSUME NEW q \in snaps' PROVE q >= r
      <4>1. q \in Int /\ u < q
        BY <1>1, <1>3, <1>4, <3>3
      <4> QED BY <2>2, <4>1
    <3> QED BY <3>2, <3>4
  <2> QED BY <2>3, <2>4
<1>10. \A r \in (page[s] \intersect Reported) \ late : Spared(r)'
  BY <1>5, <1>9 DEF Spared, Behind
<1>11. GpdTyped'
  BY <1>1, <1>3, <1>4 DEF GpdInv, GpdTyped
<1>12. Whole'
  <2> SUFFICES ASSUME NEW r \in Settled, NEW t \in snaps', r < t PROVE Spared(r)'
    BY <1>5 DEF Whole
  <2>1. CASE t \in gpdNew[s]
    <3>1. t \in page[s]
      BY <1>3, <2>1
    <3>2. r \in page[s]
      BY <1>2, <3>1 DEF Seen
    <3> QED BY <1>5, <1>10, <3>2
  <2>2. CASE t \in snaps
    <3>1. Spared(r)
      BY <2>2 DEF GpdInv, Whole
    <3> QED BY <1>5, <1>8, <2>2, <3>1
  <2> QED BY <1>1, <2>1, <2>2
<1>13. Seen(s)' /\ Collects(s)'
  BY <1>1 DEF GpdInv, GpdTyped, Seen, Collects
<1>14. ASSUME NEW o \in GpdSyncs, o # s PROVE Seen(o)' /\ Collects(o)'
  <2>1. Seen(o) /\ Collects(o)
    BY DEF GpdInv
  <2>2. gpdPc'[o] = gpdPc[o] /\ known'[o] = known[o] /\ page'[o] = page[o] /\ gpdNew'[o] = gpdNew[o]
    BY <1>1, <1>14 DEF GpdInv, GpdTyped
  <2>3. page[o] \subseteq ended /\ known[o] \subseteq snaps
    BY DEF GpdInv, GpdTyped
  <2>4. Seen(o)'
    <3>1. \A r \in (page[o] \intersect Reported) \ late, t \in known[o] : r < t => Spared(r)'
      BY <1>8, <2>1, <2>3 DEF Seen
    <3>2. late' = late
      BY <1>1
    <3> QED BY <1>5, <2>1, <2>2, <3>1, <3>2 DEF Seen
  <2>5. Collects(o)'
    BY <1>5, <2>1, <2>2 DEF Collects
  <2> QED BY <2>4, <2>5
<1>15. GpdInv'
  BY <1>11, <1>12, <1>13, <1>14 DEF GpdInv
<1>16. \A r \in (page[s] \intersect Reported) \ (late \union missed') : (\E q \in snaps' : q < r) => r \in snaps'
  <2> SUFFICES ASSUME NEW r \in (page[s] \intersect Reported) \ (late \union missed'), NEW q \in snaps', q < r, r \notin snaps'
               PROVE  FALSE
    OBVIOUS
  <2>1. q >= r
    BY <1>9
  <2>2. q \in Int /\ r \in Int
    BY <1>1, <1>3, <1>4
  <2> QED BY <2>1, <2>2
<1> QED BY <1>15, <1>16

Adds ==
  \A s \in GpdSyncs : gpdPc[s] = "ready" /\ snaps' # snaps /\ gpdPc'[s] = "idle" =>
    \A r \in (page[s] \intersect Reported) \ (late \union missed') : (\E q \in snaps' : q < r) => r \in snaps'

LEMMA GpdStep ==
  ASSUME GpdInv, [Gpd!Next]_(Gpd!vars)
  PROVE  GpdInv' /\ Adds
<1>1. CASE UNCHANGED Gpd!vars
  <2>1. UNCHANGED <<ended, late, snaps, missed, gpdPc, known, page, gpdNew>>
    BY <1>1 DEF Gpd!vars, Gpd!sync
  <2>4. Settled' = Settled /\ \A r : Spared(r)' = Spared(r) /\ Gpd!TooOld(r)' = Gpd!TooOld(r)
    BY <2>1, SparedKept DEF Settled, Newest
  <2>2. GpdTyped' /\ Whole'
    BY <2>1, <2>4 DEF GpdInv, GpdTyped, Whole
  <2>3. ASSUME NEW s \in GpdSyncs PROVE Seen(s)' /\ Collects(s)'
    <3>1. Seen(s) /\ Collects(s)
      BY DEF GpdInv
    <3> QED BY <2>1, <2>4, <3>1 DEF Seen, Collects
  <2> QED BY <2>1, <2>2, <2>3 DEF GpdInv, Adds
<1>2. ASSUME NEW r \in 1..Last, Gpd!Succeed(r) PROVE GpdInv' /\ Adds
  BY <1>2, GpdSucceed DEF Gpd!Succeed, Adds
<1>3. ASSUME NEW s \in GpdSyncs, Gpd!ReadKnown(s) PROVE GpdInv' /\ Adds
  BY <1>3, GpdReadKnown DEF Gpd!ReadKnown, Adds
<1>4. ASSUME NEW s \in GpdSyncs, Gpd!List(s) PROVE GpdInv' /\ Adds
  BY <1>4, GpdList DEF Gpd!List, Adds
<1>5. ASSUME NEW s \in GpdSyncs, Gpd!ReadLogs(s) PROVE GpdInv' /\ Adds
  BY <1>5, GpdReadLogs DEF Gpd!ReadLogs, Adds
<1>6. ASSUME NEW s \in GpdSyncs, Gpd!ReadStatus(s) PROVE GpdInv' /\ Adds
  BY <1>6, GpdReadStatus DEF Gpd!ReadStatus, Adds
<1>7. ASSUME NEW s \in GpdSyncs, Gpd!Commit(s) PROVE GpdInv' /\ Adds
  <2>1. CASE Gpd!Accepted(s)
    <3>1. \A o \in GpdSyncs : o # s => gpdPc'[o] = gpdPc[o]
      BY <1>7 DEF Gpd!Commit, Gpd!Over, GpdInv, GpdTyped
    <3> QED BY <1>7, <2>1, <3>1, GpdCommit DEF Adds
  <2>2. CASE ~Gpd!Accepted(s)
    <3>1. Gpd!Over(s) /\ UNCHANGED <<ended, late, snaps, missed>>
      BY <1>7, <2>2 DEF Gpd!Commit
    <3> QED BY <3>1, GpdOver DEF Adds
  <2> QED BY <2>1, <2>2
<1>8. ASSUME NEW s \in GpdSyncs, Gpd!Stop(s) PROVE GpdInv' /\ Adds
  BY <1>8, GpdOver DEF Gpd!Stop, Adds
<1> QED BY <1>1, <1>2, <1>3, <1>4, <1>5, <1>6, <1>7, <1>8 DEF Gpd!Next, Gpd!AllRuns

(* Whatever fails and overlaps, there is no hole among the runs that a     *)
(* sync has seen when it commits, however late runs succeed and whatever   *)
(* is left out of a listing, but for what two first syncs that overlap     *)
(* leave behind, older than BACKFILL_DAYS (gpd_position.py): for any log   *)
(* and any number of syncs.                                                *)
THEOREM SnapshotsWhole == HubSpec => NoHoles
<1>1. Gpd!Init => GpdInv
  BY GpdStart
<1>2. GpdInv /\ [Gpd!Next]_(Gpd!vars) => GpdInv' /\ Adds
  BY GpdStep
<1> QED BY <1>1, <1>2, PartGpd, PTL DEF Gpd!Spec, NoHoles, Gpd!NoHoles, Adds

----------------------------------------------------------------------------
(* Users, roles and permissions *)

Row == [name : Names, sub : Subs \union {Acc!Unset}, role : Roles, active : BOOLEAN]

(* A request of a kind, and the row it has read. *)
LoginOf(r) ==
  /\ r = [kind |-> "login", email |-> r.email, name |-> r.name, sub |-> r.sub, row |-> r.row]
  /\ r.email \in Emails /\ r.name \in Names /\ r.sub \in Subs \union {Acc!Unset}
  /\ r.row = Acc!NoUser \/ (r.row \in Row /\ users[r.email] # Acc!NoUser)
ChangeOf(r) ==
  /\ r = [kind |-> "user", email |-> r.email, columns |-> r.columns, row |-> r.row]
  /\ r.email \in Emails /\ r.columns \in Acc!Decisions
  /\ r.row \in Row /\ users[r.email] # Acc!NoUser

PeopleInv ==
  /\ users \in [Emails -> Row \union {Acc!NoUser}]
  /\ \A e, o \in Emails : e # o /\ users[e].sub # Acc!Unset => users[o].sub # users[e].sub
  /\ perms \in [Roles -> UNION {[A -> BOOLEAN] : A \in SUBSET Actions}]
  /\ DOMAIN req = Requests
  /\ \A q \in Requests :
       /\ req[q].kind = "login" => LoginOf(req[q])
       /\ req[q].kind = "user" => ChangeOf(req[q])

LEMMA RowNotNoUser == Acc!NoUser \notin Row
BY PeopleAssumption DEF Row, Acc!NoUser, Acc!Unset

(* A column is written with what was asked, or keeps what it has. *)
AsAsked(entry, current, asked) ==
  /\ entry \in Row /\ entry.sub = current.sub
  /\ \A c \in {"role", "active"} : entry[c] # current[c] => c \in DOMAIN asked /\ entry[c] = asked[c]
LEMMA DecisionWritten ==
  ASSUME NEW current \in Row, NEW entry \in Row, NEW asked \in Acc!Decisions,
         NEW result
  PROVE  result = Acc!Written(current, entry, Acc!Merged(asked, entry)) => AsAsked(result, current, asked)
<1> HAVE result = Acc!Written(current, entry, Acc!Merged(asked, entry))
<1> DEFINE new == Acc!Merged(asked, entry)
<1>1. DOMAIN current = {"name", "sub", "role", "active"} /\ DOMAIN entry = {"name", "sub", "role", "active"}
  BY DEF Row
<1>2. /\ DOMAIN asked \subseteq {"role", "active"}
      /\ "role" \in DOMAIN asked => asked.role \in Roles
      /\ "active" \in DOMAIN asked => asked.active \in BOOLEAN
  BY DEF Acc!Decisions
<1>3. \A c \in DOMAIN entry : new[c] = IF c \in DOMAIN asked THEN asked[c] ELSE entry[c]
  BY <1>1, <1>2 DEF Acc!Merged
<1> HIDE DEF new
<1>4. \A c \in {"name", "sub", "role", "active"} : result[c] = IF new[c] # entry[c] THEN new[c] ELSE current[c]
  BY <1>1 DEF Acc!Written, new
<1>5. result = [name |-> result.name, sub |-> result.sub, role |-> result.role, active |-> result.active]
  BY <1>1 DEF Acc!Written
<1>6. result.name = current.name /\ result.sub = current.sub
  BY <1>1, <1>2, <1>3, <1>4
<1>7. result.role \in Roles /\ result.active \in BOOLEAN
  BY <1>1, <1>2, <1>3, <1>4 DEF Row
<1>8. result \in Row
  BY <1>5, <1>6, <1>7 DEF Row
<1> QED BY <1>1, <1>2, <1>3, <1>4, <1>6, <1>8 DEF AsAsked

(* A login writes a name and an identity. *)
Renamed(entry, name, sub) == [entry EXCEPT !.name = name, !.sub = IF sub = Acc!Unset THEN @ ELSE sub]
Undecided(entry, current) == entry \in Row /\ entry.role = current.role /\ entry.active = current.active
LEMMA LoginWritten ==
  ASSUME NEW current \in Row, NEW entry \in Row,
         NEW name \in Names, NEW sub \in Subs \union {Acc!Unset},
         NEW result
  PROVE  result = Acc!Written(current, entry, Renamed(entry, name, sub)) => Undecided(result, current)
<1> DEFINE new == Renamed(entry, name, sub)
<1> HAVE result = Acc!Written(current, entry, new)
<1>1. DOMAIN current = {"name", "sub", "role", "active"}
  BY DEF Row
<1>2. new \in Row /\ new.role = entry.role /\ new.active = entry.active
  BY DEF Row, Renamed
<1> HIDE DEF new
<1>3. \A c \in {"name", "sub", "role", "active"} : result[c] = IF new[c] # entry[c] THEN new[c] ELSE current[c]
  BY <1>1 DEF Acc!Written
<1>4. result = [name |-> result.name, sub |-> result.sub, role |-> result.role, active |-> result.active]
  BY <1>1 DEF Acc!Written
<1>5. result.role = current.role /\ result.active = current.active
  BY <1>2, <1>3
<1>6. result.name \in Names /\ result.sub \in Subs \union {Acc!Unset}
  BY <1>2, <1>3 DEF Row
<1>7. result.role \in Roles /\ result.active \in BOOLEAN
  BY <1>5 DEF Row
<1> QED BY <1>4, <1>5, <1>6, <1>7 DEF Row, Undecided

Users == [Emails -> Row \union {Acc!NoUser}]
Unique(people) == \A e, o \in Emails : e # o /\ people[e].sub # Acc!Unset => people[o].sub # people[e].sub
Stored == [Roles -> UNION {[A -> BOOLEAN] : A \in SUBSET Actions}]

LEMMA PeopleFrame ==
  ASSUME PeopleInv, users' \in Users, Unique(users'), perms' \in Stored,
         \A e \in Emails : users[e] # Acc!NoUser => users'[e] # Acc!NoUser,
         NEW q \in Requests, NEW x, req' = [req EXCEPT ![q] = x],
         x.kind = "login" => LoginOf(x), x.kind = "user" => ChangeOf(x)
  PROVE  PeopleInv'
<1>1. ASSUME NEW p \in Requests
      PROVE  /\ req'[p].kind = "login" => LoginOf(req'[p])
             /\ req'[p].kind = "user" => ChangeOf(req'[p])
  BY DEF PeopleInv
<1>2. ASSUME NEW p \in Requests
      PROVE  /\ req'[p].kind = "login" => LoginOf(req[p])'
             /\ req'[p].kind = "user" => ChangeOf(req[p])'
  BY <1>1 DEF LoginOf, ChangeOf
<1> QED BY <1>2 DEF PeopleInv, Users, Unique, Stored

(* What a step may do to the users and to the roles. *)
UsersStep ==
  \A e \in Emails :
    /\ users[e] = Acc!NoUser => users'[e] = Acc!NoUser \/ users'[e].role = "guest"
    /\ \A c \in {"role", "active"} : users[e] # Acc!NoUser /\ users'[e][c] # users[e][c] =>
         \E q \in Requests : /\ Acc!Commits(q, "user") /\ req[q].email = e
                             /\ c \in DOMAIN req[q].columns /\ users'[e][c] = req[q].columns[c]
    /\ \A o \in Emails \ {e} : users'[e].sub # Acc!Unset => users'[o].sub # users'[e].sub
RolesStep ==
  \A r \in Roles, a \in Actions : (a \in Acc!Matrix[r]) # (a \in Acc!Matrix'[r]) =>
    \E q \in Requests : /\ Acc!Commits(q, "role") /\ req[q].role = r
                        /\ a \in DOMAIN req[q].patch \/ req[q].row # perms[r]

LEMMA PeopleCommitLogin ==
  ASSUME PeopleInv, NEW q \in Requests, Acc!CommitLogin(q)
  PROVE  PeopleInv' /\ UsersStep /\ RolesStep
<1> DEFINE r == req[q]
           fresh == IF r.row = Acc!NoUser THEN Acc!Guest(r)
                    ELSE [r.row EXCEPT !.name = r.name, !.sub = IF r.sub = Acc!Unset THEN @ ELSE r.sub]
           entry == IF r.row = Acc!NoUser THEN fresh ELSE Acc!Written(users[r.email], r.row, fresh)
<1>1. /\ LoginOf(r) /\ perms' = perms /\ req' = [req EXCEPT ![q] = Acc!Nothing]
      /\ \/ users' = users
         \/ /\ users' = [users EXCEPT ![r.email] = entry]
            /\ r.row = Acc!NoUser => users[r.email] = Acc!NoUser
            /\ Acc!SubFree(r.email, entry.sub)
  BY DEF Acc!CommitLogin, Acc!Commit, Acc!Finish, PeopleInv
<1>2. RolesStep
  BY <1>1 DEF RolesStep, Acc!Matrix
<1>3. CASE users' = users
  <2>1. UsersStep
    BY <1>3 DEF UsersStep, PeopleInv
  <2>2. PeopleInv'
    BY <1>1, <1>3, PeopleFrame DEF PeopleInv, Users, Unique, Stored, Acc!Nothing, Acc!Unset
  <2> QED BY <1>2, <2>1, <2>2
<1>4. CASE /\ users' = [users EXCEPT ![r.email] = entry]
           /\ r.row = Acc!NoUser => users[r.email] = Acc!NoUser
           /\ Acc!SubFree(r.email, entry.sub)
  <2>1. /\ entry \in Row
        /\ IF users[r.email] = Acc!NoUser THEN entry.role = "guest"
           ELSE entry.role = users[r.email].role /\ entry.active = users[r.email].active
    <3>1. CASE r.row = Acc!NoUser
      <4>1. entry = [name |-> r.name, sub |-> r.sub, role |-> "guest", active |-> TRUE]
        BY <3>1 DEF Acc!Guest
      <4>2. /\ r.name \in Names /\ r.sub \in Subs \union {Acc!Unset}
            /\ users[r.email] = Acc!NoUser
        BY <1>1, <1>4, <3>1 DEF LoginOf
      <4> HIDE DEF entry, fresh, r
      <4>3. "guest" \in Roles /\ TRUE \in BOOLEAN
        BY PeopleAssumption
      <4>4. PICK name \in Names, sub \in Subs \union {Acc!Unset} :
              entry = [name |-> name, sub |-> sub, role |-> "guest", active |-> TRUE]
        BY <4>1, <4>2
      <4>5. entry \in Row /\ entry.role = "guest"
        BY <4>3, <4>4 DEF Row
      <4> QED BY <4>2, <4>5
    <3>2. CASE r.row # Acc!NoUser
      <4>1. /\ r.row \in Row /\ users[r.email] \in Row /\ users[r.email] # Acc!NoUser
            /\ r.name \in Names /\ r.sub \in Subs \union {Acc!Unset}
        BY <1>1, <3>2 DEF LoginOf, PeopleInv
      <4>2. /\ fresh = [r.row EXCEPT !.name = r.name, !.sub = IF r.sub = Acc!Unset THEN @ ELSE r.sub]
            /\ entry = Acc!Written(users[r.email], r.row, fresh)
        BY <3>2
      <4> DEFINE current == users[r.email]
                 before == r.row
                 name == r.name
                 sub == r.sub
      <4>3. /\ current \in Row /\ before \in Row /\ name \in Names /\ sub \in Subs \union {Acc!Unset}
            /\ entry = Acc!Written(current, before, Renamed(before, name, sub))
        BY <4>1, <4>2 DEF Renamed
      <4> HIDE DEF current, before, name, sub, fresh, entry
      <4>4. Undecided(entry, current)
        BY <4>3, LoginWritten
      <4> USE DEF current
      <4> QED BY <4>1, <4>4 DEF Undecided
    <3> QED BY <3>1, <3>2
  <2> HIDE DEF entry, fresh
  <2>2. entry # Acc!NoUser
    BY <2>1, RowNotNoUser
  <2>3. r.email \in Emails /\ users'[r.email] = entry /\ \A e \in Emails \ {r.email} : users'[e] = users[e]
    BY <1>1, <1>4 DEF LoginOf, PeopleInv
  <2>4. users' \in Users
    BY <1>4, <2>1 DEF PeopleInv, Users
  <2>5. Unique(users')
    BY <1>4, <2>3 DEF PeopleInv, Unique, Acc!SubFree
  <2>6. UsersStep
    <3> SUFFICES ASSUME NEW e \in Emails
                 PROVE  /\ users[e] = Acc!NoUser => users'[e] = Acc!NoUser \/ users'[e].role = "guest"
                        /\ users[e] # Acc!NoUser => users'[e].role = users[e].role /\ users'[e].active = users[e].active
      BY <2>5 DEF UsersStep, Unique
    <3> HIDE DEF r
    <3> QED BY <2>1, <2>3
  <2>7. PeopleInv'
    BY <1>1, <2>2, <2>3, <2>4, <2>5, PeopleFrame DEF PeopleInv, Stored, Acc!Nothing, Acc!Unset
  <2> QED BY <1>2, <2>6, <2>7
<1> QED BY <1>1, <1>3, <1>4

LEMMA PeopleCommitUser ==
  ASSUME PeopleInv, NEW q \in Requests, Acc!CommitUser(q)
  PROVE  PeopleInv' /\ UsersStep /\ RolesStep
<1> DEFINE r == req[q]
           entry == Acc!Written(users[r.email], r.row, Acc!Merged(r.columns, r.row))
<1>1. /\ r.kind = "user" /\ ChangeOf(r) /\ perms' = perms /\ req' = [req EXCEPT ![q] = Acc!Nothing]
      /\ users' = [users EXCEPT ![r.email] = entry]
  BY DEF Acc!CommitUser, Acc!Commit, Acc!Finish, PeopleInv
<1>2. RolesStep
  BY <1>1 DEF RolesStep, Acc!Matrix
<1>3. /\ r.email \in Emails /\ r.columns \in Acc!Decisions /\ r.row \in Row
      /\ users[r.email] # Acc!NoUser /\ users[r.email] \in Row
  BY <1>1 DEF ChangeOf, PeopleInv
<1>4. /\ entry \in Row /\ entry.sub = users[r.email].sub
      /\ \A c \in {"role", "active"} : entry[c] # users[r.email][c] => c \in DOMAIN r.columns /\ entry[c] = r.columns[c]
  <2> DEFINE current == users[r.email]
             before == r.row
             asked == r.columns
  <2>2. current \in Row /\ before \in Row /\ asked \in Acc!Decisions
    BY <1>3
  <2>3. entry = Acc!Written(current, before, Acc!Merged(asked, before))
    OBVIOUS
  <2> HIDE DEF current, before, asked, entry
  <2>4. AsAsked(entry, current, asked)
    BY <2>2, <2>3, DecisionWritten
  <2> USE DEF current, asked
  <2> QED BY <2>4 DEF AsAsked
<1> HIDE DEF entry
<1>5. entry # Acc!NoUser
  BY <1>4, RowNotNoUser
<1>6. users'[r.email] = entry /\ \A e \in Emails \ {r.email} : users'[e] = users[e]
  BY <1>1, <1>3 DEF PeopleInv
<1>7. users' \in Users
  BY <1>1, <1>4 DEF PeopleInv, Users
<1>8. Unique(users')
  BY <1>3, <1>4, <1>6 DEF PeopleInv, Unique
<1>9. Acc!Commits(q, "user")
  BY <1>1 DEF Acc!Commits, PeopleInv
<1>10. UsersStep
  <2>1. ASSUME NEW e \in Emails, NEW c \in {"role", "active"}, users'[e][c] # users[e][c]
        PROVE  req[q].email = e /\ c \in DOMAIN req[q].columns /\ users'[e][c] = req[q].columns[c]
    BY <1>4, <1>6, <2>1
  <2>2. ASSUME NEW e \in Emails, users[e] = Acc!NoUser PROVE users'[e] = Acc!NoUser
    BY <1>3, <1>6, <2>2
  <2> QED BY <1>8, <1>9, <2>1, <2>2 DEF UsersStep, Unique
<1>11. PeopleInv'
  BY <1>1, <1>5, <1>6, <1>7, <1>8, PeopleFrame DEF PeopleInv, Stored, Acc!Nothing, Acc!Unset
<1> QED BY <1>2, <1>10, <1>11

(* Requests about a role write one column, made of what they have read.    *)
RoleOf(r) ==
  r.role \in Roles /\ DOMAIN r.patch \subseteq Actions /\ r.patch \in [DOMAIN r.patch -> BOOLEAN]
  /\ r.row \in UNION {[A -> BOOLEAN] : A \in SUBSET Actions}
RolesAsked == \A q \in Requests : req[q].kind = "role" => RoleOf(req[q])

LEMMA PermissionsMerged ==
  ASSUME NEW patch, DOMAIN patch \subseteq Actions, patch \in [DOMAIN patch -> BOOLEAN],
         NEW entry \in UNION {[A -> BOOLEAN] : A \in SUBSET Actions}
  PROVE  /\ Acc!Merged(patch, entry) \in UNION {[A -> BOOLEAN] : A \in SUBSET Actions}
         /\ \A a : a \notin DOMAIN patch =>
              /\ a \in DOMAIN Acc!Merged(patch, entry) <=> a \in DOMAIN entry
              /\ a \in DOMAIN entry => Acc!Merged(patch, entry)[a] = entry[a]
<1>1. PICK A \in SUBSET Actions : entry \in [A -> BOOLEAN]
  OBVIOUS
<1>2. Acc!Merged(patch, entry) \in [DOMAIN patch \union A -> BOOLEAN]
  BY <1>1 DEF Acc!Merged
<1>3. DOMAIN patch \union A \in SUBSET Actions
  OBVIOUS
<1> QED BY <1>1, <1>2, <1>3 DEF Acc!Merged

LEMMA PeopleCommitRole ==
  ASSUME PeopleInv, RolesAsked, NEW q \in Requests, Acc!CommitRole(q)
  PROVE  PeopleInv' /\ UsersStep /\ RolesStep
<1> DEFINE r == req[q]
           merged == Acc!Merged(r.patch, r.row)
<1>1. /\ r.kind = "role" /\ RoleOf(r) /\ users' = users /\ req' = [req EXCEPT ![q] = Acc!Nothing]
      /\ perms' = [perms EXCEPT ![r.role] = IF merged = r.row THEN perms[r.role] ELSE merged]
  BY DEF Acc!CommitRole, Acc!Commit, Acc!Finish, RolesAsked
<1>2. /\ merged \in UNION {[A -> BOOLEAN] : A \in SUBSET Actions}
      /\ \A a : a \notin DOMAIN r.patch =>
           (a \in DOMAIN merged <=> a \in DOMAIN r.row) /\ (a \in DOMAIN r.row => merged[a] = r.row[a])
  <2> HIDE DEF r
  <2> QED BY <1>1, PermissionsMerged DEF RoleOf
<1> HIDE DEF merged
<1>3. perms' \in Stored
  BY <1>1, <1>2 DEF PeopleInv, Stored
<1>4. PeopleInv'
  BY <1>1, <1>3, PeopleFrame DEF PeopleInv, Users, Unique, Acc!Nothing, Acc!Unset
<1>5. UsersStep
  BY <1>1 DEF UsersStep, PeopleInv
<1>6. Acc!Commits(q, "role")
  BY <1>1 DEF Acc!Commits, PeopleInv
<1>7. ASSUME NEW p \in Roles, NEW a \in Actions, p # r.role \/ (a \notin DOMAIN r.patch /\ r.row = perms[r.role])
      PROVE  a \in Acc!Matrix[p] <=> a \in Acc!Matrix'[p]
  <2>1. /\ a \in DOMAIN perms[p] <=> a \in DOMAIN perms'[p]
        /\ a \in DOMAIN perms[p] => perms[p][a] = perms'[p][a]
    BY <1>1, <1>2, <1>7 DEF PeopleInv
  <2> QED BY <2>1 DEF Acc!Matrix
<1>8. RolesStep
  BY <1>6, <1>7 DEF RolesStep
<1> QED BY <1>4, <1>5, <1>8

(* What was read for a role stays as it was. *)
LEMMA RolesAskedKept ==
  ASSUME RolesAsked, NEW q \in Requests, DOMAIN req = Requests, NEW x, req' = [req EXCEPT ![q] = x],
         x.kind = "role" => RoleOf(x)
  PROVE  RolesAsked'
<1>1. \A p \in Requests : req'[p].kind = "role" => RoleOf(req'[p])
  BY DEF RolesAsked
<1>2. \A p \in Requests : RoleOf(req[p])' = RoleOf(req'[p])
  BY DEF RoleOf
<1> QED BY <1>1, <1>2 DEF RolesAsked

(* A step that changes neither users nor roles. *)
LEMMA PeopleAside ==
  ASSUME PeopleInv, RolesAsked, UNCHANGED <<users, perms>>,
         NEW q \in Requests, NEW x, req' = [req EXCEPT ![q] = x],
         x.kind = "login" => LoginOf(x), x.kind = "user" => ChangeOf(x), x.kind = "role" => RoleOf(x)
  PROVE  PeopleInv' /\ RolesAsked' /\ UsersStep /\ RolesStep
<1>1. PeopleInv'
  BY PeopleFrame DEF PeopleInv, Users, Unique, Stored
<1>2. RolesAsked'
  BY RolesAskedKept DEF PeopleInv
<1>3. UsersStep
  BY DEF UsersStep, PeopleInv
<1>4. RolesStep
  BY DEF RolesStep, Acc!Matrix
<1> QED BY <1>1, <1>2, <1>3, <1>4

LEMMA PeopleRead ==
  ASSUME PeopleInv, RolesAsked, NEW q \in Requests,
         Acc!Login(q) \/ Acc!UpdateUser(q) \/ Acc!UpdateRole(q) \/ Acc!UpdateFeature(q)
  PROVE  PeopleInv' /\ RolesAsked' /\ UsersStep /\ RolesStep
<1>1. CASE Acc!Login(q)
  <2>1. PICK e \in Emails, n \in Names, s \in Subs \union {Acc!Unset} :
          Acc!Read(q, [kind |-> "login", email |-> e, name |-> n, sub |-> s, row |-> users[e]])
    BY <1>1 DEF Acc!Login
  <2>2. PICK x : x = [kind |-> "login", email |-> e, name |-> n, sub |-> s, row |-> users[e]]
    OBVIOUS
  <2>3. LoginOf(x) /\ x.kind = "login"
    BY <2>2 DEF LoginOf, PeopleInv
  <2>4. req' = [req EXCEPT ![q] = x] /\ UNCHANGED <<users, perms>>
    BY <2>1, <2>2 DEF Acc!Read
  <2> QED BY <2>3, <2>4, PeopleAside
<1>2. CASE Acc!UpdateUser(q)
  <2>1. PICK e \in Emails, asked \in Acc!Decisions :
          /\ users[e] # Acc!NoUser
          /\ Acc!Read(q, [kind |-> "user", email |-> e, columns |-> asked, row |-> users[e]])
    BY <1>2 DEF Acc!UpdateUser
  <2>2. PICK x : x = [kind |-> "user", email |-> e, columns |-> asked, row |-> users[e]]
    OBVIOUS
  <2>3. ChangeOf(x) /\ x.kind = "user"
    BY <2>1, <2>2 DEF ChangeOf, PeopleInv
  <2>4. req' = [req EXCEPT ![q] = x] /\ UNCHANGED <<users, perms>>
    BY <2>1, <2>2 DEF Acc!Read
  <2> QED BY <2>3, <2>4, PeopleAside
<1>3. CASE Acc!UpdateRole(q)
  <2>1. PICK r \in Roles \ System, p \in Patches :
          Acc!Read(q, [kind |-> "role", role |-> r, patch |-> p, row |-> perms[r]])
    BY <1>3 DEF Acc!UpdateRole
  <2>2. PICK x : x = [kind |-> "role", role |-> r, patch |-> p, row |-> perms[r]]
    OBVIOUS
  <2>3. RoleOf(x) /\ x.kind = "role"
    BY <2>2, PeopleAssumption DEF RoleOf, PeopleInv
  <2>4. req' = [req EXCEPT ![q] = x] /\ UNCHANGED <<users, perms>>
    BY <2>1, <2>2 DEF Acc!Read
  <2> QED BY <2>3, <2>4, PeopleAside
<1>4. CASE Acc!UpdateFeature(q)
  <2>1. PICK f \in Features, on \in BOOLEAN :
          Acc!Read(q, [kind |-> "feature", feature |-> f, enabled |-> on, known |-> f \in DOMAIN shown,
                       row |-> IF f \in DOMAIN shown THEN shown[f] ELSE on])
    BY <1>4 DEF Acc!UpdateFeature
  <2>2. PICK x : x = [kind |-> "feature", feature |-> f, enabled |-> on, known |-> f \in DOMAIN shown,
                      row |-> IF f \in DOMAIN shown THEN shown[f] ELSE on]
    OBVIOUS
  <2>3. x.kind = "feature"
    BY <2>2
  <2>4. req' = [req EXCEPT ![q] = x] /\ UNCHANGED <<users, perms>>
    BY <2>1, <2>2 DEF Acc!Read
  <2> QED BY <2>3, <2>4, PeopleAside
<1> QED BY <1>1, <1>2, <1>3, <1>4

LEMMA PeopleStep ==
  ASSUME PeopleInv, RolesAsked, [Acc!Next]_(Acc!vars)
  PROVE  PeopleInv' /\ RolesAsked' /\ (UNCHANGED Acc!vars \/ (UsersStep /\ RolesStep))
<1>1. CASE UNCHANGED Acc!vars
  <2>1. UNCHANGED <<users, perms, req>>
    BY <1>1 DEF Acc!vars
  <2>2. PeopleInv'
    BY <2>1 DEF PeopleInv, LoginOf, ChangeOf
  <2>3. RolesAsked'
    BY <2>1 DEF RolesAsked, RoleOf
  <2> QED BY <1>1, <2>2, <2>3
<1>2. Acc!Nothing.kind \notin {"login", "user", "role"} /\ DOMAIN req = Requests
  BY DEF Acc!Nothing, Acc!Unset, PeopleInv
<1>3. ASSUME NEW q \in Requests,
             Acc!Login(q) \/ Acc!UpdateUser(q) \/ Acc!UpdateRole(q) \/ Acc!UpdateFeature(q)
      PROVE  PeopleInv' /\ RolesAsked' /\ UsersStep /\ RolesStep
  BY <1>3, PeopleRead
<1>4. ASSUME NEW q \in Requests, Acc!CommitLogin(q) \/ Acc!CommitUser(q) \/ Acc!CommitRole(q)
      PROVE  PeopleInv' /\ RolesAsked' /\ UsersStep /\ RolesStep
  <2>1. req' = [req EXCEPT ![q] = Acc!Nothing]
    BY <1>4 DEF Acc!CommitLogin, Acc!CommitUser, Acc!CommitRole, Acc!Commit, Acc!Finish
  <2>2. RolesAsked'
    BY <1>2, <2>1, RolesAskedKept
  <2> QED BY <1>4, <2>2, PeopleCommitLogin, PeopleCommitUser, PeopleCommitRole
<1>5. ASSUME NEW q \in Requests, Acc!CommitFeature(q) \/ Acc!Fail(q)
      PROVE  PeopleInv' /\ RolesAsked' /\ UsersStep /\ RolesStep
  <2>1. req' = [req EXCEPT ![q] = Acc!Nothing] /\ UNCHANGED <<users, perms>>
    BY <1>5 DEF Acc!CommitFeature, Acc!Fail, Acc!Commit, Acc!Finish
  <2> QED BY <1>2, <2>1, PeopleAside
<1> QED BY <1>1, <1>3, <1>4, <1>5 DEF Acc!Next

LEMMA PeopleStart ==
  ASSUME Acc!Init
  PROVE  PeopleInv /\ RolesAsked
<1>1. perms \in Stored
  <2>1. [a \in {} |-> TRUE] \in UNION {[A -> BOOLEAN] : A \in SUBSET Actions}
    <3>1. [a \in {} |-> TRUE] \in [{} -> BOOLEAN] /\ {} \in SUBSET Actions
      OBVIOUS
    <3> QED BY <3>1
  <2> QED BY <2>1 DEF Acc!Init, Stored
<1>2. \A q \in Requests : req[q].kind \notin {"login", "user", "role"}
  BY DEF Acc!Init, Acc!Nothing, Acc!Unset
<1>3. users \in Users /\ \A e \in Emails : users[e].sub = Acc!Unset
  BY DEF Acc!Init, Acc!NoUser, Users
<1> QED BY <1>1, <1>2, <1>3 DEF Acc!Init, PeopleInv, Stored, Users, RolesAsked

(* What a person may do is decided by administrators, however requests     *)
(* overlap and fail (services/users.py, services/roles.py): for any people,*)
(* roles and number of requests.                                           *)
THEOREM PeopleDecided == HubSpec => AdminsDecide
<1> DEFINE Inv == PeopleInv /\ RolesAsked
           Step == UsersStep /\ RolesStep
<1>1. Acc!Init => Inv
  BY PeopleStart
<1>2. Inv /\ [Acc!Next]_(Acc!vars) => Inv' /\ [Step]_(Acc!vars)
  BY PeopleStep
<1>3. [Step]_(Acc!vars) =>
        [/\ \A e \in Emails :
              /\ users[e] = Acc!NoUser => users'[e] = Acc!NoUser \/ users'[e].role = "guest"
              /\ \A c \in {"role", "active"} : users[e] # Acc!NoUser /\ users'[e][c] # users[e][c] =>
                   \E q \in Requests : /\ Acc!Commits(q, "user") /\ req[q].email = e
                                       /\ c \in DOMAIN req[q].columns /\ users'[e][c] = req[q].columns[c]
              /\ \A o \in Emails \ {e} : users'[e].sub # Acc!Unset => users'[o].sub # users'[e].sub
         /\ \A r \in Roles, a \in Actions : (a \in Acc!Matrix[r]) # (a \in Acc!Matrix'[r]) =>
              \E q \in Requests : /\ Acc!Commits(q, "role") /\ req[q].role = r
                                  /\ a \in DOMAIN req[q].patch \/ req[q].row # perms[r]]_(Acc!vars)
  BY DEF UsersStep, RolesStep
<1> HIDE DEF Inv, Step
<1> QED BY <1>1, <1>2, <1>3, PartAcc, PTL DEF Acc!Spec, AdminsDecide, Acc!AdminsDecide
----------------------------------------------------------------------------
(* The import of a whole map *)

(* A file that was accepted hangs together. *)
File(f) ==
  /\ \A n, m \in f.nodes : n.id = m.id => n = m
  /\ \A e \in f.edges : {e.from, e.to} \subseteq Load!Ids(f.nodes) \union {Load!Nothing}
  /\ \A n \in f.nodes : n.parent \in Load!Ids(f.nodes) \union {Load!Nothing}

Loaded == {i \in Scripts : loadPc[i] = "done"}
Registered == {s \in MapSyncs : loadPc[s] # "new"}

(* The rows of the map are those of one import that has ended, of people   *)
(* and of syncs whose run is there.                                        *)
MapInv ==
  /\ \A e \in edges : {e.from, e.to} \subseteq Load!Ids(nodes) \union {Load!Nothing}
  /\ \A n \in nodes : n.parent \in Load!Ids(nodes) \union {Load!Nothing}
  /\ \A n, m \in nodes : n.id = m.id => n = m
  /\ \A n, m \in nodes : n.by \in Scripts /\ m.by \in Scripts => n.by = m.by
  /\ \A n \in nodes : n.by \in MapSyncs => n.by \in rows
  /\ \A n \in nodes : n.by \in Scripts => n.by \in Loaded
  /\ rows \subseteq Loaded \union Registered
  /\ meta \in Loaded \union {Load!Nothing}

(* What an import knows: a file, runs and rows that were there. *)
Shaped(m) == m = [ok |-> TRUE, file |-> m.file, empty |-> m.empty, runs |-> m.runs, gone |-> m.gone,
                  nodes |-> m.nodes, meta |-> m.meta]
Knows(m) ==
  /\ Shaped(m) /\ File(m.file)
  /\ m.runs \subseteq Loaded \union Registered
  /\ m.meta \in Loaded \union {Load!Nothing}
  /\ \A n \in m.nodes : n.by \in Scripts => n.by \in Loaded

(* Unless another import has ended since it cleared the map, the rows that *)
(* came later are no import's; and the runs that it deletes write nothing. *)
Cleared(m) ==
  /\ m.gone = m.runs
  /\ meta = m.meta => \A n \in nodes \ m.nodes : n.parent = Load!Nothing /\ n.by \notin Scripts
  /\ \A n \in nodes \ m.nodes : n.by \notin m.gone

ImportInv ==
  /\ DOMAIN loadPc = Scripts \union MapSyncs /\ loads = [i \in Scripts |-> loads[i]]
  /\ MapInv
  /\ \A i \in Scripts :
       /\ loadPc[i] \in {"checked", "seen", "started", "cleared", "done"} => Knows(loads[i])
       /\ loadPc[i] = "started" => loads[i].gone = loads[i].runs
       /\ loadPc[i] = "cleared" => Cleared(loads[i])
       /\ loadPc[i] = "done" => loads[i].runs \intersect rows \intersect MapSyncs = {}

LEMMA CollectedFile ==
  ASSUME NEW kb, NEW f, f = Load!Collected(kb), f.ok
  PROVE  File(f)
<1> DEFINE list == Load!NodeRows(kb)
           ns == Load!ToSet(list)
           es == Load!FirstOf(Load!EdgeRows(kb))
<1>1. /\ \A i, j \in DOMAIN list : list[i].id = list[j].id => i = j
      /\ Load!Missing(ns, es) = {}
      /\ f = [ok |-> TRUE, nodes |-> ns, edges |-> es, docs |-> Load!ToSet(Load!DocRows(kb))]
  BY DEF Load!Collected, Load!Refused
<1>2. \A n, m \in ns : n.id = m.id => n = m
  BY <1>1 DEF Load!ToSet
<1> HIDE DEF ns, es
<1>3. /\ \A e \in es : {e.from, e.to} \subseteq Load!Ids(ns) \union {Load!Nothing}
      /\ \A n \in ns : n.parent \in Load!Ids(ns) \union {Load!Nothing}
  <2> DEFINE ends == {{e.from, e.to} : e \in es}
             parents == {n.parent : n \in ns}
  <2>0. Load!Missing(ns, es) = ((UNION ends) \union parents) \ ({Load!Nothing} \union Load!Ids(ns))
    BY DEF Load!Missing
  <2>2. \A e \in es : {e.from, e.to} \in ends
    OBVIOUS
  <2>3. \A n \in ns : n.parent \in parents
    OBVIOUS
  <2> HIDE DEF ends, parents, list
  <2>4. (UNION ends) \union parents \subseteq Load!Ids(ns) \union {Load!Nothing}
    BY <1>1, <2>0
  <2> QED BY <2>2, <2>3, <2>4
<1> QED BY <1>1, <1>2, <1>3 DEF File

LEMMA ImportStart == Load!Init => ImportInv
<1> SUFFICES ASSUME Load!Init PROVE ImportInv
  OBVIOUS
<1>1. DOMAIN loadPc = Scripts \union MapSyncs /\ loads = [x \in Scripts |-> loads[x]]
  BY DEF Load!Init
<1>2. \A x \in Scripts : loadPc[x] = "new"
  BY DEF Load!Init
<1>3. MapInv
  BY DEF Load!Init, MapInv, Load!Nothing
<1> QED BY <1>1, <1>2, <1>3 DEF ImportInv

LEMMA KnowsKept ==
  ASSUME NEW m, Knows(m), Loaded \subseteq Loaded', Registered \subseteq Registered'
  PROVE  Knows(m)'
BY DEF Knows, Shaped, File, Load!Ids, Load!Nothing

(* A step of an import before its last one. *)
LEMMA ImportHolds ==
  ASSUME ImportInv, NEW i \in Scripts, NEW phase, NEW m,
         loadPc' = [loadPc EXCEPT ![i] = phase], loads' = [loads EXCEPT ![i] = m],
         UNCHANGED <<nodes, edges, meta, rows>>,
         loadPc[i] # "done", phase \in {"checked", "seen", "started", "cleared", "failed"},
         phase # "failed" => Knows(m),
         phase = "started" => m.gone = m.runs,
         phase = "cleared" => Cleared(m)
  PROVE  ImportInv'
<1>1. DOMAIN loadPc' = Scripts \union MapSyncs /\ loads' = [x \in Scripts |-> loads'[x]]
  BY DEF ImportInv
<1>2. Loaded' = Loaded /\ Registered' = Registered
  BY ImportAssumption DEF ImportInv, Loaded, Registered
<1>3. MapInv'
  BY <1>2 DEF ImportInv, MapInv, Load!Ids, Load!Nothing
<1>4. ASSUME NEW j \in Scripts
      PROVE  /\ loadPc'[j] \in {"checked", "seen", "started", "cleared", "done"} => Knows(loads[j])' 
             /\ loadPc'[j] = "started" => loads'[j].gone = loads'[j].runs
             /\ loadPc'[j] = "cleared" => Cleared(loads[j])'
             /\ loadPc'[j] = "done" => loads'[j].runs \intersect rows' \intersect MapSyncs = {}
  <2> DEFINE k == loads'[j]
  <2>1. CASE j = i
    <3>1. loadPc'[j] = phase /\ loads'[j] = m
      BY <2>1 DEF ImportInv
    <3>2. phase # "failed" => Knows(m)'
      BY <1>2, KnowsKept
    <3>3. phase = "cleared" => Cleared(m)'
      BY DEF Cleared, Load!Nothing
    <3>4. Knows(m)' = Knows(loads[j])' /\ Cleared(m)' = Cleared(loads[j])'
      BY <3>1 DEF Knows, Cleared, Shaped, File, Load!Ids
    <3> QED BY <3>1, <3>2, <3>3, <3>4
  <2>2. CASE j # i
    <3>1. loadPc'[j] = loadPc[j] /\ loads'[j] = loads[j]
      BY <2>2 DEF ImportInv
    <3>2. Knows(loads[j])' = Knows(loads[j]) /\ Cleared(loads[j])' = Cleared(loads[j])
      BY <1>2, <3>1 DEF Knows, Cleared, Shaped, File, Load!Ids, Load!Nothing
    <3> QED BY <3>1, <3>2 DEF ImportInv
  <2> QED BY <2>1, <2>2
<1> QED BY <1>1, <1>3, <1>4 DEF ImportInv

LEMMA ImportCheck ==
  ASSUME ImportInv, NEW i \in Scripts, NEW kb, NEW replace, Load!Check(i, kb, replace)
  PROVE  ImportInv'
<1>1. PICK f : f = Load!Collected(kb)
  OBVIOUS
<1>2. /\ loadPc[i] = "new" /\ UNCHANGED <<nodes, edges, meta, rows>>
      /\ \/ loadPc' = [loadPc EXCEPT ![i] = "failed"] /\ loads' = loads
         \/ /\ f.ok
            /\ loads' = [loads EXCEPT ![i] = [ok |-> TRUE, file |-> f, empty |-> nodes = {}, runs |-> {}, gone |-> {},
                                              nodes |-> {}, meta |-> Load!Nothing]]
            /\ loadPc' = [loadPc EXCEPT ![i] = IF nodes = {} THEN "cleared" ELSE "checked"]
  BY <1>1 DEF Load!Check, Load!Goto, Load!Rows
<1>3. CASE loadPc' = [loadPc EXCEPT ![i] = "failed"] /\ loads' = loads
  <2>1. loads' = [loads EXCEPT ![i] = loads[i]]
    BY <1>3 DEF ImportInv
  <2> QED BY <1>2, <1>3, <2>1, ImportHolds
<1>4. CASE f.ok /\ ~(loadPc' = [loadPc EXCEPT ![i] = "failed"] /\ loads' = loads)
  <2>1. PICK m : m = [ok |-> TRUE, file |-> f, empty |-> nodes = {}, runs |-> {}, gone |-> {},
                      nodes |-> {}, meta |-> Load!Nothing]
    OBVIOUS
  <2>2. Knows(m)
    BY <1>1, <1>4, <2>1, CollectedFile DEF Knows, Shaped
  <2>3. nodes = {} => Cleared(m)
    BY <2>1 DEF Cleared
  <2>4. loads' = [loads EXCEPT ![i] = m]
    BY <1>2, <1>4, <2>1
  <2>5. loadPc' = [loadPc EXCEPT ![i] = IF nodes = {} THEN "cleared" ELSE "checked"]
    BY <1>2, <1>4
  <2>6. CASE nodes = {}
    BY <1>2, <2>2, <2>3, <2>4, <2>5, <2>6, ImportHolds
  <2>7. CASE nodes # {}
    BY <1>2, <2>2, <2>4, <2>5, <2>7, ImportHolds
  <2> QED BY <2>6, <2>7
<1> QED BY <1>2, <1>3, <1>4

(* It sees runs, deletes them, sees the rows and deletes them, or stops. *)
LEMMA ImportSees ==
  ASSUME ImportInv, NEW i \in Scripts,
         Load!SeeRuns(i) \/ Load!DeleteRuns(i) \/ Load!DeleteMap(i) \/ Load!Crash(i)
  PROVE  ImportInv'
<1> DEFINE k == loads[i]
<1>1. loadPc[i] \in {"checked", "seen", "started", "cleared"} /\ UNCHANGED <<nodes, edges, meta, rows>>
  BY DEF Load!SeeRuns, Load!DeleteRuns, Load!DeleteMap, Load!Crash, Load!Rows
<1>2. Knows(k) /\ Shaped(k)
  BY <1>1 DEF ImportInv, Knows
<1>3. /\ rows \subseteq Loaded \union Registered /\ meta \in Loaded \union {Load!Nothing}
      /\ \A n \in nodes : n.by \in Scripts => n.by \in Loaded
  BY DEF ImportInv, MapInv
<1>0. PICK f, e, r, g, n, t :
         k = [ok |-> TRUE, file |-> f, empty |-> e, runs |-> r, gone |-> g, nodes |-> n, meta |-> t]
  BY <1>2 DEF Shaped
<1> HIDE DEF k
<1>4. CASE Load!SeeRuns(i)
  <2>1. PICK m : m = [k EXCEPT !.runs = rows]
    OBVIOUS
  <2>2. m = [ok |-> TRUE, file |-> f, empty |-> e, runs |-> rows, gone |-> g, nodes |-> n, meta |-> t]
    BY <1>0, <2>1
  <2>3. loads' = [loads EXCEPT ![i] = m] /\ loadPc' = [loadPc EXCEPT ![i] = "seen"]
    BY <1>4, <2>1 DEF Load!SeeRuns, Load!Goto, k
  <2>4. Knows(m)
    BY <1>0, <1>2, <1>3, <2>2 DEF Knows, Shaped
  <2> QED BY <1>1, <2>3, <2>4, ImportHolds
<1>5. CASE Load!DeleteRuns(i)
  <2>1. PICK m : m = [k EXCEPT !.gone = k.runs]
    OBVIOUS
  <2>2. m = [ok |-> TRUE, file |-> f, empty |-> e, runs |-> r, gone |-> r, nodes |-> n, meta |-> t]
    BY <1>0, <2>1
  <2>3. loads' = [loads EXCEPT ![i] = m] /\ loadPc' = [loadPc EXCEPT ![i] = "started"]
    BY <1>5, <2>1 DEF Load!DeleteRuns, Load!Victims, Load!Goto, k
  <2>4. Knows(m) /\ m.gone = m.runs
    BY <1>0, <1>2, <1>3, <2>2 DEF Knows, Shaped
  <2> QED BY <1>1, <2>3, <2>4, ImportHolds
<1>6. CASE Load!DeleteMap(i)
  <2>1. PICK m : m = [k EXCEPT !.nodes = nodes, !.meta = meta]
    OBVIOUS
  <2>2. m = [ok |-> TRUE, file |-> f, empty |-> e, runs |-> r, gone |-> g, nodes |-> nodes, meta |-> meta]
    BY <1>0, <2>1
  <2>3. loads' = [loads EXCEPT ![i] = m] /\ loadPc' = [loadPc EXCEPT ![i] = "cleared"]
    BY <1>6, <2>1 DEF Load!DeleteMap, Load!Goto, k
  <2>4. g = r
    <3>1. k.gone = k.runs
      BY <1>6 DEF Load!DeleteMap, ImportInv, k
    <3> QED BY <1>0, <3>1
  <2>5. Knows(m) /\ Cleared(m)
    BY <1>0, <1>2, <1>3, <2>2, <2>4 DEF Knows, Shaped, Cleared
  <2> QED BY <1>1, <2>3, <2>5, ImportHolds
<1>7. CASE Load!Crash(i)
  <2>1. loads' = [loads EXCEPT ![i] = k] /\ loadPc' = [loadPc EXCEPT ![i] = "failed"]
    BY <1>7 DEF Load!Crash, Load!Goto, ImportInv, k
  <2> QED BY <1>1, <2>1, ImportHolds
<1> QED BY <1>4, <1>5, <1>6, <1>7

(* What an import that ends has done. *)
Replaces ==
  \A i \in Scripts : loadPc[i] # "done" /\ loadPc'[i] = "done" =>
       /\ loads[i].file.edges = edges' /\ loads[i].file.docs = docs'
       /\ Load!Ids(loads[i].file.nodes) \subseteq Load!Ids(nodes')
       /\ ~loads[i].empty => nodes' \intersect loads[i].nodes = {}
       /\ loads[i].runs \intersect (found' \union rows') = {}
NeverMixes ==
  \A s \in MapSyncs : found' # found /\ s \in found' \ found =>
       \A i \in Scripts : loadPc[i] = "done" => s \notin loads[i].runs

LEMMA ImportLoad ==
  ASSUME ImportInv, NEW i \in Scripts, Load!Load(i)
  PROVE  ImportInv' /\ Replaces /\ NeverMixes
<1> DEFINE k == loads[i]
           kept == nodes \ k.nodes
           mine == Load!By(i)
<1>1. loadPc[i] = "cleared" /\ loads' = loads
  BY DEF Load!Load
<1>2. Knows(k) /\ Cleared(k)
  BY <1>1 DEF ImportInv
<1>3. CASE Load!Conflict(i, kept)
  <2>1. loadPc' = [loadPc EXCEPT ![i] = "failed"] /\ UNCHANGED <<nodes, edges, docs, meta, rows, found>>
    BY <1>3 DEF Load!Load, Load!Goto, Load!Rows
  <2>2. loads' = [loads EXCEPT ![i] = k]
    BY <1>1 DEF ImportInv
  <2>3. ImportInv'
    BY <1>1, <2>1, <2>2, ImportHolds
  <2>4. \A j \in Scripts : loadPc'[j] = "done" => loadPc[j] = "done"
    BY <2>1 DEF ImportInv
  <2> QED BY <2>1, <2>3, <2>4 DEF Replaces, NeverMixes
<1>4. CASE ~Load!Conflict(i, kept)
  <2>1. /\ loadPc' = [loadPc EXCEPT ![i] = "done"]
        /\ nodes' = kept \union mine /\ edges' = k.file.edges /\ docs' = k.file.docs /\ meta' = i
        /\ rows' = (rows \ k.gone) \union {i} /\ found' = found \ k.gone
    BY <1>4 DEF Load!Load, Load!Goto
  <2>2. meta = k.meta /\ Load!Ids(kept) \intersect Load!Ids(k.file.nodes) = {}
    BY <1>4 DEF Load!Conflict
  <2>3. /\ File(k.file) /\ k.runs \subseteq Loaded \union Registered /\ k.gone = k.runs
        /\ \A n \in kept : n.parent = Load!Nothing /\ n.by \notin Scripts /\ n.by \notin k.gone
        /\ \A n \in k.nodes : n.by \in Scripts => n.by \in Loaded
    BY <1>2, <2>2 DEF Knows, Cleared
  <2>4. /\ \A n \in mine : n.by = i /\ \E f \in k.file.nodes : f.id = n.id /\ f.parent = n.parent
                                                        /\ n = [id |-> f.id, kind |-> f.kind, parent |-> f.parent, by |-> i]
        /\ Load!Ids(mine) = Load!Ids(k.file.nodes)
    <3>1. ASSUME NEW n \in mine
          PROVE  n.by = i /\ \E f \in k.file.nodes : f.id = n.id /\ f.parent = n.parent
                                                   /\ n = [id |-> f.id, kind |-> f.kind, parent |-> f.parent, by |-> i]
      BY DEF Load!By
    <3>2. ASSUME NEW f \in k.file.nodes PROVE \E n \in mine : n.id = f.id
      <4>1. [id |-> f.id, kind |-> f.kind, parent |-> f.parent, by |-> i] \in mine
        BY DEF Load!By
      <4> QED BY <4>1
    <3> HIDE DEF k, mine
    <3> QED BY <3>1, <3>2 DEF Load!Ids
  <2>5. i \notin Loaded /\ i \notin MapSyncs /\ i \notin Registered
    BY <1>1, ImportAssumption DEF Loaded, Registered
  <2>6. Loaded' = Loaded \union {i} /\ Registered' = Registered
    BY <1>1, <2>1, <2>5, ImportAssumption DEF Loaded, Registered, ImportInv
  <2> HIDE DEF k, kept, mine
  <2>7. MapInv'
    <3>1. /\ \A e \in edges' : {e.from, e.to} \subseteq Load!Ids(nodes') \union {Load!Nothing}
          /\ \A n \in nodes' : n.parent \in Load!Ids(nodes') \union {Load!Nothing}
      <4>1. Load!Ids(k.file.nodes) \subseteq Load!Ids(nodes')
        BY <2>1, <2>4 DEF Load!Ids
      <4>2. \A e \in edges' : {e.from, e.to} \subseteq Load!Ids(k.file.nodes) \union {Load!Nothing}
        BY <2>1, <2>3 DEF File
      <4>3. \A n \in nodes' : n.parent \in Load!Ids(k.file.nodes) \union {Load!Nothing}
        BY <2>1, <2>3, <2>4 DEF File
      <4> QED BY <4>1, <4>2, <4>3
    <3>2. \A n, m \in nodes' : n.id = m.id => n = m
      <4>1. \A n, m \in kept : n.id = m.id => n = m
        BY DEF ImportInv, MapInv, kept
      <4>2. \A n, m \in mine : n.id = m.id => n = m
        BY <2>3, <2>4 DEF File
      <4>3. \A n \in kept, m \in mine : n.id # m.id
        BY <2>2, <2>4 DEF Load!Ids
      <4> QED BY <2>1, <4>1, <4>2, <4>3
    <3>3. \A n \in nodes' : n.by \in Scripts => n.by = i
      BY <2>1, <2>3, <2>4
    <3>4. \A n \in nodes' : n.by \in MapSyncs => n.by \in rows'
      <4>1. \A n \in kept : n.by \in MapSyncs => n.by \in rows
        BY DEF ImportInv, MapInv, kept
      <4> QED BY <2>1, <2>3, <2>4, <2>5, <4>1
    <3>5. rows' \subseteq Loaded' \union Registered' /\ meta' \in Loaded'
      BY <2>1, <2>6 DEF ImportInv, MapInv
    <3> QED BY <2>6, <3>1, <3>2, <3>3, <3>4, <3>5 DEF MapInv, Load!Nothing, Load!Ids
  <2>8. ASSUME NEW j \in Scripts
        PROVE  /\ loadPc'[j] \in {"checked", "seen", "started", "cleared", "done"} => Knows(loads[j])'
               /\ loadPc'[j] = "started" => loads'[j].gone = loads'[j].runs
               /\ loadPc'[j] = "cleared" => Cleared(loads[j])'
               /\ loadPc'[j] = "done" => loads'[j].runs \intersect rows' \intersect MapSyncs = {}
    <3>1. loads'[j] = loads[j] /\ (j # i => loadPc'[j] = loadPc[j]) /\ loadPc'[i] = "done"
      BY <1>1, <2>1 DEF ImportInv
    <3>2. PICK m : m = loads[j]
      OBVIOUS
    <3>3. loadPc'[j] \in {"checked", "seen", "started", "cleared", "done"} => Knows(m)
      BY <1>1, <3>1, <3>2 DEF ImportInv
    <3>4. Knows(m) => Knows(m)'
      BY <2>6, KnowsKept
    <3>5. Knows(m)' = Knows(loads[j])' /\ Cleared(m)' = Cleared(loads[j])'
      BY <3>1, <3>2 DEF Knows, Cleared, Shaped, File, Load!Ids
    <3>6. j # i /\ loadPc[j] = "cleared" => Cleared(m)'
      <4> SUFFICES ASSUME j # i, loadPc[j] = "cleared" PROVE Cleared(m)'
        OBVIOUS
      <4>1. Cleared(m) /\ Knows(m)
        BY <3>2, <3>1, <3>3 DEF ImportInv
      <4>2. m.meta # i
        BY <4>1, <2>5, ImportAssumption DEF Knows
      <4>3. \A n \in nodes' \ m.nodes : n.by \notin m.gone
        <5>1. i \notin m.gone
          BY <4>1, <2>5 DEF Knows, Cleared
        <5> QED BY <4>1, <5>1, <2>1, <2>4 DEF Cleared, kept
      <4> QED BY <4>1, <4>2, <4>3, <2>1 DEF Cleared, Load!Nothing
    <3>7. CASE j = i
      <4>1. m.runs \intersect rows' \intersect MapSyncs = {}
        BY <2>1, <2>3, <2>5, <3>2, <3>7 DEF k
      <4> QED BY <3>1, <3>2, <3>3, <3>4, <3>5, <3>7, <4>1
    <3>8. CASE j # i
      <4>1. loadPc[j] = "done" => m.runs \intersect rows' \intersect MapSyncs = {}
        BY <2>1, <2>5, <3>2 DEF ImportInv
      <4>2. loadPc[j] = "started" => m.gone = m.runs
        BY <3>2 DEF ImportInv
      <4> QED BY <3>1, <3>2, <3>3, <3>4, <3>5, <3>6, <3>8, <4>1, <4>2
    <3> QED BY <3>7, <3>8
  <2>9. ImportInv'
    <3>1. DOMAIN loadPc' = Scripts \union MapSyncs /\ loads' = [x \in Scripts |-> loads'[x]]
      BY <1>1, <2>1 DEF ImportInv
    <3> QED BY <2>7, <2>8, <3>1 DEF ImportInv
  <2>10. Replaces
    <3> SUFFICES ASSUME NEW j \in Scripts, loadPc[j] # "done", loadPc'[j] = "done"
                 PROVE  /\ loads[j].file.edges = edges' /\ loads[j].file.docs = docs'
                        /\ Load!Ids(loads[j].file.nodes) \subseteq Load!Ids(nodes')
                        /\ ~loads[j].empty => nodes' \intersect loads[j].nodes = {}
                        /\ loads[j].runs \intersect (found' \union rows') = {}
      BY DEF Replaces
    <3>1. j = i
      BY <2>1 DEF ImportInv
    <3>2. Load!Ids(k.file.nodes) \subseteq Load!Ids(nodes')
      BY <2>1, <2>4 DEF Load!Ids
    <3>3. nodes' \intersect k.nodes = {}
      BY <2>1, <2>3, <2>4, <2>5 DEF kept
    <3>4. k.runs \intersect (found' \union rows') = {}
      BY <2>1, <2>3, <2>5
    <3> QED BY <2>1, <3>1, <3>2, <3>3, <3>4 DEF k
  <2>11. NeverMixes
    BY <2>1 DEF NeverMixes
  <2> QED BY <2>9, <2>10, <2>11
<1> QED BY <1>3, <1>4

(* A step beside the imports: rows come that are of a sync or a person.    *)
LEMMA ImportBeside ==
  ASSUME ImportInv, NEW more, nodes' = nodes \union more, UNCHANGED <<edges, meta, loads>>,
         DOMAIN loadPc' = Scripts \union MapSyncs, \A i \in Scripts : loadPc'[i] = loadPc[i],
         \A s \in MapSyncs : loadPc'[s] = "new" => loadPc[s] = "new",
         rows \subseteq rows', rows' \subseteq rows \union Registered',
         \A i \in Scripts : loadPc[i] = "done" => loads[i].runs \intersect rows' \intersect MapSyncs \subseteq rows,
         \A n, m \in more : n = m,
         \A n \in more : /\ n.id \notin Load!Ids(nodes) /\ n.parent = Load!Nothing /\ n.by \notin Scripts
                         /\ n.by \in MapSyncs => n.by \in rows'
                         /\ \A i \in Scripts : loadPc[i] = "cleared" => n.by \notin loads[i].gone
  PROVE  ImportInv'
<1>1. Loaded' = Loaded /\ Registered \subseteq Registered'
  BY DEF Loaded, Registered
<1>2. MapInv'
  <2>1. Load!Ids(nodes) \subseteq Load!Ids(nodes')
    BY DEF Load!Ids
  <2>2. /\ \A e \in edges' : {e.from, e.to} \subseteq Load!Ids(nodes') \union {Load!Nothing}
        /\ \A n \in nodes' : n.parent \in Load!Ids(nodes') \union {Load!Nothing}
    <3>1. \A e \in edges' : {e.from, e.to} \subseteq Load!Ids(nodes) \union {Load!Nothing}
      BY DEF ImportInv, MapInv
    <3>2. \A n \in nodes' : n.parent \in Load!Ids(nodes) \union {Load!Nothing}
      BY DEF ImportInv, MapInv
    <3> QED BY <2>1, <3>1, <3>2
  <2>3. \A n, m \in nodes' : n.id = m.id => n = m
    <3>1. \A n \in nodes, m \in more : n.id # m.id
      BY DEF Load!Ids
    <3> QED BY <3>1 DEF ImportInv, MapInv
  <2>4. /\ \A n, m \in nodes' : n.by \in Scripts /\ m.by \in Scripts => n.by = m.by
        /\ \A n \in nodes' : n.by \in MapSyncs => n.by \in rows'
        /\ \A n \in nodes' : n.by \in Scripts => n.by \in Loaded'
        /\ rows' \subseteq Loaded' \union Registered' /\ meta' \in Loaded' \union {Load!Nothing}
    BY <1>1 DEF ImportInv, MapInv
  <2> QED BY <2>2, <2>3, <2>4 DEF MapInv, Load!Nothing, Load!Ids
<1>3. ASSUME NEW j \in Scripts
      PROVE  /\ loadPc'[j] \in {"checked", "seen", "started", "cleared", "done"} => Knows(loads[j])'
             /\ loadPc'[j] = "started" => loads'[j].gone = loads'[j].runs
             /\ loadPc'[j] = "cleared" => Cleared(loads[j])'
             /\ loadPc'[j] = "done" => loads'[j].runs \intersect rows' \intersect MapSyncs = {}
  <2>1. PICK m : m = loads[j]
    OBVIOUS
  <2>2. Knows(m) => Knows(m)'
    BY <1>1, KnowsKept
  <2>3. Knows(m)' = Knows(loads[j])' /\ Cleared(m)' = Cleared(loads[j])'
    BY <2>1 DEF Knows, Cleared, Shaped, File, Load!Ids
  <2>4. loadPc[j] = "cleared" => Cleared(m)'
    BY <2>1 DEF ImportInv, Cleared, Load!Nothing
  <2>5. /\ loadPc[j] \in {"checked", "seen", "started", "cleared", "done"} => Knows(m)
        /\ loadPc[j] = "started" => m.gone = m.runs
        /\ loadPc[j] = "done" => m.runs \intersect rows' \intersect MapSyncs = {}
    BY <2>1 DEF ImportInv
  <2> QED BY <2>1, <2>2, <2>3, <2>4, <2>5
<1> QED BY <1>2, <1>3 DEF ImportInv

LEMMA ImportStep ==
  ASSUME ImportInv, [Load!Next]_(Load!vars)
  PROVE  ImportInv' /\ Replaces /\ NeverMixes
<1>1. CASE UNCHANGED Load!vars
  <2>1. UNCHANGED <<nodes, edges, meta, rows, found, loadPc, loads>>
    BY <1>1 DEF Load!vars
  <2>2. Loaded' = Loaded /\ Registered' = Registered
    BY <2>1 DEF Loaded, Registered
  <2>3. ImportInv'
    BY <2>1, <2>2 DEF ImportInv, MapInv, Knows, Cleared, Shaped, File, Load!Ids
  <2> QED BY <2>1, <2>3 DEF Replaces, NeverMixes
<1>2. ASSUME NEW i \in Scripts,
             \/ Load!SeeRuns(i) \/ Load!DeleteRuns(i) \/ Load!DeleteMap(i) \/ Load!Crash(i)
             \/ \E kb \in Kbs, replace \in BOOLEAN : Load!Check(i, kb, replace)
      PROVE  ImportInv' /\ Replaces /\ NeverMixes
  <2>1. ImportInv'
    BY <1>2, ImportSees, ImportCheck
  <2>2. found' = found /\ \E phase : loadPc' = [loadPc EXCEPT ![i] = phase] /\ phase # "done"
    BY <1>2 DEF Load!SeeRuns, Load!DeleteRuns, Load!DeleteMap, Load!Crash, Load!Check, Load!Goto, Load!Rows
  <2>3. \A j \in Scripts : loadPc'[j] = "done" => loadPc[j] = "done"
    BY <2>2 DEF ImportInv
  <2> QED BY <2>1, <2>2, <2>3 DEF Replaces, NeverMixes
<1>3. ASSUME NEW s \in MapSyncs, Load!Register(s)
      PROVE  ImportInv' /\ Replaces /\ NeverMixes
  <2>1. /\ loadPc[s] = "new" /\ loadPc' = [loadPc EXCEPT ![s] = "running"] /\ rows' = rows \union {s}
        /\ UNCHANGED <<nodes, edges, meta, found, loads>> /\ s \notin Scripts
    BY <1>3, ImportAssumption DEF Load!Register, Load!Goto
  <2>2. /\ DOMAIN loadPc' = Scripts \union MapSyncs /\ \A i \in Scripts : loadPc'[i] = loadPc[i]
        /\ \A o \in MapSyncs : loadPc'[o] = "new" => loadPc[o] = "new"
        /\ s \in Registered'
    BY <2>1 DEF ImportInv, Registered
  <2>3. s \notin Loaded \union Registered
    BY <2>1 DEF Loaded, Registered
  <2>4. \A i \in Scripts : loadPc[i] = "done" => s \notin loads[i].runs
    BY <2>3 DEF ImportInv, Knows
  <2>5. PICK more : more = {}
    OBVIOUS
  <2>6. ImportInv'
    BY <2>1, <2>2, <2>4, <2>5, ImportBeside
  <2> QED BY <2>1, <2>2, <2>6 DEF Replaces, NeverMixes
<1>4. ASSUME NEW s \in MapSyncs, Load!Finish(s)
      PROVE  ImportInv' /\ Replaces /\ NeverMixes
  <2>1. /\ loadPc[s] = "running" /\ loadPc' = [loadPc EXCEPT ![s] = "done"] /\ rows' = rows
        /\ UNCHANGED <<edges, meta, loads>> /\ s \notin Scripts /\ ~Load!Waits(s)
    BY <1>4, ImportAssumption DEF Load!Finish, Load!Goto
  <2>2. /\ DOMAIN loadPc' = Scripts \union MapSyncs /\ \A i \in Scripts : loadPc'[i] = loadPc[i]
        /\ \A o \in MapSyncs : loadPc'[o] = "new" => loadPc[o] = "new"
    BY <2>1 DEF ImportInv, Registered
  <2>3. \A i \in Scripts : loadPc[i] = "cleared" => s \notin loads[i].gone
    BY <2>1 DEF Load!Waits
  <2>4. PICK n : n = [id |-> Found, kind |-> "dataset", parent |-> Load!Nothing, by |-> s]
    OBVIOUS
  <2>5. \/ nodes' = nodes
        \/ nodes' = nodes \union {n} /\ Found \notin Load!Ids(nodes) /\ s \in rows
    BY <1>4, <2>4 DEF Load!Finish
  <2>6. ImportInv'
    <3>1. CASE nodes' = nodes
      <4>1. PICK more : more = {}
        OBVIOUS
      <4> QED BY <2>1, <2>2, <3>1, <4>1, ImportBeside
    <3>2. CASE nodes' = nodes \union {n} /\ Found \notin Load!Ids(nodes) /\ s \in rows
      <4>1. PICK more : more = {n}
        OBVIOUS
      <4>2. n.id = Found /\ n.parent = Load!Nothing /\ n.by = s
        BY <2>4
      <4> QED BY <2>1, <2>2, <2>3, <3>2, <4>1, <4>2, ImportBeside
    <3> QED BY <2>5, <3>1, <3>2
  <2>7. \A o \in MapSyncs : found' # found /\ o \in found' \ found => o = s /\ s \in rows
    BY <1>4 DEF Load!Finish
  <2>8. NeverMixes
    BY <2>7 DEF NeverMixes, ImportInv
  <2> QED BY <2>2, <2>6, <2>8 DEF Replaces
<1>5. ASSUME NEW id, Load!Create(id)
      PROVE  ImportInv' /\ Replaces /\ NeverMixes
  <2>1. /\ id \notin Load!Ids(nodes) /\ UNCHANGED <<edges, meta, rows, found, loadPc, loads>>
        /\ nodes' = nodes \union {[id |-> id, kind |-> "external", parent |-> Load!Nothing, by |-> "person"]}
    BY <1>5 DEF Load!Create
  <2>2. PICK n : n = [id |-> id, kind |-> "external", parent |-> Load!Nothing, by |-> "person"]
    OBVIOUS
  <2>3. PICK more : more = {n}
    OBVIOUS
  <2>4. n.id = id /\ n.parent = Load!Nothing /\ n.by = "person"
    BY <2>2
  <2>5. \A i \in Scripts : loadPc[i] = "cleared" => "person" \notin loads[i].gone
    BY ImportAssumption DEF ImportInv, Knows, Cleared, Loaded, Registered
  <2>6. /\ nodes' = nodes \union more
        /\ \A m \in more : /\ m.id \notin Load!Ids(nodes) /\ m.parent = Load!Nothing /\ m.by \notin Scripts \union MapSyncs
                          /\ \A i \in Scripts : loadPc[i] = "cleared" => m.by \notin loads[i].gone
    BY <2>1, <2>2, <2>3, <2>4, <2>5, ImportAssumption
  <2>7. DOMAIN loadPc = Scripts \union MapSyncs
    BY DEF ImportInv
  <2>8. ImportInv'
    BY <2>1, <2>3, <2>6, <2>7, ImportBeside
  <2> QED BY <2>1, <2>8 DEF Replaces, NeverMixes
<1>6. ASSUME NEW i \in Scripts, Load!Load(i)
      PROVE  ImportInv' /\ Replaces /\ NeverMixes
  BY <1>6, ImportLoad
<1>7. CASE Load!Ended
  BY <1>1, <1>7 DEF Load!Ended
<1> QED BY <1>1, <1>2, <1>3, <1>4, <1>5, <1>6, <1>7 DEF Load!Next

LEMMA ImportOneFile == ImportInv => Load!OneFile
<1> SUFFICES ASSUME ImportInv PROVE Load!OneFile
  OBVIOUS
<1> DEFINE loaders == {n.by : n \in nodes} \intersect Scripts
<1>1. \A a, b \in loaders : a = b
  BY DEF ImportInv, MapInv
<1> HIDE DEF loaders
<1>2. loaders = {} \/ \E a : loaders = {a}
  BY <1>1
<1>3. Cardinality(loaders) <= 1
  <2>1. CASE loaders = {}
    BY <2>1, FS_EmptySet
  <2>2. ASSUME NEW a, loaders = {a} PROVE Cardinality(loaders) = 1
    BY <2>2, FS_Singleton
  <2> QED BY <1>2, <2>1, <2>2
<1>4. Load!Cardinality(loaders) = Cardinality(loaders)
  BY Zenon DEF Load!Cardinality, Cardinality
<1>5. (UNION {{e.from, e.to} : e \in edges}) \union {n.parent : n \in nodes} \subseteq Load!Ids(nodes) \union {Load!Nothing}
  <2> DEFINE ends == UNION {{e.from, e.to} : e \in edges}
             parents == {n.parent : n \in nodes}
  <2>1. ASSUME NEW x \in ends PROVE x \in Load!Ids(nodes) \union {Load!Nothing}
    <3>1. PICK e \in edges : x \in {e.from, e.to}
      OBVIOUS
    <3> QED BY <3>1 DEF ImportInv, MapInv
  <2>2. ASSUME NEW x \in parents PROVE x \in Load!Ids(nodes) \union {Load!Nothing}
    BY DEF ImportInv, MapInv
  <2> HIDE DEF ends, parents
  <2>3. ends \union parents \subseteq Load!Ids(nodes) \union {Load!Nothing}
    BY <2>1, <2>2
  <2> QED BY <2>3 DEF ends, parents
<1> QED BY <1>3, <1>4, <1>5 DEF ImportInv, MapInv, Load!OneFile, loaders

(* However imports, syncs and people overlap and whatever stops, the map   *)
(* hangs together and is of one file, an import that ends leaves nothing   *)
(* of what was there when it cleared the map, and a sync that was under    *)
(* way then writes nothing into the new one (ea/importer.py): for any      *)
(* files, and any number of imports and syncs.                             *)
THEOREM ImportsWhole == HubSpec => ImportWhole
<1>1. Load!Init => ImportInv
  BY ImportStart
<1>2. ImportInv /\ [Load!Next]_(Load!vars) => ImportInv' /\ [Replaces]_(Load!vars) /\ [NeverMixes]_(Load!vars)
  BY ImportStep
<1>3. Load!Spec => []Load!OneFile /\ [][Replaces]_(Load!vars) /\ [][NeverMixes]_(Load!vars)
  BY <1>1, <1>2, ImportOneFile, PTL DEF Load!Spec
<1>4. [][Replaces]_(Load!vars) => Load!Replaced
  BY PTL DEF Replaces, Load!Replaced
<1>5. [][NeverMixes]_(Load!vars) => Load!NeverMixed
  BY PTL DEF NeverMixes, Load!NeverMixed
<1> QED BY <1>3, <1>4, <1>5, PartLoad, PTL DEF ImportWhole, Load!ImportWhole

----------------------------------------------------------------------------
(* The pages of the reports *)

(* What of a run of the workflow can be stored. *)
Useful(r) == {i \in Page!Relevant(r) : Artifacts[r][i].env # "MAIN"}

(* A report that is complete has the last result of every artifact, and    *)
(* totals that agree, whatever attempts it took.                           *)
Kept(r) ==
  /\ reports[r] = [status |-> reports[r].status, results |-> reports[r].results, counts |-> reports[r].counts]
  /\ reports[r].status # Page!Missing => left[r] # 0 /\ outcome.attempt # 0
  /\ reports[r].results \subseteq Useful(r)
  /\ reports[r].status = "COMPLETE" =>
       /\ reports[r].results = Page!Final(r)
       /\ reports[r].counts = Page!Counts(r, Page!Final(r))

StatusRow == [attempt : Nat, success : Nat, error : BOOLEAN]

StoreInv ==
  /\ hour \in Nat /\ left \in [Reports -> Nat] /\ reports = [r \in Reports |-> reports[r]]
  /\ outcome \in StatusRow
  /\ \A r \in Reports : Kept(r)

(* A request: a report that was complete when it was asked for is so, or   *)
(* is past the retention and never comes back.                             *)
Asked(m) ==
  /\ m.start \subseteq Reports /\ \A r \in m.start : left[r] # 0
  /\ m.id \in Reports \union {Page!Missing}
  /\ m.id \in m.start \ Page!Complete => left[m.id] + PageRetention < hour
  /\ m.asked = "latest" /\ m.id # Page!Missing => m.id \in m.start /\ \A r \in m.start : left[r] <= left[m.id]
  /\ m.found => m.id \in Reports /\ outcome.attempt # 0

(* What it has read of that report is what is stored. *)
Lasting(m) == m.id \in m.start \intersect Page!Complete
Form(m) == m = [asked |-> m.asked, start |-> m.start, id |-> m.id, row |-> m.row, results |-> m.results, found |-> m.found]
RowRead(m) == Lasting(m) => m.row.counts = Page!Counts(m.id, Page!Final(m.id))
ResultsRead(m) == Lasting(m) => m.results = Page!Final(m.id)
Shows(m) == IF m.found THEN Lasting(m) => Page!Whole(m) ELSE ~Lasting(m)

ReadInv ==
  /\ pagePc = "run" => Form(read) /\ Asked(read) /\ ~read.found /\ read.id \in Reports
  /\ pagePc = "results" => Form(read) /\ Asked(read) /\ read.found /\ RowRead(read)
  /\ pagePc = "changes" => Asked(read) /\ read.found /\ RowRead(read) /\ ResultsRead(read)
  /\ pagePc = "status" => Asked(read) /\ read.asked = "latest" /\ Shows(read)
  /\ pagePc = "newest" => /\ Asked(read.shown) /\ read.shown.asked = "latest" /\ Shows(read.shown)
                          /\ read.status \in StatusRow
                          /\ read.shown.found => read.status.attempt # 0

PageInv == StoreInv /\ ReadInv

LEMMA ArtifactForm ==
  ASSUME NEW r \in Reports, NEW i \in DOMAIN Artifacts[r]
  PROVE  /\ i \in Nat /\ Page!Levels(r, i) \in Seq(1..3)
         /\ Artifacts[r][i].env # "MAIN" =>
              Page!Key(r, i) \in {Page!Key(r, i)[1]} \X Page!Environments
<1> DEFINE T == [prefix : STRING, file : STRING, env : STRING, levels : Seq(1..3)]
<1>1. Artifacts[r] \in Seq(T)
  BY ReportsAssumption
<1>2. Artifacts[r][i] \in T /\ i \in Nat
  <2> HIDE DEF T
  <2>1. PICK n \in Nat : Artifacts[r] \in [1..n -> T]
    BY <1>1
  <2>2. DOMAIN Artifacts[r] = 1..n
    BY <2>1
  <2> QED BY <2>1, <2>2
<1>3. Artifacts[r][i].env \in {"DEV", "UAT", "PROD", "MAIN"}
  BY ReportsAssumption
<1> QED BY <1>2, <1>3 DEF Page!Levels, Page!Key, Page!Environments, Page!EnvironmentOf

LEMMA ClassifiedKnown ==
  ASSUME NEW levels \in Seq(1..3)
  PROVE  Page!Classified(levels) # "NOT_CONFIGURED"
<1> DEFINE S == Page!ToSet(levels) \union {0}
<1>1. S \subseteq 0..3 /\ 0 \in S
  BY DEF Page!ToSet
<1> HIDE DEF S
<1>2. \E x \in S : \A y \in S : x >= y
  <2>1. CASE 3 \in S BY <1>1, <2>1
  <2>2. CASE 3 \notin S /\ 2 \in S BY <1>1, <2>2
  <2>3. CASE 3 \notin S /\ 2 \notin S /\ 1 \in S BY <1>1, <2>3
  <2>4. CASE 3 \notin S /\ 2 \notin S /\ 1 \notin S BY <1>1, <2>4
  <2> QED BY <2>1, <2>2, <2>3, <2>4
<1>3. Page!Max(S) \in 0..3
  BY <1>1, <1>2 DEF Page!Max
<1>4. Page!Classified(levels) = <<"OK", "INFO", "WARNING", "KO">>[1 + Page!Max(S)]
  BY DEF Page!Classified, S
<1> QED BY <1>3, <1>4

LEMMA FinalUnique ==
  ASSUME NEW r \in Reports, NEW i \in Page!Final(r), NEW j \in Page!Final(r), Page!Key(r, i) = Page!Key(r, j)
  PROVE  i = j
<1>1. i \in DOMAIN Artifacts[r] /\ j \in DOMAIN Artifacts[r]
  BY DEF Page!Final, Page!Relevant
<1>2. i \in Nat /\ j \in Nat
  BY <1>1, ArtifactForm
<1> QED BY <1>2 DEF Page!Final

(* A page that was made of the last results and of their totals is whole.  *)
LEMMA FinalShown ==
  ASSUME NEW m, m.id \in Reports,
         m.matrix = Page!Matrix(m.id, Page!Final(m.id), Page!Final(m.id)),
         m.row.counts = Page!Counts(m.id, Page!Final(m.id))
  PROVE  Page!Whole(m)
<1> DEFINE r == m.id
           F == Page!Final(r)
           K == {Page!Key(r, i) : i \in F}
           D == {Page!Key(r, i)[1] : i \in F} \X Page!Environments
<1>1. \A i \in F : /\ i \in DOMAIN Artifacts[r] /\ Page!Levels(r, i) \in Seq(1..3)
                   /\ Page!Key(r, i) \in {Page!Key(r, i)[1]} \X Page!Environments
  BY ArtifactForm DEF Page!Final, Page!Relevant
<1>2. m.matrix = [k \in D |-> Page!Cell(r, F, F, k)]
  BY DEF Page!Matrix
<1>3. K \subseteq D
  BY <1>1
<1>4. ASSUME NEW i \in F
      PROVE  /\ m.matrix[Page!Key(r, i)] # Page!NotConfigured
             /\ m.matrix[Page!Key(r, i)].status = Page!Classified(Page!Levels(r, i))
             /\ m.matrix[Page!Key(r, i)].changes = Page!ToSet(Page!Levels(r, i))
  <2> DEFINE k == Page!Key(r, i)
  <2>1. m.matrix[k] = Page!Cell(r, F, F, k)
    BY <1>2, <1>3
  <2>2. (CHOOSE j \in F : Page!Key(r, j) = k) = i
    BY FinalUnique
  <2>3. {j \in F : Page!Key(r, j) = k} = {i}
    BY FinalUnique
  <2>4. UNION {Page!ToSet(Page!Levels(r, j)) : j \in {i}} = Page!ToSet(Page!Levels(r, i))
    OBVIOUS
  <2>5. UNION {Page!ToSet(Page!Levels(r, j)) : j \in {j \in F : Page!Key(r, j) = k}} = Page!ToSet(Page!Levels(r, i))
    BY <2>3, <2>4
  <2>6. Page!Cell(r, F, F, k) =
          [status |-> Page!Classified(Page!Levels(r, i)), counts |-> Page!Counts(r, {i}),
           changes |-> Page!ToSet(Page!Levels(r, i))]
    BY <2>2, <2>5 DEF Page!Cell
  <2>7. Page!Classified(Page!Levels(r, i)) # "NOT_CONFIGURED"
    BY <1>1, ClassifiedKnown
  <2> HIDE DEF k, F
  <2> QED BY <2>1, <2>6, <2>7 DEF Page!NotConfigured, k
<1>5. ASSUME NEW k \in D \ K PROVE m.matrix[k] = Page!NotConfigured
  BY <1>2, <1>5 DEF Page!Cell
<1>6. DOMAIN m.matrix = D
  BY <1>2
<1>7. {k \in DOMAIN m.matrix : m.matrix[k] # Page!NotConfigured} = K
  <2> HIDE DEF D, F
  <2> QED BY <1>3, <1>4, <1>5, <1>6
<1>8. ASSUME NEW l \in 1..3
      PROVE  m.row.counts[l] = Page!Cardinality(UNION {{i} \X {k \in DOMAIN Page!Levels(r, i) : Page!Levels(r, i)[k] = l} : i \in F})
  <2> DEFINE A(i) == {k \in DOMAIN Page!Levels(r, i) : Page!Levels(r, i)[k] = l}
  <2>1. m.row.counts[l] = Page!Cardinality(Page!Changes(r, F, l))
    BY DEF Page!Counts
  <2>2. Page!Changes(r, F, l) = UNION {{<<i, k>> : k \in A(i)} : i \in F}
    BY DEF Page!Changes
  <2>3. UNION {{<<i, k>> : k \in A(i)} : i \in F} = UNION {{i} \X A(i) : i \in F}
    <3> HIDE DEF A, F
    <3>1. \A i \in F : {<<i, k>> : k \in A(i)} = {i} \X A(i)
      OBVIOUS
    <3> QED BY <3>1
  <2> QED BY <2>1, <2>2, <2>3
<1> HIDE DEF D
<1> QED BY <1>4, <1>7, <1>8 DEF Page!Whole

(* What is stored of a run of the workflow. *)
LEMMA PersistedForm ==
  ASSUME NEW r \in Reports, NEW rd \in SUBSET Page!Relevant(r), Kept(r)
  PROVE  LET p == Page!Persisted(r, rd) IN
         /\ p = [status |-> p.status, results |-> p.results, counts |-> p.counts]
         /\ p.status # Page!Missing /\ p.results \subseteq Useful(r)
         /\ p.status = "COMPLETE" => p.results = Page!Final(r) /\ p.counts = Page!Counts(r, Page!Final(r))
<1> DEFINE P == Page!Payloads(r, rd)
           V == Page!Upserted(r, reports[r].results, P)
           st == CASE P = {} -> "FAILED" [] P # {} /\ Page!Errors(r, rd) -> "PARTIAL" [] OTHER -> "COMPLETE"
<1>1. Page!Persisted(r, rd) = [status |-> st, results |-> V, counts |-> Page!Counts(r, V)]
  BY DEF Page!Persisted, Page!Counted
<1>2. P \subseteq Useful(r)
  BY DEF Useful, Page!Payloads, Page!Parsed
<1>3. V \subseteq Useful(r)
  BY <1>2 DEF Page!Upserted, Kept
<1>4. st \in {"FAILED", "PARTIAL", "COMPLETE"} /\ (st = "COMPLETE" => ~Page!Errors(r, rd))
  <2> HIDE DEF P
  <2> QED OBVIOUS
<1>5. ASSUME ~Page!Errors(r, rd) PROVE V = Page!Final(r)
  <2>1. P = Useful(r)
    BY <1>5 DEF Page!Errors, Page!Payloads, Page!Parsed, Useful
  <2>2. \A i \in reports[r].results : i \in P
    BY <2>1 DEF Kept
  <2>3. V = {i \in P : \A j \in P : j > i => Page!Key(r, j) # Page!Key(r, i)}
    <3> HIDE DEF P
    <3> QED BY <2>2 DEF Page!Upserted
  <2> HIDE DEF P, V
  <2> QED BY <2>1, <2>3 DEF Useful, Page!Final
<1> HIDE DEF st, V, P
<1> QED BY <1>1, <1>3, <1>4, <1>5 DEF Page!Missing

(* What a sync that ends makes of a report: it is past the retention and   *)
(* removed, or as it was, or it was not complete and is imported again.    *)
Becomes(r, began) ==
  \/ reports'[r] = Page!Absent /\ left[r] + PageRetention < began
  \/ reports'[r] = reports[r]
  \/ /\ r \notin Page!Complete /\ left[r] # 0 /\ left[r] + PageRetry >= began
     /\ \E rd \in SUBSET Page!Relevant(r) : reports'[r] = Page!Persisted(r, rd)

LEMMA SyncBecomes ==
  ASSUME StoreInv, NEW began \in 1..hour, Page!Sync(began)
  PROVE  /\ hour - began <= Lag /\ UNCHANGED <<hour, left, pagePc, read>>
         /\ reports' = [r \in Reports |-> reports'[r]] /\ \A r \in Reports : Becomes(r, began)
         /\ outcome' \in StatusRow /\ outcome'.attempt = began
<1> DEFINE recent == {r \in Reports \ Page!Complete : left[r] # 0 /\ left[r] + PageRetry >= began}
           lates == {r \in recent : left[r] >= began}
           outs == UNION {{<<r, o>> : o \in Page!Outcomes(r)} : r \in recent}
<1>1. /\ Page!Ends(began) /\ UNCHANGED <<hour, left, pagePc, read>>
      /\ \E unseen \in SUBSET lates : \E new \in [recent \ unseen -> {o[2] : o \in outs}] :
           LET todos  == recent \ unseen
               failed == todos # {} /\ \A r \in todos : new[r].lost \/ new[r].row.status = "FAILED"
               after  == [r \in Reports |-> IF r \in todos THEN new[r].row ELSE reports[r]]
           IN  /\ \A r \in todos : <<r, new[r]>> \in outs
               /\ reports' = [r \in Reports |-> IF ~failed /\ left[r] + PageRetention < began THEN Page!Absent ELSE after[r]]
               /\ outcome' = [attempt |-> began, success |-> IF failed THEN outcome.success ELSE began,
                              error |-> \E r \in todos : new[r].error]
  BY DEF Page!Sync
<1> HIDE DEF recent, lates, outs
<1>0. PICK unseen \in SUBSET lates :
        \E new \in [recent \ unseen -> {o[2] : o \in outs}] :
          LET todos  == recent \ unseen
              failed == todos # {} /\ \A r \in todos : new[r].lost \/ new[r].row.status = "FAILED"
              after  == [r \in Reports |-> IF r \in todos THEN new[r].row ELSE reports[r]]
          IN  /\ \A r \in todos : <<r, new[r]>> \in outs
              /\ reports' = [r \in Reports |-> IF ~failed /\ left[r] + PageRetention < began THEN Page!Absent ELSE after[r]]
              /\ outcome' = [attempt |-> began, success |-> IF failed THEN outcome.success ELSE began,
                             error |-> \E r \in todos : new[r].error]
  BY <1>1
<1>2. PICK new \in [recent \ unseen -> {o[2] : o \in outs}] :
        LET todos  == recent \ unseen
            failed == todos # {} /\ \A r \in todos : new[r].lost \/ new[r].row.status = "FAILED"
            after  == [r \in Reports |-> IF r \in todos THEN new[r].row ELSE reports[r]]
        IN  /\ \A r \in todos : <<r, new[r]>> \in outs
            /\ reports' = [r \in Reports |-> IF ~failed /\ left[r] + PageRetention < began THEN Page!Absent ELSE after[r]]
            /\ outcome' = [attempt |-> began, success |-> IF failed THEN outcome.success ELSE began,
                           error |-> \E r \in todos : new[r].error]
  BY <1>0
<1> DEFINE todos == recent \ unseen
           failed == todos # {} /\ \A r \in todos : new[r].lost \/ new[r].row.status = "FAILED"
           errs == \E r \in todos : new[r].error
<1>3. /\ \A r \in todos : <<r, new[r]>> \in outs
      /\ reports' = [r \in Reports |-> IF ~failed /\ left[r] + PageRetention < began THEN Page!Absent
                                       ELSE IF r \in todos THEN new[r].row ELSE reports[r]]
      /\ outcome' = [attempt |-> began, success |-> IF failed THEN outcome.success ELSE began, error |-> errs]
  BY <1>2
<1>4. errs \in BOOLEAN
  BY Zenon
<1> HIDE DEF failed, errs
<1>5. outcome' \in StatusRow /\ outcome'.attempt = began
  BY <1>3, <1>4 DEF StoreInv, StatusRow
<1>6. ASSUME NEW r \in Reports PROVE Becomes(r, began)
  <2>1. CASE ~failed /\ left[r] + PageRetention < began
    BY <1>3, <2>1 DEF Becomes
  <2>2. CASE ~(~failed /\ left[r] + PageRetention < began) /\ r \notin todos
    BY <1>3, <2>2 DEF Becomes
  <2>3. CASE ~(~failed /\ left[r] + PageRetention < began) /\ r \in todos
    <3>1. new[r] \in Page!Outcomes(r) /\ reports'[r] = new[r].row
      BY <1>3, <2>3 DEF outs
    <3>2. r \notin Page!Complete /\ left[r] # 0 /\ left[r] + PageRetry >= began
      BY <2>3 DEF recent
    <3>3. CASE new[r] = [row |-> reports[r], lost |-> TRUE, error |-> TRUE]
      BY <3>1, <3>3 DEF Becomes
    <3>4. ASSUME NEW rd \in SUBSET Page!Relevant(r),
                 new[r] = [row |-> Page!Persisted(r, rd), lost |-> FALSE, error |-> Page!Errors(r, rd)]
          PROVE  reports'[r] = Page!Persisted(r, rd)
      BY <3>1, <3>4
    <3>5. new[r] = [row |-> reports[r], lost |-> TRUE, error |-> TRUE]
            \/ \E rd \in SUBSET Page!Relevant(r) : new[r] = [row |-> Page!Persisted(r, rd), lost |-> FALSE, error |-> Page!Errors(r, rd)]
      BY <3>1 DEF Page!Outcomes
    <3> QED BY <3>2, <3>3, <3>4, <3>5 DEF Becomes
  <2> QED BY <2>1, <2>2, <2>3
<1>7. hour - began <= Lag
  BY <1>1 DEF Page!Ends
<1> QED BY <1>1, <1>3, <1>5, <1>6, <1>7

LEMMA StoreStart == Page!Init => PageInv
  BY DEF Page!Init, PageInv, StoreInv, ReadInv, StatusRow, Kept, Page!Absent, Page!Missing

LEMMA StoreSync ==
  ASSUME StoreInv, NEW began \in 1..hour, Page!Sync(began)
  PROVE  StoreInv'
<1>1. /\ UNCHANGED <<hour, left, pagePc, read>> /\ reports' = [r \in Reports |-> reports'[r]]
      /\ \A r \in Reports : Becomes(r, began)
      /\ outcome' \in StatusRow /\ outcome'.attempt = began
  BY SyncBecomes
<1>2. outcome'.attempt # 0
  BY <1>1 DEF StoreInv
<1>3. ASSUME NEW r \in Reports PROVE Kept(r)'
  <2>1. Kept(r)
    BY DEF StoreInv
  <2>2. CASE reports'[r] = Page!Absent
    BY <1>2, <2>2 DEF Kept, Page!Absent, Page!Missing
  <2>3. CASE reports'[r] = reports[r]
    BY <1>1, <1>2, <2>1, <2>3 DEF Kept, Useful, Page!Final, Page!Counts, Page!Changes, Page!Relevant, Page!Key, Page!Levels
  <2>4. ASSUME left[r] # 0, NEW rd \in SUBSET Page!Relevant(r), reports'[r] = Page!Persisted(r, rd)
        PROVE  Kept(r)'
    <3> DEFINE p == Page!Persisted(r, rd)
    <3>1. /\ p = [status |-> p.status, results |-> p.results, counts |-> p.counts]
          /\ p.status # Page!Missing /\ p.results \subseteq Useful(r)
          /\ p.status = "COMPLETE" => p.results = Page!Final(r) /\ p.counts = Page!Counts(r, Page!Final(r))
      BY <2>1, PersistedForm
    <3>2. reports'[r] = p
      BY <2>4
    <3>3. left'[r] # 0
      BY <1>1, <2>4
    <3> HIDE DEF p
    <3> QED BY <1>2, <3>1, <3>2, <3>3 DEF Kept, Useful, Page!Final, Page!Counts, Page!Changes, Page!Relevant, Page!Key, Page!Levels
  <2> QED BY <1>1, <2>2, <2>3, <2>4 DEF Becomes
<1> QED BY <1>1, <1>3 DEF StoreInv

(* What the world may do to a report between two statements of a request.  *)
Beside ==
  /\ UNCHANGED <<pagePc, read>> /\ hour' \in Nat /\ hour' >= hour
  /\ \A r \in Reports : left[r] # 0 => left'[r] = left[r]
  /\ outcome.attempt # 0 => outcome'.attempt # 0
  /\ \A r \in Reports : reports'[r].status = "COMPLETE" =>
       reports'[r] = reports[r] \/ left[r] + PageRetention >= hour
  /\ \A r \in Reports : reports[r].status = "COMPLETE" =>
       reports'[r] = reports[r] \/ left[r] + PageRetention < hour

LEMMA SyncBeside ==
  ASSUME StoreInv, NEW began \in 1..hour, Page!Sync(began)
  PROVE  Beside
<1>1. /\ UNCHANGED <<hour, left, pagePc, read>> /\ reports' = [r \in Reports |-> reports'[r]]
      /\ \A r \in Reports : Becomes(r, began)
      /\ outcome' \in StatusRow /\ outcome'.attempt = began /\ hour - began <= Lag
  BY SyncBecomes
<1>2. hour \in Nat /\ \A r \in Reports : left[r] \in Nat
  BY DEF StoreInv
<1>3. ASSUME NEW r \in Reports
      PROVE  /\ reports'[r].status = "COMPLETE" => reports'[r] = reports[r] \/ left[r] + PageRetention >= hour
             /\ reports[r].status = "COMPLETE" => reports'[r] = reports[r] \/ left[r] + PageRetention < hour
  <2>1. CASE reports'[r] = Page!Absent /\ left[r] + PageRetention < began
    BY <1>2, <2>1, ReportsAssumption DEF Page!Absent, Page!Missing
  <2>2. CASE reports'[r] = reports[r]
    BY <2>2
  <2>3. CASE r \notin Page!Complete /\ left[r] # 0 /\ left[r] + PageRetry >= began
    BY <1>1, <1>2, <2>3, ReportsAssumption DEF Page!Complete
  <2> QED BY <1>1, <2>1, <2>2, <2>3 DEF Becomes
<1> QED BY <1>1, <1>2, <1>3 DEF Beside

LEMMA FailureBeside ==
  ASSUME StoreInv, NEW began \in 1..hour, Page!RecordFailure(began)
  PROVE  StoreInv' /\ Beside
<1>1. /\ UNCHANGED <<hour, left, reports, pagePc, read>>
      /\ outcome' = [outcome EXCEPT !.attempt = began, !.error = TRUE]
  BY DEF Page!RecordFailure
<1>2. outcome' \in StatusRow /\ outcome'.attempt = began /\ began # 0
  <2>1. began \in Nat /\ began # 0 /\ outcome \in StatusRow
    BY DEF StoreInv
  <2> QED BY <1>1, <2>1 DEF StatusRow
<1>3. ASSUME NEW r \in Reports PROVE Kept(r)'
  BY <1>1, <1>2 DEF StoreInv, Kept, Useful, Page!Final, Page!Counts, Page!Changes, Page!Relevant, Page!Key, Page!Levels
<1>4. StoreInv'
  BY <1>1, <1>2, <1>3 DEF StoreInv
<1> QED BY <1>1, <1>2, <1>4 DEF StoreInv, Beside

LEMMA PublishBeside ==
  ASSUME StoreInv, NEW r \in Reports, Page!Publish(r)
  PROVE  StoreInv' /\ Beside
<1>1. /\ UNCHANGED <<hour, reports, outcome, pagePc, read>> /\ left[r] = 0
      /\ left' = [left EXCEPT ![r] = hour]
  BY DEF Page!Publish
<1>2. left' \in [Reports -> Nat] /\ \A q \in Reports : left[q] # 0 => left'[q] = left[q]
  BY <1>1 DEF StoreInv
<1>3. ASSUME NEW q \in Reports PROVE Kept(q)'
  BY <1>1, <1>2 DEF StoreInv, Kept, Useful, Page!Final, Page!Counts, Page!Changes, Page!Relevant, Page!Key, Page!Levels
<1>4. StoreInv'
  BY <1>1, <1>2, <1>3 DEF StoreInv
<1> QED BY <1>1, <1>2, <1>4 DEF StoreInv, Beside

LEMMA TickBeside ==
  ASSUME StoreInv, Page!Tick
  PROVE  StoreInv' /\ Beside
<1>1. UNCHANGED <<left, reports, outcome, pagePc, read>> /\ hour' = hour + 1
  BY DEF Page!Tick
<1>2. ASSUME NEW q \in Reports PROVE Kept(q)'
  BY <1>1 DEF StoreInv, Kept, Useful, Page!Final, Page!Counts, Page!Changes, Page!Relevant, Page!Key, Page!Levels
<1>3. StoreInv'
  BY <1>1, <1>2 DEF StoreInv
<1> QED BY <1>1, <1>3 DEF StoreInv, Beside

(* Whatever commits meanwhile, what a request has read stays true of the   *)
(* report if that is still there.                                          *)
LEMMA AskedKept ==
  ASSUME StoreInv, StoreInv', Beside, NEW CONSTANT m, Asked(m)
  PROVE  Asked(m)' /\ (Lasting(m)' => Lasting(m) /\ reports'[m.id] = reports[m.id])
<1>0. hour \in Nat /\ hour' \in Nat /\ hour' >= hour /\ PageRetention \in Nat /\ \A r \in Reports : left[r] \in Nat
  BY ReportsAssumption DEF StoreInv, Beside
<1>1. m.start \subseteq Reports /\ \A r \in m.start : left[r] # 0 /\ left'[r] = left[r]
  BY DEF Asked, Beside
<1>2. m.id \in m.start \ Page!Complete' => left'[m.id] + PageRetention < hour'
  <2> SUFFICES ASSUME m.id \in m.start, m.id \notin Page!Complete' PROVE left'[m.id] + PageRetention < hour'
    OBVIOUS
  <2>1. m.id \in Reports /\ left'[m.id] = left[m.id]
    BY <1>1
  <2>2. CASE m.id \notin Page!Complete
    BY <1>0, <2>1, <2>2 DEF Asked
  <2>3. CASE m.id \in Page!Complete
    BY <1>0, <2>1, <2>3 DEF Beside, Page!Complete
  <2> QED BY <2>2, <2>3
<1>3. m.asked = "latest" /\ m.id # Page!Missing => m.id \in m.start /\ \A r \in m.start : left'[r] <= left'[m.id]
  BY <1>1 DEF Asked
<1>4. m.found => m.id \in Reports /\ outcome'.attempt # 0
  BY DEF Asked, Beside
<1>5. Asked(m)'
  BY <1>1, <1>2, <1>3, <1>4 DEF Asked, Page!Missing
<1>6. ASSUME Lasting(m)' PROVE Lasting(m) /\ reports'[m.id] = reports[m.id]
  <2>1. m.id \in m.start /\ m.id \in Reports /\ reports'[m.id].status = "COMPLETE"
    BY <1>6 DEF Lasting, Page!Complete
  <2>2. reports'[m.id] = reports[m.id] \/ left[m.id] + PageRetention >= hour
    BY <2>1 DEF Beside
  <2>3. m.id \in Page!Complete
    BY <1>0, <2>1, <2>2 DEF Asked, Page!Complete
  <2> QED BY <1>0, <2>1, <2>2, <2>3 DEF Lasting, Beside, Page!Complete, Asked
<1> QED BY <1>5, <1>6

LEMMA ReadKept ==
  ASSUME StoreInv, StoreInv', Beside, NEW CONSTANT m, Asked(m)
  PROVE  /\ Asked(m)'
         /\ RowRead(m) => RowRead(m)'
         /\ ResultsRead(m) => ResultsRead(m)'
         /\ Shows(m) => Shows(m)'
<1>1. Asked(m)' /\ (Lasting(m)' => Lasting(m))
  BY AskedKept
<1>2. Page!Final(m.id)' = Page!Final(m.id)
  BY DEF Page!Final, Page!Relevant, Page!Key
<1>3. Page!Counts(m.id, Page!Final(m.id))' = Page!Counts(m.id, Page!Final(m.id))
  BY DEF Page!Counts, Page!Changes, Page!Levels, Page!Final, Page!Relevant, Page!Key
<1>4. Page!Whole(m)' = Page!Whole(m)
  BY DEF Page!Whole, Page!Levels, Page!Final, Page!Relevant, Page!Key, Page!Classified, Page!NotConfigured
<1> QED BY <1>1, <1>2, <1>3, <1>4 DEF RowRead, ResultsRead, Shows

LEMMA BesideKept ==
  ASSUME PageInv, StoreInv', Beside
  PROVE  PageInv'
<1>1. StoreInv /\ ReadInv /\ pagePc' = pagePc /\ read' = read
  BY DEF PageInv, Beside
<1>2. PICK m : m = read
  OBVIOUS
<1> DEFINE Says(q) == /\ Asked(q) => Asked(q)'
                      /\ Asked(q) /\ RowRead(q) => RowRead(q)'
                      /\ Asked(q) /\ ResultsRead(q) => ResultsRead(q)'
                      /\ Asked(q) /\ Shows(q) => Shows(q)'
<1>3. Says(m) /\ Says(m.shown)
  BY <1>1, ReadKept
<1>4. ReadInv'
  BY <1>1, <1>2, <1>3 DEF ReadInv, Asked, RowRead, ResultsRead, Shows, Lasting, Form
<1> QED BY <1>4 DEF PageInv

(* A statement of a request leaves the store alone. *)
LEMMA StoreFrame ==
  ASSUME StoreInv, UNCHANGED <<hour, left, reports, outcome, syncs>>
  PROVE  StoreInv'
<1>1. ASSUME NEW r \in Reports PROVE Kept(r)'
  BY DEF StoreInv, Kept, Useful, Page!Final, Page!Counts, Page!Changes, Page!Relevant, Page!Key, Page!Levels
<1> QED BY <1>1 DEF StoreInv

(* What a request has when the answer is ready. *)
Honest(m) ==
  LET one == IF m.asked = "latest" THEN m.shown ELSE m IN
  /\ m.asked = "latest" => Page!Latest(m)
  /\ one.found /\ one.id \in one.start \intersect Page!Complete => Page!Whole(one)
Answers == pagePc # "answer" /\ pagePc' = "answer" => Honest(read')

LEMMA AskHolds ==
  ASSUME PageInv, NEW asked \in Pages, Page!Ask(asked)
  PROVE  PageInv' /\ Answers
<1>1. PICK id \in IF asked # "latest" THEN {asked} ELSE IF Page!Complete = {} THEN {Page!Missing} ELSE Page!Newest(Page!Complete) :
        Page!Goto(IF id = Page!Missing THEN "status" ELSE "run",
                  [asked |-> asked, start |-> Page!Complete, id |-> id, row |-> Page!Absent, results |-> {}, found |-> FALSE])
  BY DEF Page!Ask
<1> DEFINE m == [asked |-> asked, start |-> Page!Complete, id |-> id, row |-> Page!Absent, results |-> {}, found |-> FALSE]
<1>2. /\ pagePc' = (IF id = Page!Missing THEN "status" ELSE "run") /\ read' = m
      /\ UNCHANGED <<hour, left, reports, outcome, syncs>>
  BY <1>1 DEF Page!Goto, Page!World
<1>3. Page!Complete \subseteq Reports /\ \A r \in Page!Complete : left[r] # 0 /\ left[r] \in Nat
  BY DEF PageInv, StoreInv, Kept, Page!Complete, Page!Missing
<1>4. /\ id \in Reports \union {Page!Missing} /\ Page!Missing \notin Reports /\ (id = Page!Missing => asked = "latest")
      /\ asked = "latest" /\ id # Page!Missing => id \in Page!Complete /\ \A r \in Page!Complete : left[r] <= left[id]
  BY <1>3, ReportsAssumption DEF Page!Newest
<1>5. Asked(m) /\ Form(m) /\ ~m.found
  BY <1>3, <1>4 DEF Asked, Form
<1>6. Page!Complete' = Page!Complete
  BY <1>2 DEF Page!Complete
<1> HIDE DEF m
<1>7. Asked(read)' /\ Form(read)' /\ ~read'.found /\ read'.id = id /\ read'.asked = asked
  BY <1>2, <1>5, <1>6 DEF Asked, Form, m
<1>8. id = Page!Missing => Shows(read)'
  BY <1>2, <1>3, <1>4, <1>7 DEF Shows, Lasting, m
<1>9. ReadInv'
  BY <1>2, <1>4, <1>7, <1>8 DEF ReadInv
<1> QED BY <1>2, <1>9, StoreFrame DEF PageInv, Answers

LEMMA RunHolds ==
  ASSUME PageInv, Page!ReadRun
  PROVE  PageInv' /\ Answers
<1> DEFINE id == read.id
           m == [asked |-> read.asked, start |-> read.start, id |-> id, row |-> [reports[id] EXCEPT !.results = {}],
                 results |-> read.results, found |-> TRUE]
<1>1. /\ pagePc = "run" /\ Form(read) /\ Asked(read) /\ ~read.found /\ id \in Reports
      /\ UNCHANGED <<hour, left, reports, outcome, syncs>>
  BY DEF Page!ReadRun, Page!Goto, Page!World, PageInv, ReadInv
<1>2. Kept(id)
  BY <1>1 DEF PageInv, StoreInv
<1>3. Page!Complete' = Page!Complete
  BY <1>1 DEF Page!Complete
<1>4. StoreInv'
  BY <1>1, StoreFrame DEF PageInv
<1>5. CASE id \in Page!Stored
  <2>1. pagePc' = "results" /\ read' = [read EXCEPT !.row = [reports[id] EXCEPT !.results = {}], !.found = TRUE]
    BY <1>5 DEF Page!ReadRun, Page!Goto
  <2>2. [read EXCEPT !.row = [reports[id] EXCEPT !.results = {}], !.found = TRUE] = m
    <3> DEFINE R == [reports[id] EXCEPT !.results = {}]
    <3> HIDE DEF R
    <3>1. PICK a, b, c, d, e, g :
            read = [asked |-> a, start |-> b, id |-> c, row |-> d, results |-> e, found |-> g]
      BY <1>1 DEF Form
    <3>2. [read EXCEPT !.row = R, !.found = TRUE] = [asked |-> a, start |-> b, id |-> c, row |-> R, results |-> e, found |-> TRUE]
      <4>1. [read EXCEPT !.row = R, !.found = TRUE] = [[read EXCEPT !.row = R] EXCEPT !.found = TRUE]
        OBVIOUS
      <4>2. [read EXCEPT !.row = R] = [asked |-> a, start |-> b, id |-> c, row |-> R, results |-> e, found |-> g]
        BY <3>1
      <4>3. [[asked |-> a, start |-> b, id |-> c, row |-> R, results |-> e, found |-> g] EXCEPT !.found = TRUE]
              = [asked |-> a, start |-> b, id |-> c, row |-> R, results |-> e, found |-> TRUE]
        <5>1. \A t : [[asked |-> a, start |-> b, id |-> c, row |-> R, results |-> e, found |-> g] EXCEPT !.found = t]
                = [asked |-> a, start |-> b, id |-> c, row |-> R, results |-> e, found |-> t]
          OBVIOUS
        <5> QED BY Zenon, <5>1
      <4> QED BY <4>1, <4>2, <4>3
    <3>3. a = read.asked /\ b = read.start /\ c = read.id /\ e = read.results
      BY <3>1
    <3> QED BY <3>2, <3>3 DEF R
  <2>3. [reports[id] EXCEPT !.results = {}].counts = reports[id].counts
    <3>1. \A a, b, c : [[status |-> a, results |-> b, counts |-> c] EXCEPT !.results = {}].counts = c
      OBVIOUS
    <3> QED BY <1>2, <3>1 DEF Kept
  <2>4. id \in Reports /\ outcome.attempt # 0 /\ (id \in Page!Complete => reports[id].counts = Page!Counts(id, Page!Final(id)))
    BY <1>2, <1>5 DEF Kept, Page!Stored, Page!Complete
  <2>5. Asked(m) /\ m.found /\ Form(m)
    BY <1>1, <2>4 DEF Asked, Form
  <2>6. RowRead(m)
    BY <2>3, <2>4 DEF RowRead, Lasting
  <2>7. read' = m
    BY <2>1, <2>2
  <2> HIDE DEF m
  <2>8. Asked(read)' /\ read'.found /\ Form(read)'
    BY <1>1, <1>3, <2>5, <2>7 DEF Asked, Form
  <2>9. PICK q : q = m
    OBVIOUS
  <2>10. RowRead(q)'
    <3>1. Page!Final(q.id)' = Page!Final(q.id)
      BY DEF Page!Final, Page!Relevant, Page!Key
    <3>2. Page!Counts(q.id, Page!Final(q.id))' = Page!Counts(q.id, Page!Final(q.id))
      BY DEF Page!Counts, Page!Changes, Page!Levels, Page!Final, Page!Relevant, Page!Key
    <3> QED BY <1>3, <2>6, <2>9, <3>1, <3>2 DEF RowRead, Lasting
  <2>11. RowRead(read)'
    BY <2>7, <2>9, <2>10 DEF RowRead, Lasting
  <2>12. ReadInv'
    BY <2>1, <2>8, <2>11 DEF ReadInv
  <2> QED BY <1>4, <2>1, <2>12 DEF PageInv, Answers
<1>6. CASE id \notin Page!Stored
  <2>1. pagePc' = (IF read.asked = "latest" THEN "status" ELSE "answer") /\ read' = read
    BY <1>6 DEF Page!ReadRun, Page!Goto
  <2>2. Asked(read)'
    BY <1>1, <1>3, <2>1 DEF Asked
  <2>3. ~Lasting(read)
    BY <1>1, <1>6 DEF Lasting, Page!Complete, Page!Stored, Page!Missing
  <2>4. Shows(read)' /\ ~read'.found
    BY <1>1, <1>3, <2>1, <2>3 DEF Shows, Lasting
  <2>5. ReadInv'
    BY <2>1, <2>2, <2>4 DEF ReadInv
  <2> QED BY <1>4, <2>1, <2>4, <2>5 DEF PageInv, Answers, Honest
<1> QED BY <1>5, <1>6

LEMMA ResultsHold ==
  ASSUME PageInv, Page!ReadResults
  PROVE  PageInv' /\ Answers
<1> DEFINE S == reports[read.id].results
           m == [asked |-> read.asked, start |-> read.start, id |-> read.id, row |-> read.row, results |-> S, found |-> read.found]
<1>1. /\ pagePc = "results" /\ Form(read) /\ Asked(read) /\ read.found /\ RowRead(read)
      /\ pagePc' = "changes" /\ read' = [read EXCEPT !.results = S]
      /\ UNCHANGED <<hour, left, reports, outcome, syncs>>
  BY DEF Page!ReadResults, Page!Goto, Page!World, PageInv, ReadInv
<1>2. [read EXCEPT !.results = S] = m
  <2> HIDE DEF S
  <2>1. PICK a, b, c, d, e, g :
          read = [asked |-> a, start |-> b, id |-> c, row |-> d, results |-> e, found |-> g]
    BY <1>1 DEF Form
  <2>2. [read EXCEPT !.results = S] = [asked |-> a, start |-> b, id |-> c, row |-> d, results |-> S, found |-> g]
    BY <2>1
  <2>3. a = read.asked /\ b = read.start /\ c = read.id /\ d = read.row /\ g = read.found
    BY <2>1
  <2> QED BY <2>2, <2>3
<1>3. Lasting(read) => S = Page!Final(read.id)
  BY <1>1 DEF Lasting, Asked, Page!Complete, PageInv, StoreInv, Kept
<1>4. PICK q : q = m
  OBVIOUS
<1>5. Asked(q) /\ q.found /\ RowRead(q) /\ ResultsRead(q)
  BY <1>1, <1>3, <1>4 DEF Asked, RowRead, ResultsRead, Lasting
<1>6. Page!Complete' = Page!Complete /\ read' = q
  BY <1>1, <1>2, <1>4 DEF Page!Complete
<1> HIDE DEF m, S
<1>7. Page!Final(q.id)' = Page!Final(q.id)
  BY DEF Page!Final, Page!Relevant, Page!Key
<1>8. Page!Counts(q.id, Page!Final(q.id))' = Page!Counts(q.id, Page!Final(q.id))
  BY DEF Page!Counts, Page!Changes, Page!Levels, Page!Final, Page!Relevant, Page!Key
<1>9. Asked(q)' /\ RowRead(q)' /\ ResultsRead(q)'
  BY <1>1, <1>5, <1>6, <1>7, <1>8 DEF Asked, RowRead, ResultsRead, Lasting
<1>10. Asked(read)' /\ read'.found /\ RowRead(read)' /\ ResultsRead(read)'
  BY <1>5, <1>6, <1>9 DEF Asked, RowRead, ResultsRead, Lasting
<1>11. ReadInv'
  BY <1>1, <1>10 DEF ReadInv
<1> QED BY <1>1, <1>11, StoreFrame DEF PageInv, Answers

LEMMA ChangesHold ==
  ASSUME PageInv, Page!ReadChanges
  PROVE  PageInv' /\ Answers
<1> DEFINE M == Page!Matrix(read.id, read.results, reports[read.id].results)
           m == [asked |-> read.asked, start |-> read.start, id |-> read.id, row |-> read.row, found |-> TRUE, matrix |-> M]
<1>1. /\ pagePc = "changes" /\ Asked(read) /\ read.found /\ RowRead(read) /\ ResultsRead(read)
      /\ pagePc' = (IF read.asked = "latest" THEN "status" ELSE "answer") /\ read' = m
      /\ UNCHANGED <<hour, left, reports, outcome, syncs>>
  BY DEF Page!ReadChanges, Page!Goto, Page!World, PageInv, ReadInv
<1>2. ASSUME Lasting(read) PROVE M = Page!Matrix(m.id, Page!Final(m.id), Page!Final(m.id)) /\ m.row.counts = Page!Counts(m.id, Page!Final(m.id))
  <2>1. read.results = Page!Final(read.id) /\ read.row.counts = Page!Counts(read.id, Page!Final(read.id))
    BY <1>1, <1>2 DEF RowRead, ResultsRead
  <2>2. reports[read.id].results = Page!Final(read.id)
    BY <1>1, <1>2 DEF Lasting, Asked, Page!Complete, PageInv, StoreInv, Kept
  <2> QED BY <2>1, <2>2
<1> HIDE DEF M
<1>3. m.id = read.id /\ m.matrix = M /\ m.id \in Reports
  BY <1>1 DEF Asked
<1>4. Lasting(m) => Page!Whole(m)
  <2> SUFFICES ASSUME Lasting(m) PROVE Page!Whole(m)
    OBVIOUS
  <2>1. Lasting(read)
    BY DEF Lasting
  <2>2. m.matrix = Page!Matrix(m.id, Page!Final(m.id), Page!Final(m.id)) /\ m.row.counts = Page!Counts(m.id, Page!Final(m.id))
    BY <1>2, <1>3, <2>1
  <2> HIDE DEF m
  <2> QED BY <1>3, <2>2, FinalShown
<1>5. Asked(m) /\ m.found
  BY <1>1 DEF Asked
<1>6. PICK q : q = m
  OBVIOUS
<1>7. Asked(q) /\ q.found /\ q.asked = read.asked /\ (Lasting(q) => Page!Whole(q)) /\ read' = q
  BY <1>1, <1>4, <1>5, <1>6
<1> HIDE DEF m
<1>8. Page!Complete' = Page!Complete
  BY <1>1 DEF Page!Complete
<1>9. Page!Whole(q)' = Page!Whole(q)
  BY DEF Page!Whole, Page!Levels, Page!Final, Page!Relevant, Page!Key, Page!Classified, Page!NotConfigured
<1>10. Asked(q)' /\ Shows(q)'
  BY <1>1, <1>7, <1>8, <1>9 DEF Asked, Shows, Lasting
<1>11. Asked(read)' /\ Shows(read)' /\ read'.asked = read.asked
  BY <1>7, <1>10 DEF Asked, Shows, Lasting
<1>12. ReadInv'
  BY <1>1, <1>11 DEF ReadInv
<1>13. Answers
  <2> SUFFICES ASSUME pagePc' = "answer" PROVE Honest(read')
    BY DEF Answers
  <2>1. q.asked # "latest"
    BY <1>1, <1>7
  <2>2. Honest(q)
    BY <1>7, <2>1 DEF Honest, Lasting
  <2> QED BY <1>7, <2>2
<1> QED BY <1>1, <1>12, <1>13, StoreFrame DEF PageInv

LEMMA StatusHolds ==
  ASSUME PageInv, Page!ReadStatus
  PROVE  PageInv' /\ Answers
<1>1. /\ Asked(read) /\ read.asked = "latest" /\ Shows(read)
      /\ pagePc' = "newest" /\ read' = [shown |-> read, status |-> outcome]
      /\ UNCHANGED <<hour, left, reports, outcome, syncs>>
  BY DEF Page!ReadStatus, Page!Goto, Page!World, PageInv, ReadInv
<1>2. PICK q : q = read
  OBVIOUS
<1>3. Page!Complete' = Page!Complete
  BY <1>1 DEF Page!Complete
<1>4. Page!Whole(q)' = Page!Whole(q)
  BY DEF Page!Whole, Page!Levels, Page!Final, Page!Relevant, Page!Key, Page!Classified, Page!NotConfigured
<1>5. Asked(q) /\ Shows(q) /\ q.asked = "latest" /\ read'.shown = q /\ read'.status = outcome /\ outcome \in StatusRow
  BY <1>1, <1>2 DEF PageInv, StoreInv
<1>6. Asked(q)' /\ Shows(q)'
  BY <1>1, <1>3, <1>4, <1>5 DEF Asked, Shows, Lasting
<1>7. Asked(read.shown)' /\ Shows(read.shown)'
  BY <1>5, <1>6 DEF Asked, Shows, Lasting
<1>8. read'.shown.found => read'.status.attempt # 0
  BY <1>5 DEF Asked
<1>9. ReadInv'
  BY <1>1, <1>5, <1>7, <1>8 DEF ReadInv, StatusRow
<1> QED BY <1>1, <1>9, StoreFrame DEF PageInv, Answers

LEMMA NewestHolds ==
  ASSUME PageInv, Page!ReadNewest
  PROVE  PageInv' /\ Answers
<1> DEFINE one == read.shown
           s == read.status
<1>1. /\ pagePc = "newest" /\ Asked(one) /\ one.asked = "latest" /\ Shows(one)
      /\ s \in StatusRow /\ (one.found => s.attempt # 0)
      /\ UNCHANGED <<hour, left, reports, outcome, syncs>>
  BY DEF Page!ReadNewest, Page!Goto, Page!World, PageInv, ReadInv
<1>2. PICK newest \in IF Page!Stored = {} THEN {Page!Missing} ELSE Page!Newest(Page!Stored) :
        Page!Goto("answer", [asked |-> "latest", shown |-> one, status |-> s,
                             stale |-> \/ Page!SyncFailed(s)
                                       \/ one.found /\ newest # Page!Missing /\ Page!Awaited(one.id, s, newest)])
  BY DEF Page!ReadNewest
<1> DEFINE old == \/ Page!SyncFailed(s)
                  \/ one.found /\ newest # Page!Missing /\ Page!Awaited(one.id, s, newest)
           m == [asked |-> "latest", shown |-> one, status |-> s, stale |-> old]
<1>3. pagePc' = "answer" /\ read' = m
  BY <1>2 DEF Page!Goto
<1> HIDE DEF old
<1>4. /\ one.found => \A r \in one.start : left[r] <= left[one.id]
      /\ ~one.found => one.start \intersect Page!Complete \intersect {one.id} = {}
  BY <1>1, ReportsAssumption DEF Asked, Shows, Lasting
<1>5. ASSUME ~old, s.error PROVE s.success >= s.attempt
  BY <1>1, <1>5 DEF old, Page!SyncFailed, StatusRow
<1>6. ASSUME ~old, one.found, Page!Newest(Page!Stored) \intersect Page!Complete = {},
             NEW r \in Page!Newest(Page!Stored), left[r] > left[one.id]
      PROVE  left[r] + PageRetry < s.attempt
  <2>1. r \in Page!Stored /\ newest \in Page!Newest(Page!Stored)
    BY <1>2 DEF Page!Newest
  <2>2. newest \in Reports /\ r \in Reports /\ newest # Page!Missing /\ reports[newest].status # "COMPLETE"
    BY <1>6, <2>1, ReportsAssumption DEF Page!Newest, Page!Stored, Page!Complete
  <2>3. left[newest] \in Nat /\ left[r] \in Nat /\ left[newest] = left[r]
    BY <2>1, <2>2 DEF Page!Newest, PageInv, StoreInv
  <2>4. ~Page!Awaited(one.id, s, newest)
    BY <1>6, <2>2 DEF old
  <2> QED BY <1>1, <1>6, <2>2, <2>3, <2>4, ReportsAssumption DEF Page!Awaited, StatusRow
<1>7. Page!Latest(m)
  BY <1>4, <1>5, <1>6 DEF Page!Latest
<1>8. one.found /\ one.id \in one.start \intersect Page!Complete => Page!Whole(one)
  BY <1>1 DEF Shows, Lasting
<1>9. Honest(m)
  BY <1>7, <1>8 DEF Honest
<1> HIDE DEF m
<1>10. Answers
  BY <1>3, <1>9 DEF Answers
<1>11. ReadInv'
  BY <1>3 DEF ReadInv
<1> QED BY <1>1, <1>10, <1>11, StoreFrame DEF PageInv

LEMMA PageStep == PageInv /\ [Page!Next]_(Page!vars) => PageInv' /\ [Answers]_(Page!vars)
<1> SUFFICES ASSUME PageInv, [Page!Next]_(Page!vars) PROVE PageInv' /\ [Answers]_(Page!vars)
  OBVIOUS
<1>1. ASSUME StoreInv', Beside PROVE PageInv' /\ Answers
  BY <1>1, BesideKept DEF Beside, Answers
<1>2. StoreInv
  BY DEF PageInv
<1>3. ASSUME NEW r \in Reports, Page!Publish(r) PROVE PageInv' /\ Answers
  BY <1>1, <1>2, <1>3, PublishBeside
<1>4. CASE Page!Tick
  BY <1>1, <1>2, <1>4, TickBeside
<1>5. ASSUME NEW began \in 1..hour, Page!Sync(began) PROVE PageInv' /\ Answers
  BY <1>1, <1>2, <1>5, StoreSync, SyncBeside
<1>6. ASSUME NEW began \in 1..hour, Page!RecordFailure(began) PROVE PageInv' /\ Answers
  BY <1>1, <1>2, <1>6, FailureBeside
<1>7. ASSUME NEW asked \in Pages, Page!Ask(asked) PROVE PageInv' /\ Answers
  BY <1>7, AskHolds
<1>8. CASE Page!ReadRun
  BY <1>8, RunHolds
<1>9. CASE Page!ReadResults
  BY <1>9, ResultsHold
<1>10. CASE Page!ReadChanges
  BY <1>10, ChangesHold
<1>11. CASE Page!ReadStatus
  BY <1>11, StatusHolds
<1>12. CASE Page!ReadNewest
  BY <1>12, NewestHolds
<1>13. CASE Page!Answer
  <2>1. /\ pagePc' = "idle" /\ UNCHANGED <<hour, left, reports, outcome, syncs>>
    BY <1>13 DEF Page!Answer, Page!Goto, Page!World
  <2>2. ReadInv' /\ Answers
    BY <2>1 DEF ReadInv, Answers
  <2> QED BY <1>2, <2>1, <2>2, StoreFrame DEF PageInv
<1>14. CASE UNCHANGED Page!vars
  <2>1. UNCHANGED <<hour, left, reports, outcome, syncs, pagePc, read>>
    BY <1>14 DEF Page!vars
  <2>2. Beside
    BY <1>2, <2>1 DEF Beside, StoreInv
  <2>3. StoreInv'
    BY <1>2, <2>1, StoreFrame
  <2> QED BY <1>1, <1>14, <2>2, <2>3
<1> QED BY <1>3, <1>4, <1>5, <1>6, <1>7, <1>8, <1>9, <1>10, <1>11, <1>12, <1>13, <1>14 DEF Page!Next

(* However syncs commit between the statements of a request, the page of a *)
(* complete report that is still there shows the last result of every      *)
(* artifact and totals that agree, and the latest page shows no report     *)
(* older than it could and says so when it is stale                        *)
(* (sanp_health.py): for any reports, artifacts and lengths of time with a *)
(* retention that outlasts the retries by more than a sync lasts.          *)
THEOREM PagesHonest == HubSpec => PageHonest
<1>1. PageInv /\ [Page!Next]_(Page!vars) => PageInv' /\ [Answers]_(Page!vars)
  BY PageStep
<1>2. Page!Spec => [][Answers]_(Page!vars)
  BY <1>1, StoreStart, PTL DEF Page!Spec
<1>3. [][Answers]_(Page!vars) => Page!PageHonest
  BY PTL DEF Answers, Honest, Page!PageHonest
<1> QED BY <1>2, <1>3, PartPage DEF PageHonest
=============================================================================
