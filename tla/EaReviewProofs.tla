--------------------------- MODULE EaReviewProofs ---------------------------
(* Proofs about EaReview for every set of links, people and bounds. *)
EXTENDS EaReview, FiniteSetTheorems, SequenceTheorems, TLAPS

LEMMA LastDecisionType ==
  ASSUME NEW q
  PROVE  LastDecision(q) \in KeptStatuses \union {"none"}
BY DEF LastDecision

(* A decision that stands last in the queue is the one a run reads. *)
LEMMA LastDecisionIsLast ==
  ASSUME NEW q \in Seq(ChangeStatus), Len(q) > 0, q[Len(q)] \in KeptStatuses
  PROVE  LastDecision(q) = q[Len(q)]
<1> DEFINE Last(i) == /\ q[i] \in KeptStatuses
                      /\ \A j \in DOMAIN q : j > i => q[j] \notin KeptStatuses
<1>1. DOMAIN q = 1..Len(q) /\ Len(q) \in Nat
  OBVIOUS
<1>2. Last(Len(q)) /\ Len(q) \in DOMAIN q
  BY <1>1
<1>3. \A i \in DOMAIN q : Last(i) => i = Len(q)
  BY <1>1
<1>4. (CHOOSE i \in DOMAIN q : Last(i)) = Len(q)
  BY <1>2, <1>3
<1> QED BY <1>2, <1>4 DEF LastDecision

----------------------------------------------------------------------------
(* Types *)

EdgeRow == [status : EdgeStatus, origin : EdgeOrigin, person : BOOLEAN]
Request == {NoReq} \union Decision \union Edit
FactsType == [read : SUBSET Comps, contracts : BOOLEAN, links : SUBSET Keys,
              guessed : SUBSET Comps]

LEMMA RowTypes ==
  NoEdge \in EdgeRow /\ \A k \in Keys : Imported(k) \in EdgeRow
BY DEF NoEdge, Imported, EdgeRow, EdgeStatus, EdgeOrigin

LEMMA TypeInit == Init => TypeOK
<1> SUFFICES ASSUME Init PROVE TypeOK
  OBVIOUS
<1>1. edge \in [Keys -> EdgeRow]
  <2>1. edge \in [Keys -> {NoEdge} \union {Imported(k) : k \in Keys}]
    BY DEF Init
  <2> QED BY <2>1, RowTypes
<1>2. queue \in [Sigs -> Seq(ChangeStatus)]
  BY DEF Init
<1>3. decided \in [Workers -> [Sigs -> KeptStatuses \union {"none"}]]
  BY DEF Init
<1>4. facts \in [Workers -> FactsType]
  BY DEF Init, NoFacts, FactsType
<1>5. view \in [Workers -> [edge : [Keys -> EdgeStatus], origin : [Keys -> EdgeOrigin],
                            open : SUBSET (Sigs \X (1..MaxProposals))]]
  BY DEF Init, NoView, EdgeStatus, EdgeOrigin
<1> QED
  BY <1>1, <1>2, <1>3, <1>4, <1>5 DEF Init, TypeOK, EdgeRow, FactsType

(* What a run does to its own variables when it ends. *)
LEMMA SyncEndTypes ==
  ASSUME TypeOK, NEW w \in Workers,
         wpc' = [wpc EXCEPT ![w] = "idle"],
         view' = [view EXCEPT ![w] = NoView],
         facts' = [facts EXCEPT ![w] = NoFacts],
         decided' = [decided EXCEPT ![w] = [s \in Sigs |-> "none"]]
  PROVE  /\ wpc' \in [Workers -> {"idle", "collecting", "collected", "applying"}]
         /\ decided' \in [Workers -> [Sigs -> KeptStatuses \union {"none"}]]
         /\ facts' \in [Workers -> FactsType]
         /\ view' \in [Workers -> [edge : [Keys -> EdgeStatus],
                                   origin : [Keys -> EdgeOrigin],
                                   open : SUBSET (Sigs \X (1..MaxProposals))]]
<1>1. NoFacts \in FactsType
  BY DEF NoFacts, FactsType
<1>2. NoView \in [edge : [Keys -> EdgeStatus], origin : [Keys -> EdgeOrigin],
                  open : SUBSET (Sigs \X (1..MaxProposals))]
  BY DEF NoView, EdgeStatus, EdgeOrigin
<1>3. [s \in Sigs |-> "none"] \in [Sigs -> KeptStatuses \union {"none"}]
  OBVIOUS
<1> QED BY <1>1, <1>2, <1>3 DEF TypeOK, FactsType

LEMMA QueueAfterType ==
  ASSUME TypeOK, NEW w \in Workers, NEW s \in Sigs
  PROVE  /\ QueueAfter(w, s) \in Seq(ChangeStatus)
         /\ Len(QueueAfter(w, s)) = IF s \in Proposed(w) THEN Len(queue[s]) + 1
                                    ELSE Len(queue[s])
         /\ \A i \in DOMAIN queue[s] :
              QueueAfter(w, s)[i] = IF <<s, i>> \in Superseded(w) THEN "superseded"
                                    ELSE queue[s][i]
         /\ s \in Proposed(w) => QueueAfter(w, s)[Len(queue[s]) + 1] \in OpenStatuses
<1> DEFINE old == [i \in DOMAIN queue[s] |->
                     IF <<s, i>> \in Superseded(w) THEN "superseded" ELSE queue[s][i]]
<1>1. queue[s] \in Seq(ChangeStatus) /\ DOMAIN queue[s] = 1..Len(queue[s])
      /\ Len(queue[s]) \in Nat
  BY DEF TypeOK
<1>2. \A i \in 1..Len(queue[s]) : queue[s][i] \in ChangeStatus
  BY <1>1
<1>3. old \in Seq(ChangeStatus) /\ Len(old) = Len(queue[s])
  BY <1>1, <1>2 DEF ChangeStatus
<1>4. NewStatus(w, s) \in OpenStatuses /\ NewStatus(w, s) \in ChangeStatus
  BY DEF NewStatus, OpenStatuses, ChangeStatus, KeptStatuses, LiveStatuses
<1>5. CASE s \in Proposed(w)
  <2>1. QueueAfter(w, s) = Append(old, NewStatus(w, s))
    BY <1>5 DEF QueueAfter
  <2> HIDE DEF old
  <2>2. QueueAfter(w, s) \in Seq(ChangeStatus) /\ Len(QueueAfter(w, s)) = Len(old) + 1
        /\ QueueAfter(w, s)[Len(old) + 1] = NewStatus(w, s)
        /\ \A i \in 1..Len(old) : QueueAfter(w, s)[i] = old[i]
    BY <2>1, <1>3, <1>4
  <2> QED BY <2>2, <1>1, <1>3, <1>4, <1>5 DEF old
<1>6. CASE s \notin Proposed(w)
  <2>1. QueueAfter(w, s) = old
    BY <1>6 DEF QueueAfter
  <2> QED BY <2>1, <1>1, <1>3, <1>6
<1> QED BY <1>5, <1>6

(* Writes on the rows of ea_edges. *)
LEMMA EdgeWrites ==
  ASSUME TypeOK, NEW k \in Keys, NEW read, NEW new \in EdgeStatus, NEW origin \in EdgeOrigin
  PROVE  /\ Touch(k, read, new) => edge' \in [Keys -> EdgeRow]
         /\ Insert(k, new, origin) => edge' \in [Keys -> EdgeRow]
<1>1. ASSUME Touch(k, read, new) PROVE edge' \in [Keys -> EdgeRow]
  <2>1. edge[k] \in EdgeRow
    BY DEF TypeOK, EdgeRow
  <2>2. Written(edge[k].status, read, new) \in EdgeStatus
    BY <2>1 DEF Written, EdgeRow
  <2>3. [edge[k] EXCEPT !.status = Written(edge[k].status, read, new), !.person = TRUE]
          \in EdgeRow
    BY <2>1, <2>2 DEF EdgeRow
  <2>4. edge' = [edge EXCEPT ![k] = [edge[k] EXCEPT
                   !.status = Written(edge[k].status, read, new), !.person = TRUE]]
    BY <1>1, <2>1 DEF Touch, EdgeRow, TypeOK
  <2> QED BY <2>3, <2>4 DEF TypeOK, EdgeRow
<1>2. ASSUME Insert(k, new, origin) PROVE edge' \in [Keys -> EdgeRow]
  BY <1>2 DEF Insert, TypeOK, EdgeRow
<1> QED BY <1>1, <1>2

LEMMA CommitEdgeType ==
  ASSUME TypeOK, NEW w \in Workers, SyncCommit(w)
  PROVE  edge' \in [Keys -> EdgeRow]
<1>1. \A k \in Keys : edge[k] \in EdgeRow
  BY DEF TypeOK, EdgeRow
<1>2. \A k \in Keys : [edge[k] EXCEPT !.status = "removed"] \in EdgeRow
  BY <1>1 DEF EdgeRow, EdgeStatus
<1>3. \A k \in Keys : (CASE k \in ContractAdds(w)  -> Imported(k)
                         [] k \in ContractDrops(w) -> [edge[k] EXCEPT !.status = "removed"]
                         [] OTHER                  -> edge[k]) \in EdgeRow
  <2> TAKE k \in Keys
  <2>1. CASE k \in ContractAdds(w) /\ k \notin ContractDrops(w)
    BY <2>1, RowTypes
  <2>2. CASE k \in ContractAdds(w) /\ k \in ContractDrops(w)
    BY <2>2 DEF ContractAdds, ContractDrops, ContractGone
  <2>3. CASE k \notin ContractAdds(w)
    BY <2>3, <1>1, <1>2
  <2> QED BY <2>1, <2>2, <2>3
<1> QED BY <1>3 DEF SyncCommit

LEMMA TypeStep == TypeOK /\ [Next]_vars => TypeOK'
<1> SUFFICES ASSUME TypeOK, [Next]_vars PROVE TypeOK'
  OBVIOUS
<1> USE DEF dbVars, syncVars, seenVars
<1>1. ASSUME NEW w \in Workers, SyncRead(w) PROVE TypeOK'
  <2>1. decided' \in [Workers -> [Sigs -> KeptStatuses \union {"none"}]]
    BY <1>1, LastDecisionType DEF SyncRead, TypeOK
  <2> QED BY <1>1, <2>1 DEF SyncRead, TypeOK
<1>2. ASSUME NEW w \in Workers, SyncCollect(w) PROVE TypeOK'
  <2>1. facts' \in [Workers -> FactsType]
    BY <1>2 DEF SyncCollect, TypeOK, FactsType
  <2> QED BY <1>2, <2>1 DEF SyncCollect, TypeOK, FactsType
<1>3. ASSUME NEW w \in Workers, SyncLoad(w) PROVE TypeOK'
  <2>1. OpenChanges \in SUBSET (Sigs \X (1..MaxProposals))
    BY DEF OpenChanges, Changes
  <2>2. [k \in Keys |-> edge[k].status] \in [Keys -> EdgeStatus]
        /\ [k \in Keys |-> edge[k].origin] \in [Keys -> EdgeOrigin]
    BY DEF TypeOK
  <2>3. view' \in [Workers -> [edge : [Keys -> EdgeStatus], origin : [Keys -> EdgeOrigin],
                               open : SUBSET (Sigs \X (1..MaxProposals))]]
    BY <1>3, <2>1, <2>2 DEF SyncLoad, TypeOK
  <2> QED BY <1>3, <2>3 DEF SyncLoad, TypeOK
<1>4. ASSUME NEW w \in Workers, SyncCommit(w) PROVE TypeOK'
  <2>1. queue' \in [Sigs -> Seq(ChangeStatus)]
    BY <1>4, QueueAfterType DEF SyncCommit
  <2>2. others' \in [Workers -> SUBSET Sigs] /\ lost' \in SUBSET Sigs
    <3>1. Proposed(w) \in SUBSET Sigs /\ Crossed(w) \in SUBSET Sigs
      BY DEF Proposed, Emitted, Crossed, Sigs, HelmAdds, HelmLinks, HelmRemoves,
             ContractAdds, ContractGone, Keys
    <3> QED BY <1>4, <3>1 DEF SyncCommit, TypeOK
  <2> QED BY <1>4, <2>1, <2>2, CommitEdgeType, SyncEndTypes
          DEF SyncCommit, TypeOK, EdgeRow, FactsType
<1>5. ASSUME NEW w \in Workers, SyncFail(w) PROVE TypeOK'
  BY <1>5, SyncEndTypes DEF SyncFail, TypeOK, FactsType
<1>6. ASSUME NEW p \in People, NEW s \in Sigs, NEW i \in 1..MaxProposals,
             NEW approve \in BOOLEAN, BeginDecide(p, s, i, approve)
      PROVE  TypeOK'
  <2>1. edge[s.key].status \in EdgeStatus
    BY DEF TypeOK, Sigs
  <2>2. [kind |-> "decide", sig |-> s, index |-> i, approve |-> approve,
         read |-> edge[s.key].status] \in Decision
    BY <2>1 DEF Decision
  <2>3. req' \in [People -> Request]
    BY <1>6, <2>2 DEF BeginDecide, Begin, Request, TypeOK
  <2> QED BY <1>6, <2>3 DEF BeginDecide, TypeOK, Request
<1>7. ASSUME NEW p \in People, CommitDecide(p) PROVE TypeOK'
  <2> DEFINE r == req[p]
  <2>1. r \in Decision
    <3>1. r \in Request /\ r.kind = "decide"
      BY <1>7 DEF CommitDecide, TypeOK, Request
    <3> QED BY <3>1 DEF Request, NoReq, Edit
  <2>2. r.sig \in Sigs /\ r.sig.key \in Keys /\ r.index \in 1..MaxProposals
        /\ r.read \in EdgeStatus
    BY <2>1 DEF Decision, Sigs
  <2>3. edge' \in [Keys -> EdgeRow]
    <3>1. edge \in [Keys -> EdgeRow]
      BY DEF TypeOK, EdgeRow
    <3>2. {"verified", "removed", "rejected"} \subseteq EdgeStatus /\ "helm" \in EdgeOrigin
      BY DEF EdgeStatus, EdgeOrigin
    <3>3. CASE r.approve
      BY <1>7, <3>1, <3>2, <3>3, <2>2, EdgeWrites DEF CommitDecide, Approve
    <3>4. CASE ~r.approve
      BY <1>7, <3>1, <3>2, <3>4, <2>2, EdgeWrites DEF CommitDecide, Reject
    <3> QED BY <3>3, <3>4
  <2>4. queue' \in [Sigs -> Seq(ChangeStatus)]
    <3> DEFINE new == IF r.approve THEN "approved" ELSE "rejected"
    <3>1. new \in ChangeStatus
      BY DEF ChangeStatus, KeptStatuses, LiveStatuses
    <3>2. queue[r.sig] \in Seq(ChangeStatus)
      BY <2>2 DEF TypeOK
    <3>3. [queue[r.sig] EXCEPT ![r.index] = new] \in Seq(ChangeStatus)
      <4> DEFINE n == Len(queue[r.sig])
      <4>1. n \in Nat /\ queue[r.sig] \in [1..n -> ChangeStatus]
        BY <3>2, LenProperties
      <4>2. [queue[r.sig] EXCEPT ![r.index] = new] \in [1..n -> ChangeStatus]
        BY <4>1, <3>1
      <4> HIDE DEF n, new
      <4>3. [1..n -> ChangeStatus] \subseteq Seq(ChangeStatus)
        BY <4>1, SeqDef
      <4> QED BY <4>2, <4>3
    <3> QED BY <1>7, <2>2, <3>3 DEF CommitDecide, TypeOK
  <2>5. req' \in [People -> Request]
    BY <1>7 DEF CommitDecide, Done, Request, TypeOK
  <2>6. lost' \in SUBSET Sigs
    BY <1>7, <2>2 DEF CommitDecide, TypeOK
  <2> QED BY <1>7, <2>3, <2>4, <2>5, <2>6 DEF CommitDecide, TypeOK, EdgeRow, Request
<1>8. ASSUME NEW p \in People, NEW kind \in {"create", "verify", "remove"}, NEW k \in Keys,
             BeginEdit(p, kind, k)
      PROVE  TypeOK'
  <2>1. edge[k].status \in EdgeStatus
    BY DEF TypeOK
  <2>2. [kind |-> kind, key |-> k, read |-> edge[k].status] \in Edit
    BY <2>1 DEF Edit
  <2>3. req' \in [People -> Request]
    BY <1>8, <2>2 DEF BeginEdit, Begin, Request, TypeOK
  <2> QED BY <1>8, <2>3 DEF BeginEdit, TypeOK, Request
<1>9. ASSUME NEW p \in People, CommitEdit(p) PROVE TypeOK'
  <2> DEFINE r == req[p]
  <2>1. r \in Edit
    BY <1>9 DEF CommitEdit, TypeOK, NoReq, Decision
  <2>2. r.key \in Keys /\ r.read \in EdgeStatus
    BY <2>1 DEF Edit
  <2>3. {"verified", "removed"} \subseteq EdgeStatus /\ "manual" \in EdgeOrigin
    BY DEF EdgeStatus, EdgeOrigin
  <2>4. edge' \in [Keys -> EdgeRow]
    BY <1>9, <2>2, <2>3, EdgeWrites DEF CommitEdit
  <2>5. req' \in [People -> Request]
    BY <1>9 DEF CommitEdit, Done, Request, TypeOK
  <2> QED BY <1>9, <2>4, <2>5 DEF CommitEdit, TypeOK, EdgeRow, Request
<1>10. ASSUME NEW p \in People, NEW k \in Keys, NEW l \in Keys, Retype(p, k, l)
       PROVE  TypeOK'
  <2>1. edge[k] \in EdgeRow
    BY DEF TypeOK, EdgeRow
  <2>2. [edge[k] EXCEPT !.status = "verified", !.person = TRUE] \in EdgeRow
    BY <2>1 DEF EdgeRow, EdgeStatus
  <2>3. edge' \in [Keys -> EdgeRow]
    BY <1>10, <2>2, RowTypes DEF Retype, TypeOK, EdgeRow
  <2>4. edits' \in Nat
    BY <1>10 DEF Retype, TypeOK
  <2>5. UNCHANGED <<queue, wpc, decided, facts, view, req, others, lost>>
    BY <1>10 DEF Retype
  <2> QED BY <2>3, <2>4, <2>5 DEF TypeOK, EdgeRow
<1>11. ASSUME NEW p \in People, Abandon(p) PROVE TypeOK'
  BY <1>11 DEF Abandon, Done, TypeOK
<1>12. CASE UNCHANGED vars
  BY <1>12 DEF vars, TypeOK
<1> QED
  BY <1>1, <1>2, <1>3, <1>4, <1>5, <1>6, <1>7, <1>8, <1>9, <1>10, <1>11, <1>12
  DEF Next

(* Every row, proposal and request has its type, whatever the links, the   *)
(* runs and the people (ea_edges, ea_changes, the requests of review.py    *)
(* and edit.py).                                                           *)
THEOREM TypeCorrect == Spec => []TypeOK
<1>1. Init => TypeOK
  BY TypeInit
<1>2. TypeOK /\ [Next]_vars => TypeOK'
  BY TypeStep
<1> QED BY <1>1, <1>2, PTL DEF Spec

----------------------------------------------------------------------------
(* What writes the queue of a signature. *)

(* What people write in the queue: the status of one decided proposal. *)
LEMMA DecideWrites ==
  ASSUME TypeOK, NEW p \in People, CommitDecide(p), NEW s \in Sigs
  PROVE  /\ DOMAIN queue'[s] = DOMAIN queue[s] /\ Len(queue'[s]) = Len(queue[s])
         /\ \A i \in DOMAIN queue[s] :
              \/ queue'[s][i] = queue[s][i]
              \/ /\ s = req[p].sig /\ i = req[p].index
                 /\ queue'[s][i] \in {"approved", "rejected"}
<1>1. queue[s] \in Seq(ChangeStatus) /\ queue'[s] \in Seq(ChangeStatus)
  BY TypeStep DEF TypeOK, Next
<1>2. queue' = [queue EXCEPT ![req[p].sig][req[p].index] =
                  IF req[p].approve THEN "approved" ELSE "rejected"]
  BY DEF CommitDecide
<1>3. CASE s = req[p].sig
  <2>1. queue'[s] = [queue[s] EXCEPT ![req[p].index] =
                       IF req[p].approve THEN "approved" ELSE "rejected"]
    BY <1>2, <1>3 DEF TypeOK
  <2>2. DOMAIN queue'[s] = DOMAIN queue[s]
    BY <2>1
  <2>3. Len(queue'[s]) = Len(queue[s])
    BY <2>2, <1>1, LenProperties
  <2> QED BY <2>1, <2>2, <2>3, <1>3
<1>4. CASE s # req[p].sig
  BY <1>2, <1>4 DEF TypeOK
<1> QED BY <1>3, <1>4

(* Only a run's commit makes the queue of a signature longer. *)
LEMMA QueueGrows ==
  ASSUME TypeOK, [Next]_vars, NEW s \in Sigs, Len(queue'[s]) # Len(queue[s])
  PROVE  \E w \in Workers : SyncCommit(w) /\ s \in Proposed(w)
<1>1. CASE UNCHANGED queue
  BY <1>1
<1>2. ASSUME NEW w \in Workers, SyncCommit(w) PROVE s \in Proposed(w)
  <2>1. queue'[s] = QueueAfter(w, s)
    BY <1>2 DEF SyncCommit
  <2> QED BY <2>1, QueueAfterType
<1>3. ASSUME NEW p \in People, CommitDecide(p) PROVE FALSE
  BY <1>3, DecideWrites
<1>4. \/ UNCHANGED queue
      \/ \E w \in Workers : SyncCommit(w)
      \/ \E p \in People : CommitDecide(p)
  BY DEF Next, SyncRead, SyncCollect, SyncLoad, SyncFail, BeginDecide, BeginEdit,
         CommitEdit, Retype, Abandon, dbVars, syncVars, vars
<1> QED BY <1>1, <1>2, <1>3, <1>4

(* Steps that write the queue, or the decisions that a run has read. *)
LEMMA QueueWriters ==
  ASSUME TypeOK, [Next]_vars
  PROVE  \/ \E w \in Workers : SyncRead(w) \/ SyncCommit(w) \/ SyncFail(w)
         \/ \E p \in People : CommitDecide(p)
         \/ /\ UNCHANGED <<queue, decided, others, lost>>
            /\ \A w \in Workers : /\ wpc'[w] # "idle" => wpc[w] # "idle"
                                  /\ wpc'[w] = "applying" =>
                                       \/ wpc[w] = "applying" /\ view'[w] = view[w]
                                       \/ SyncLoad(w)
<1>1. ASSUME NEW v \in Workers, SyncCollect(v) \/ SyncLoad(v)
      PROVE  /\ UNCHANGED <<queue, decided, others, lost>>
             /\ \A w \in Workers : /\ wpc'[w] # "idle" => wpc[w] # "idle"
                                   /\ wpc'[w] = "applying" =>
                                        \/ wpc[w] = "applying" /\ view'[w] = view[w]
                                        \/ SyncLoad(w)
  <2>1. UNCHANGED <<queue, decided, others, lost>>
    BY <1>1 DEF SyncCollect, SyncLoad, dbVars, seenVars
  <2>2. CASE SyncCollect(v)
    BY <2>1, <2>2 DEF SyncCollect, TypeOK
  <2>3. CASE SyncLoad(v)
    <3> SUFFICES ASSUME NEW w \in Workers
                 PROVE  /\ wpc'[w] # "idle" => wpc[w] # "idle"
                        /\ wpc'[w] = "applying" =>
                             \/ wpc[w] = "applying" /\ view'[w] = view[w]
                             \/ SyncLoad(w)
      BY <2>1
    <3>1. CASE w = v
      BY <2>3, <3>1 DEF SyncLoad, TypeOK
    <3>2. CASE w # v
      BY <2>3, <3>2 DEF SyncLoad, TypeOK
    <3> QED BY <3>1, <3>2
  <2> QED BY <1>1, <2>2, <2>3
<1>2. CASE UNCHANGED <<queue, decided, others, lost, wpc, view>>
  BY <1>2
<1> QED
  BY <1>1, <1>2 DEF Next, BeginDecide, BeginEdit, CommitEdit, Retype, Abandon,
     dbVars, syncVars, seenVars, vars

----------------------------------------------------------------------------
(* With one run at a time a proposal is only appended by a run that saw no *)
(* open one, and what it saw is still so: people only close proposals.     *)

OpenLast ==
  \A s \in Sigs : \A i \in DOMAIN queue[s] : IsOpen(s, i) => i = Len(queue[s])
OpenKnown ==
  \A w \in Workers, s \in Sigs : \A i \in DOMAIN queue[s] :
     wpc[w] # "idle" /\ IsOpen(s, i) => decided[w][s] \in LiveStatuses

LEMMA OpenStep ==
  ASSUME TypeOK, [Next]_vars, \A v, w \in Workers : v = w, OpenLast, OpenKnown
  PROVE  OpenLast' /\ OpenKnown'
<1> USE DEF OpenLast, OpenKnown, IsOpen
<1>0. /\ "superseded" \notin OpenStatuses /\ "approved" \notin OpenStatuses
      /\ "rejected" \notin OpenStatuses
      /\ OpenStatuses \subseteq LiveStatuses /\ LiveStatuses \subseteq KeptStatuses
  BY DEF OpenStatuses, LiveStatuses, KeptStatuses
<1>1. \A s \in Sigs : /\ queue[s] \in Seq(ChangeStatus)
                      /\ DOMAIN queue[s] = 1..Len(queue[s]) /\ Len(queue[s]) \in Nat
  BY DEF TypeOK
<1>2. ASSUME NEW w \in Workers, SyncRead(w) PROVE OpenLast' /\ OpenKnown'
  <2>1. UNCHANGED queue /\ decided' = [decided EXCEPT ![w] =
                             [s \in Sigs |-> LastDecision(queue[s])]]
    BY <1>2 DEF SyncRead, dbVars
  <2>2. ASSUME NEW s \in Sigs, NEW i \in DOMAIN queue[s], queue[s][i] \in OpenStatuses
        PROVE  decided'[w][s] \in LiveStatuses
    <3>1. i = Len(queue[s]) /\ Len(queue[s]) > 0 /\ queue[s][i] \in LiveStatuses
      BY <1>0, <1>1, <2>2
    <3>2. LastDecision(queue[s]) = queue[s][i]
      BY <3>1, <1>0, <1>1, LastDecisionIsLast
    <3> QED BY <2>1, <3>1, <3>2 DEF TypeOK
  <2>3. \A v \in Workers : v = w
    OBVIOUS
  <2> QED BY <2>1, <2>2, <2>3
<1>3. ASSUME NEW w \in Workers, SyncCommit(w) PROVE OpenLast' /\ OpenKnown'
  <2>1. wpc[w] # "idle" /\ wpc' = [wpc EXCEPT ![w] = "idle"]
    BY <1>3 DEF SyncCommit
  <2>2. OpenKnown'
    <3>1. \A v \in Workers : wpc'[v] = "idle"
      BY <2>1 DEF TypeOK
    <3> QED BY <3>1
  <2>3. ASSUME NEW s \in Sigs, NEW i \in DOMAIN queue'[s], queue'[s][i] \in OpenStatuses
        PROVE  i = Len(queue'[s])
    <3>1. queue'[s] = QueueAfter(w, s)
      BY <1>3 DEF SyncCommit
    <3>2. queue'[s] \in Seq(ChangeStatus) /\ DOMAIN queue'[s] = 1..Len(queue'[s])
      BY <3>1, QueueAfterType
    <3>3. CASE i \in DOMAIN queue[s]
      <4>0. queue'[s][i] = IF <<s, i>> \in Superseded(w) THEN "superseded" ELSE queue[s][i]
        BY <3>1, <3>3, QueueAfterType
      <4>1. queue[s][i] \in OpenStatuses
        BY <4>0, <2>3, <1>0
      <4>2. decided[w][s] \in LiveStatuses /\ i = Len(queue[s])
        BY <4>1, <3>3, <2>1
      <4>3. s \notin Proposed(w)
        BY <4>2 DEF Proposed
      <4> QED BY <4>2, <4>3, <3>1, QueueAfterType
    <3>4. CASE i \notin DOMAIN queue[s]
      BY <3>1, <3>2, <3>4, <1>1, QueueAfterType
    <3> QED BY <3>3, <3>4
  <2> QED BY <2>2, <2>3
<1>4. ASSUME NEW w \in Workers, SyncFail(w) PROVE OpenLast' /\ OpenKnown'
  <2>1. \A v \in Workers : wpc'[v] = "idle"
    BY <1>4 DEF SyncFail, TypeOK
  <2> QED BY <2>1, <1>4 DEF SyncFail, dbVars
<1>5. ASSUME NEW p \in People, CommitDecide(p) PROVE OpenLast' /\ OpenKnown'
  <2>1. ASSUME NEW s \in Sigs, NEW i \in DOMAIN queue'[s], queue'[s][i] \in OpenStatuses
        PROVE  /\ i \in DOMAIN queue[s] /\ queue[s][i] \in OpenStatuses
               /\ Len(queue'[s]) = Len(queue[s])
    BY <1>0, <1>5, <2>1, DecideWrites
  <2> QED BY <2>1, <1>5 DEF CommitDecide, syncVars
<1>6. CASE UNCHANGED queue /\ UNCHANGED decided
           /\ \A w \in Workers : wpc'[w] # "idle" => wpc[w] # "idle"
  BY <1>6
<1> QED BY <1>2, <1>3, <1>4, <1>5, <1>6, QueueWriters

LEMMA AtMostOne ==
  ASSUME NEW T, NEW x, T \subseteq {x}
  PROVE  Cardinality(T) <= 1
<1>1. CASE T = {}
  <2>1. Cardinality(T) = 0
    BY <1>1, FS_EmptySet
  <2> QED BY <2>1
<1>2. CASE T = {x}
  <2>1. Cardinality(T) = 1
    BY <1>2, FS_Singleton
  <2> QED BY <2>1
<1> QED BY <1>1, <1>2

(* One proposal per signature is open, however the requests of people      *)
(* overlap with the collect and the commit of a run, as long as one run    *)
(* executes at a time: two runs that overlap may both propose what neither *)
(* of them has seen queued.                                                *)
THEOREM OneOpen ==
  ASSUME \A v, w \in Workers : v = w
  PROVE  Spec => []OneOpenPerSig
<1> DEFINE Inv == TypeOK /\ OpenLast /\ OpenKnown
<1>1. Init => Inv
  BY TypeInit DEF Init, OpenLast, OpenKnown
<1>2. Inv /\ [Next]_vars => Inv'
  BY TypeStep, OpenStep
<1>3. Inv => OneOpenPerSig
  <2> SUFFICES ASSUME Inv, NEW s \in Sigs
               PROVE  Cardinality({i \in DOMAIN queue[s] : IsOpen(s, i)}) <= 1
    BY DEF OneOpenPerSig
  <2> DEFINE open == {i \in DOMAIN queue[s] : IsOpen(s, i)}
  <2>1. \A i \in open : i = Len(queue[s])
    BY DEF OpenLast
  <2>2. open \subseteq {Len(queue[s])}
    BY <2>1
  <2> HIDE DEF open
  <2> QED BY <2>2, AtMostOne DEF open
<1> QED BY <1>1, <1>2, <1>3, PTL DEF Spec

----------------------------------------------------------------------------
(* What a person has decided stays, until two writers cross.               *)
LEMMA DecidedStays ==
  ASSUME TypeOK, [Next]_vars, NEW s \in Sigs, s \notin lost', NEW i \in DOMAIN queue[s],
         queue[s][i] \in PeoplesStatuses
  PROVE  i \in DOMAIN queue'[s] /\ queue'[s][i] = queue[s][i]
<1>1. queue[s] \in Seq(ChangeStatus) /\ DOMAIN queue[s] = 1..Len(queue[s])
      /\ Len(queue[s]) \in Nat
  BY DEF TypeOK
<1>2. ASSUME NEW w \in Workers, SyncCommit(w)
      PROVE  i \in DOMAIN queue'[s] /\ queue'[s][i] = queue[s][i]
  <2>1. queue'[s] = QueueAfter(w, s) /\ s \notin Crossed(w)
    BY <1>2 DEF SyncCommit
  <2>2. <<s, i>> \notin Superseded(w)
    BY <2>1 DEF Crossed
  <2>3. queue'[s] \in Seq(ChangeStatus) /\ Len(queue'[s]) >= Len(queue[s])
    BY <1>1, <2>1, QueueAfterType
  <2>4. i \in DOMAIN queue'[s]
    BY <1>1, <2>3
  <2> QED BY <2>1, <2>2, <2>4, QueueAfterType
<1>3. ASSUME NEW p \in People, CommitDecide(p)
      PROVE  i \in DOMAIN queue'[s] /\ queue'[s][i] = queue[s][i]
  <2>1. ~(s = req[p].sig /\ i = req[p].index)
    <3> SUFFICES ASSUME s = req[p].sig, i = req[p].index PROVE FALSE
      OBVIOUS
    <3>1. Reviewable(s, i)
      BY <1>3 DEF CommitDecide
    <3> QED BY <3>1 DEF Reviewable, IsOpen, OpenStatuses, PeoplesStatuses
  <2> QED BY <1>3, <2>1, DecideWrites
<1>4. CASE UNCHANGED queue
  BY <1>4
<1> QED BY <1>2, <1>3, <1>4, QueueWriters DEF SyncRead, SyncFail, dbVars

(* What a person decided about a proposal stands (_open_change refuses a   *)
(* decided one, and the runs withdraw only open ones), but where two       *)
(* requests decide it at once, or a run withdraws it from a list it read   *)
(* before the decision.                                                    *)
THEOREM DecisionsFinal == Spec => DecisionIsFinal
<1> DEFINE Step == \A s \in Sigs \ lost' : \A i \in DOMAIN queue[s] :
                     queue[s][i] \in PeoplesStatuses => queue'[s][i] = queue[s][i]
<1>1. TypeOK /\ [Next]_vars => [Step]_vars
  BY DecidedStays
<1> QED BY <1>1, TypeCorrect, PTL DEF Spec, DecisionIsFinal

(* The one live proposal of a signature stands last, and a run knows of    *)
(* it, unless another run has made it since.                               *)
LiveLast ==
  \A s \in Sigs \ lost : \A i \in DOMAIN queue[s] :
     queue[s][i] \in LiveStatuses => i = Len(queue[s])
LiveKnown ==
  \A w \in Workers : \A s \in Sigs \ (lost \union others[w]) : \A i \in DOMAIN queue[s] :
     wpc[w] # "idle" /\ queue[s][i] \in LiveStatuses => decided[w][s] \in LiveStatuses
LiveInv == TypeOK /\ LiveLast /\ LiveKnown

LEMMA LostGrows == ASSUME [Next]_vars PROVE lost \subseteq lost'
BY DEF Next, SyncRead, SyncCollect, SyncLoad, SyncCommit, SyncFail, BeginDecide, CommitDecide,
       BeginEdit, CommitEdit, Retype, Abandon, seenVars, vars

LEMMA LiveStep ==
  ASSUME LiveInv, [Next]_vars
  PROVE  LiveLast' /\ LiveKnown'
<1> USE DEF LiveLast, LiveKnown
<1>0. /\ "superseded" \notin LiveStatuses /\ "approved" \notin LiveStatuses
      /\ OpenStatuses \subseteq LiveStatuses /\ LiveStatuses \subseteq KeptStatuses
      /\ TypeOK /\ lost \subseteq lost'
  BY LostGrows DEF OpenStatuses, LiveStatuses, KeptStatuses, LiveInv
<1>1. \A s \in Sigs : /\ queue[s] \in Seq(ChangeStatus)
                      /\ DOMAIN queue[s] = 1..Len(queue[s]) /\ Len(queue[s]) \in Nat
  BY <1>0 DEF TypeOK
<1>2. LiveLast /\ LiveKnown
  BY DEF LiveInv
<1>3. ASSUME NEW v \in Workers, SyncRead(v) PROVE LiveLast' /\ LiveKnown'
  <2>1. UNCHANGED <<queue, others, lost>>
        /\ decided' = [decided EXCEPT ![v] = [s \in Sigs |-> LastDecision(queue[s])]]
        /\ wpc' = [wpc EXCEPT ![v] = "collecting"]
    BY <1>3 DEF SyncRead, dbVars, seenVars
  <2>2. ASSUME NEW s \in Sigs \ lost, NEW i \in DOMAIN queue[s], queue[s][i] \in LiveStatuses
        PROVE  decided'[v][s] \in LiveStatuses
    <3>1. i = Len(queue[s]) /\ Len(queue[s]) > 0
      BY <1>1, <1>2, <2>2
    <3>2. LastDecision(queue[s]) = queue[s][i]
      BY <3>1, <1>0, <1>1, <2>2, LastDecisionIsLast
    <3> QED BY <1>0, <2>1, <2>2, <3>2 DEF TypeOK
  <2>3. \A w \in Workers : w # v => decided'[w] = decided[w] /\ wpc'[w] = wpc[w]
    BY <1>0, <2>1 DEF TypeOK
  <2> QED BY <1>2, <2>1, <2>2, <2>3
<1>4. ASSUME NEW v \in Workers, SyncCommit(v) PROVE LiveLast' /\ LiveKnown'
  <2>1. wpc[v] = "applying" /\ wpc' = [wpc EXCEPT ![v] = "idle"]
        /\ decided' = [decided EXCEPT ![v] = [s \in Sigs |-> "none"]]
        /\ lost' = lost \union Crossed(v)
        /\ others' = [w \in Workers |-> IF w = v \/ wpc[w] = "idle" THEN {}
                                        ELSE others[w] \union Proposed(v)]
    BY <1>4 DEF SyncCommit
  <2>2. \A s \in Sigs : queue'[s] = QueueAfter(v, s)
    BY <1>4 DEF SyncCommit
  <2>3. ASSUME NEW s \in Sigs, s \notin Proposed(v), NEW i \in DOMAIN queue'[s],
               queue'[s][i] \in LiveStatuses
        PROVE  i \in DOMAIN queue[s] /\ queue[s][i] \in LiveStatuses
               /\ Len(queue'[s]) = Len(queue[s])
    <3>1. queue'[s] \in Seq(ChangeStatus) /\ Len(queue'[s]) = Len(queue[s])
      BY <1>0, <2>2, <2>3, QueueAfterType
    <3>2. i \in DOMAIN queue[s]
      BY <1>1, <3>1
    <3>3. queue'[s][i] = IF <<s, i>> \in Superseded(v) THEN "superseded" ELSE queue[s][i]
      BY <1>0, <2>2, <3>2, QueueAfterType
    <3> QED BY <1>0, <2>3, <3>1, <3>2, <3>3
  <2>4. LiveLast'
    <3> SUFFICES ASSUME NEW s \in Sigs, s \notin lost', NEW i \in DOMAIN queue'[s],
                        queue'[s][i] \in LiveStatuses
                 PROVE  i = Len(queue'[s])
      OBVIOUS
    <3>1. s \notin lost /\ s \notin Crossed(v)
      BY <2>1
    <3>2. CASE s \in Proposed(v)
      <4>1. s \notin others[v] /\ decided[v][s] \notin LiveStatuses
        BY <3>1, <3>2 DEF Crossed, Proposed
      <4>2. \A j \in DOMAIN queue[s] : queue[s][j] \notin LiveStatuses
        BY <1>2, <2>1, <3>1, <4>1
      <4>3. queue'[s] \in Seq(ChangeStatus) /\ Len(queue'[s]) = Len(queue[s]) + 1
        BY <1>0, <2>2, <3>2, QueueAfterType
      <4>4. i \notin DOMAIN queue[s]
        <5> SUFFICES ASSUME i \in DOMAIN queue[s] PROVE FALSE
          OBVIOUS
        <5>1. queue'[s][i] = IF <<s, i>> \in Superseded(v) THEN "superseded" ELSE queue[s][i]
          BY <1>0, <2>2, QueueAfterType
        <5> QED BY <1>0, <4>2, <5>1
      <4> QED BY <1>1, <4>3, <4>4
    <3>3. CASE s \notin Proposed(v)
      BY <1>2, <2>3, <3>1, <3>3
    <3> QED BY <3>2, <3>3
  <2>5. LiveKnown'
    <3> SUFFICES ASSUME NEW w \in Workers, NEW s \in Sigs, s \notin lost', s \notin others'[w],
                        NEW i \in DOMAIN queue'[s], wpc'[w] # "idle",
                        queue'[s][i] \in LiveStatuses
                 PROVE  decided'[w][s] \in LiveStatuses
      OBVIOUS
    <3>1. w # v /\ wpc[w] # "idle" /\ decided'[w] = decided[w] /\ s \notin lost
      BY <1>0, <2>1 DEF TypeOK
    <3>2. s \notin others[w] /\ s \notin Proposed(v)
      BY <2>1, <3>1
    <3> QED BY <1>2, <2>3, <3>1, <3>2
  <2> QED BY <2>4, <2>5
<1>5. ASSUME NEW v \in Workers, SyncFail(v) PROVE LiveLast' /\ LiveKnown'
  <2>1. UNCHANGED <<queue, lost>> /\ wpc' = [wpc EXCEPT ![v] = "idle"]
        /\ decided' = [decided EXCEPT ![v] = [s \in Sigs |-> "none"]]
        /\ others' = [others EXCEPT ![v] = {}]
    BY <1>5 DEF SyncFail, dbVars
  <2>2. \A w \in Workers : wpc'[w] # "idle" =>
          w # v /\ wpc[w] # "idle" /\ decided'[w] = decided[w] /\ others'[w] = others[w]
    BY <1>0, <2>1 DEF TypeOK
  <2> QED BY <1>2, <2>1, <2>2
<1>6. ASSUME NEW p \in People, CommitDecide(p) PROVE LiveLast' /\ LiveKnown'
  <2>1. ASSUME NEW s \in Sigs, s \notin lost', NEW i \in DOMAIN queue'[s],
               queue'[s][i] \in LiveStatuses
        PROVE  /\ i \in DOMAIN queue[s] /\ queue[s][i] \in LiveStatuses
               /\ Len(queue'[s]) = Len(queue[s])
    <3>1. i \in DOMAIN queue[s] /\ Len(queue'[s]) = Len(queue[s])
      BY <1>0, <1>6, DecideWrites
    <3>2. CASE queue'[s][i] = queue[s][i]
      BY <3>1, <3>2, <2>1
    <3>3. CASE queue'[s][i] # queue[s][i]
      <4>1. s = req[p].sig /\ i = req[p].index
        BY <1>0, <3>1, <3>3, <1>6, DecideWrites
      <4>2. IsOpen(s, i)
        BY <2>1, <4>1, <1>6 DEF CommitDecide, Reviewable
      <4> QED BY <1>0, <3>1, <4>2 DEF IsOpen
    <3> QED BY <3>2, <3>3
  <2>2. UNCHANGED <<wpc, decided, others>>
    BY <1>6 DEF CommitDecide, syncVars
  <2> QED BY <1>0, <1>2, <2>1, <2>2
<1>7. CASE UNCHANGED <<queue, decided, others, lost>>
           /\ \A w \in Workers : wpc'[w] # "idle" => wpc[w] # "idle"
  BY <1>2, <1>7
<1> QED BY <1>0, <1>3, <1>4, <1>5, <1>6, <1>7, QueueWriters

LEMMA LiveInvariant == Spec => []LiveInv
<1>1. Init => LiveInv
  BY TypeInit DEF Init, LiveInv, LiveLast, LiveKnown
<1>2. LiveInv /\ [Next]_vars => LiveInv'
  BY TypeStep, LiveStep DEF LiveInv
<1> QED BY <1>1, <1>2, PTL DEF Spec

(* No run queues again what a person has refused, not even what was        *)
(* refused while it was collecting (_Applier.propose), unless another run  *)
(* has proposed the same since it began.                                   *)
THEOREM RejectionsStick == Spec => RejectionSticks
<1> DEFINE Step == \A s \in Sigs \ lost' : Len(queue'[s]) > Len(queue[s])
                     => \A i \in DOMAIN queue[s] : queue[s][i] # "rejected"
<1>1. LiveInv /\ [Next]_vars => [Step]_vars
  <2> SUFFICES ASSUME LiveInv, [Next]_vars, NEW s \in Sigs, s \notin lost',
                      Len(queue'[s]) > Len(queue[s]), NEW i \in DOMAIN queue[s]
               PROVE  queue[s][i] # "rejected"
    OBVIOUS
  <2>1. Len(queue[s]) \in Nat /\ TypeOK /\ LiveKnown
    BY DEF LiveInv, TypeOK
  <2>2. PICK w \in Workers : SyncCommit(w) /\ s \in Proposed(w)
    BY <2>1, QueueGrows
  <2>3. wpc[w] # "idle" /\ decided[w][s] \notin LiveStatuses
        /\ s \notin lost /\ s \notin others[w]
    BY <2>2 DEF SyncCommit, Proposed, Crossed
  <2> QED BY <2>1, <2>3 DEF LiveKnown, LiveStatuses
<1> QED BY <1>1, LiveInvariant, PTL DEF Spec, RejectionSticks

----------------------------------------------------------------------------
(* The queue of the links is a queue of reviews. *)

LEMMA ShownOfQueue ==
  ASSUME NEW q \in Seq(ChangeStatus)
  PROVE  /\ DOMAIN ShownOf(q) = 1..Len(q) /\ DOMAIN q = 1..Len(q) /\ Len(q) \in Nat
         /\ Len(ShownOf(q)) = Len(q)
         /\ \A i \in DOMAIN q :
              /\ q[i] \in OpenStatuses => ShownOf(q)[i] = "open"
              /\ q[i] \notin OpenStatuses => ShownOf(q)[i] = q[i]
<1>1. DOMAIN q = 1..Len(q) /\ Len(q) \in Nat
  OBVIOUS
<1>2. DOMAIN ShownOf(q) = 1..Len(q)
  BY <1>1 DEF ShownOf
<1>3. ShownOf(q) \in [1..Len(q) -> ChangeStatus \union {"open"}]
  <2>1. \A i \in 1..Len(q) : q[i] \in ChangeStatus
    BY <1>1
  <2> QED BY <1>1, <2>1 DEF ShownOf
<1>4. ShownOf(q) \in Seq(ChangeStatus \union {"open"})
  BY <1>1, <1>3, SeqDef
<1>5. Len(ShownOf(q)) = Len(q)
  BY <1>1, <1>2, <1>4, LenProperties
<1> QED BY <1>1, <1>2, <1>5 DEF ShownOf

(* A commit of a run changes each signature as a run of ReviewQueue may,   *)
(* but where it crosses another writer.                                    *)
LEMMA CommitRuns ==
  ASSUME LiveInv, NEW w \in Workers, SyncCommit(w), NEW s \in Sigs, s \notin lost'
  PROVE  \/ Shown'[s] = Shown[s]
         \/ Review!Proposed(Shown[s], Shown'[s])
         \/ Review!Closed(Shown[s], Shown'[s], {"superseded"})
<1> DEFINE q == queue[s]
           r == QueueAfter(w, s)
<1>1. TypeOK /\ wpc[w] = "applying" /\ s \notin lost /\ s \notin Crossed(w)
  BY DEF LiveInv, SyncCommit
<1>2. q \in Seq(ChangeStatus) /\ r \in Seq(ChangeStatus)
  BY <1>1, QueueAfterType DEF TypeOK
<1>3. Shown[s] = ShownOf(q) /\ Shown'[s] = ShownOf(r)
  BY DEF Shown, SyncCommit
<1>4. \A i \in DOMAIN q : r[i] = IF <<s, i>> \in Superseded(w) THEN "superseded" ELSE q[i]
  BY <1>1, QueueAfterType
<1>5. \A i \in DOMAIN q : <<s, i>> \in Superseded(w) => q[i] \in OpenStatuses \union {"superseded"}
  <2>1. \A i \in DOMAIN q : q[i] \in ChangeStatus
    BY <1>2
  <2>2. \A i \in DOMAIN q : <<s, i>> \in Superseded(w) => q[i] \notin PeoplesStatuses
    BY <1>1 DEF Crossed
  <2> QED BY <2>1, <2>2 DEF ChangeStatus, KeptStatuses, LiveStatuses, PeoplesStatuses
<1>6. "superseded" \notin OpenStatuses /\ OpenStatuses \subseteq LiveStatuses
  BY DEF OpenStatuses, LiveStatuses
<1>7. CASE s \in Proposed(w)
  <2>1. decided[w][s] \notin LiveStatuses
    BY <1>7 DEF Proposed
  <2>2. \A i \in DOMAIN q : q[i] \notin LiveStatuses
    <3>1. s \notin others[w]
      BY <1>1, <1>7 DEF Crossed
    <3> QED BY <2>1, <3>1, <1>1 DEF LiveInv, LiveKnown
  <2>3. \A i \in DOMAIN q : r[i] = q[i]
    <3>1. \A i : <<s, i>> \notin Superseded(w)
      BY <1>7 DEF Proposed, Superseded
    <3> QED BY <1>4, <3>1
  <2>4. Len(r) = Len(q) + 1 /\ r[Len(q) + 1] \in OpenStatuses
    BY <1>1, <1>7, QueueAfterType
  <2>5. \A i \in DOMAIN q : q[i] \in {"approved", "superseded"}
    <3>1. \A i \in DOMAIN q : q[i] \in ChangeStatus
      BY <1>2
    <3> QED BY <3>1, <2>2 DEF ChangeStatus, KeptStatuses
  <2> HIDE DEF q, r
  <2>6. Review!Proposed(ShownOf(q), ShownOf(r))
    <3>1. \A i \in 1..Len(q) : ShownOf(q)[i] = q[i] /\ ShownOf(r)[i] = q[i]
      BY <1>2, <1>6, <2>2, <2>3, <2>4, ShownOfQueue
    <3>2. ShownOf(r)[Len(q) + 1] = "open"
      BY <1>2, <2>4, ShownOfQueue
    <3> QED BY <1>2, <2>4, <2>5, <3>1, <3>2, ShownOfQueue
            DEF Review!Proposed, Review!Reopenable
  <2> QED BY <2>6, <1>3
<1>8. ASSUME s \notin Proposed(w), NEW i \in DOMAIN q, <<s, i>> \in Superseded(w),
             q[i] \in OpenStatuses
      PROVE  Review!Closed(Shown[s], Shown'[s], {"superseded"})
  <2>1. Len(r) = Len(q)
    BY <1>1, <1>8, QueueAfterType
  <2>2. r[i] = "superseded"
    BY <1>4, <1>8
  <2>3. \A j \in DOMAIN q : j # i => r[j] = q[j]
    <3>1. \A j \in DOMAIN q : q[j] \in LiveStatuses => j = Len(q)
      BY <1>1 DEF LiveInv, LiveLast
    <3>2. \A j \in DOMAIN q : j # i => q[j] \notin OpenStatuses
      BY <3>1, <1>8, <1>6
    <3> QED BY <3>2, <1>4, <1>5
  <2> HIDE DEF q, r
  <2>4. ShownOf(q)[i] = "open" /\ ShownOf(r)[i] = "superseded" /\ i \in DOMAIN ShownOf(q)
    BY <1>2, <1>6, <1>8, <2>1, <2>2, ShownOfQueue
  <2>5. \A j \in DOMAIN ShownOf(q) : j # i => ShownOf(r)[j] = ShownOf(q)[j]
    <3> TAKE j \in DOMAIN ShownOf(q)
    <3> HAVE j # i
    <3>1. j \in DOMAIN q /\ j \in DOMAIN r /\ r[j] = q[j]
      BY <1>2, <2>1, <2>3, ShownOfQueue
    <3> QED BY <3>1, <1>2, ShownOfQueue
  <2>6. DOMAIN ShownOf(r) = DOMAIN ShownOf(q)
    BY <1>2, <2>1, ShownOfQueue
  <2> QED BY <1>3, <2>4, <2>5, <2>6 DEF Review!Closed
<1>9. ASSUME s \notin Proposed(w),
             \A i \in DOMAIN q : <<s, i>> \in Superseded(w) => q[i] \notin OpenStatuses
      PROVE  Shown'[s] = Shown[s]
  <2>1. Len(r) = Len(q) /\ \A i \in DOMAIN q : r[i] = q[i]
    BY <1>1, <1>4, <1>5, <1>9, QueueAfterType
  <2>2. r = q
    BY <1>2, <2>1, SeqEqual
  <2> QED BY <1>3, <2>2
<1> QED BY <1>7, <1>8, <1>9

(* So does a decision of what is still open. *)
LEMMA DecideDecides ==
  ASSUME LiveInv, NEW p \in People, CommitDecide(p), TypeOK', req[p].sig \notin lost'
  PROVE  \E s \in Sigs : Review!Decide(s)
<1> DEFINE s == req[p].sig
           i == req[p].index
<1>1. TypeOK /\ req[p].kind = "decide"
  BY DEF LiveInv, CommitDecide
<1>2. s \in Sigs
  <2>1. req[p] \in Request
    BY <1>1 DEF TypeOK, Request
  <2>2. req[p] \in Decision
    BY <1>1, <2>1 DEF Request, NoReq, Edit
  <2> QED BY <2>2 DEF Decision
<1>3. i \in DOMAIN queue[s] /\ queue[s][i] \in OpenStatuses
  <2>1. Reviewable(s, i)
    BY <1>1 DEF CommitDecide
  <2> QED BY <2>1 DEF Reviewable, IsOpen
<1>4. queue'[s][i] \in {"approved", "rejected"} /\ DOMAIN queue'[s] = DOMAIN queue[s]
  BY <1>1, <1>2, <1>3 DEF CommitDecide, TypeOK
<1>5. \A t \in Sigs : \A j \in DOMAIN queue[t] : t # s \/ j # i => queue'[t][j] = queue[t][j]
  BY <1>1, DecideWrites, <1>2 DEF CommitDecide, TypeOK
<1>6. \A t \in Sigs : t # s => queue'[t] = queue[t]
  BY <1>1, <1>2 DEF CommitDecide, TypeOK
<1>7. \A t \in Sigs : /\ Shown[t] = ShownOf(queue[t]) /\ Shown'[t] = ShownOf(queue'[t])
                      /\ queue[t] \in Seq(ChangeStatus) /\ queue'[t] \in Seq(ChangeStatus)
  BY <1>1 DEF Shown, TypeOK
<1> HIDE DEF s, i
<1>8. Review!Closed(Shown[s], Shown'[s], Review!Decisions)
  <2> DEFINE q == queue[s]
             r == queue'[s]
  <2>1. q \in Seq(ChangeStatus) /\ r \in Seq(ChangeStatus) /\ DOMAIN r = DOMAIN q
    BY <1>2, <1>4, <1>7
  <2>2. i \in DOMAIN q /\ q[i] \in OpenStatuses /\ r[i] \in {"approved", "rejected"}
        /\ \A j \in DOMAIN q : j # i => r[j] = q[j]
    BY <1>2, <1>3, <1>4, <1>5
  <2> HIDE DEF q, r
  <2>3. \A v \in {"approved", "rejected"} : v \notin OpenStatuses
    BY DEF OpenStatuses
  <2>4. DOMAIN ShownOf(r) = DOMAIN q /\ DOMAIN ShownOf(q) = DOMAIN q
    BY <2>1, ShownOfQueue
  <2>5. ShownOf(q)[i] = "open" /\ ShownOf(r)[i] \in {"approved", "rejected"}
    BY <2>1, <2>2, <2>3, ShownOfQueue
  <2>6. \A j \in DOMAIN q : j # i => ShownOf(r)[j] = ShownOf(q)[j]
    <3> TAKE j \in DOMAIN q
    <3> HAVE j # i
    <3>1. r[j] = q[j] /\ j \in DOMAIN r
      BY <2>1, <2>2
    <3> QED BY <3>1, <2>1, ShownOfQueue
  <2>7. Review!Closed(ShownOf(q), ShownOf(r), Review!Decisions)
    BY <2>2, <2>4, <2>5, <2>6 DEF Review!Closed, Review!Decisions
  <2> QED BY <1>2, <1>7, <2>7 DEF q, r
<1> QED BY <1>2, <1>6, <1>7, <1>8 DEF Review!Decide

(* The links keep what ReviewQueue promises: at most one proposal of a     *)
(* subject is open, a refusal is never followed by another proposal and a  *)
(* decision is final, whatever runs and requests overlap, until two        *)
(* writers cross on that subject.                                          *)
THEOREM LinksReviewed == Spec => KeepsThePromise
<1>1. Init => Review!Init
  <2> SUFFICES ASSUME Init PROVE Shown = [s \in Sigs |-> <<>>] /\ lost = {}
    BY DEF Review!Init
  <2>1. \A s \in Sigs : ShownOf(queue[s]) = <<>>
    BY DEF Init, ShownOf
  <2> QED BY <2>1 DEF Shown, Init
<1>2. LiveInv /\ LiveInv' /\ [Next]_vars => [Review!Next]_<<Shown, lost>>
  <2> SUFFICES ASSUME LiveInv, LiveInv', [Next]_vars
               PROVE  [Review!Next]_<<Shown, lost>>
    OBVIOUS
  <2>0. lost \subseteq lost' /\ TypeOK /\ TypeOK'
    BY LostGrows DEF LiveInv
  <2>1. ASSUME NEW w \in Workers, SyncCommit(w) PROVE Review!Run
    BY <2>1, CommitRuns DEF Review!Run
  <2>2. ASSUME NEW p \in People, CommitDecide(p)
        PROVE  Review!Run \/ \E s \in Sigs : Review!Decide(s)
    <3>1. CASE req[p].sig \notin lost'
      BY <2>0, <2>2, <3>1, DecideDecides
    <3>2. CASE req[p].sig \in lost'
      <4>1. \A s \in Sigs : s # req[p].sig => queue'[s] = queue[s]
        BY <2>0, <2>2 DEF CommitDecide, TypeOK
      <4>2. \A s \in Sigs \ lost' : Shown'[s] = Shown[s]
        BY <3>2, <4>1 DEF Shown
      <4> QED BY <4>2 DEF Review!Run
    <3> QED BY <3>1, <3>2
  <2>3. ASSUME UNCHANGED queue PROVE UNCHANGED Shown
    BY <2>3 DEF Shown
  <2>4. \/ UNCHANGED <<queue, lost>>
        \/ \E w \in Workers : SyncCommit(w)
        \/ \E p \in People : CommitDecide(p)
    BY <2>0, QueueWriters DEF SyncRead, SyncFail, dbVars, seenVars
  <2> QED BY <2>0, <2>1, <2>2, <2>3, <2>4 DEF Review!Next
<1> QED BY <1>1, <1>2, LiveInvariant, PTL DEF Spec, KeepsThePromise, Review!Spec

----------------------------------------------------------------------------
(* What a run leaves in the queue about the Helm links. *)

(* A run that knows of a refusal knows of one that is in the queue; the    *)
(* proposals that are open while it applies are those it has read and      *)
(* those that other runs have made since; and the bound is one of the      *)
(* queue.                                                                  *)
RefusalsKnown ==
  \A w \in Workers, s \in Sigs \ lost :
    decided[w][s] = "rejected" => \E i \in DOMAIN queue[s] : queue[s][i] = "rejected"
OpenSeen ==
  \A w \in Workers : \A s \in Sigs \ others[w] : \A i \in DOMAIN queue[s] :
    wpc[w] = "applying" /\ IsOpen(s, i) => <<s, i>> \in view[w].open
Within == \A s \in Sigs : Len(queue[s]) <= MaxProposals

LEMMA RefusalsStep ==
  ASSUME TypeOK, RefusalsKnown, [Next]_vars
  PROVE  RefusalsKnown'
<1> SUFFICES ASSUME NEW w \in Workers, NEW s \in Sigs, s \notin lost',
                    decided'[w][s] = "rejected"
             PROVE  \E i \in DOMAIN queue'[s] : queue'[s][i] = "rejected"
  BY DEF RefusalsKnown
<1>0. s \notin lost
  BY LostGrows
<1>1. CASE decided[w][s] = "rejected"
  <2>1. PICK i \in DOMAIN queue[s] : queue[s][i] = "rejected"
    BY <1>0, <1>1 DEF RefusalsKnown
  <2> QED BY <2>1, DecidedStays DEF PeoplesStatuses
<1>2. ASSUME NEW v \in Workers, SyncRead(v), v = w
      PROVE  \E i \in DOMAIN queue'[s] : queue'[s][i] = "rejected"
  <2>1. UNCHANGED queue /\ decided'[w][s] = LastDecision(queue[s])
    BY <1>2 DEF SyncRead, dbVars, TypeOK
  <2>2. LastDecision(queue[s]) = "rejected"
    BY <2>1
  <2>3. \E i \in DOMAIN queue[s] : queue[s][i] = "rejected"
    BY <2>2 DEF LastDecision
  <2> QED BY <2>1, <2>3
<1>3. \/ decided'[w] = decided[w]
      \/ decided'[w] = [u \in Sigs |-> "none"]
      \/ \E v \in Workers : SyncRead(v) /\ v = w
  BY DEF Next, SyncRead, SyncCollect, SyncLoad, SyncCommit, SyncFail, BeginDecide, CommitDecide,
         BeginEdit, CommitEdit, Retype, Abandon, dbVars, syncVars, vars, TypeOK
<1> QED BY <1>1, <1>2, <1>3

LEMMA SeenStep ==
  ASSUME TypeOK, OpenSeen, Within, [Next]_vars
  PROVE  OpenSeen'
<1> USE DEF OpenSeen
<1>1. \A s \in Sigs : /\ queue[s] \in Seq(ChangeStatus)
                      /\ DOMAIN queue[s] = 1..Len(queue[s]) /\ Len(queue[s]) \in Nat
  BY DEF TypeOK
<1>2. CASE UNCHANGED <<queue, decided, others, lost>>
           /\ \A w \in Workers : /\ wpc'[w] # "idle" => wpc[w] # "idle"
                                 /\ wpc'[w] = "applying" =>
                                      \/ wpc[w] = "applying" /\ view'[w] = view[w]
                                      \/ SyncLoad(w)
  <2> SUFFICES ASSUME NEW w \in Workers, NEW s \in Sigs, s \notin others[w],
                      NEW i \in DOMAIN queue[s], wpc'[w] = "applying", IsOpen(s, i)
               PROVE  <<s, i>> \in view'[w].open
    BY <1>2 DEF IsOpen
  <2>1. CASE SyncLoad(w)
    <3>1. view'[w].open = OpenChanges
      BY <2>1 DEF SyncLoad, TypeOK
    <3>2. i \in 1..MaxProposals
      BY <1>1, BoundsAssumption DEF Within
    <3> QED BY <3>1, <3>2 DEF OpenChanges, Changes
  <2>2. CASE wpc[w] = "applying" /\ view'[w] = view[w]
    BY <2>2
  <2> QED BY <1>2, <2>1, <2>2
<1>3. ASSUME NEW v \in Workers, SyncRead(v) PROVE OpenSeen'
  <2>1. UNCHANGED <<queue, view, others>> /\ wpc' = [wpc EXCEPT ![v] = "collecting"]
    BY <1>3 DEF SyncRead, dbVars, seenVars
  <2> QED BY <2>1 DEF TypeOK, IsOpen
<1>4. ASSUME NEW v \in Workers, SyncCommit(v) PROVE OpenSeen'
  <2>1. wpc' = [wpc EXCEPT ![v] = "idle"] /\ view' = [view EXCEPT ![v] = NoView]
        /\ others' = [w \in Workers |-> IF w = v \/ wpc[w] = "idle" THEN {}
                                        ELSE others[w] \union Proposed(v)]
    BY <1>4 DEF SyncCommit
  <2> SUFFICES ASSUME NEW w \in Workers, NEW s \in Sigs, s \notin others'[w],
                      NEW i \in DOMAIN queue'[s], wpc'[w] = "applying",
                      queue'[s][i] \in OpenStatuses
               PROVE  <<s, i>> \in view'[w].open
    BY DEF IsOpen
  <2>2. w # v /\ wpc[w] = "applying" /\ view'[w] = view[w]
    BY <2>1 DEF TypeOK
  <2>3. s \notin others[w] /\ s \notin Proposed(v)
    BY <2>1, <2>2
  <2>4. queue'[s] = QueueAfter(v, s)
    BY <1>4 DEF SyncCommit
  <2>5. i \in DOMAIN queue[s]
    <3>1. queue'[s] \in Seq(ChangeStatus) /\ Len(queue'[s]) = Len(queue[s])
      BY <2>3, <2>4, QueueAfterType
    <3> QED BY <1>1, <3>1
  <2>6. IsOpen(s, i)
    <3>1. queue'[s][i] = IF <<s, i>> \in Superseded(v) THEN "superseded" ELSE queue[s][i]
      BY <2>4, <2>5, QueueAfterType
    <3> QED BY <3>1 DEF IsOpen, OpenStatuses
  <2> QED BY <2>2, <2>3, <2>5, <2>6
<1>5. ASSUME NEW v \in Workers, SyncFail(v) PROVE OpenSeen'
  <2>1. UNCHANGED queue /\ wpc' = [wpc EXCEPT ![v] = "idle"]
        /\ view' = [view EXCEPT ![v] = NoView] /\ others' = [others EXCEPT ![v] = {}]
    BY <1>5 DEF SyncFail, dbVars
  <2>2. \A w \in Workers : wpc'[w] = "applying" =>
          wpc[w] = "applying" /\ view'[w] = view[w] /\ others'[w] = others[w]
    BY <2>1 DEF TypeOK
  <2> QED BY <2>1, <2>2 DEF IsOpen
<1>6. ASSUME NEW p \in People, CommitDecide(p) PROVE OpenSeen'
  <2>1. ASSUME NEW s \in Sigs, NEW i \in DOMAIN queue'[s], queue'[s][i] \in OpenStatuses
        PROVE  i \in DOMAIN queue[s] /\ IsOpen(s, i)
    BY <1>6, <2>1, DecideWrites DEF IsOpen, OpenStatuses
  <2>2. UNCHANGED <<wpc, view, others>>
    BY <1>6 DEF CommitDecide, syncVars
  <2> QED BY <2>1, <2>2 DEF IsOpen
<1> QED BY <1>2, <1>3, <1>4, <1>5, <1>6, QueueWriters

LEMMA WithinStep ==
  ASSUME TypeOK, Within, [Next]_vars
  PROVE  Within'
<1> SUFFICES ASSUME NEW s \in Sigs PROVE Len(queue'[s]) <= MaxProposals
  BY DEF Within
<1>1. CASE Len(queue'[s]) = Len(queue[s])
  BY <1>1 DEF Within
<1>2. CASE Len(queue'[s]) # Len(queue[s])
  <2>1. PICK w \in Workers : SyncCommit(w) /\ s \in Proposed(w)
    BY <1>2, QueueGrows
  <2>2. Len(queue[s]) < MaxProposals /\ queue'[s] = QueueAfter(w, s)
    BY <2>1 DEF SyncCommit
  <2>3. Len(queue[s]) \in Nat
    BY DEF TypeOK
  <2> QED BY <2>1, <2>2, <2>3, QueueAfterType, BoundsAssumption
<1> QED BY <1>1, <1>2

ExactInv == TypeOK /\ RefusalsKnown /\ OpenSeen /\ Within

LEMMA ExactInvariant == Spec => []ExactInv
<1>1. Init => ExactInv
  <2>1. Init => RefusalsKnown /\ OpenSeen /\ Within
    BY BoundsAssumption DEF Init, RefusalsKnown, OpenSeen, Within
  <2> QED BY <2>1, TypeInit DEF ExactInv
<1>2. ExactInv /\ [Next]_vars => ExactInv'
  BY TypeStep, RefusalsStep, SeenStep, WithinStep DEF ExactInv
<1> QED BY <1>1, <1>2, PTL DEF Spec

(* A run proposes about a Helm link whose source it has read exactly what  *)
(* the source and the map disagree about, when nobody has touched the      *)
(* links between its ends since the run read them.                         *)
LEMMA EmittedJustified ==
  ASSUME TypeOK, NEW w \in Workers,
         NEW s \in [op : {"add", "remove"}, key : HelmKeys],
         s.key.from \in facts[w].read, Steady(w, s)
  PROVE  Justified(w, s) <=> s \in Emitted(w)
<1>1. s \in Sigs /\ s.key \in HelmKeys /\ s.key \in Keys /\ s.key \notin ContractKeys
  BY KeysAssumption DEF Sigs, Keys
<1>2. \A k \in Keys : SamePair(s.key, k) => /\ view[w].edge[k] = edge[k].status
                                            /\ view[w].origin[k] = edge[k].origin
  BY DEF Steady
<1>3. HelmLinks(w) \subseteq Keys
  BY DEF HelmLinks, Keys
<1>4. CASE s.op = "add"
  <2>1. s \in Emitted(w) <=> s.key \in HelmAdds(w)
    <3>1. s = [op |-> "add", key |-> s.key]
      BY <1>4
    <3> QED BY <3>1, <1>4 DEF Emitted
  <2>2. s.key \in HelmAdds(w) <=> LinkMissing(w, s.key)
    BY <1>1, <1>2 DEF HelmAdds, Described, LinkMissing
  <2> QED BY <2>1, <2>2, <1>4 DEF Justified
<1>5. CASE s.op = "remove"
  <2>1. s \in Emitted(w) <=> s.key \in HelmRemoves(w) \union ContractGone(w, "verified")
    <3>1. s = [op |-> "remove", key |-> s.key]
      BY <1>5
    <3> QED BY <3>1, <1>5 DEF Emitted
  <2>2. s.key \notin ContractGone(w, "verified")
    BY <1>1 DEF ContractGone
  <2>3. s.key \in HelmRemoves(w) <=> LinkVanished(w, s.key)
    <3>1. \A l \in Keys : SamePair(s.key, l) <=> SamePair(l, s.key)
      BY DEF SamePair
    <3> QED BY <1>1, <1>2, <1>3, <3>1 DEF HelmRemoves, LinkVanished, SamePair
  <2> QED BY <2>1, <2>2, <2>3, <1>5 DEF Justified
<1> QED BY <1>4, <1>5

(* The queue about the Helm links is exact after every run                 *)
(* (_apply_helm_edges, propose and supersede_stale of _Applier), for every *)
(* link that no other writer has touched since the run read it.            *)
THEOREM HelmQueue == Spec => HelmQueueExact
<1> DEFINE Exact(w, s) ==
             /\ Justified(w, s) => \/ decided[w][s] \in OpenStatuses
                                   \/ \E i \in DOMAIN queue'[s] : queue'[s][i] \in LiveStatuses
             /\ (\E i \in DOMAIN queue'[s] : queue'[s][i] \in OpenStatuses) => Justified(w, s)
           HelmSigs == [op : {"add", "remove"}, key : HelmKeys]
           Step == \A w \in Workers : SyncCommit(w) =>
                     \A s \in HelmSigs \ lost' :
                       s.key.from \in facts[w].read /\ Steady(w, s) => Exact(w, s)
<1>1. ExactInv /\ [Next]_vars => [Step]_vars
  <2> SUFFICES ASSUME ExactInv, [Next]_vars, NEW w \in Workers, SyncCommit(w), NEW s \in HelmSigs,
                      s \notin lost', s.key.from \in facts[w].read, Steady(w, s)
               PROVE  Exact(w, s)
    OBVIOUS
  <2>1. TypeOK /\ RefusalsKnown /\ OpenSeen /\ Within /\ wpc[w] = "applying"
        /\ s \notin lost /\ s \notin others[w]
    BY DEF ExactInv, SyncCommit, Steady
  <2>2. s \in Sigs
    BY DEF Sigs, Keys
  <2>3. Justified(w, s) <=> s \in Emitted(w)
    BY <2>1, EmittedJustified
  <2>4. queue'[s] = QueueAfter(w, s) /\ queue'[s] \in Seq(ChangeStatus)
    BY <2>1, <2>2, QueueAfterType DEF SyncCommit
  <2>5. DOMAIN queue'[s] = 1..Len(queue'[s]) /\ DOMAIN queue[s] = 1..Len(queue[s])
        /\ Len(queue[s]) \in Nat /\ Len(queue'[s]) \in Nat
    BY <2>1, <2>2, <2>4 DEF TypeOK
  <2>6. ASSUME s \in Emitted(w), decided[w][s] \notin OpenStatuses
        PROVE  \E i \in DOMAIN queue'[s] : queue'[s][i] \in LiveStatuses
    <3>1. CASE decided[w][s] = "rejected"
      <4>1. PICK i \in DOMAIN queue[s] : queue[s][i] = "rejected"
        BY <2>1, <2>2, <3>1 DEF RefusalsKnown
      <4>2. i \in DOMAIN queue'[s] /\ queue'[s][i] = "rejected"
        BY <2>1, <2>2, <4>1, DecidedStays DEF PeoplesStatuses
      <4> QED BY <4>2 DEF LiveStatuses
    <3>2. CASE decided[w][s] # "rejected"
      <4>1. s \in Proposed(w)
        BY <2>6, <3>2 DEF Proposed, LiveStatuses
      <4>2. Len(queue'[s]) = Len(queue[s]) + 1 /\ queue'[s][Len(queue[s]) + 1] \in OpenStatuses
        BY <2>1, <2>2, <2>4, <4>1, QueueAfterType
      <4>3. Len(queue[s]) + 1 \in DOMAIN queue'[s]
        BY <2>5, <4>2
      <4> QED BY <4>2, <4>3 DEF LiveStatuses
    <3> QED BY <3>1, <3>2
  <2>7. ASSUME NEW i \in DOMAIN queue'[s], queue'[s][i] \in OpenStatuses
        PROVE  s \in Emitted(w)
    <3>1. CASE s \in Proposed(w)
      BY <3>1 DEF Proposed
    <3>2. CASE s \notin Proposed(w)
      <4>1. i \in DOMAIN queue[s]
        BY <2>1, <2>2, <2>4, <2>5, <3>2, QueueAfterType
      <4>2. <<s, i>> \notin Superseded(w) /\ queue[s][i] \in OpenStatuses
        <5>1. queue'[s][i] = IF <<s, i>> \in Superseded(w) THEN "superseded" ELSE queue[s][i]
          BY <2>1, <2>2, <2>4, <4>1, QueueAfterType
        <5>2. "superseded" \notin OpenStatuses
          BY DEF OpenStatuses
        <5> QED BY <2>7, <5>1, <5>2
      <4>3. i \in 1..MaxProposals
        BY <2>1, <2>2, <2>5, <4>1, BoundsAssumption DEF Within
      <4>4. <<s, i>> \in view[w].open
        BY <2>1, <2>2, <4>1, <4>2 DEF OpenSeen, IsOpen
      <4>5. s.key.from \in Scopes(w)
        BY DEF Scopes
      <4> QED BY <4>2, <4>4, <4>5 DEF Superseded
    <3> QED BY <3>1, <3>2
  <2> QED BY <2>3, <2>6, <2>7
<1> QED BY <1>1, ExactInvariant, PTL DEF Spec, HelmQueueExact
=============================================================================
