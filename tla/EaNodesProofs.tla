---------------------------- MODULE EaNodesProofs ----------------------------
(* Proofs about EaNodes for every set of nodes and every bound. *)
EXTENDS EaNodes, SequenceTheorems, TLAPS

Seen == OpenStatuses \union Decisions \union {"none"}

LEMMA NodeSets ==
  /\ Comps \subseteq Nodes /\ Products \subseteq Nodes /\ Datasets \subseteq Nodes
  /\ \A c \in Comps : c \notin Products /\ c \notin Datasets
  /\ \A d \in Datasets : d \notin Products /\ d \notin Comps
  /\ 0 \in Versions /\ 1 \in Versions
  /\ \A s \in Sigs : s.node \in Nodes
BY KindsAssumption, BoundsAssumption DEF Nodes, Versions, Sigs

LEMMA RowTypes ==
  NoNode \in NodeRow /\ \A p \in Products \union {NoParent} : Imported(p) \in NodeRow
BY NodeSets DEF NoNode, Imported, NodeRow, NodeStatus, NodeSource

(* A status other than superseded that stands last is the one a run reads. *)
LEMMA LastDecisionIsLast ==
  ASSUME NEW q \in Seq(Change), Len(q) > 0, q[Len(q)].status # "superseded"
  PROVE  LastDecision(q) = q[Len(q)].status
<1> DEFINE Last(i) == /\ q[i].status # "superseded"
                      /\ \A j \in DOMAIN q : j > i => q[j].status = "superseded"
<1>1. DOMAIN q = 1..Len(q) /\ Len(q) \in Nat
  OBVIOUS
<1>2. Last(Len(q)) /\ Len(q) \in DOMAIN q
  BY <1>1
<1>3. \A i \in DOMAIN q : Last(i) => i = Len(q)
  BY <1>1
<1>4. (CHOOSE i \in DOMAIN q : Last(i)) = Len(q)
  BY <1>2, <1>3
<1> QED BY <1>2, <1>4 DEF LastDecision

LEMMA LastDecisionType ==
  ASSUME NEW q \in Seq(Change)
  PROVE  LastDecision(q) \in Seen
<1> DEFINE Last(i) == /\ q[i].status # "superseded"
                      /\ \A j \in DOMAIN q : j > i => q[j].status = "superseded"
<1>1. CASE \E i \in DOMAIN q : Last(i)
  <2> DEFINE k == CHOOSE i \in DOMAIN q : Last(i)
  <2>1. k \in DOMAIN q /\ Last(k)
    BY <1>1
  <2>2. LastDecision(q) = q[k].status
    BY <1>1 DEF LastDecision
  <2>3. q[k].status \in ChangeStatus /\ q[k].status # "superseded"
    <3> HIDE DEF k
    <3>1. q[k] \in Change
      BY <2>1
    <3> QED BY <2>1, <3>1 DEF Change
  <2> QED BY <2>1, <2>2, <2>3 DEF ChangeStatus, Seen
<1>2. CASE ~ \E i \in DOMAIN q : Last(i)
  BY <1>2 DEF LastDecision, Seen
<1> QED BY <1>1, <1>2

-----------------------------------------------------------------------------
(* Types *)

LEMMA TypeInit == Init => TypeOK
<1> SUFFICES ASSUME Init PROVE TypeOK
  OBVIOUS
<1>1. node \in [Nodes -> NodeRow]
  <2>1. PICK known \in SUBSET Comps, parent \in [Comps -> Products] :
          node = [n \in Nodes |-> CASE n \in Products -> Imported(NoParent)
                                    [] n \in known    -> Imported(parent[n])
                                    [] OTHER          -> NoNode]
    BY DEF Init
  <2>2. \A n \in known : Imported(parent[n]) \in NodeRow
    BY RowTypes
  <2>3. \A n \in known : n \notin Products
    BY NodeSets
  <2> QED BY <2>1, <2>2, <2>3, RowTypes
<1>2. queue \in [Sigs -> Seq(Change)] /\ \A s \in Sigs : Len(queue[s]) <= MaxProposals
  BY BoundsAssumption DEF Init
<1>3. /\ content \in [Nodes -> Versions] /\ snap \in [Nodes -> Versions]
      /\ facts \in [Nodes -> Versions]
  BY NodeSets DEF Init, Nothing
<1>4. repo \in [Comps -> RepoState] /\ listing \in [Comps -> RepoState]
  BY DEF Init, RepoState
<1>5. mem \in [Nodes -> NodeRow]
  BY RowTypes DEF Init
<1> QED
  BY <1>1, <1>2, <1>3, <1>4, <1>5, BoundsAssumption DEF Init, TypeOK

(* What a run does to its own variables when it ends. *)
LEMMA OverTypes ==
  Over => /\ pc' = "idle"
          /\ decided' \in [Sigs -> Seen]
          /\ mem' \in [Nodes -> NodeRow]
          /\ listing' \in [Comps -> RepoState]
          /\ facts' \in [Nodes -> Versions]
BY RowTypes, NodeSets DEF Over, Nothing, Seen, RepoState

LEMMA QueueAfterType ==
  ASSUME TypeOK, NEW s \in Sigs
  PROVE  /\ QueueAfter(s) \in Seq(Change)
         /\ Len(QueueAfter(s)) = IF s \in Proposed THEN Len(queue[s]) + 1 ELSE Len(queue[s])
         /\ \A i \in DOMAIN queue[s] :
              QueueAfter(s)[i].status = Withdrawn(s, queue[s][i].status)
         /\ s \in Proposed => QueueAfter(s)[Len(queue[s]) + 1].status = "pending"
<1> DEFINE q == queue[s]
           old == [i \in DOMAIN q |-> [q[i] EXCEPT !.status = Withdrawn(s, @)]]
           new == [status |-> "pending", attrs |-> IF s.op = "add" THEN facts[s.node] ELSE 0]
<1>1. q \in Seq(Change) /\ DOMAIN q = 1..Len(q) /\ Len(q) \in Nat
      /\ \A i \in 1..Len(q) : q[i] \in Change
  BY DEF TypeOK
<1>2. \A i \in 1..Len(q) : /\ [q[i] EXCEPT !.status = Withdrawn(s, @)] \in Change
                           /\ [q[i] EXCEPT !.status = Withdrawn(s, @)].status
                                = Withdrawn(s, q[i].status)
  BY <1>1 DEF Change, Withdrawn, ChangeStatus
<1>3. old \in Seq(Change) /\ Len(old) = Len(q)
      /\ \A i \in 1..Len(q) : old[i].status = Withdrawn(s, q[i].status)
  BY <1>1, <1>2
<1>4. new \in Change /\ new.status = "pending"
  BY NodeSets DEF TypeOK, Change, ChangeStatus, OpenStatuses
<1>5. QueueAfter(s) = IF s \in Proposed THEN Append(old, new) ELSE old
  BY DEF QueueAfter
<1> HIDE DEF q, old, new
<1>6. CASE s \in Proposed
  <2>1. QueueAfter(s) \in Seq(Change) /\ Len(QueueAfter(s)) = Len(old) + 1
        /\ QueueAfter(s)[Len(old) + 1] = new
        /\ \A i \in 1..Len(old) : QueueAfter(s)[i] = old[i]
    BY <1>3, <1>4, <1>5, <1>6
  <2> QED BY <2>1, <1>1, <1>3, <1>4, <1>6 DEF q
<1>7. CASE s \notin Proposed
  BY <1>1, <1>3, <1>5, <1>7 DEF q
<1> QED BY <1>6, <1>7

LEMMA NodesAfterType == TypeOK => NodesAfter \in [Nodes -> NodeRow]
<1> SUFFICES ASSUME TypeOK, NEW n \in Nodes
             PROVE  /\ n \in Comps => Observed(n) \in NodeRow
                    /\ n \in Datasets => Declared(n) \in NodeRow
                    /\ node[n] \in NodeRow
  BY DEF NodesAfter
<1>1. node[n] \in NodeRow /\ mem[n] \in NodeRow /\ facts[n] \in Versions
  BY DEF TypeOK
<1>2. Observed(n) \in NodeRow
  BY <1>1 DEF Observed, Row, NodeRow
<1>3. Declared(n) \in NodeRow
  BY <1>1, NodeSets, RowTypes DEF Declared, NodeRow, NoNode, NodeStatus, NodeSource
<1> QED BY <1>1, <1>2, <1>3

(* Deciding writes one status. *)
LEMMA CloseType ==
  ASSUME TypeOK, NEW s \in Sigs, NEW i, NEW status \in Decisions,
         IsOpen(s, i), Close(s, i, status)
  PROVE  /\ queue' \in [Sigs -> Seq(Change)]
         /\ queue' = [queue EXCEPT ![s] = [queue[s] EXCEPT ![i] = [@ EXCEPT !.status = status]]]
         /\ \A t \in Sigs : /\ Len(queue'[t]) = Len(queue[t])
                            /\ DOMAIN queue'[t] = DOMAIN queue[t]
                            /\ \A j \in DOMAIN queue[t] :
                                 queue'[t][j].status =
                                   IF t = s /\ j = i THEN status ELSE queue[t][j].status
<1> DEFINE q == queue[s]
           row == [q[i] EXCEPT !.status = status]
           new == [q EXCEPT ![i] = row]
<1>1. q \in Seq(Change) /\ i \in DOMAIN q /\ q[i] \in Change
  BY DEF TypeOK, IsOpen
<1>2. row \in Change /\ row.status = status
  BY <1>1 DEF Change, ChangeStatus
<1>3. new \in Seq(Change) /\ Len(new) = Len(q) /\ DOMAIN new = DOMAIN q
      /\ \A j \in DOMAIN q : new[j] = IF j = i THEN row ELSE q[j]
  BY <1>1, <1>2
<1>4. queue' = [queue EXCEPT ![s] = [queue[s] EXCEPT ![i] = [@ EXCEPT !.status = status]]]
  BY DEF Close
<1>5. queue' = [queue EXCEPT ![s] = new]
  BY <1>4
<1> HIDE DEF new
<1>6. \A t \in Sigs : queue'[t] = IF t = s THEN new ELSE queue[t]
  BY <1>5 DEF TypeOK
<1>7. queue' \in [Sigs -> Seq(Change)]
  BY <1>3, <1>5 DEF TypeOK
<1> HIDE DEF row
<1> QED BY <1>2, <1>3, <1>4, <1>6, <1>7

LEMMA EditType ==
  ASSUME TypeOK, NEW n \in Nodes, NEW row \in NodeRow, Edit(n, row)
  PROVE  TypeOK'
<1>1. node' \in [Nodes -> NodeRow]
  BY DEF Edit, TypeOK
<1>2. edits' \in 0..MaxEdits
  BY BoundsAssumption DEF Edit, TypeOK
<1> QED BY <1>1, <1>2 DEF Edit, TypeOK, runVars

LEMMA TypeStep == TypeOK /\ [Next]_vars => TypeOK'
<1> SUFFICES ASSUME TypeOK, [Next]_vars PROVE TypeOK'
  OBVIOUS
<1> USE DEF dbVars, runVars
<1>1. ASSUME ReadState PROVE TypeOK'
  <2>1. decided' \in [Sigs -> Seen]
    BY <1>1, LastDecisionType DEF ReadState, TypeOK
  <2>2. mem' \in [Nodes -> NodeRow]
    BY <1>1, RowTypes DEF ReadState, TypeOK
  <2> QED BY <1>1, <2>1, <2>2 DEF ReadState, TypeOK, Seen
<1>2. ASSUME Collect PROVE TypeOK'
  <2>1. PICK hidden \in SUBSET Private, read \in SUBSET (Comps \union Datasets) :
          LET seen == [c \in Comps |-> IF c \in hidden THEN "absent" ELSE repo[c]]
          IN  /\ listing' = seen
              /\ facts' = [n \in Nodes |->
                   CASE n \in Products                    -> 0
                     [] n \in Comps /\ ~Target(seen, n)   -> 0
                     [] n \in read                        -> content[n]
                     [] OTHER                             -> snap[n]]
    BY <1>2 DEF Collect
  <2> DEFINE seen == [c \in Comps |-> IF c \in hidden THEN "absent" ELSE repo[c]]
  <2>2. listing' \in [Comps -> RepoState]
    BY <2>1 DEF TypeOK, RepoState
  <2>3. \A n \in Nodes : facts'[n] \in {0, content[n], snap[n]}
    <3> TAKE n \in Nodes
    <3>1. CASE n \in Products
      BY <2>1, <3>1
    <3>2. CASE n \notin Products /\ n \in Comps /\ ~Target(seen, n)
      BY <2>1, <3>2
    <3>3. CASE n \notin Products /\ ~(n \in Comps /\ ~Target(seen, n)) /\ n \in read
      BY <2>1, <3>3
    <3>4. CASE n \notin Products /\ ~(n \in Comps /\ ~Target(seen, n)) /\ n \notin read
      BY <2>1, <3>4
    <3> QED BY <3>1, <3>2, <3>3, <3>4
  <2>4. facts' \in [Nodes -> Versions]
    <3>1. \E f : facts' = [n \in Nodes |-> f[n]]
      BY <2>1
    <3> QED BY <2>3, <3>1, NodeSets DEF TypeOK
  <2> QED BY <1>2, <2>2, <2>4 DEF Collect, TypeOK
<1>3. ASSUME Apply PROVE TypeOK'
  <2>1. queue' \in [Sigs -> Seq(Change)]
    BY <1>3, QueueAfterType DEF Apply
  <2>2. \A s \in Sigs : Len(queue'[s]) <= MaxProposals
    <3> TAKE s \in Sigs
    <3>1. queue'[s] = QueueAfter(s)
      BY <1>3 DEF Apply
    <3>2. Len(queue[s]) \in Nat /\ Len(queue[s]) <= MaxProposals
      BY DEF TypeOK
    <3>3. s \in Proposed => Len(queue[s]) < MaxProposals
      BY <1>3 DEF Apply
    <3> QED BY <3>1, <3>2, <3>3, QueueAfterType, BoundsAssumption
  <2>3. snap' \in [Nodes -> Versions]
    BY <1>3 DEF Apply, TypeOK
  <2>4. node' \in [Nodes -> NodeRow]
    BY <1>3, NodesAfterType DEF Apply
  <2> QED BY <1>3, <2>1, <2>2, <2>3, <2>4, OverTypes DEF Apply, TypeOK, Seen
<1>4. ASSUME Fail PROVE TypeOK'
  BY <1>4, OverTypes DEF Fail, TypeOK, Seen
<1>5. ASSUME NEW s \in Sigs, NEW i, NEW status \in Decisions, IsOpen(s, i),
             Close(s, i, status)
      PROVE  queue' \in [Sigs -> Seq(Change)] /\ \A t \in Sigs : Len(queue'[t]) <= MaxProposals
  BY <1>5, CloseType DEF TypeOK
<1>6. {"approved", "rejected"} \subseteq Decisions
  BY DEF Decisions
<1>7. ASSUME NEW i \in 1..MaxProposals, NEW c \in Comps, NEW p \in Products,
             ApproveAdd(c, i, p)
      PROVE  TypeOK'
  <2> DEFINE s == [op |-> "add", node |-> c]
             row == [status |-> "active", source |-> "sync", verified |-> TRUE,
                     parent |-> p, text |-> 0, attrs |-> queue[s][i].attrs, choice |-> 1]
  <2>1. s \in Sigs /\ c \in Nodes
    BY NodeSets DEF Sigs
  <2>2. queue[s][i] \in Change
    BY <1>7, <2>1 DEF ApproveAdd, IsOpen, TypeOK
  <2>3. row \in NodeRow
    BY <2>2, NodeSets DEF NodeRow, Change, NodeStatus, NodeSource
  <2>4. node' = [node EXCEPT ![c] = row]
    BY <1>7 DEF ApproveAdd
  <2> HIDE DEF row
  <2>5. node' \in [Nodes -> NodeRow]
    BY <2>3, <2>4 DEF TypeOK
  <2>6. queue' \in [Sigs -> Seq(Change)] /\ \A t \in Sigs : Len(queue'[t]) <= MaxProposals
    BY <1>7, <1>5, <1>6, <2>1 DEF ApproveAdd
  <2> QED BY <1>7, <2>5, <2>6 DEF ApproveAdd, TypeOK
<1>8. ASSUME NEW i \in 1..MaxProposals, NEW n \in Nodes, ApproveArchive(n, i) PROVE TypeOK'
  <2>1. [op |-> "update", node |-> n] \in Sigs
    BY DEF Sigs
  <2>2. node[n] \in NodeRow
    BY DEF TypeOK
  <2>3. [node[n] EXCEPT !.status = "archived", !.verified = TRUE] \in NodeRow
    BY <2>2 DEF NodeRow, NodeStatus
  <2>4. node' = [node EXCEPT ![n] = [node[n] EXCEPT !.status = "archived", !.verified = TRUE]]
    BY <1>8, <2>2 DEF ApproveArchive, TypeOK, NodeRow
  <2>5. node' \in [Nodes -> NodeRow]
    BY <2>3, <2>4 DEF TypeOK
  <2>6. queue' \in [Sigs -> Seq(Change)] /\ \A t \in Sigs : Len(queue'[t]) <= MaxProposals
    BY <1>8, <1>5, <1>6, <2>1 DEF ApproveArchive
  <2> QED BY <1>8, <2>5, <2>6 DEF ApproveArchive, TypeOK
<1>9. ASSUME NEW i \in 1..MaxProposals, NEW s \in Sigs, Reject(s, i) PROVE TypeOK'
  <2>1. queue' \in [Sigs -> Seq(Change)] /\ \A t \in Sigs : Len(queue'[t]) <= MaxProposals
    BY <1>9, <1>5, <1>6 DEF Reject
  <2> QED BY <1>9, <2>1 DEF Reject, TypeOK
<1>10. ASSUME NEW row \in NodeRow
       PROVE  /\ \A choice \in {0, 1} :
                   /\ [row EXCEPT !.choice = choice, !.verified = TRUE] \in NodeRow
                   /\ [row EXCEPT !.choice = choice] \in NodeRow
              /\ \A p \in Products : [row EXCEPT !.parent = p, !.verified = TRUE] \in NodeRow
              /\ [row EXCEPT !.text = 0, !.verified = TRUE] \in NodeRow
  BY NodeSets DEF NodeRow
<1>11. \A n \in Nodes : node[n] \in NodeRow
  BY DEF TypeOK
<1>12. ASSUME NEW c \in Comps, NEW choice \in {0, 1}, SetType(c, choice) PROVE TypeOK'
  BY <1>10, <1>11, <1>12, EditType, NodeSets DEF SetType
<1>13. ASSUME NEW c \in Comps, NEW p \in Products, Move(c, p) \/ CreateNode(c, p) PROVE TypeOK'
  <2>1. [Imported(p) EXCEPT !.source = "manual", !.verified = TRUE, !.choice = 1] \in NodeRow
    BY RowTypes DEF NodeRow, NodeSource
  <2> QED BY <1>10, <1>11, <1>13, <2>1, EditType, NodeSets DEF Move, CreateNode
<1>14. ASSUME NEW d \in Datasets, NEW choice \in {0, 1}, Override(d, choice) PROVE TypeOK'
  BY <1>10, <1>11, <1>14, EditType, NodeSets DEF Override
<1>15. ASSUME NEW d \in Datasets, Rename(d) PROVE TypeOK'
  BY <1>10, <1>11, <1>15, EditType, NodeSets DEF Rename
<1>16. flips < MaxFlips => flips + 1 \in 0..MaxFlips
  BY BoundsAssumption DEF TypeOK
<1>17. ASSUME NEW c \in Comps, RepoChange(c) PROVE TypeOK'
  <2>1. repo' \in [Comps -> RepoState]
    BY <1>17 DEF RepoChange, TypeOK
  <2> QED BY <1>16, <1>17, <2>1 DEF RepoChange, Flip, TypeOK
<1>18. ASSUME NEW n \in Comps \union Datasets, ContentChange(n) PROVE TypeOK'
  <2>1. 1..MaxVersion \subseteq Versions
    BY BoundsAssumption DEF Versions
  <2>2. content' \in [Nodes -> Versions]
    BY <1>18, <2>1 DEF ContentChange, TypeOK
  <2> QED BY <1>16, <1>18, <2>2 DEF ContentChange, Flip, TypeOK
<1>19. CASE UNCHANGED vars
  BY <1>19 DEF vars, TypeOK
<1> QED
  BY <1>1, <1>2, <1>3, <1>4, <1>7, <1>8, <1>9, <1>12, <1>13, <1>14, <1>15, <1>17,
     <1>18, <1>19
  DEF Next

(* Every row and proposal has its type, whatever the nodes and the bounds: *)
(* ea_nodes, ea_changes, and what a run remembers of them.                 *)
THEOREM TypeCorrect == Spec => []TypeOK
<1>1. Init => TypeOK
  BY TypeInit
<1>2. TypeOK /\ [Next]_vars => TypeOK'
  BY TypeStep
<1> QED BY <1>1, <1>2, PTL DEF Spec

-----------------------------------------------------------------------------
(* What may happen to a row.  A request writes one row.                    *)

(* A step that is no correction leaves a node as it is, unless it is the   *)
(* apply phase, or the approval of a proposal about that node.             *)
LEMMA RowWrites ==
  ASSUME TypeOK, [Next]_vars, edits' = edits, NEW n \in Nodes, node[n].status # "none"
  PROVE  \/ Apply /\ node'[n] = NodesAfter[n]
         \/ \E i \in 1..MaxProposals : ApproveArchive(n, i)
         \/ node'[n] = node[n]
<1>1. node \in [Nodes -> NodeRow] /\ edits \in Nat
  BY BoundsAssumption DEF TypeOK
<1>2. CASE Apply
  BY <1>2 DEF Apply
<1>3. ASSUME NEW i \in 1..MaxProposals, NEW c \in Comps, NEW p \in Products,
             ApproveAdd(c, i, p)
      PROVE  node'[n] = node[n]
  BY <1>1, <1>3 DEF ApproveAdd
<1>4. ASSUME NEW i \in 1..MaxProposals, NEW m \in Nodes, ApproveArchive(m, i), m # n
      PROVE  node'[n] = node[n]
  BY <1>1, <1>4 DEF ApproveArchive
<1>5. ASSUME NEW m, NEW row, Edit(m, row) PROVE FALSE
  BY <1>1, <1>5 DEF Edit
<1>6. CASE UNCHANGED node
  BY <1>6
<1>7. CASE Next
  <2>1. CASE ReadState \/ Collect \/ Fail
    BY <2>1, <1>6 DEF ReadState, Collect, Fail, dbVars
  <2>2. CASE \E i \in 1..MaxProposals, s \in Sigs : Reject(s, i)
    BY <2>2, <1>6 DEF Reject
  <2>3. CASE \/ \E c \in Comps, choice \in {0, 1} : SetType(c, choice)
             \/ \E c \in Comps, p \in Products : Move(c, p) \/ CreateNode(c, p)
             \/ \E d \in Datasets, choice \in {0, 1} : Override(d, choice)
             \/ \E d \in Datasets : Rename(d)
    BY <2>3, <1>5 DEF SetType, Move, CreateNode, Override, Rename
  <2>4. CASE \/ \E c \in Comps : RepoChange(c)
             \/ \E m \in Comps \union Datasets : ContentChange(m)
    BY <2>4, <1>6 DEF RepoChange, ContentChange, Flip, dbVars
  <2> QED BY <1>2, <1>3, <1>4, <1>7, <2>1, <2>2, <2>3, <2>4 DEF Next
<1> QED BY <1>6, <1>7 DEF vars, dbVars

LEMMA ArchiveWrites ==
  ASSUME TypeOK, NEW n \in Nodes, NEW i, ApproveArchive(n, i)
  PROVE  node'[n] = [node[n] EXCEPT !.status = "archived", !.verified = TRUE]
BY DEF ApproveArchive, TypeOK

(* The apply phase never archives, and keeps what people said of datasets. *)
LEMMA ApplyWrites ==
  ASSUME TypeOK, NEW n \in Nodes
  PROVE  /\ node[n].status = "active" => NodesAfter[n].status = "active"
         /\ n \in Datasets /\ node[n].status # "none" =>
              /\ NodesAfter[n].choice = node[n].choice
              /\ node[n].verified => NodesAfter[n].text = node[n].text
         /\ n \in Comps => \/ NodesAfter[n] = node[n]
                           \/ /\ NodesAfter[n].status = node[n].status
                              /\ NodesAfter[n].choice = Row(n).choice
<1>1. node[n] \in NodeRow /\ facts[n] \in Versions
  BY DEF TypeOK
<1>2. CASE n \in Comps
  <2>1. NodesAfter[n] = Observed(n)
    BY <1>2, NodeSets DEF NodesAfter
  <2>2. \/ Observed(n) = node[n]
        \/ Observed(n) = [node[n] EXCEPT !.attrs = facts[n], !.choice = Row(n).choice]
    BY DEF Observed
  <2>3. \/ NodesAfter[n] = node[n]
        \/ /\ NodesAfter[n].status = node[n].status
           /\ NodesAfter[n].choice = Row(n).choice
    BY <1>1, <2>1, <2>2 DEF NodeRow
  <2> QED BY <1>2, <2>3, NodeSets
<1>3. CASE n \in Datasets
  <2>1. NodesAfter[n] = Declared(n)
    BY <1>3, NodeSets DEF NodesAfter
  <2>2. CASE facts[n] = 0
    BY <2>1, <2>2, <1>3, NodeSets DEF Declared
  <2>3. CASE facts[n] # 0 /\ node[n].status # "none"
    <3>1. Declared(n) = [node[n] EXCEPT !.status = "active", !.attrs = facts[n],
                           !.text = IF node[n].verified THEN node[n].text ELSE facts[n]]
      BY <2>3, <1>1 DEF Declared, NodeRow
    <3> QED BY <3>1, <2>1, <1>1, <1>3, NodeSets DEF NodeRow
  <2>4. CASE facts[n] # 0 /\ node[n].status = "none"
    BY <2>4, <1>3, NodeSets
  <2> QED BY <2>2, <2>3, <2>4
<1>4. CASE n \notin Comps /\ n \notin Datasets
  BY <1>4 DEF NodesAfter
<1> QED BY <1>2, <1>3, <1>4

(* Corrections of datasets survive every run, whatever the contracts say:  *)
(* _apply_data_lake and update_node.                                       *)
THEOREM DatasetCorrectionsKept == Spec => CorrectionsKept
<1>1. ASSUME TypeOK, [Next]_vars, edits' = edits, NEW d \in Datasets, node[d].status # "none"
      PROVE  node'[d].choice = node[d].choice /\ (node[d].verified => node'[d].text = node[d].text)
  <2>1. d \in Nodes /\ node[d] \in NodeRow
    BY <1>1, NodeSets DEF TypeOK
  <2>2. ASSUME NEW i, ApproveArchive(d, i)
        PROVE  node'[d].choice = node[d].choice /\ node'[d].text = node[d].text
    BY <1>1, <2>1, <2>2, ArchiveWrites DEF NodeRow
  <2> QED BY <1>1, <2>1, <2>2, RowWrites, ApplyWrites
<1>2. TypeOK /\ [Next]_vars =>
        [edits' = edits =>
           \A d \in Datasets : node[d].status # "none" =>
             /\ node'[d].choice = node[d].choice
             /\ node[d].verified => node'[d].text = node[d].text]_vars
  BY <1>1 DEF vars
<1> QED BY <1>2, TypeCorrect, PTL DEF Spec, CorrectionsKept

(* No run takes a node off the map: only the approval of a proposal does.  *)
THEOREM OnlyPeopleArchive == Spec => ArchivedByPeople
<1> DEFINE Approved(n) ==
      \E i \in 1..MaxProposals :
        LET s == [op |-> "update", node |-> n] IN
        IsOpen(s, i) /\ queue'[s][i].status = "approved"
<1>1. ASSUME TypeOK, [Next]_vars, NEW n \in Nodes,
             node[n].status = "active", node'[n].status # "active"
      PROVE  Approved(n)
  <2>1. node[n] \in NodeRow
    BY <1>1 DEF TypeOK
  <2>2. PICK i \in 1..MaxProposals : ApproveArchive(n, i)
    <3>1. CASE edits' = edits
      BY <1>1, <3>1, RowWrites, ApplyWrites
    <3>2. CASE edits' # edits
      <4>1. ASSUME NEW m \in Nodes, NEW row, Edit(m, row), row.status = node[m].status
            PROVE  FALSE
        BY <1>1, <4>1 DEF Edit, TypeOK
      <4>2. ASSUME NEW c \in Comps, NEW p \in Products, CreateNode(c, p) PROVE FALSE
        BY <1>1, <4>2, NodeSets DEF CreateNode, Edit, TypeOK
      <4>3. \A m \in Nodes : node[m] \in NodeRow
        BY <1>1 DEF TypeOK
      <4>4. CASE \E c \in Comps, choice \in {0, 1} : SetType(c, choice)
        BY <4>1, <4>3, <4>4, NodeSets DEF SetType, NodeRow
      <4>5. CASE \E c \in Comps, p \in Products : Move(c, p)
        BY <4>1, <4>3, <4>5, NodeSets DEF Move, NodeRow
      <4>6. CASE \E d \in Datasets : Rename(d) \/ \E choice \in {0, 1} : Override(d, choice)
        BY <4>1, <4>3, <4>6, NodeSets DEF Rename, Override, NodeRow
      <4>7. ASSUME Next PROVE FALSE
        <5>1. ~(ReadState \/ Collect \/ Apply \/ Fail)
          BY <3>2 DEF ReadState, Collect, Apply, Fail
        <5>2. \A i, c, p : ~ApproveAdd(c, i, p)
          BY <3>2 DEF ApproveAdd
        <5>3. \A i, m : ~ApproveArchive(m, i) /\ ~Reject(m, i)
          BY <3>2 DEF ApproveArchive, Reject
        <5>4. \A m : ~RepoChange(m) /\ ~ContentChange(m)
          BY <3>2 DEF RepoChange, ContentChange, Flip
        <5> QED BY <4>2, <4>4, <4>5, <4>6, <4>7, <5>1, <5>2, <5>3, <5>4 DEF Next
      <4> QED BY <1>1, <3>2, <4>7 DEF vars
    <3> QED BY <3>1, <3>2
  <2> DEFINE s == [op |-> "update", node |-> n]
  <2>3. s \in Sigs /\ IsOpen(s, i) /\ Close(s, i, "approved") /\ i \in DOMAIN queue[s]
    BY <2>2 DEF ApproveArchive, IsOpen, Sigs
  <2>4. queue'[s][i].status = "approved"
    BY <1>1, <2>3, CloseType DEF Decisions
  <2> QED BY <2>3, <2>4
<1>2. TypeOK /\ [Next]_vars =>
        [\A n \in Nodes : node[n].status = "active" /\ node'[n].status # "active" =>
           Approved(n)]_vars
  BY <1>1 DEF vars
<1> QED BY <1>2, TypeCorrect, PTL DEF Spec, ArchivedByPeople

-----------------------------------------------------------------------------
(* The queue of one signature.  A run appends to it only if the decision   *)
(* it read before the collect lets it, so a proposal that is not the last  *)
(* is approved or superseded, and while a run is under way it knows of a   *)
(* last one that is open or rejected.                                      *)

Settled ==
  \A s \in Sigs : \A i, j \in DOMAIN queue[s] :
    i < j => queue[s][i].status \in {"approved", "superseded"}
Blocking == {"pending", "rejected"}
Blocked ==
  pc # "idle" =>
    \A s \in Sigs :
      Len(queue[s]) > 0 /\ queue[s][Len(queue[s])].status \in Blocking
        => decided[s] \in Blocking

LEMMA Lengths ==
  ASSUME TypeOK, NEW s \in Sigs
  PROVE  /\ queue[s] \in Seq(Change) /\ Len(queue[s]) \in Nat
         /\ DOMAIN queue[s] = 1..Len(queue[s])
         /\ \A i \in DOMAIN queue[s] : queue[s][i].status \in ChangeStatus
<1>1. queue[s] \in Seq(Change) /\ Len(queue[s]) \in Nat /\ DOMAIN queue[s] = 1..Len(queue[s])
  BY DEF TypeOK
<1>2. \A i \in DOMAIN queue[s] : queue[s][i] \in Change
  BY <1>1
<1> QED BY <1>1, <1>2 DEF Change

LEMMA ApplyQueue ==
  ASSUME TypeOK, Settled, Blocked, Apply
  PROVE  Settled'
<1> SUFFICES ASSUME NEW s \in Sigs, NEW i \in DOMAIN queue'[s], NEW j \in DOMAIN queue'[s], i < j
             PROVE  queue'[s][i].status \in {"approved", "superseded"}
  BY DEF Settled
<1> DEFINE n == Len(queue[s])
<1>1. queue'[s] = QueueAfter(s)
  BY DEF Apply
<1>2. n \in Nat /\ DOMAIN queue[s] = 1..n
      /\ \A k \in 1..n : queue[s][k].status \in ChangeStatus
  BY Lengths
<1>3. /\ QueueAfter(s) \in Seq(Change)
      /\ Len(QueueAfter(s)) = IF s \in Proposed THEN Len(queue[s]) + 1 ELSE Len(queue[s])
      /\ \A k \in DOMAIN queue[s] :
           QueueAfter(s)[k].status = Withdrawn(s, queue[s][k].status)
  BY QueueAfterType, Zenon
<1>4. DOMAIN queue'[s] = 1..Len(QueueAfter(s)) /\ Len(QueueAfter(s)) \in Nat
      /\ Len(QueueAfter(s)) = IF s \in Proposed THEN n + 1 ELSE n
  BY <1>1, <1>3
<1> HIDE DEF n
<1>5. i \in 1..n /\ (i = n => s \in Proposed)
  <2>1. i \in Nat /\ j \in Nat /\ 1 <= i /\ j <= Len(QueueAfter(s))
    BY <1>4
  <2> QED BY <2>1, <1>2, <1>4
<1>6. queue[s][i].status \in {"approved", "superseded"}
  <2>1. CASE i < n
    <3>1. n \in DOMAIN queue[s]
      BY <1>2, <1>5
    <3> QED BY <2>1, <3>1, <1>2, <1>5 DEF Settled
  <2>2. CASE i = n
    <3>1. decided[s] \notin Blocking
      BY <2>2, <1>5 DEF Proposed, Blocking, OpenStatuses
    <3>2. queue[s][n].status \notin Blocking
      BY <3>1, <1>2, <1>5 DEF Blocked, Apply, n
    <3> QED BY <3>2, <2>2, <1>2, <1>5 DEF ChangeStatus, OpenStatuses, Decisions, Blocking
  <2> QED BY <2>1, <2>2, <1>2, <1>5
<1>7. queue'[s][i].status = Withdrawn(s, queue[s][i].status)
  BY <1>1, <1>2, <1>3, <1>5
<1> QED BY <1>6, <1>7 DEF Withdrawn

(* A decision is about the last proposal, and leaves the queue as long.    *)
LEMMA CloseQueue ==
  ASSUME TypeOK, Settled, Blocked, NEW s \in Sigs, NEW i, NEW status \in Decisions,
         IsOpen(s, i), Close(s, i, status), UNCHANGED runVars
  PROVE  Settled' /\ Blocked'
<1>1. \A t \in Sigs : /\ Len(queue'[t]) = Len(queue[t])
                       /\ DOMAIN queue'[t] = DOMAIN queue[t]
                       /\ \A j \in DOMAIN queue[t] :
                            queue'[t][j].status =
                              IF t = s /\ j = i THEN status ELSE queue[t][j].status
  BY CloseType
<1>2. \A t \in Sigs : Len(queue[t]) \in Nat /\ DOMAIN queue[t] = 1..Len(queue[t])
  BY Lengths
<1>3. i \in DOMAIN queue[s] /\ queue[s][i].status = "pending"
  BY DEF IsOpen, OpenStatuses
<1>4. i = Len(queue[s])
  <2>1. i \in Nat /\ i <= Len(queue[s]) /\ Len(queue[s]) \in DOMAIN queue[s]
    BY <1>2, <1>3
  <2>2. ~(i < Len(queue[s]))
    BY <2>1, <1>3 DEF Settled
  <2> QED BY <2>1, <2>2, <1>2
<1>5. Settled'
  <2> SUFFICES ASSUME NEW t \in Sigs, NEW k \in DOMAIN queue'[t], NEW j \in DOMAIN queue'[t], k < j
               PROVE  queue'[t][k].status \in {"approved", "superseded"}
    BY DEF Settled
  <2>1. k \in DOMAIN queue[t] /\ j \in DOMAIN queue[t]
    BY <1>1
  <2>2. ~(t = s /\ k = i)
    BY <2>1, <1>2, <1>4
  <2>3. queue'[t][k].status = queue[t][k].status
    BY <1>1, <2>1, <2>2
  <2> QED BY <2>1, <2>3 DEF Settled
<1>6. Blocked'
  <2> SUFFICES ASSUME pc # "idle", NEW t \in Sigs, Len(queue[t]) > 0,
                      queue'[t][Len(queue[t])].status \in Blocking
               PROVE  decided[t] \in Blocking
    BY <1>1 DEF Blocked, runVars
  <2>1. Len(queue[t]) \in DOMAIN queue[t]
    BY <1>2
  <2>2. queue[t][Len(queue[t])].status \in Blocking
    BY <1>1, <1>3, <1>4, <2>1 DEF Blocking
  <2> QED BY <2>2 DEF Blocked
<1> QED BY <1>5, <1>6

LEMMA ReadQueue ==
  ASSUME TypeOK, ReadState
  PROVE  Blocked'
<1> SUFFICES ASSUME NEW s \in Sigs, Len(queue[s]) > 0,
                    queue[s][Len(queue[s])].status \in Blocking
             PROVE  decided'[s] \in Blocking
  BY DEF Blocked, ReadState, dbVars
<1>1. queue[s] \in Seq(Change)
  BY Lengths
<1>2. LastDecision(queue[s]) = queue[s][Len(queue[s])].status
  BY <1>1, LastDecisionIsLast DEF Blocking
<1> QED BY <1>2 DEF ReadState

(* What every run knows of the proposals, and where they stand.            *)
QueueInv == TypeOK /\ Settled /\ Blocked

LEMMA QueueInvariant == Spec => []QueueInv
<1>1. Init => Settled /\ Blocked
  BY DEF Init, Settled, Blocked
<1>2. TypeOK /\ Settled /\ Blocked /\ [Next]_vars => Settled' /\ Blocked'
  <2> SUFFICES ASSUME TypeOK, Settled, Blocked, [Next]_vars PROVE Settled' /\ Blocked'
    OBVIOUS
  <2>1. CASE ReadState
    <3>1. Settled'
      BY <2>1 DEF ReadState, dbVars, Settled
    <3> QED BY <2>1, <3>1, ReadQueue
  <2>2. CASE Collect
    BY <2>2 DEF Collect, dbVars, Settled, Blocked
  <2>3. CASE Apply
    BY <2>3, ApplyQueue DEF Apply, Over, Blocked
  <2>4. CASE Fail
    BY <2>4 DEF Fail, Over, dbVars, Settled, Blocked
  <2>5. CASE UNCHANGED <<queue, pc, decided>>
    BY <2>5 DEF Settled, Blocked
  <2>6. {"approved", "rejected"} \subseteq Decisions
    BY DEF Decisions
  <2>7. ASSUME NEW i, NEW c \in Comps, NEW p \in Products, ApproveAdd(c, i, p)
        PROVE  Settled' /\ Blocked'
    <3>1. [op |-> "add", node |-> c] \in Sigs
      BY DEF Sigs
    <3> QED BY <2>6, <2>7, <3>1, CloseQueue DEF ApproveAdd
  <2>8. ASSUME NEW i, NEW n \in Nodes, ApproveArchive(n, i) PROVE Settled' /\ Blocked'
    <3>1. [op |-> "update", node |-> n] \in Sigs
      BY DEF Sigs
    <3> QED BY <2>6, <2>8, <3>1, CloseQueue DEF ApproveArchive
  <2>9. ASSUME NEW i, NEW s \in Sigs, Reject(s, i) PROVE Settled' /\ Blocked'
    BY <2>6, <2>9, CloseQueue DEF Reject
  <2>10. CASE \/ \E c \in Comps, choice \in {0, 1} : SetType(c, choice)
              \/ \E c \in Comps, p \in Products : Move(c, p) \/ CreateNode(c, p)
              \/ \E d \in Datasets, choice \in {0, 1} : Override(d, choice)
              \/ \E d \in Datasets : Rename(d)
    BY <2>10, <2>5 DEF SetType, Move, CreateNode, Override, Rename, Edit, runVars
  <2>11. CASE \/ \E c \in Comps : RepoChange(c)
              \/ \E m \in Comps \union Datasets : ContentChange(m)
    BY <2>11, <2>5 DEF RepoChange, ContentChange, Flip, dbVars, runVars
  <2>12. CASE UNCHANGED vars
    BY <2>12, <2>5 DEF vars, dbVars, runVars
  <2> QED
    BY <2>1, <2>2, <2>3, <2>4, <2>7, <2>8, <2>9, <2>10, <2>11, <2>12 DEF Next
<1> QED BY <1>1, <1>2, TypeCorrect, PTL DEF Spec, QueueInv

(* "A rejection keeps them for good": a proposal that a person refused is  *)
(* the last of its signature for ever (_Applier.propose).                  *)
THEOREM RejectionsLast == Spec => []RejectedForGood
<1>1. QueueInv => RejectedForGood
  BY DEF QueueInv, Settled, RejectedForGood
<1> QED BY <1>1, QueueInvariant, PTL

-----------------------------------------------------------------------------
(* The queue of the nodes is a queue of reviews. *)

LEMMA ShownOfQueue ==
  ASSUME NEW q \in Seq(Change)
  PROVE  /\ DOMAIN ShownOf(q) = 1..Len(q) /\ DOMAIN q = 1..Len(q) /\ Len(q) \in Nat
         /\ Len(ShownOf(q)) = Len(q)
         /\ \A i \in DOMAIN q :
              /\ q[i].status \in OpenStatuses => ShownOf(q)[i] = "open"
              /\ q[i].status \notin OpenStatuses => ShownOf(q)[i] = q[i].status
<1>1. DOMAIN q = 1..Len(q) /\ Len(q) \in Nat
  OBVIOUS
<1>2. DOMAIN ShownOf(q) = 1..Len(q)
  BY <1>1 DEF ShownOf
<1>3. ShownOf(q) \in [1..Len(q) -> ChangeStatus \union {"open"}]
  <2>1. \A i \in 1..Len(q) : q[i].status \in ChangeStatus
    <3>1. \A i \in 1..Len(q) : q[i] \in Change
      BY <1>1
    <3> QED BY <3>1 DEF Change
  <2> QED BY <1>1, <2>1 DEF ShownOf
<1>4. ShownOf(q) \in Seq(ChangeStatus \union {"open"})
  BY <1>1, <1>3, SeqDef
<1>5. Len(ShownOf(q)) = Len(q)
  BY <1>1, <1>2, <1>4, LenProperties
<1> QED BY <1>1, <1>2, <1>5 DEF ShownOf

(* The apply phase changes each signature as a run of ReviewQueue may.     *)
LEMMA ApplyRuns ==
  ASSUME QueueInv, QueueInv', Apply, NEW s \in Sigs
  PROVE  \/ Shown'[s] = Shown[s]
         \/ Review!Proposed(Shown[s], Shown'[s])
         \/ Review!Closed(Shown[s], Shown'[s], {"superseded"})
<1> DEFINE q == queue[s]
           r == queue'[s]
           n == Len(queue[s])
<1>1. TypeOK /\ Settled /\ Blocked /\ pc # "idle" /\ TypeOK'
  BY DEF QueueInv, Apply
<1>2. q \in Seq(Change) /\ r \in Seq(Change) /\ n \in Nat /\ DOMAIN q = 1..n
  BY <1>1 DEF TypeOK
<1>3. Shown[s] = ShownOf(q) /\ Shown'[s] = ShownOf(r)
  BY DEF Shown
<1>4. /\ Len(r) = IF s \in Proposed THEN n + 1 ELSE n
      /\ \A i \in 1..n : r[i].status = Withdrawn(s, q[i].status)
      /\ s \in Proposed => r[n + 1].status = "pending"
  <2>1. r = QueueAfter(s)
    BY DEF Apply
  <2> QED BY <1>1, <1>2, <2>1, QueueAfterType, Zenon
<1>5. \A i \in 1..n : q[i].status \in ChangeStatus
  BY <1>1, <1>2, Lengths
<1>6. \A i \in 1..n : i < n => q[i].status \in {"approved", "superseded"}
  BY <1>1, <1>2 DEF Settled
<1> HIDE DEF q, r, n
<1>7. CASE s \in Proposed
  <2>1. \A i \in 1..n : q[i].status \in {"approved", "superseded"}
    <3>1. decided[s] \notin Blocking
      BY <1>7 DEF Proposed, Blocking, OpenStatuses
    <3>2. n > 0 => q[n].status \notin Blocking
      BY <1>1, <3>1 DEF Blocked, q, n
    <3>3. n > 0 => q[n].status \in {"approved", "superseded"}
      BY <1>2, <1>5, <3>2 DEF ChangeStatus, OpenStatuses, Decisions, Blocking
    <3> TAKE i \in 1..n
    <3>4. i = n \/ i < n
      BY <1>2
    <3> QED BY <1>2, <1>6, <3>3, <3>4
  <2>2. \A i \in 1..n : r[i].status = q[i].status
    BY <1>4, <2>1 DEF Withdrawn, OpenStatuses
  <2>3. Len(r) = n + 1 /\ DOMAIN r = 1..(n + 1)
    BY <1>2, <1>4, <1>7
  <2>4. \A i \in 1..n : ShownOf(q)[i] = q[i].status /\ ShownOf(r)[i] = q[i].status
    <3> TAKE i \in 1..n
    <3>1. i \in DOMAIN q /\ i \in DOMAIN r /\ q[i].status \notin OpenStatuses
      BY <1>2, <2>1, <2>3 DEF OpenStatuses
    <3> QED BY <1>2, <2>2, <3>1, ShownOfQueue
  <2>5. ShownOf(r)[n + 1] = "open"
    BY <1>2, <1>4, <1>7, <2>3, ShownOfQueue DEF OpenStatuses
  <2>6. Len(ShownOf(q)) = n /\ Len(ShownOf(r)) = n + 1 /\ DOMAIN ShownOf(q) = 1..n
    BY <1>2, <2>3, ShownOfQueue DEF n, q
  <2>7. Review!Proposed(ShownOf(q), ShownOf(r))
    BY <2>1, <2>4, <2>5, <2>6 DEF Review!Proposed, Review!Reopenable
  <2> QED BY <1>3, <2>7
<1>8. ASSUME s \notin Proposed, s \notin Emitted, n > 0, q[n].status \in OpenStatuses
      PROVE  Review!Closed(Shown[s], Shown'[s], {"superseded"})
  <2>1. Len(r) = n /\ DOMAIN r = 1..n /\ n \in 1..n
    BY <1>2, <1>4, <1>8
  <2>2. r[n].status = "superseded"
    BY <1>4, <1>8, <2>1 DEF Withdrawn
  <2>3. \A j \in 1..n : j # n => r[j].status = q[j].status /\ q[j].status \notin OpenStatuses
    <3> TAKE j \in 1..n
    <3> HAVE j # n
    <3>1. q[j].status \in {"approved", "superseded"}
      BY <1>2, <1>6
    <3> QED BY <1>4, <3>1 DEF Withdrawn, OpenStatuses
  <2>4. ShownOf(q)[n] = "open" /\ ShownOf(r)[n] = "superseded"
    BY <1>2, <1>8, <2>1, <2>2, ShownOfQueue DEF OpenStatuses
  <2>5. \A j \in 1..n : j # n => ShownOf(r)[j] = ShownOf(q)[j]
    BY <1>2, <2>1, <2>3, ShownOfQueue
  <2>6. DOMAIN ShownOf(q) = 1..n /\ DOMAIN ShownOf(r) = 1..n
    BY <1>2, <2>1, ShownOfQueue DEF n, q
  <2> QED BY <1>3, <2>1, <2>4, <2>5, <2>6 DEF Review!Closed
<1>9. ASSUME s \notin Proposed, s \in Emitted \/ n = 0 \/ q[n].status \notin OpenStatuses
      PROVE  Shown'[s] = Shown[s]
  <2>1. Len(r) = n /\ DOMAIN r = 1..n
    BY <1>2, <1>4, <1>9
  <2>2. \A j \in 1..n : r[j].status = q[j].status
    <3> TAKE j \in 1..n
    <3>1. s \in Emitted \/ q[j].status \notin OpenStatuses
      <4>1. j = n \/ j < n
        BY <1>2
      <4>2. CASE j < n
        BY <1>6, <4>2 DEF OpenStatuses
      <4> QED BY <1>2, <1>9, <4>1, <4>2
    <3> QED BY <1>4, <3>1 DEF Withdrawn
  <2>3. ShownOf(r) = ShownOf(q)
    BY <1>2, <2>1, <2>2 DEF ShownOf
  <2> QED BY <1>3, <2>3
<1> QED BY <1>2, <1>7, <1>8, <1>9

(* So does a decision. *)
LEMMA CloseDecides ==
  ASSUME QueueInv, QueueInv', NEW s \in Sigs, NEW i, NEW status \in Decisions,
         IsOpen(s, i), Close(s, i, status)
  PROVE  Review!Decide(s)
<1>1. TypeOK /\ TypeOK'
  BY DEF QueueInv
<1>2. \A t \in Sigs : /\ Shown[t] = ShownOf(queue[t]) /\ Shown'[t] = ShownOf(queue'[t])
                      /\ queue[t] \in Seq(Change) /\ queue'[t] \in Seq(Change)
  BY <1>1 DEF Shown, TypeOK
<1>3. \A t \in Sigs : t # s => queue'[t] = queue[t]
  BY <1>1 DEF Close, TypeOK
<1>4. Review!Closed(Shown[s], Shown'[s], Review!Decisions)
  <2> DEFINE q == queue[s]
             r == queue'[s]
  <2>1. q \in Seq(Change) /\ r \in Seq(Change)
    BY <1>2
  <2>2. /\ DOMAIN r = DOMAIN q
        /\ \A j \in DOMAIN q : r[j].status = IF j = i THEN status ELSE q[j].status
    BY <1>1, CloseType
  <2>3. i \in DOMAIN q /\ q[i].status \in OpenStatuses
    BY DEF IsOpen
  <2> HIDE DEF q, r
  <2>4. status \in {"approved", "rejected"} /\ status \notin OpenStatuses
    BY DEF Decisions, OpenStatuses
  <2>5. DOMAIN ShownOf(r) = DOMAIN q /\ DOMAIN ShownOf(q) = DOMAIN q
    BY <2>1, <2>2, ShownOfQueue
  <2>6. ShownOf(q)[i] = "open" /\ ShownOf(r)[i] \in {"approved", "rejected"}
    <3>1. r[i].status = status
      BY <2>2, <2>3
    <3> QED BY <2>1, <2>2, <2>3, <2>4, <3>1, ShownOfQueue
  <2>7. \A j \in DOMAIN q : j # i => ShownOf(r)[j] = ShownOf(q)[j]
    <3> TAKE j \in DOMAIN q
    <3> HAVE j # i
    <3>1. r[j].status = q[j].status /\ j \in DOMAIN r
      BY <2>2
    <3> QED BY <2>1, <3>1, ShownOfQueue
  <2>8. Review!Closed(ShownOf(q), ShownOf(r), Review!Decisions)
    BY <2>3, <2>5, <2>6, <2>7 DEF Review!Closed, Review!Decisions
  <2> QED BY <1>2, <2>8 DEF q, r
<1> QED BY <1>2, <1>3, <1>4 DEF Review!Decide

LEMMA QueueWrites ==
  ASSUME QueueInv, QueueInv', Next
  PROVE  \/ UNCHANGED queue
         \/ Apply
         \/ \E s \in Sigs : Review!Decide(s)
<1>0. {"approved", "rejected"} \subseteq Decisions
  BY DEF Decisions
<1>1. ASSUME NEW i, NEW c \in Comps, NEW p \in Products, ApproveAdd(c, i, p)
      PROVE  \E s \in Sigs : Review!Decide(s)
  <2>1. [op |-> "add", node |-> c] \in Sigs
    BY DEF Sigs
  <2> QED BY <1>0, <1>1, <2>1, CloseDecides DEF ApproveAdd
<1>2. ASSUME NEW i, NEW m \in Nodes, ApproveArchive(m, i)
      PROVE  \E s \in Sigs : Review!Decide(s)
  <2>1. [op |-> "update", node |-> m] \in Sigs
    BY DEF Sigs
  <2> QED BY <1>0, <1>2, <2>1, CloseDecides DEF ApproveArchive
<1>3. ASSUME NEW i, NEW s \in Sigs, Reject(s, i)
      PROVE  Review!Decide(s)
  BY <1>0, <1>3, CloseDecides DEF Reject
<1>4. \A m, row : Edit(m, row) => UNCHANGED queue
  BY DEF Edit
<1>5. \A m : RepoChange(m) \/ ContentChange(m) => UNCHANGED queue
  BY DEF RepoChange, ContentChange, Flip, dbVars
<1>6. ReadState \/ Collect \/ Fail => UNCHANGED queue
  BY DEF ReadState, Collect, Fail, dbVars
<1> QED
  BY <1>1, <1>2, <1>3, <1>4, <1>5, <1>6
  DEF Next, SetType, Move, CreateNode, Override, Rename

(* The nodes keep what ReviewQueue promises: at most one proposal of a     *)
(* subject is open, a refusal is never followed by another proposal and a  *)
(* decision is final (_Applier.propose, decide), whatever people decide    *)
(* while a run collects.                                                   *)
THEOREM NodesReviewed == Spec => KeepsThePromise
<1>1. Init => Review!Init
  <2> SUFFICES ASSUME Init PROVE Shown = [s \in Sigs |-> <<>>]
    BY DEF Review!Init
  <2>1. \A s \in Sigs : ShownOf(queue[s]) = <<>>
    BY DEF Init, ShownOf
  <2> QED BY <2>1 DEF Shown
<1>2. QueueInv /\ QueueInv' /\ [Next]_vars => [Review!Next]_<<Shown, {}>>
  <2> SUFFICES ASSUME QueueInv, QueueInv', [Next]_vars PROVE [Review!Next]_<<Shown, {}>>
    OBVIOUS
  <2>1. CASE Apply
    BY <2>1, ApplyRuns DEF Review!Next, Review!Run
  <2>2. CASE UNCHANGED queue
    BY <2>2 DEF Shown
  <2>3. CASE UNCHANGED vars
    BY <2>2, <2>3 DEF vars, dbVars
  <2>4. CASE \E s \in Sigs : Review!Decide(s)
    BY <2>4 DEF Review!Next
  <2> QED BY <2>1, <2>2, <2>3, <2>4, QueueWrites
<1> QED BY <1>1, <1>2, QueueInvariant, PTL DEF Spec, KeepsThePromise, Review!Spec

-----------------------------------------------------------------------------
(* What a run leaves in the queue about the nodes.                         *)

LEMMA StepsOfARun ==
  ASSUME [Next]_vars
  PROVE  ReadState \/ Collect \/ Apply \/ Fail \/ UNCHANGED runVars
<1>1. \A i, c, p : ApproveAdd(c, i, p) => UNCHANGED runVars
  BY DEF ApproveAdd
<1>2. \A i, n : ApproveArchive(n, i) \/ Reject(n, i) => UNCHANGED runVars
  BY DEF ApproveArchive, Reject
<1>3. \A n, row : Edit(n, row) => UNCHANGED runVars
  BY DEF Edit
<1>4. \A n : RepoChange(n) \/ ContentChange(n) => UNCHANGED runVars
  BY DEF RepoChange, ContentChange, Flip
<1>5. UNCHANGED vars => UNCHANGED runVars
  BY DEF vars
<1> QED
  BY <1>1, <1>2, <1>3, <1>4, <1>5
  DEF Next, SetType, Move, CreateNode, Override, Rename

(* Between two apply phases a proposal is decided or left as it is.        *)
LEMMA ClosedOnly ==
  ASSUME TypeOK, [Next]_vars, ~Apply, NEW s \in Sigs
  PROVE  /\ DOMAIN queue'[s] = DOMAIN queue[s]
         /\ \A j \in DOMAIN queue[s] :
              \/ queue'[s][j].status = queue[s][j].status
              \/ queue[s][j].status \in OpenStatuses /\ queue'[s][j].status \in Decisions
<1> DEFINE Decided == /\ DOMAIN queue'[s] = DOMAIN queue[s]
                      /\ \A j \in DOMAIN queue[s] :
                           \/ queue'[s][j].status = queue[s][j].status
                           \/ /\ queue[s][j].status \in OpenStatuses
                              /\ queue'[s][j].status \in Decisions
<1>1. ASSUME NEW t \in Sigs, NEW i, NEW status \in Decisions, IsOpen(t, i), Close(t, i, status)
      PROVE  Decided
  BY <1>1, CloseType DEF IsOpen
<1>2. {"approved", "rejected"} \subseteq Decisions
  BY DEF Decisions
<1>3. ASSUME NEW i, NEW c \in Comps, NEW p \in Products, ApproveAdd(c, i, p) PROVE Decided
  <2>1. [op |-> "add", node |-> c] \in Sigs
    BY DEF Sigs
  <2> QED BY <1>1, <1>2, <1>3, <2>1 DEF ApproveAdd
<1>4. ASSUME NEW i, NEW n \in Nodes, ApproveArchive(n, i) PROVE Decided
  <2>1. [op |-> "update", node |-> n] \in Sigs
    BY DEF Sigs
  <2> QED BY <1>1, <1>2, <1>4, <2>1 DEF ApproveArchive
<1>5. ASSUME NEW i, NEW t \in Sigs, Reject(t, i) PROVE Decided
  BY <1>1, <1>2, <1>5 DEF Reject
<1>6. ASSUME UNCHANGED queue PROVE Decided
  BY <1>6
<1>7. \A m, row : Edit(m, row) => UNCHANGED queue
  BY DEF Edit
<1>8. \A m : RepoChange(m) \/ ContentChange(m) => UNCHANGED queue
  BY DEF RepoChange, ContentChange, Flip, dbVars
<1>9. ReadState \/ Collect \/ Fail \/ UNCHANGED vars => UNCHANGED queue
  BY DEF ReadState, Collect, Fail, dbVars, vars
<1> HIDE DEF Decided
<1>10. Decided
  BY <1>3, <1>4, <1>5, <1>6, <1>7, <1>8, <1>9
  DEF Next, SetType, Move, CreateNode, Override, Rename
<1> QED BY <1>10 DEF Decided

(* The decisions that a run has read are in the queue, and what it has     *)
(* read as open is still there: open, or decided since.                    *)
Answers ==
  \A s \in Sigs :
    /\ decided[s] \in Decisions => \E i \in DOMAIN queue[s] : queue[s][i].status \in Decisions
    /\ decided[s] \in OpenStatuses =>
         \E i \in DOMAIN queue[s] : queue[s][i].status \in OpenStatuses \union Decisions

LEMMA LastDecisionIsThere ==
  ASSUME NEW q, LastDecision(q) # "none"
  PROVE  \E i \in DOMAIN q : q[i].status = LastDecision(q)
BY DEF LastDecision

LEMMA AnswersStep ==
  ASSUME TypeOK, Answers, [Next]_vars
  PROVE  Answers'
<1>1. CASE Apply \/ Fail
  <2>1. \A s \in Sigs : decided'[s] = "none"
    BY <1>1 DEF Apply, Fail, Over
  <2> QED BY <2>1 DEF Answers, Decisions, OpenStatuses
<1>2. CASE ReadState
  <2>1. UNCHANGED queue /\ \A s \in Sigs : decided'[s] = LastDecision(queue[s])
    BY <1>2 DEF ReadState, dbVars
  <2>2. \A s \in Sigs : decided'[s] # "none" =>
          \E i \in DOMAIN queue[s] : queue[s][i].status = decided'[s]
    BY <2>1, LastDecisionIsThere
  <2>3. "none" \notin Decisions /\ "none" \notin OpenStatuses
    BY DEF Decisions, OpenStatuses
  <2> QED BY <2>1, <2>2, <2>3 DEF Answers
<1>3. CASE ~Apply /\ ~Fail /\ ~ReadState
  <2>1. decided' = decided
    BY <1>3, StepsOfARun DEF runVars, Collect
  <2>2. ASSUME NEW s \in Sigs
        PROVE  /\ DOMAIN queue'[s] = DOMAIN queue[s]
               /\ \A j \in DOMAIN queue[s] :
                    \/ queue'[s][j].status = queue[s][j].status
                    \/ /\ queue[s][j].status \in OpenStatuses
                       /\ queue'[s][j].status \in Decisions
    BY <1>3, ClosedOnly
  <2> QED BY <2>1, <2>2 DEF Answers
<1> QED BY <1>1, <1>2, <1>3

(* A node stays, and so does where it comes from while a run is under way; *)
(* proposals to archive are about nodes that are there.                    *)
LEMMA StaysThere ==
  ASSUME TypeOK, [Next]_vars, NEW n \in Nodes, node[n].status # "none"
  PROVE  node'[n].status # "none" /\ (~Apply => node'[n].source = node[n].source)
<1>1. node \in [Nodes -> NodeRow] /\ node[n] \in NodeRow
  BY DEF TypeOK
<1>2. CASE edits' = edits
  <2>1. CASE Apply /\ node'[n] = NodesAfter[n]
    <3>1. CASE n \in Comps
      BY <2>1, <3>1, ApplyWrites, NodeSets DEF NodesAfter
    <3>2. CASE n \in Datasets
      <4>1. NodesAfter[n] = Declared(n)
        BY <3>2, NodeSets DEF NodesAfter
      <4>2. Declared(n).status # "none"
        BY <1>1 DEF Declared, NodeRow, NoNode
      <4> QED BY <2>1, <4>1, <4>2
    <3>3. CASE n \notin Comps /\ n \notin Datasets
      BY <2>1, <3>3 DEF NodesAfter
    <3> QED BY <3>1, <3>2, <3>3
  <2>2. ASSUME NEW i, ApproveArchive(n, i)
        PROVE  node'[n].status # "none" /\ node'[n].source = node[n].source
    BY <1>1, <2>2, ArchiveWrites DEF NodeRow
  <2> QED BY <1>2, <2>1, <2>2, RowWrites
<1>3. CASE edits' # edits
  <2> DEFINE Kept == node'[n].status # "none" /\ node'[n].source = node[n].source
  <2>1. ASSUME NEW m \in Nodes, NEW row, Edit(m, row), row.status # "none",
               node[m].status # "none" => row.source = node[m].source
        PROVE  Kept
    BY <1>1, <2>1 DEF Edit
  <2>2. \A i, c, p : ~ApproveAdd(c, i, p)
    BY <1>3 DEF ApproveAdd
  <2>3. \A i, m : ~ApproveArchive(m, i) /\ ~Reject(m, i)
    BY <1>3 DEF ApproveArchive, Reject
  <2>4. \A m : ~RepoChange(m) /\ ~ContentChange(m)
    BY <1>3 DEF RepoChange, ContentChange, Flip
  <2>5. ~(ReadState \/ Collect \/ Apply \/ Fail) /\ ~ UNCHANGED vars
    BY <1>3 DEF ReadState, Collect, Apply, Fail, vars
  <2>6. ASSUME NEW m \in Comps, NEW choice, SetType(m, choice)
        PROVE  Kept
    <3> DEFINE row == [node[m] EXCEPT !.choice = choice, !.verified = TRUE]
    <3>1. m \in Nodes /\ node[m] \in NodeRow /\ node[m].status # "none" /\ Edit(m, row)
      BY <2>6, NodeSets DEF SetType, TypeOK
    <3>2. row.status = node[m].status /\ row.source = node[m].source
      BY <3>1 DEF NodeRow
    <3> HIDE DEF row
    <3> QED BY <2>1, <3>1, <3>2
  <2>7. ASSUME NEW m \in Comps, NEW p, Move(m, p)
        PROVE  Kept
    <3> DEFINE row == [node[m] EXCEPT !.parent = p, !.verified = TRUE]
    <3>1. m \in Nodes /\ node[m] \in NodeRow /\ node[m].status # "none" /\ Edit(m, row)
      BY <2>7, NodeSets DEF Move, TypeOK
    <3>2. row.status = node[m].status /\ row.source = node[m].source
      BY <3>1 DEF NodeRow
    <3> HIDE DEF row
    <3> QED BY <2>1, <3>1, <3>2
  <2>8. \A c \in Comps : \A p : CreateNode(c, p) => Kept
    BY <2>1, NodeSets DEF CreateNode, Imported, NoNode
  <2>9. ASSUME NEW m \in Datasets, NEW choice, Override(m, choice)
        PROVE  Kept
    <3> DEFINE row == [node[m] EXCEPT !.choice = choice]
    <3>1. m \in Nodes /\ node[m] \in NodeRow /\ node[m].status # "none" /\ Edit(m, row)
      BY <2>9, NodeSets DEF Override, TypeOK
    <3>2. row.status = node[m].status /\ row.source = node[m].source
      BY <3>1 DEF NodeRow
    <3> HIDE DEF row
    <3> QED BY <2>1, <3>1, <3>2
  <2>10. ASSUME NEW m \in Datasets, Rename(m)
        PROVE  Kept
    <3> DEFINE row == [node[m] EXCEPT !.text = 0, !.verified = TRUE]
    <3>1. m \in Nodes /\ node[m] \in NodeRow /\ node[m].status # "none" /\ Edit(m, row)
      BY <2>10, NodeSets DEF Rename, TypeOK
    <3>2. row.status = node[m].status /\ row.source = node[m].source
      BY <3>1 DEF NodeRow
    <3> HIDE DEF row
    <3> QED BY <2>1, <3>1, <3>2
  <2> QED BY <2>2, <2>3, <2>4, <2>5, <2>6, <2>7, <2>8, <2>9, <2>10 DEF Next
<1> QED BY <1>2, <1>3

Present ==
  \A n \in Nodes : n \in Products \/ DOMAIN queue[[op |-> "update", node |-> n]] # {}
    => node[n].status # "none"

LEMMA PresentStep ==
  ASSUME TypeOK, Present, [Next]_vars
  PROVE  Present'
<1> SUFFICES ASSUME NEW n \in Nodes,
                    n \in Products \/ DOMAIN queue'[[op |-> "update", node |-> n]] # {}
             PROVE  node'[n].status # "none"
  BY DEF Present
<1> DEFINE s == [op |-> "update", node |-> n]
<1>1. s \in Sigs /\ s.op = "update" /\ s.node = n
  BY DEF Sigs
<1>2. CASE n \in Products \/ DOMAIN queue[s] # {}
  BY <1>2, StaysThere DEF Present
<1>3. CASE n \notin Products /\ DOMAIN queue[s] = {}
  <2>1. Apply
    BY <1>1, <1>3, ClosedOnly
  <2>2. s \in Proposed
    <3>1. queue'[s] = QueueAfter(s) /\ Len(queue[s]) = 0
      BY <1>1, <1>3, <2>1, Lengths DEF Apply
    <3>2. s \notin Proposed => Len(QueueAfter(s)) = 0 /\ QueueAfter(s) \in Seq(Change)
      BY <1>1, <3>1, QueueAfterType
    <3> QED BY <1>3, <3>1, <3>2
  <2>3. n \in Gone \union Out \union Emptied \union Undeclared
    BY <1>1, <2>2 DEF Proposed, Emitted
  <2>4. node[n].status # "none"
    BY <1>3, <2>3 DEF Gone, Out, Emptied, Undeclared, Active
  <2> QED BY <2>4, StaysThere
<1> QED BY <1>2, <1>3

(* While a run is under way, a component comes on the map by the approval  *)
(* of its proposal, or by hand.                                            *)
LEMMA Appears ==
  ASSUME TypeOK, Present, [Next]_vars, pc # "idle", ~Apply, NEW c \in Comps,
         node[c].status = "none", node'[c].status # "none"
  PROVE  \/ node'[c].source = "manual"
         \/ \E i \in 1..MaxProposals, p \in Products : ApproveAdd(c, i, p)
<1>1. c \in Nodes /\ node \in [Nodes -> NodeRow] /\ node'[c] # node[c]
  BY NodeSets DEF TypeOK
<1>2. ASSUME NEW e \in Comps, NEW p, CreateNode(e, p) PROVE node'[c].source = "manual"
  <2>1. node' = [node EXCEPT ![e] = [Imported(p) EXCEPT !.source = "manual",
                                       !.verified = TRUE, !.choice = 1]]
    BY <1>2 DEF CreateNode, Edit
  <2>2. e = c
    BY <1>1, <2>1
  <2> QED BY <1>1, <2>1, <2>2 DEF Imported, NoNode
<1>3. \A e, x : ~SetType(e, x) /\ ~Move(e, x)
  BY <1>1 DEF SetType, Move, Edit
<1>4. \A d, x : ~Override(d, x) /\ ~Rename(d)
  BY <1>1 DEF Override, Rename, Edit
<1>5. \A i, n : ~Reject(n, i)
  BY <1>1 DEF Reject
<1>6. \A i : \A n \in Nodes : ~ApproveArchive(n, i)
  <2> SUFFICES ASSUME NEW i, NEW n \in Nodes, ApproveArchive(n, i) PROVE FALSE
    OBVIOUS
  <2>1. n = c
    BY <1>1 DEF ApproveArchive
  <2>2. DOMAIN queue[[op |-> "update", node |-> c]] # {}
    BY <2>1 DEF ApproveArchive, IsOpen
  <2> QED BY <1>1, <2>2 DEF Present
<1>7. ~(ReadState \/ Collect \/ Fail) /\ ~ UNCHANGED vars
  BY <1>1 DEF ReadState, Collect, Fail, dbVars, vars
<1>8. \A m : ~RepoChange(m) /\ ~ContentChange(m)
  BY <1>1 DEF RepoChange, ContentChange, Flip, dbVars
<1>9. \/ \E e \in Comps, p \in Products : CreateNode(e, p)
      \/ \E i \in 1..MaxProposals, e \in Comps, p \in Products : ApproveAdd(e, i, p)
  BY <1>3, <1>4, <1>5, <1>6, <1>7, <1>8 DEF Next
<1> QED BY <1>1, <1>2, <1>9 DEF ApproveAdd

(* Where the components that a run goes by come from is what the database  *)
(* says; one that was added during the run was put there by hand, or had   *)
(* its proposal approved, and the run knows of that proposal as open.      *)
Faithful ==
  pc # "idle" =>
    \A c \in Comps :
      IF mem[c].status # "none"
      THEN node[c].status # "none" /\ node[c].source = mem[c].source
      ELSE node[c].status # "none" =>
             \/ node[c].source = "manual"
             \/ LET s == [op |-> "add", node |-> c] IN
                /\ decided[s] \in Blocking
                /\ \A i \in DOMAIN queue[s] : queue[s][i].status \notin OpenStatuses

LEMMA FaithfulStep ==
  ASSUME TypeOK, Settled, Blocked, Present, Faithful, [Next]_vars
  PROVE  Faithful'
<1>1. CASE Apply \/ Fail
  BY <1>1 DEF Apply, Fail, Over, Faithful
<1>2. CASE ReadState
  <2>1. UNCHANGED node /\ \A c \in Comps : mem'[c] = node[c]
    BY <1>2, NodeSets DEF ReadState, dbVars
  <2> QED BY <2>1 DEF Faithful
<1>3. ASSUME ~Apply, ~Fail, ~ReadState, pc' # "idle", NEW c \in Comps
      PROVE  IF mem'[c].status # "none"
             THEN node'[c].status # "none" /\ node'[c].source = mem'[c].source
             ELSE node'[c].status # "none" =>
                    \/ node'[c].source = "manual"
                    \/ /\ decided'[[op |-> "add", node |-> c]] \in Blocking
                       /\ \A i \in DOMAIN queue'[[op |-> "add", node |-> c]] :
                            queue'[[op |-> "add", node |-> c]][i].status \notin OpenStatuses
  <2> DEFINE s == [op |-> "add", node |-> c]
  <2>1. mem' = mem /\ decided' = decided /\ pc # "idle"
    BY <1>3, StepsOfARun DEF runVars, Collect
  <2>2. c \in Nodes /\ node[c] \in NodeRow /\ s \in Sigs
    BY NodeSets DEF TypeOK, Sigs
  <2>3. CASE mem[c].status # "none"
    <3>1. node[c].status # "none" /\ node[c].source = mem[c].source
      BY <2>1, <2>3 DEF Faithful
    <3> QED BY <1>3, <2>1, <2>2, <2>3, <3>1, StaysThere
  <2>4. CASE mem[c].status = "none" /\ node[c].status # "none"
    <3>1. CASE node[c].source = "manual"
      BY <1>3, <2>1, <2>2, <2>4, <3>1, StaysThere
    <3>2. CASE node[c].source # "manual"
      <4>1. /\ decided[s] \in Blocking
            /\ \A i \in DOMAIN queue[s] : queue[s][i].status \notin OpenStatuses
        BY <2>1, <2>4, <3>2 DEF Faithful
      <4>2. \A i \in DOMAIN queue'[s] : queue'[s][i].status \notin OpenStatuses
        <5>1. "approved" \notin OpenStatuses /\ "rejected" \notin OpenStatuses
          BY DEF OpenStatuses
        <5> QED BY <1>3, <2>2, <4>1, <5>1, ClosedOnly
      <4> QED BY <2>1, <2>4, <4>1, <4>2
    <3> QED BY <3>1, <3>2
  <2>5. CASE /\ mem[c].status = "none" /\ node[c].status = "none"
             /\ node'[c].status # "none" /\ node'[c].source # "manual"
    <3>1. PICK i \in 1..MaxProposals, p \in Products : ApproveAdd(c, i, p)
      BY <1>3, <2>1, <2>5, Appears
    <3>2. IsOpen(s, i) /\ Close(s, i, "approved") /\ i \in DOMAIN queue[s]
      BY <3>1 DEF ApproveAdd, IsOpen
    <3>3. /\ DOMAIN queue[s] = 1..Len(queue[s]) /\ Len(queue[s]) \in Nat
          /\ "approved" \in Decisions /\ "approved" \notin OpenStatuses
          /\ OpenStatuses = {"pending"}
      BY <2>2, Lengths DEF Decisions, OpenStatuses
    <3>4. i = Len(queue[s])
      <4>1. Len(queue[s]) \in DOMAIN queue[s] /\ i <= Len(queue[s])
        BY <3>2, <3>3
      <4>2. ~(i < Len(queue[s]))
        BY <2>2, <3>2, <3>3, <4>1 DEF Settled, IsOpen
      <4> QED BY <3>2, <3>3, <4>1, <4>2
    <3>5. decided[s] \in Blocking
      BY <2>1, <2>2, <3>2, <3>3, <3>4 DEF Blocked, IsOpen, Blocking
    <3>6. /\ DOMAIN queue'[s] = DOMAIN queue[s]
          /\ \A j \in DOMAIN queue[s] :
               queue'[s][j].status = IF j = i THEN "approved" ELSE queue[s][j].status
      BY <2>2, <3>2, <3>3, CloseType
    <3>7. \A j \in DOMAIN queue[s] : j # i => queue[s][j].status \notin OpenStatuses
      <4> TAKE j \in DOMAIN queue[s]
      <4> HAVE j # i
      <4>1. j < i
        BY <3>3, <3>4
      <4> QED BY <2>2, <3>2, <3>3, <4>1 DEF Settled
    <3> QED BY <2>1, <2>5, <3>3, <3>5, <3>6, <3>7
  <2> QED BY <2>1, <2>3, <2>4, <2>5
<1> QED BY <1>1, <1>2, <1>3 DEF Faithful

(* A run proposes what is due, but for what was approved while it was      *)
(* under way, and what it knows as decided.                                *)
LEMMA EmittedDue ==
  ASSUME TypeOK, Faithful, pc # "idle", NEW s \in Sigs, ~Unseen(s)
  PROVE  /\ s \in Emitted /\ (s.op = "add" => node[s.node].status = "none") => Due(s)
         /\ Due(s) => s \in Emitted \/ decided[s] \in Decisions
<1> DEFINE n == s.node
<1>1. \/ s.op = "add" /\ n \in Comps /\ s = [op |-> "add", node |-> n]
      \/ s.op = "update" /\ n \in Nodes /\ s = [op |-> "update", node |-> n]
  BY DEF Sigs
<1>2. \A c \in Comps : Row(c).source = node[c].source
  BY DEF Row, Faithful
<1>3. Active \subseteq Comps
  BY DEF Active
<1>4. CASE s.op = "add"
  <2>1. n \in Comps /\ s = [op |-> "add", node |-> n]
    BY <1>1, <1>4
  <2>2. s \in Emitted <=> n \in New
    BY <1>4, <2>1 DEF Emitted
  <2>3. node[n].status = "none" => mem[n].status = "none"
    BY <2>1 DEF Faithful
  <2>4. Due(s) <=> /\ node[n].status = "none" /\ listing[n] = "live"
                   /\ n \in Perimeter /\ facts[n] # 0
    BY <1>4 DEF Due
  <2>5. n \in New <=> /\ mem[n].status = "none" /\ listing[n] = "live" /\ n \in Perimeter
                      /\ decided[s] \notin Decisions /\ facts[n] # 0
    BY <2>1 DEF New, Candidate
  <2> QED BY <1>4, <2>2, <2>3, <2>4, <2>5
<1>5. CASE s.op = "update"
  <2>1. s \in Emitted <=> n \in Gone \union Out \union Emptied \union Undeclared
    BY <1>1, <1>5 DEF Emitted
  <2>2. n \in Gone <=> n \in Active /\ Vanished(n)
    BY <1>2, <1>3 DEF Gone, Vanished, KnownPrivate
  <2>3. Out = {c \in Active : Outside(c)}
    BY <1>2, <1>3 DEF Out, Outside
  <2>4. n \in Products => Inside(n) = Components(n)
    <3> SUFFICES ASSUME n \in Products, NEW c \in Active
                 PROVE  Row(c).parent = n <=> node[c].parent = n
      BY DEF Inside, Components
    <3> QED BY DEF Unseen, Moved
  <2>5. n \in Emptied <=> /\ n \in Products /\ Components(n) # {}
                          /\ \A c \in Components(n) : Outside(c)
    <3>1. \A p : Components(p) \subseteq Active
      BY DEF Components
    <3> QED BY <2>3, <2>4, <3>1 DEF Emptied
  <2>6. n \in Undeclared <=> n \in Datasets /\ node[n].status = "active" /\ facts[n] = 0
    BY DEF Undeclared
  <2>7. Due(s) <=> \/ n \in Active /\ (Vanished(n) \/ Outside(n))
                   \/ /\ n \in Products /\ Components(n) # {}
                      /\ \A c \in Components(n) : Outside(c)
                   \/ n \in Datasets /\ node[n].status = "active" /\ facts[n] = 0
    BY <1>5 DEF Due
  <2> QED BY <1>5, <2>1, <2>2, <2>3, <2>5, <2>6, <2>7
<1> QED BY <1>1, <1>4, <1>5

LEMMA NodesInvariant == Spec => [](Present /\ Answers /\ Faithful)
<1>1. Init => Present /\ Answers /\ Faithful
  <2> SUFFICES ASSUME Init PROVE Present /\ Answers /\ Faithful
    OBVIOUS
  <2>1. Answers /\ Faithful
    BY DEF Init, Answers, Faithful, Decisions, OpenStatuses
  <2>2. \A n \in Products : node[n].status = "active"
    <3>1. \A n \in Products : node[n] = Imported(NoParent)
      BY NodeSets DEF Init
    <3>2. Imported(NoParent).status = "active"
      BY DEF Imported, NoNode
    <3> QED BY <3>1, <3>2
  <2>3. \A n \in Nodes : queue[[op |-> "update", node |-> n]] = <<>>
    BY DEF Init, Sigs
  <2> QED BY <2>1, <2>2, <2>3 DEF Present
<1>2. QueueInv /\ (Present /\ Answers /\ Faithful) /\ [Next]_vars
        => (Present /\ Answers /\ Faithful)'
  BY PresentStep, AnswersStep, FaithfulStep DEF QueueInv
<1> QED BY <1>1, <1>2, QueueInvariant, PTL DEF Spec

(* After a run the open proposals about nodes are what the sources and the *)
(* map disagree about and nobody has decided (_propose_new_components,     *)
(* _propose_missing, _propose_out_of_perimeter, _apply_data_lake), but for *)
(* the components that a person created or moved while it was under way.   *)
THEOREM NodeQueue == Spec => NodeQueueExact
<1> DEFINE Open(s) == \E i \in DOMAIN queue'[s] : queue'[s][i].status \in OpenStatuses
           Exact(s) == /\ Open(s) => Due(s)
                       /\ Due(s) /\ ~Open(s) =>
                            \E i \in DOMAIN queue[s] : queue[s][i].status \in Decisions
<1>1. QueueInv /\ Answers /\ Faithful /\ [Next]_vars
        => [Apply => \A s \in Sigs : ~Unseen(s) => Exact(s)]_vars
  <2> SUFFICES ASSUME QueueInv, Answers, Faithful, Apply, NEW s \in Sigs, ~Unseen(s)
               PROVE  Exact(s)
    OBVIOUS
  <2>1. TypeOK /\ pc # "idle" /\ queue'[s] = QueueAfter(s)
    BY DEF QueueInv, Apply
  <2>2. /\ queue[s] \in Seq(Change) /\ Len(queue[s]) \in Nat
        /\ DOMAIN queue[s] = 1..Len(queue[s])
    BY <2>1, Lengths
  <2>3. /\ QueueAfter(s) \in Seq(Change)
        /\ Len(QueueAfter(s)) = IF s \in Proposed THEN Len(queue[s]) + 1 ELSE Len(queue[s])
        /\ \A k \in DOMAIN queue[s] :
             QueueAfter(s)[k].status = Withdrawn(s, queue[s][k].status)
        /\ s \in Proposed => QueueAfter(s)[Len(queue[s]) + 1].status = "pending"
    BY <2>1, QueueAfterType, Zenon
  <2>4. DOMAIN QueueAfter(s) = 1..Len(QueueAfter(s))
    BY <2>3
  <2>5. s \in Proposed => Open(s)
    <3>1. s \in Proposed => Len(queue[s]) + 1 \in DOMAIN QueueAfter(s)
      BY <2>2, <2>3, <2>4
    <3> QED BY <2>1, <2>3, <3>1 DEF OpenStatuses
  <2>6. ASSUME s \notin Proposed, NEW i \in DOMAIN queue'[s], queue'[s][i].status \in OpenStatuses
        PROVE  s \in Emitted /\ i \in DOMAIN queue[s] /\ queue[s][i].status \in OpenStatuses
    <3>1. i \in DOMAIN queue[s]
      BY <2>1, <2>2, <2>3, <2>4, <2>6
    <3>2. queue'[s][i].status = Withdrawn(s, queue[s][i].status)
      BY <2>1, <2>3, <3>1
    <3> QED BY <2>6, <3>1, <3>2 DEF Withdrawn, OpenStatuses
  <2>7. Open(s) => Due(s)
    <3> SUFFICES ASSUME Open(s) PROVE Due(s)
      OBVIOUS
    <3>1. s \in Emitted
      BY <2>6 DEF Proposed
    <3>2. ASSUME s.op = "add" PROVE node[s.node].status = "none"
      <4> SUFFICES ASSUME node[s.node].status # "none" PROVE FALSE
        OBVIOUS
      <4>1. s.node \in Comps /\ s = [op |-> "add", node |-> s.node]
        BY <3>2 DEF Sigs
      <4>2. mem[s.node].status = "none"
        BY <3>1, <3>2 DEF Emitted, New, Candidate
      <4>3. /\ decided[s] \in Blocking
            /\ \A i \in DOMAIN queue[s] : queue[s][i].status \notin OpenStatuses
        <5>1. node[s.node].source # "manual"
          BY <3>2, <4>2 DEF Unseen, ByHand
        <5> QED BY <2>1, <4>1, <4>2, <5>1 DEF Faithful
      <4>4. s \notin Proposed
        BY <4>3 DEF Proposed, Blocking, OpenStatuses
      <4> QED BY <2>6, <4>3, <4>4
    <3> QED BY <2>1, <3>1, <3>2, EmittedDue
  <2>8. ASSUME Due(s), ~Open(s)
        PROVE  \E i \in DOMAIN queue[s] : queue[s][i].status \in Decisions
    <3>1. CASE decided[s] \in Decisions
      BY <3>1 DEF Answers
    <3>2. CASE decided[s] \notin Decisions
      <4>1. s \in Emitted /\ s \notin Proposed
        BY <2>1, <2>5, <2>8, <3>2, EmittedDue
      <4>2. decided[s] \in OpenStatuses
        BY <3>2, <4>1 DEF Proposed, Decisions
      <4>3. PICK i \in DOMAIN queue[s] : queue[s][i].status \in OpenStatuses \union Decisions
        BY <4>2 DEF Answers
      <4>4. queue'[s][i].status = queue[s][i].status /\ i \in DOMAIN queue'[s]
        BY <2>1, <2>2, <2>3, <2>4, <4>1 DEF Withdrawn
      <4> QED BY <2>8, <4>3, <4>4
    <3> QED BY <3>1, <3>2
  <2> QED BY <2>7, <2>8
<1>2. QueueInv /\ Answers /\ Faithful /\ [Next]_vars
        => [Apply => \A s \in Sigs : ~Unseen(s) =>
              LET open == \E i \in DOMAIN queue'[s] : queue'[s][i].status \in OpenStatuses
              IN  /\ open => Due(s)
                  /\ Due(s) /\ ~open =>
                       \E i \in DOMAIN queue[s] : queue[s][i].status \in Decisions]_vars
  BY <1>1
<1> QED BY <1>2, QueueInvariant, NodesInvariant, PTL DEF Spec, NodeQueueExact
=============================================================================
