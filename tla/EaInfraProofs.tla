---------------------------- MODULE EaInfraProofs ----------------------------
(* Proofs about EaInfra for every set of repositories, blocks and nodes. *)
EXTENDS EaInfra, SequenceTheorems, TLAPS

USE HomeAssumption, RefsAssumption, MatchAssumption, NobodyAssumption, BoundsAssumption

Seen == {"none", "pending", "approved", "rejected"}

LEMMA Lengths ==
  ASSUME TypeOK, NEW s \in Sigs
  PROVE  /\ queue[s] \in Seq(ChangeStatus)
         /\ Len(queue[s]) \in Nat
         /\ DOMAIN queue[s] = 1..Len(queue[s])
         /\ \A i \in DOMAIN queue[s] : queue[s][i] \in ChangeStatus
BY DEF TypeOK

(* A status other than superseded that stands last is the one a run reads. *)
LEMMA LastDecisionIsLast ==
  ASSUME NEW q \in Seq(ChangeStatus), Len(q) > 0, q[Len(q)] # "superseded"
  PROVE  LastDecision(q) = q[Len(q)]
<1> DEFINE Last(i) == /\ q[i] # "superseded"
                      /\ \A j \in DOMAIN q : j > i => q[j] = "superseded"
<1>1. DOMAIN q = 1..Len(q) /\ Len(q) \in Nat
  OBVIOUS
<1>2. Last(Len(q)) /\ Len(q) \in DOMAIN q
  BY <1>1
<1>3. \A i \in DOMAIN q : Last(i) => i = Len(q)
  BY <1>1
<1>4. (CHOOSE i \in DOMAIN q : Last(i)) = Len(q)
  BY <1>2, <1>3
<1> QED BY <1>2, <1>4 DEF LastDecision

LEMMA LastDecisionType ==
  ASSUME NEW q \in Seq(ChangeStatus)
  PROVE  /\ LastDecision(q) \in Seen
         /\ LastDecision(q) # "none" => \E i \in DOMAIN q : q[i] = LastDecision(q)
<1> DEFINE Last(i) == /\ q[i] # "superseded"
                      /\ \A j \in DOMAIN q : j > i => q[j] = "superseded"
<1>1. CASE \E i \in DOMAIN q : Last(i)
  <2> DEFINE k == CHOOSE i \in DOMAIN q : Last(i)
  <2>1. k \in DOMAIN q /\ Last(k)
    BY <1>1
  <2>2. LastDecision(q) = q[k]
    BY <1>1 DEF LastDecision
  <2> HIDE DEF k
  <2>3. q[k] \in ChangeStatus /\ q[k] # "superseded"
    BY <2>1
  <2> QED BY <2>1, <2>2, <2>3 DEF ChangeStatus, Seen
<1>2. CASE ~ \E i \in DOMAIN q : Last(i)
  BY <1>2 DEF LastDecision, Seen
<1> QED BY <1>1, <1>2

-----------------------------------------------------------------------------
(* What a run builds *)

LEMMA GraphTypes ==
  ASSUME TypeOK
  PROVE  /\ Graph \subseteq Ids
         /\ \A x \in Graph : RepoOf(x) \in Repos
         /\ \A x \in Ids : ParentOf(x) \in Graph \union {NoParent}
         /\ \A l \in LinksAfter : l[1] \in Graph /\ l[2] \in Graph
         /\ LinksAfter \subseteq Ids \X Ids
<1>1. facts.blocks \subseteq Resources
  BY DEF TypeOK, Extract
<1>2. \A s, t : Resolved(s, t) => /\ s \in facts.blocks /\ t \in Resources
                                  /\ s \in Referrers(t) /\ Target(t) \in Graph
  BY <1>1 DEF Resolved, Referrers, Graph
<1>3. \A r \in Resources : Own(r) \in Ids /\ External(r) \in Ids /\ Target(r) \in Ids
  BY DEF Own, External, Ids, Target
<1>4. Graph \subseteq Ids
  BY <1>1, <1>3 DEF Graph
<1>5. ASSUME NEW x \in Graph PROVE RepoOf(x) \in Repos
  <2>1. CASE ~x.external
    BY <1>4, <2>1 DEF RepoOf, Ids
  <2>2. CASE x.external
    <3>1. PICK t \in Resources : Referrers(t) # {} /\ x = Target(t)
      BY <2>2 DEF Graph, Own
    <3>2. x.name = t
      BY <3>1 DEF Target, Own, External
    <3>3. (CHOOSE s \in Referrers(x.name) : TRUE) \in Referrers(x.name)
      BY <3>1, <3>2
    <3>4. (CHOOSE s \in Referrers(x.name) : TRUE) \in Resources
      BY <3>3, <1>1 DEF Referrers
    <3> QED BY <2>2, <3>4 DEF RepoOf
  <2>3. x.external \in BOOLEAN
    BY <1>4 DEF Ids
  <2> QED BY <2>1, <2>2, <2>3
<1>6. ASSUME NEW x \in Ids PROVE ParentOf(x) \in Graph \union {NoParent}
  <2> DEFINE around == {t \in Containers : ~x.external /\ Resolved(x.name, t)}
  <2>1. CASE around = {}
    BY <2>1 DEF ParentOf
  <2>2. CASE around # {}
    <3>1. (CHOOSE t \in around : TRUE) \in around
      BY <2>2
    <3>2. ParentOf(x) = Target(CHOOSE t \in around : TRUE)
      BY <2>2 DEF ParentOf
    <3> QED BY <3>1, <3>2, <1>2
  <2> QED BY <2>1, <2>2
<1>7. ASSUME NEW l \in LinksAfter
      PROVE  l[1] \in Graph /\ l[2] \in Graph /\ l = <<l[1], l[2]>>
  <2>1. PICK p \in Refs : Resolved(p[1], p[2]) /\ l = <<Own(p[1]), Target(p[2])>>
    BY DEF LinksAfter, Arrows
  <2>2. Own(p[1]) \in Graph /\ Target(p[2]) \in Graph
    BY <2>1, <1>2 DEF Graph
  <2> QED BY <2>1, <2>2
<1>8. LinksAfter \subseteq Ids \X Ids
  BY <1>4, <1>7
<1> QED BY <1>4, <1>5, <1>6, <1>7, <1>8

LEMMA RowAfterType ==
  ASSUME TypeOK, NEW x \in Ids
  PROVE  /\ RowAfter(x) \in Row
         /\ RowAfter(x).ea_node_id = row[x].ea_node_id
<1>1. row[x] \in Row
  BY DEF TypeOK
<1>2. CASE x \in Graph
  <2>1. RepoOf(x) \in Repos /\ ParentOf(x) \in Ids \union {NoParent}
    BY <1>2, GraphTypes
  <2> QED BY <1>1, <1>2, <2>1 DEF RowAfter, Row
<1>3. CASE x \notin Graph
  BY <1>1, <1>3 DEF RowAfter, Row
<1> QED BY <1>2, <1>3

LEMMA QueueAfterType ==
  ASSUME TypeOK, NEW s \in Sigs
  PROVE  /\ QueueAfter(s) \in Seq(ChangeStatus)
         /\ Len(QueueAfter(s)) = IF s \in Proposed THEN Len(queue[s]) + 1 ELSE Len(queue[s])
         /\ \A i \in DOMAIN queue[s] : QueueAfter(s)[i] = Withdrawn(s, queue[s][i])
         /\ s \in Proposed => QueueAfter(s)[Len(queue[s]) + 1] = "pending"
<1> DEFINE q == queue[s]
           old == [i \in DOMAIN q |-> Withdrawn(s, q[i])]
<1>1. q \in Seq(ChangeStatus) /\ DOMAIN q = 1..Len(q) /\ Len(q) \in Nat
      /\ \A i \in 1..Len(q) : q[i] \in ChangeStatus
  BY Lengths
<1>2. \A i \in 1..Len(q) : Withdrawn(s, q[i]) \in ChangeStatus
  BY <1>1 DEF Withdrawn, ChangeStatus
<1>3. old \in Seq(ChangeStatus) /\ Len(old) = Len(q)
      /\ \A i \in 1..Len(q) : old[i] = Withdrawn(s, q[i])
  BY <1>1, <1>2
<1>4. QueueAfter(s) = IF s \in Proposed THEN Append(old, "pending") ELSE old
  BY DEF QueueAfter
<1>5. "pending" \in ChangeStatus
  BY DEF ChangeStatus
<1> HIDE DEF q, old
<1>6. CASE s \in Proposed
  <2>1. QueueAfter(s) \in Seq(ChangeStatus) /\ Len(QueueAfter(s)) = Len(old) + 1
        /\ QueueAfter(s)[Len(old) + 1] = "pending"
        /\ \A i \in 1..Len(old) : QueueAfter(s)[i] = old[i]
    BY <1>3, <1>4, <1>5, <1>6
  <2> QED BY <2>1, <1>1, <1>3, <1>6 DEF q
<1>7. CASE s \notin Proposed
  BY <1>1, <1>3, <1>4, <1>7 DEF q
<1> QED BY <1>6, <1>7

(* Deciding writes one status. *)
LEMMA CloseType ==
  ASSUME TypeOK, NEW s \in Sigs, NEW i, NEW status \in {"approved", "rejected"},
         IsOpen(s, i), Close(s, i, status)
  PROVE  /\ queue' \in [Sigs -> Seq(ChangeStatus)]
         /\ \A t \in Sigs : /\ Len(queue'[t]) = Len(queue[t])
                            /\ DOMAIN queue'[t] = DOMAIN queue[t]
                            /\ \A j \in DOMAIN queue[t] :
                                 queue'[t][j] = IF t = s /\ j = i THEN status ELSE queue[t][j]
<1> DEFINE q == queue[s]
           new == [q EXCEPT ![i] = status]
<1>1. q \in Seq(ChangeStatus) /\ i \in DOMAIN q
  BY DEF TypeOK, IsOpen
<1>2. status \in ChangeStatus
  BY DEF ChangeStatus
<1>3. new \in Seq(ChangeStatus) /\ Len(new) = Len(q) /\ DOMAIN new = DOMAIN q
      /\ \A j \in DOMAIN q : new[j] = IF j = i THEN status ELSE q[j]
  BY <1>1, <1>2
<1>4. queue' = [queue EXCEPT ![s] = new]
  BY DEF Close
<1> HIDE DEF new
<1>5. \A t \in Sigs : queue'[t] = IF t = s THEN new ELSE queue[t]
  BY <1>4 DEF TypeOK
<1>6. queue' \in [Sigs -> Seq(ChangeStatus)]
  BY <1>3, <1>4 DEF TypeOK
<1> QED BY <1>3, <1>5, <1>6

-----------------------------------------------------------------------------
(* Types *)

LEMMA TypeInit == Init => TypeOK
<1> SUFFICES ASSUME Init PROVE TypeOK
  OBVIOUS
<1>1. NoRow \in Row
  BY DEF NoRow, Row
<1>2. Unknown \in Extract
  BY DEF Unknown, Extract
<1> QED BY <1>1, <1>2 DEF Init, TypeOK, Undecided

LEMMA OverTypes ==
  Over => pc' = "idle" /\ decided' \in [Sigs -> Seen] /\ facts' \in Extract
BY DEF Over, Undecided, Unknown, Extract, Seen

LEMMA TypeStep == TypeOK /\ [Next]_vars => TypeOK'
<1> SUFFICES ASSUME TypeOK, [Next]_vars PROVE TypeOK'
  OBVIOUS
<1> USE DEF dbVars, runVars
<1>1. CASE ReadState
  <2>1. decided' \in [Sigs -> Seen]
    BY <1>1, LastDecisionType DEF ReadState, TypeOK
  <2> QED BY <1>1, <2>1 DEF ReadState, TypeOK, Seen
<1>2. CASE Collect
  <2>1. \A fresh \in SUBSET Repos : Extracts(fresh) \in Extract
    BY DEF Extracts, Extract, TypeOK
  <2> QED BY <1>2, <2>1 DEF Collect, TypeOK
<1>3. CASE Apply
  <2>1. row' \in [Ids -> Row]
    BY <1>3, RowAfterType DEF Apply
  <2>2. links' \in SUBSET (Ids \X Ids)
    BY <1>3, GraphTypes DEF Apply
  <2>3. queue' \in [Sigs -> Seq(ChangeStatus)]
    BY <1>3, QueueAfterType DEF Apply
  <2> QED BY <1>3, <2>1, <2>2, <2>3, OverTypes DEF Apply, TypeOK, Seen
<1>4. CASE Leave
  BY <1>4, OverTypes DEF Leave, TypeOK, Seen
<1>5. ASSUME NEW s \in Sigs, NEW i, NEW n \in Nodes, ApproveLink(s, i, n) PROVE TypeOK'
  <2>1. queue' \in [Sigs -> Seq(ChangeStatus)]
    BY <1>5, CloseType DEF ApproveLink
  <2>2. row' \in [Ids -> Row]
    <3>1. Own(s.res) \in Ids
      BY DEF Own, Ids, Sigs
    <3>2. [row[Own(s.res)] EXCEPT !.ea_node_id = n] \in Row
      <4>1. row[Own(s.res)] \in Row
        BY <3>1 DEF TypeOK
      <4>2. \A old \in Row : [old EXCEPT !.ea_node_id = n] \in Row
        BY DEF Row
      <4> QED BY <4>1, <4>2
    <3>3. row' = [row EXCEPT ![Own(s.res)] = [row[Own(s.res)] EXCEPT !.ea_node_id = n]]
      BY <1>5 DEF ApproveLink
    <3> QED BY <3>1, <3>2, <3>3 DEF TypeOK
  <2> QED BY <1>5, <2>1, <2>2 DEF ApproveLink, TypeOK
<1>6. ASSUME NEW s \in Sigs, NEW i, RejectLink(s, i) PROVE TypeOK'
  BY <1>6, CloseType DEF RejectLink, TypeOK
<1>7. ASSUME NEW n \in Nodes, ChangeNode(n) PROVE TypeOK'
  <2>1. node' \in [Nodes -> {"none", "active", "archived"}]
    BY <1>7 DEF ChangeNode, TypeOK
  <2> QED BY <1>7, <2>1 DEF ChangeNode, TypeOK
<1>8. ASSUME NEW r \in Resources, ChangeBlock(r) PROVE TypeOK'
  BY <1>8 DEF ChangeBlock, TypeOK
<1>9. CASE UNCHANGED vars
  BY <1>9 DEF vars, TypeOK
<1> QED BY <1>1, <1>2, <1>3, <1>4, <1>5, <1>6, <1>7, <1>8, <1>9 DEF Next

(* Rows, links, proposals and extracts keep their types, whatever the      *)
(* repositories, the nodes and the bounds.                                 *)
THEOREM TypeCorrect == Spec => []TypeOK
BY TypeInit, TypeStep, PTL DEF Spec

-----------------------------------------------------------------------------
(* The view.  Every row on it comes from a repository that was read once,  *)
(* and a run never forgets a repository that was read: so the rows that a  *)
(* run leaves on the view are those it has just built.                     *)

Sourced ==
  /\ \A x \in Ids : row[x].status = "active" => row[x].repo \in snap.repos
  /\ \A r \in snap.blocks : Home[r] \in snap.repos
  /\ \A r \in facts.blocks : Home[r] \in facts.repos
  /\ pc = "collected" => snap.repos \subseteq facts.repos

LEMMA RunWrites ==
  ASSUME [Next]_vars
  PROVE  Apply \/ UNCHANGED <<links, snap>>
BY DEF Next, ReadState, Collect, Leave, ApproveLink, RejectLink, ChangeNode,
       ChangeBlock, vars, dbVars, runVars

(* Outside the apply phase a row keeps everything but its node. *)
LEMMA RowsKept ==
  ASSUME TypeOK, [Next]_vars, ~Apply
  PROVE  \A x \in Ids : /\ row'[x].status = row[x].status
                        /\ row'[x].repo = row[x].repo
                        /\ row'[x].parent = row[x].parent
<1>1. ASSUME NEW s \in Sigs, NEW i, NEW n \in Nodes, ApproveLink(s, i, n), NEW x \in Ids
      PROVE  /\ row'[x].status = row[x].status
             /\ row'[x].repo = row[x].repo
             /\ row'[x].parent = row[x].parent
  <2>1. row[x] \in Row
    BY DEF TypeOK
  <2>2. row' = [row EXCEPT ![Own(s.res)] = [row[Own(s.res)] EXCEPT !.ea_node_id = n]]
    BY <1>1 DEF ApproveLink
  <2>3. CASE x # Own(s.res)
    BY <2>2, <2>3 DEF TypeOK
  <2>4. CASE x = Own(s.res)
    <3>1. row'[x] = [row[x] EXCEPT !.ea_node_id = n]
      BY <2>2, <2>4 DEF TypeOK
    <3> QED BY <2>1, <3>1 DEF Row
  <2> QED BY <2>3, <2>4
<1>2. CASE UNCHANGED row
  BY <1>2
<1> QED
  BY <1>1, <1>2 DEF Next, ReadState, Collect, Leave, RejectLink, ChangeNode,
     ChangeBlock, vars, dbVars

(* What the apply phase leaves on the view is the graph it has built. *)
LEMMA ApplyShows ==
  ASSUME TypeOK, Sourced, Apply, NEW x \in Ids
  PROVE  /\ row'[x].status = "active" <=> x \in Graph
         /\ x \in Graph => row'[x].repo = RepoOf(x) /\ row'[x].parent = ParentOf(x)
<1>1. row'[x] = RowAfter(x) /\ row[x] \in Row
  BY DEF Apply, TypeOK
<1>2. CASE x \in Graph
  BY <1>1, <1>2 DEF RowAfter, Row
<1>3. CASE x \notin Graph
  <2>1. row[x].status = "active" => row[x].repo \in facts.repos
    BY DEF Sourced, Apply
  <2> QED BY <1>1, <1>3, <2>1 DEF RowAfter, Row
<1> QED BY <1>2, <1>3

LEMMA RepoRead ==
  ASSUME TypeOK, Sourced, NEW x \in Graph
  PROVE  RepoOf(x) \in facts.repos
<1>1. facts.blocks \subseteq Resources
  BY DEF TypeOK, Extract
<1>2. CASE \E r \in facts.blocks : x = Own(r)
  BY <1>2 DEF RepoOf, Own, Sourced
<1>3. CASE \E t \in Resources : Referrers(t) # {} /\ x = Target(t)
  <2>1. PICK t \in Resources : Referrers(t) # {} /\ x = Target(t)
    BY <1>3
  <2>2. CASE t \in facts.blocks
    BY <2>1, <2>2 DEF Target, RepoOf, Own, Sourced
  <2>3. CASE t \notin facts.blocks
    <3>1. RepoOf(x) = Home[CHOOSE s \in Referrers(t) : TRUE]
      BY <2>1, <2>3 DEF Target, RepoOf, External
    <3>2. (CHOOSE s \in Referrers(t) : TRUE) \in facts.blocks
      BY <2>1 DEF Referrers
    <3> QED BY <3>1, <3>2 DEF Sourced
  <2> QED BY <2>2, <2>3
<1> QED BY <1>2, <1>3 DEF Graph

LEMMA SourcedStep == TypeOK /\ Sourced /\ [Next]_vars => Sourced'
<1> SUFFICES ASSUME TypeOK, Sourced, [Next]_vars PROVE Sourced'
  OBVIOUS
<1>1. CASE Apply
  <2>1. \A x \in Ids : row'[x].status = "active" => row'[x].repo \in snap'.repos
    BY <1>1, ApplyShows, RepoRead DEF Apply
  <2> QED BY <1>1, <2>1 DEF Apply, Over, Unknown, Sourced
<1>2. CASE Collect
  <2>1. PICK fresh \in SUBSET Repos : facts' = Extracts(fresh)
    BY <1>2 DEF Collect
  <2>2. \A r \in facts'.blocks : Home[r] \in facts'.repos
    BY <2>1 DEF Extracts, Sourced
  <2>3. snap.repos \subseteq facts'.repos
    BY <2>1 DEF Extracts
  <2> QED BY <1>2, <2>2, <2>3 DEF Collect, dbVars, Sourced
<1>3. CASE Leave
  BY <1>3 DEF Leave, Over, Unknown, dbVars, Sourced
<1>4. CASE ReadState
  BY <1>4 DEF ReadState, dbVars, Sourced
<1>5. CASE UNCHANGED <<runVars, snap>> /\ ~Apply
  BY <1>5, RowsKept DEF runVars, Sourced
<1> QED
  BY <1>1, <1>2, <1>3, <1>4, <1>5 DEF Next, ApproveLink, RejectLink, ChangeNode,
     ChangeBlock, vars, dbVars, Apply, runVars

LEMMA SourcedInvariant == Spec => [](TypeOK /\ Sourced)
<1>1. Init => Sourced
  BY DEF Init, NoRow, Unknown, Sourced
<1> QED BY <1>1, SourcedStep, TypeInit, TypeStep, PTL DEF Spec

(* No arrow and no container of the view is without a row on it            *)
(* (infra/sync.py, apply: the rows and the links of one commit).           *)
THEOREM NothingEverDangles == Spec => []NothingDangles
<1>1. Init => NothingDangles
  BY DEF Init, NoRow, NothingDangles, Active
<1>2. TypeOK /\ Sourced /\ NothingDangles /\ [Next]_vars => NothingDangles'
  <2> SUFFICES ASSUME TypeOK, Sourced, NothingDangles, [Next]_vars PROVE NothingDangles'
    OBVIOUS
  <2>1. CASE Apply
    <3>1. \A l \in links' : l[1] \in Graph /\ l[2] \in Graph
      BY <2>1, GraphTypes DEF Apply
    <3>2. \A x \in Ids : Active(x)' <=> x \in Graph
      BY <2>1, ApplyShows DEF Active
    <3>3. \A l \in links' : Active(l[1])' /\ Active(l[2])'
      BY <3>1, <3>2, GraphTypes
    <3>4. ASSUME NEW x \in Ids, Active(x)', row'[x].parent # NoParent
          PROVE  Active(row[x].parent)'
      <4>1. row'[x].parent = ParentOf(x)
        BY <2>1, <3>2, <3>4, ApplyShows
      <4>2. ParentOf(x) \in Graph
        BY <3>4, <4>1, GraphTypes
      <4>3. row'[x].parent \in Graph /\ Graph \subseteq Ids
        BY <4>1, <4>2, GraphTypes
      <4> QED BY <4>3, <3>2 DEF Active
    <3> QED BY <3>3, <3>4 DEF NothingDangles
  <2>2. CASE ~Apply
    <3>1. UNCHANGED links
      BY <2>2, RunWrites
    <3>2. \A x \in Ids : row'[x].parent = row[x].parent /\ (Active(x)' <=> Active(x))
      BY <2>2, RowsKept DEF Active
    <3>3. \A x \in Ids : row[x].parent \in Ids \union {NoParent}
      BY DEF TypeOK, Row
    <3>4. \A l \in links : l[1] \in Ids /\ l[2] \in Ids
      BY DEF TypeOK
    <3>5. \A l \in links' : Active(l[1])' /\ Active(l[2])'
      BY <3>1, <3>2, <3>4 DEF NothingDangles
    <3>6. ASSUME NEW x \in Ids, Active(x)', row'[x].parent # NoParent
          PROVE  Active(row[x].parent)'
      <4>1. row[x].parent \in Ids /\ Active(row[x].parent)
        BY <3>6, <3>2, <3>3 DEF NothingDangles
      <4> QED BY <4>1, <3>2 DEF Active
    <3> QED BY <3>5, <3>6 DEF NothingDangles
  <2> QED BY <2>1, <2>2
<1> QED BY <1>1, <1>2, SourcedInvariant, PTL DEF Spec

(* The placeholder of a name and the resource that carries it are never    *)
(* both on the view, however the repositories come and go (build).         *)
THEOREM PlaceholdersLeave == Spec => []PlaceholdersGoAway
<1>1. Init => PlaceholdersGoAway
  <2>1. \A x \in Ids : row[x].status = "none" => ~Active(x)
    BY DEF Active
  <2>2. \A r \in Resources : Own(r) \in Ids
    BY DEF Own, Ids
  <2>3. Init => \A x \in Ids : row[x].status = "none"
    BY DEF Init, NoRow
  <2> QED BY <2>1, <2>2, <2>3 DEF PlaceholdersGoAway
<1>2. TypeOK /\ Sourced /\ PlaceholdersGoAway /\ [Next]_vars => PlaceholdersGoAway'
  <2> SUFFICES ASSUME TypeOK, Sourced, PlaceholdersGoAway, [Next]_vars, NEW r \in Resources
               PROVE  ~(Active(Own(r))' /\ Active(External(r))')
    BY DEF PlaceholdersGoAway
  <2>1. Own(r) \in Ids /\ External(r) \in Ids
    BY DEF Own, External, Ids
  <2>2. CASE Apply
    <3>1. Own(r) \in Graph => r \in facts.blocks
      BY DEF Graph, Target, Own, External
    <3>2. External(r) \in Graph => r \notin facts.blocks
      BY DEF Graph, Target, Own, External
    <3> QED BY <2>1, <2>2, <3>1, <3>2, ApplyShows DEF Active
  <2>3. CASE ~Apply
    BY <2>1, <2>3, RowsKept DEF Active, PlaceholdersGoAway
  <2> QED BY <2>2, <2>3
<1> QED BY <1>1, <1>2, SourcedInvariant, PTL DEF Spec

(* Only an approval changes the node of a resource; a run writes the other *)
(* columns (_SYNCED), also for a row that goes and comes back.             *)
THEOREM NodesOfPeople == Spec => NodesBelongToPeople
<1> DEFINE Step == \A x \in Ids : row'[x].ea_node_id # row[x].ea_node_id
                     => pc' = pc /\ \E s \in Sigs : s.res = x.name /\ queue'[s] # queue[s]
<1>1. TypeOK /\ [Next]_vars => Step
  <2> SUFFICES ASSUME TypeOK, [Next]_vars, NEW x \in Ids, row'[x].ea_node_id # row[x].ea_node_id
               PROVE  pc' = pc /\ \E s \in Sigs : s.res = x.name /\ queue'[s] # queue[s]
    OBVIOUS
  <2>1. ~Apply
    <3>1. Apply => row'[x] = RowAfter(x)
      BY DEF Apply
    <3>2. RowAfter(x).ea_node_id = row[x].ea_node_id
      BY RowAfterType, Zenon
    <3> QED BY <3>1, <3>2
  <2>2. PICK s \in Sigs, i \in 1..MaxProposals, n \in Nodes : ApproveLink(s, i, n)
    <3>1. row' # row
      OBVIOUS
    <3>2. ~ReadState /\ ~Collect /\ ~Leave /\ ~UNCHANGED vars
      BY <3>1 DEF ReadState, Collect, Leave, vars, dbVars
    <3>3. \A s, i : ~RejectLink(s, i)
      BY <3>1 DEF RejectLink
    <3>4. \A n : ~ChangeNode(n) /\ ~ChangeBlock(n)
      BY <3>1 DEF ChangeNode, ChangeBlock, dbVars
    <3> QED BY <2>1, <3>2, <3>3, <3>4 DEF Next
  <2>3. x = Own(s.res)
    <3>1. x # Own(s.res) => row'[x] = row[x]
      BY <2>2 DEF ApproveLink, TypeOK
    <3> QED BY <3>1
  <2>4. queue'[s][i] = "approved" /\ queue[s][i] = "pending"
    <3>1. IsOpen(s, i) /\ Close(s, i, "approved")
      BY <2>2 DEF ApproveLink
    <3>2. i \in DOMAIN queue[s]
      BY <3>1 DEF IsOpen
    <3> QED BY <3>1, <3>2, CloseType DEF IsOpen, OpenStatuses
  <2> QED BY <2>2, <2>3, <2>4 DEF ApproveLink, runVars, Own
<1>2. TypeOK /\ [Next]_vars => [Step]_vars
  BY <1>1
<1> QED BY <1>2, TypeCorrect, PTL DEF Spec, NodesBelongToPeople

-----------------------------------------------------------------------------
(* The queue.  Only the last proposal of a signature may be open or        *)
(* rejected, and a run under way knows of it; what was approved has given  *)
(* its resource a node.                                                    *)

Settled ==
  \A s \in Sigs : \A i, j \in DOMAIN queue[s] :
    i < j => queue[s][i] \in {"approved", "superseded"}
Blocking == {"pending", "rejected"}
Blocked ==
  pc # "idle" =>
    \A s \in Sigs :
      Len(queue[s]) > 0 /\ queue[s][Len(queue[s])] \in Blocking => decided[s] \in Blocking
Remembered ==
  pc # "idle" =>
    \A s \in Sigs :
      decided[s] \in Blocking =>
        \E i \in DOMAIN queue[s] : queue[s][i] \in {"pending", "approved", "rejected"}
Given ==
  \A s \in Sigs : \A i \in DOMAIN queue[s] :
    queue[s][i] = "approved" => row[Own(s.res)].ea_node_id # Nobody
Single ==
  \A s, t \in Sigs : \A i \in DOMAIN queue[s], j \in DOMAIN queue[t] :
    s.res = t.res /\ IsOpen(s, i) /\ IsOpen(t, j) => s = t
QueueInv == Settled /\ Blocked /\ Remembered /\ Given /\ Single

(* The queue after a run, one proposal at a time. *)
LEMMA AfterRun ==
  ASSUME TypeOK, Settled, Blocked, Apply, NEW s \in Sigs
  PROVE  /\ queue[s] \in Seq(ChangeStatus) /\ Len(queue[s]) \in Nat
         /\ queue'[s] \in Seq(ChangeStatus)
         /\ Len(queue'[s]) = IF s \in Proposed THEN Len(queue[s]) + 1 ELSE Len(queue[s])
         /\ \A i \in 1..Len(queue[s]) : queue'[s][i] = Withdrawn(s, queue[s][i])
         /\ s \in Proposed => /\ queue'[s][Len(queue[s]) + 1] = "pending"
                              /\ \A i \in 1..Len(queue[s]) :
                                   queue[s][i] \in {"approved", "superseded"}
<1>1. queue'[s] = QueueAfter(s)
  BY DEF Apply
<1>2. queue[s] \in Seq(ChangeStatus) /\ Len(queue[s]) \in Nat
      /\ DOMAIN queue[s] = 1..Len(queue[s])
      /\ \A i \in 1..Len(queue[s]) : queue[s][i] \in ChangeStatus
  BY Lengths
<1>3. ASSUME s \in Proposed, NEW i \in 1..Len(queue[s])
      PROVE  queue[s][i] \in {"approved", "superseded"}
  <2>1. decided[s] \notin Blocking
    BY <1>3 DEF Proposed, Blocking
  <2>2. queue[s][Len(queue[s])] \notin Blocking
    BY <2>1, <1>2 DEF Blocked, Apply
  <2>3. CASE i = Len(queue[s])
    BY <2>2, <2>3, <1>2 DEF Blocking, ChangeStatus
  <2>4. CASE i < Len(queue[s])
    <3>1. Len(queue[s]) \in DOMAIN queue[s]
      BY <2>4, <1>2
    <3> QED BY <3>1, <2>4, <1>2 DEF Settled
  <2> QED BY <2>3, <2>4, <1>2
<1> QED BY <1>1, <1>2, <1>3, QueueAfterType

LEMMA ApplySettled ==
  ASSUME TypeOK, Settled, Blocked, Apply
  PROVE  Settled'
<1> SUFFICES ASSUME NEW s \in Sigs, NEW i \in DOMAIN queue'[s], NEW j \in DOMAIN queue'[s], i < j
             PROVE  queue'[s][i] \in {"approved", "superseded"}
  BY DEF Settled
<1> DEFINE n == Len(queue[s])
<1>1. n \in Nat /\ DOMAIN queue[s] = 1..n
  BY Lengths
<1>2. /\ queue'[s] \in Seq(ChangeStatus)
      /\ Len(queue'[s]) = IF s \in Proposed THEN n + 1 ELSE n
      /\ \A k \in 1..n : queue'[s][k] = Withdrawn(s, queue[s][k])
      /\ s \in Proposed => \A k \in 1..n : queue[s][k] \in {"approved", "superseded"}
  BY AfterRun
<1>3. i \in 1..n /\ (i = n => s \in Proposed)
  <2>1. i \in Nat /\ j \in Nat /\ 1 <= i /\ j <= Len(queue'[s])
    BY <1>2
  <2> QED BY <2>1, <1>1, <1>2
<1>4. queue[s][i] \in {"approved", "superseded"}
  <2>1. CASE i = n
    BY <2>1, <1>2, <1>3
  <2>2. CASE i < n
    <3>1. n \in DOMAIN queue[s]
      BY <1>1, <1>3
    <3> HIDE DEF n
    <3> QED BY <3>1, <2>2, <1>1, <1>3 DEF Settled
  <2> QED BY <2>1, <2>2, <1>1, <1>3
<1> QED BY <1>2, <1>3, <1>4 DEF Withdrawn

(* What is open after a run is what the run has emitted. *)
LEMMA OpenEmitted ==
  ASSUME TypeOK, Settled, Blocked, Apply, NEW s \in Sigs, NEW i \in DOMAIN queue'[s],
         queue'[s][i] = "pending"
  PROVE  s \in Emitted
<1> DEFINE n == Len(queue[s])
<1>1. /\ n \in Nat /\ queue'[s] \in Seq(ChangeStatus)
      /\ Len(queue'[s]) = IF s \in Proposed THEN Len(queue[s]) + 1 ELSE Len(queue[s])
      /\ \A k \in 1..Len(queue[s]) : queue'[s][k] = Withdrawn(s, queue[s][k])
  BY AfterRun, Zenon
<1>2. CASE s \in Proposed
  BY <1>2 DEF Proposed
<1>3. CASE s \notin Proposed
  <2>1. i \in 1..n
    <3>1. DOMAIN queue'[s] = 1..Len(queue'[s])
      BY <1>1
    <3> QED BY <1>1, <1>3, <3>1
  <2> QED BY <2>1, <1>1 DEF Withdrawn, OpenStatuses
<1> QED BY <1>2, <1>3

LEMMA EmittedOnce ==
  ASSUME NEW s \in Emitted, NEW t \in Emitted, s.res = t.res
  PROVE  s = t
BY DEF Emitted

LEMMA ApplySingle ==
  ASSUME TypeOK, Settled, Blocked, Apply
  PROVE  Single'
<1> SUFFICES ASSUME NEW s \in Sigs, NEW t \in Sigs, NEW i \in DOMAIN queue'[s],
                    NEW j \in DOMAIN queue'[t], s.res = t.res,
                    queue'[s][i] = "pending", queue'[t][j] = "pending"
             PROVE  s = t
  BY DEF Single, IsOpen, OpenStatuses
<1> QED BY OpenEmitted, EmittedOnce

LEMMA ApplyGiven ==
  ASSUME TypeOK, Settled, Blocked, Given, Apply
  PROVE  Given'
<1> SUFFICES ASSUME NEW s \in Sigs, NEW i \in DOMAIN queue'[s], queue'[s][i] = "approved"
             PROVE  row'[Own(s.res)].ea_node_id # Nobody
  BY DEF Given
<1> DEFINE n == Len(queue[s])
<1>0. /\ n \in Nat /\ queue'[s] \in Seq(ChangeStatus)
      /\ Len(queue'[s]) = IF s \in Proposed THEN Len(queue[s]) + 1 ELSE Len(queue[s])
      /\ \A k \in 1..Len(queue[s]) : queue'[s][k] = Withdrawn(s, queue[s][k])
      /\ s \in Proposed => queue'[s][Len(queue[s]) + 1] = "pending"
  BY AfterRun, Zenon
<1>1. DOMAIN queue[s] = 1..n /\ DOMAIN queue'[s] = 1..Len(queue'[s])
  BY <1>0, Lengths
<1>2. i \in 1..n /\ queue[s][i] = "approved"
  <2>1. i \in 1..n
    BY <1>0, <1>1
  <2> QED BY <2>1, <1>0 DEF Withdrawn
<1>3. Own(s.res) \in Ids
  BY DEF Own, Ids, Sigs
<1>4. row'[Own(s.res)].ea_node_id = row[Own(s.res)].ea_node_id
  BY <1>3, RowAfterType DEF Apply
<1> QED BY <1>1, <1>2, <1>4 DEF Given

LEMMA ApplyQueue ==
  ASSUME TypeOK, QueueInv, Apply
  PROVE  QueueInv'
<1>1. pc' = "idle"
  BY DEF Apply, Over
<1> QED
  BY <1>1, ApplySettled, ApplySingle, ApplyGiven DEF QueueInv, Blocked, Remembered

(* A decision is about the last proposal of its signature. *)
LEMMA CloseQueue ==
  ASSUME TypeOK, Settled, Blocked, Remembered, Single,
         NEW s \in Sigs, NEW i, NEW status \in {"approved", "rejected"},
         IsOpen(s, i), Close(s, i, status), UNCHANGED runVars
  PROVE  Settled' /\ Blocked' /\ Remembered' /\ Single'
<1>1. \A t \in Sigs : /\ Len(queue'[t]) = Len(queue[t])
                      /\ DOMAIN queue'[t] = DOMAIN queue[t]
                      /\ \A j \in DOMAIN queue[t] :
                           queue'[t][j] = IF t = s /\ j = i THEN status ELSE queue[t][j]
  BY CloseType
<1>2. \A t \in Sigs : Len(queue[t]) \in Nat /\ DOMAIN queue[t] = 1..Len(queue[t])
  BY Lengths
<1>3. i \in DOMAIN queue[s] /\ queue[s][i] = "pending"
  BY DEF IsOpen, OpenStatuses
<1>4. i = Len(queue[s])
  <2>1. i \in Nat /\ i <= Len(queue[s]) /\ Len(queue[s]) \in DOMAIN queue[s]
    BY <1>2, <1>3
  <2>2. ~(i < Len(queue[s]))
    BY <2>1, <1>3 DEF Settled
  <2> QED BY <2>1, <2>2, <1>2
<1>5. Settled'
  <2> SUFFICES ASSUME NEW t \in Sigs, NEW k \in DOMAIN queue'[t], NEW j \in DOMAIN queue'[t], k < j
               PROVE  queue'[t][k] \in {"approved", "superseded"}
    BY DEF Settled
  <2>1. k \in DOMAIN queue[t] /\ j \in DOMAIN queue[t]
    BY <1>1
  <2>2. ~(t = s /\ k = i)
    BY <2>1, <1>2, <1>4
  <2>3. queue'[t][k] = queue[t][k]
    BY <1>1, <2>1, <2>2
  <2> QED BY <2>1, <2>3 DEF Settled
<1>6. Blocked'
  <2> SUFFICES ASSUME pc # "idle", NEW t \in Sigs, Len(queue[t]) > 0,
                      queue'[t][Len(queue[t])] \in Blocking
               PROVE  decided[t] \in Blocking
    BY <1>1 DEF Blocked, runVars
  <2>1. Len(queue[t]) \in DOMAIN queue[t]
    BY <1>2
  <2>2. queue[t][Len(queue[t])] \in Blocking
    BY <1>1, <1>3, <1>4, <2>1 DEF Blocking
  <2> QED BY <2>2 DEF Blocked
<1>7. Remembered'
  <2> SUFFICES ASSUME pc # "idle", NEW t \in Sigs, decided[t] \in Blocking
               PROVE  \E k \in DOMAIN queue'[t] :
                        queue'[t][k] \in {"pending", "approved", "rejected"}
    BY DEF Remembered, runVars
  <2>1. PICK k \in DOMAIN queue[t] : queue[t][k] \in {"pending", "approved", "rejected"}
    BY DEF Remembered
  <2> QED BY <1>1, <2>1
<1>8. Single'
  <2>1. \A t \in Sigs : \A j : IsOpen(t, j)' => IsOpen(t, j)
    BY <1>1 DEF IsOpen, OpenStatuses
  <2> QED BY <1>1, <2>1 DEF Single
<1> QED BY <1>5, <1>6, <1>7, <1>8

LEMMA ReadQueue ==
  ASSUME TypeOK, ReadState
  PROVE  Blocked' /\ Remembered'
<1>1. \A s \in Sigs : decided'[s] = LastDecision(queue[s])
  BY DEF ReadState
<1>2. UNCHANGED queue
  BY DEF ReadState, dbVars
<1>3. ASSUME NEW s \in Sigs, Len(queue[s]) > 0, queue[s][Len(queue[s])] \in Blocking
      PROVE  decided'[s] \in Blocking
  <2>1. queue[s] \in Seq(ChangeStatus) /\ queue[s][Len(queue[s])] # "superseded"
    BY <1>3, Lengths DEF Blocking
  <2> QED BY <1>1, <1>3, <2>1, LastDecisionIsLast
<1>4. ASSUME NEW s \in Sigs, decided'[s] \in Blocking
      PROVE  \E i \in DOMAIN queue[s] : queue[s][i] \in {"pending", "approved", "rejected"}
  <2>1. LastDecision(queue[s]) \in Blocking /\ LastDecision(queue[s]) # "none"
    BY <1>1, <1>4 DEF Blocking
  <2>2. PICK i \in DOMAIN queue[s] : queue[s][i] = LastDecision(queue[s])
    BY <2>1, Lengths, LastDecisionType
  <2> QED BY <2>1, <2>2 DEF Blocking
<1> QED BY <1>2, <1>3, <1>4 DEF Blocked, Remembered

(* An approval gives the resource a node, which no step takes away. *)
LEMMA NodeLasts ==
  ASSUME TypeOK, [Next]_vars, NEW x \in Ids, row[x].ea_node_id # Nobody
  PROVE  row'[x].ea_node_id # Nobody
<1>1. CASE Apply
  <2>1. row'[x] = RowAfter(x)
    BY <1>1 DEF Apply
  <2> QED BY <2>1, RowAfterType
<1>2. ASSUME NEW s \in Sigs, NEW i, NEW n \in Nodes, ApproveLink(s, i, n)
      PROVE  row'[x].ea_node_id # Nobody
  <2>1. row[x] \in Row /\ n # Nobody
    BY DEF TypeOK
  <2>2. row' = [row EXCEPT ![Own(s.res)] = [row[Own(s.res)] EXCEPT !.ea_node_id = n]]
    BY <1>2 DEF ApproveLink
  <2>3. CASE x # Own(s.res)
    BY <2>2, <2>3 DEF TypeOK
  <2>4. CASE x = Own(s.res)
    <3>1. row'[x] = [row[x] EXCEPT !.ea_node_id = n]
      BY <2>2, <2>4 DEF TypeOK
    <3> QED BY <2>1, <3>1 DEF Row
  <2> QED BY <2>3, <2>4
<1>3. CASE UNCHANGED row
  BY <1>3
<1> QED
  BY <1>1, <1>2, <1>3 DEF Next, ReadState, Collect, Leave, RejectLink, ChangeNode,
     ChangeBlock, vars, dbVars

LEMMA QueueStep == TypeOK /\ QueueInv /\ [Next]_vars => QueueInv'
<1> SUFFICES ASSUME TypeOK, QueueInv, [Next]_vars PROVE QueueInv'
  OBVIOUS
<1>0. Settled /\ Blocked /\ Remembered /\ Given /\ Single
  BY DEF QueueInv
<1>1. ASSUME UNCHANGED queue PROVE Settled' /\ Single' /\ Given'
  <2>1. Settled' /\ Single'
    BY <1>0, <1>1 DEF Settled, Single, IsOpen
  <2>2. \A s \in Sigs : Own(s.res) \in Ids
    BY DEF Own, Ids, Sigs
  <2> QED BY <1>0, <1>1, <2>1, <2>2, NodeLasts DEF Given
<1>2. CASE ReadState
  BY <1>1, <1>2, ReadQueue DEF ReadState, dbVars, QueueInv
<1>3. CASE Collect
  BY <1>0, <1>1, <1>3 DEF Collect, dbVars, Blocked, Remembered, QueueInv
<1>4. CASE Apply
  BY <1>4, ApplyQueue
<1>5. CASE Leave
  BY <1>1, <1>5 DEF Leave, Over, dbVars, Blocked, Remembered, QueueInv
<1>6. ASSUME NEW s \in Sigs, NEW i, NEW n \in Nodes, ApproveLink(s, i, n) PROVE QueueInv'
  <2>1. Settled' /\ Blocked' /\ Remembered' /\ Single'
    BY <1>0, <1>6, CloseQueue DEF ApproveLink
  <2>2. Given'
    <3> SUFFICES ASSUME NEW t \in Sigs, NEW j \in DOMAIN queue'[t], queue'[t][j] = "approved"
                 PROVE  row'[Own(t.res)].ea_node_id # Nobody
      BY DEF Given
    <3>1. Own(t.res) \in Ids /\ Own(s.res) \in Ids
      BY DEF Own, Ids, Sigs
    <3>2. CASE t = s
      <4>1. row'[Own(s.res)] = [row[Own(s.res)] EXCEPT !.ea_node_id = n]
        BY <1>6, <3>1 DEF ApproveLink, TypeOK
      <4>2. row[Own(s.res)] \in Row
        BY <3>1 DEF TypeOK
      <4> QED BY <3>2, <4>1, <4>2 DEF Row
    <3>3. CASE t # s
      <4>1. DOMAIN queue'[t] = DOMAIN queue[t] /\ queue'[t][j] = queue[t][j]
        BY <1>6, <3>3, CloseType DEF ApproveLink
      <4>2. row[Own(t.res)].ea_node_id # Nobody
        BY <1>0, <4>1 DEF Given
      <4> QED BY <3>1, <4>2, NodeLasts
    <3> QED BY <3>2, <3>3
  <2> QED BY <2>1, <2>2 DEF QueueInv
<1>7. ASSUME NEW s \in Sigs, NEW i, RejectLink(s, i) PROVE QueueInv'
  <2>1. Settled' /\ Blocked' /\ Remembered' /\ Single'
    BY <1>0, <1>7, CloseQueue DEF RejectLink
  <2>2. \A t \in Sigs : /\ DOMAIN queue'[t] = DOMAIN queue[t]
                        /\ \A j \in DOMAIN queue[t] :
                             queue'[t][j] = "approved" => queue[t][j] = "approved"
    BY <1>7, CloseType DEF RejectLink
  <2>3. UNCHANGED row
    BY <1>7 DEF RejectLink
  <2> QED BY <1>0, <2>1, <2>2, <2>3 DEF Given, QueueInv
<1>8. CASE UNCHANGED <<queue, runVars>>
  BY <1>0, <1>1, <1>8 DEF runVars, Blocked, Remembered, QueueInv
<1> QED
  BY <1>2, <1>3, <1>4, <1>5, <1>6, <1>7, <1>8
  DEF Next, ChangeNode, ChangeBlock, vars, dbVars, runVars

LEMMA QueueInvariant == Spec => [](TypeOK /\ QueueInv)
<1>1. Init => QueueInv
  BY DEF Init, QueueInv, Settled, Blocked, Remembered, Given, Single, IsOpen
<1> QED BY <1>1, QueueStep, TypeInit, TypeStep, PTL DEF Spec

(* A resource never has two open proposals, so no approval of the queue    *)
(* replaces another (propose, and the withdrawal of what is not emitted).  *)
THEOREM OneProposal == Spec => []OneOpenPerResource
<1>1. TypeOK /\ QueueInv => OneOpenPerResource
  <2> SUFFICES ASSUME TypeOK, Settled, Single, NEW r \in Resources, NEW m \in Nodes, NEW n \in Nodes,
                      NEW i \in DOMAIN queue[[res |-> r, node |-> m]],
                      NEW j \in DOMAIN queue[[res |-> r, node |-> n]],
                      IsOpen([res |-> r, node |-> m], i), IsOpen([res |-> r, node |-> n], j)
               PROVE  m = n /\ i = j
    BY DEF OneOpenPerResource, QueueInv
  <2> DEFINE s == [res |-> r, node |-> m]
             t == [res |-> r, node |-> n]
  <2>1. s \in Sigs /\ t \in Sigs /\ s.res = t.res /\ s.node = m /\ t.node = n
    BY DEF Sigs
  <2>2. s = t
    BY <2>1 DEF Single
  <2>3. m = n
    BY <2>1, <2>2
  <2>4. i \in Nat /\ j \in Nat
    BY <2>1, Lengths
  <2>5. queue[s][i] = "pending" /\ queue[s][j] = "pending" /\ j \in DOMAIN queue[s]
    BY <2>2 DEF IsOpen, OpenStatuses
  <2>6. ~(i < j) /\ ~(j < i)
    BY <2>1, <2>5 DEF Settled
  <2> QED BY <2>3, <2>4, <2>6
<1> QED BY <1>1, QueueInvariant, PTL

(* After a run the open proposals are exactly the resources that carry the *)
(* name of an active node, have none yet, and that nobody refused          *)
(* (infra/sync.py, apply; engine.py, propose and the withdrawals).         *)
THEOREM QueueExact == Spec => InfraQueueExact
<1> DEFINE Wanted(s) == /\ s.res \in facts.blocks
                        /\ row'[Own(s.res)].ea_node_id = Nobody
                        /\ Meant(s.res) # {} /\ s.node = Hit(s.res)
                        /\ \A i \in DOMAIN queue[s] : queue[s][i] # "rejected"
           Open(s) == \E i \in DOMAIN queue'[s] : queue'[s][i] = "pending"
           Step == Apply => \A s \in Sigs : Open(s) <=> Wanted(s)
<1>1. TypeOK /\ QueueInv /\ [Next]_vars => Step
  <2> SUFFICES ASSUME TypeOK, QueueInv, Apply, NEW s \in Sigs
               PROVE  Open(s) <=> Wanted(s)
    OBVIOUS
  <2>0. Settled /\ Blocked /\ Remembered /\ Given
    BY DEF QueueInv
  <2>1. row'[Own(s.res)].ea_node_id = row[Own(s.res)].ea_node_id
    <3>1. Own(s.res) \in Ids
      BY DEF Own, Ids, Sigs
    <3>2. row'[Own(s.res)] = RowAfter(Own(s.res))
      BY <3>1 DEF Apply
    <3> QED BY <3>1, <3>2, RowAfterType
  <2>2. s \in Emitted <=> /\ s.res \in facts.blocks
                          /\ row[Own(s.res)].ea_node_id = Nobody
                          /\ Meant(s.res) # {} /\ s.node = Hit(s.res)
    BY DEF Emitted, Sigs
  <2>3. /\ Len(queue[s]) \in Nat /\ queue'[s] \in Seq(ChangeStatus)
        /\ Len(queue'[s]) = IF s \in Proposed THEN Len(queue[s]) + 1 ELSE Len(queue[s])
        /\ \A i \in 1..Len(queue[s]) : queue'[s][i] = Withdrawn(s, queue[s][i])
        /\ s \in Proposed => queue'[s][Len(queue[s]) + 1] = "pending"
    BY <2>0, AfterRun, Zenon
  <2>4. DOMAIN queue[s] = 1..Len(queue[s]) /\ DOMAIN queue'[s] = 1..Len(queue'[s])
    BY <2>3, Lengths
  <2>5. ASSUME Open(s), NEW i \in DOMAIN queue[s], queue[s][i] = "rejected" PROVE FALSE
    <3>1. PICK k \in DOMAIN queue'[s] : queue'[s][k] = "pending"
      BY <2>5
    <3>2. i = Len(queue[s])
      <4>0. i \in 1..Len(queue[s])
        BY <2>4, <2>5
      <4>1. Len(queue[s]) \in DOMAIN queue[s] /\ Len(queue[s]) \in Nat
        BY <4>0, <2>3, <2>4
      <4>2. \A a, b \in DOMAIN queue[s] : a < b => queue[s][a] # "rejected"
        BY <2>0 DEF Settled
      <4>3. ~(i < Len(queue[s]))
        BY <4>1, <4>2, <2>5
      <4> QED BY <4>0, <4>1, <4>3
    <3>3. s \notin Proposed
      <4>0. pc # "idle"
        BY DEF Apply
      <4>2. Len(queue[s]) > 0
        BY <2>3, <2>4, <2>5
      <4>3. queue[s][Len(queue[s])] \in Blocking
        BY <2>5, <3>2 DEF Blocking
      <4>1. decided[s] \in Blocking
        BY <4>0, <4>2, <4>3, <2>0, Zenon DEF Blocked
      <4> QED BY <4>1 DEF Proposed, Blocking
    <3>4. k \in DOMAIN queue[s] /\ queue[s][k] = "pending"
      BY <3>1, <3>3, <2>3, <2>4 DEF Withdrawn
    <3>5. k < i \/ k = i
      BY <3>2, <3>4, <2>3, <2>4
    <3> QED BY <3>4, <3>5, <2>0, <2>5 DEF Settled
  <2>6. ASSUME Open(s) PROVE Wanted(s)
    <3>1. s \in Emitted
      BY <2>6, <2>0, OpenEmitted
    <3> QED BY <3>1, <2>1, <2>2, <2>5, <2>6
  <2>7. ASSUME Wanted(s) PROVE Open(s)
    <3>1. s \in Emitted
      BY <2>1, <2>2, <2>7
    <3>2. CASE s \in Proposed
      <4>1. Len(queue[s]) + 1 \in DOMAIN queue'[s]
        BY <3>2, <2>3, <2>4
      <4> QED BY <4>1, <3>2, <2>3
    <3>3. CASE s \notin Proposed
      <4>1. decided[s] \in Blocking
        BY <3>1, <3>3 DEF Proposed, Blocking
      <4>0. pc # "idle"
        BY DEF Apply
      <4>8. \E i \in DOMAIN queue[s] : queue[s][i] \in {"pending", "approved", "rejected"}
        BY <4>0, <4>1, <2>0, Zenon DEF Remembered
      <4>2. PICK i \in DOMAIN queue[s] : queue[s][i] \in {"pending", "approved", "rejected"}
        BY <4>8, Zenon
      <4>3. queue[s][i] # "approved"
        BY <2>0, <2>1, <2>7 DEF Given
      <4>4. queue[s][i] = "pending"
        BY <4>2, <4>3, <2>7
      <4>5. i \in DOMAIN queue'[s]
        BY <3>3, <2>3, <2>4
      <4>6. queue'[s][i] = Withdrawn(s, queue[s][i])
        BY <2>3, <2>4
      <4>7. Withdrawn(s, "pending") = "pending"
        BY <3>1 DEF Withdrawn
      <4> QED BY <4>4, <4>5, <4>6, <4>7
    <3> QED BY <3>2, <3>3
  <2> QED BY <2>6, <2>7
<1>2. TypeOK /\ QueueInv /\ [Next]_vars => [Step]_vars
  BY <1>1
<1> QED BY <1>2, QueueInvariant, PTL DEF Spec, InfraQueueExact

-----------------------------------------------------------------------------
(* The queue of the resources is a queue of reviews. *)

LEMMA ShownOfQueue ==
  ASSUME NEW q \in Seq(ChangeStatus)
  PROVE  /\ DOMAIN ShownOf(q) = 1..Len(q) /\ DOMAIN q = 1..Len(q) /\ Len(q) \in Nat
         /\ Len(ShownOf(q)) = Len(q)
         /\ \A i \in DOMAIN q :
              /\ q[i] \in OpenStatuses => ShownOf(q)[i] = "open"
              /\ q[i] \notin OpenStatuses => ShownOf(q)[i] = q[i]
<1>1. DOMAIN q = 1..Len(q) /\ Len(q) \in Nat
  OBVIOUS
<1>2. DOMAIN ShownOf(q) = 1..Len(q)
  BY <1>1 DEF ShownOf
<1>3. ShownOf(q) \in [1..Len(q) -> ChangeStatus \union {"open"}]
  <2>1. \A i \in 1..Len(q) : q[i] \in ChangeStatus
    BY <1>1
  <2> QED BY <1>1, <2>1 DEF ShownOf
<1>4. ShownOf(q) \in Seq(ChangeStatus \union {"open"})
  BY <1>1, <1>3, SeqDef
<1>5. Len(ShownOf(q)) = Len(q)
  BY <1>1, <1>2, <1>4, LenProperties
<1> QED BY <1>1, <1>2, <1>5 DEF ShownOf

(* The apply phase changes each signature as a run of ReviewQueue may.     *)
LEMMA ApplyRuns ==
  ASSUME TypeOK, QueueInv, TypeOK', Apply, NEW s \in Sigs
  PROVE  \/ Shown'[s] = Shown[s]
         \/ Review!Proposed(Shown[s], Shown'[s])
         \/ Review!Closed(Shown[s], Shown'[s], {"superseded"})
<1> DEFINE q == queue[s]
           r == queue'[s]
           n == Len(queue[s])
<1>1. TypeOK /\ Settled /\ Blocked /\ pc # "idle" /\ TypeOK'
  BY DEF QueueInv, Apply
<1>2. q \in Seq(ChangeStatus) /\ r \in Seq(ChangeStatus) /\ n \in Nat /\ DOMAIN q = 1..n
  BY <1>1 DEF TypeOK
<1>3. Shown[s] = ShownOf(q) /\ Shown'[s] = ShownOf(r)
  BY DEF Shown
<1>4. /\ Len(r) = IF s \in Proposed THEN n + 1 ELSE n
      /\ \A i \in 1..n : r[i] = Withdrawn(s, q[i])
      /\ s \in Proposed => r[n + 1] = "pending"
  <2>1. r = QueueAfter(s)
    BY DEF Apply
  <2> QED BY <1>1, <1>2, <2>1, QueueAfterType, Zenon
<1>5. \A i \in 1..n : q[i] \in ChangeStatus
  BY <1>1, <1>2, Lengths
<1>6. \A i \in 1..n : i < n => q[i] \in {"approved", "superseded"}
  BY <1>1, <1>2 DEF Settled
<1> HIDE DEF q, r, n
<1>7. CASE s \in Proposed
  <2>1. \A i \in 1..n : q[i] \in {"approved", "superseded"}
    <3>1. decided[s] \notin Blocking
      BY <1>7 DEF Proposed, Blocking, OpenStatuses
    <3>2. n > 0 => q[n] \notin Blocking
      BY <1>1, <3>1 DEF Blocked, q, n
    <3>3. n > 0 => q[n] \in {"approved", "superseded"}
      BY <1>2, <1>5, <3>2 DEF ChangeStatus, Blocking
    <3> TAKE i \in 1..n
    <3>4. i = n \/ i < n
      BY <1>2
    <3> QED BY <1>2, <1>6, <3>3, <3>4
  <2>2. \A i \in 1..n : r[i] = q[i]
    BY <1>4, <2>1 DEF Withdrawn, OpenStatuses
  <2>3. Len(r) = n + 1 /\ DOMAIN r = 1..(n + 1)
    BY <1>2, <1>4, <1>7
  <2>4. \A i \in 1..n : ShownOf(q)[i] = q[i] /\ ShownOf(r)[i] = q[i]
    <3> TAKE i \in 1..n
    <3>1. i \in DOMAIN q /\ i \in DOMAIN r /\ q[i] \notin OpenStatuses
      BY <1>2, <2>1, <2>3 DEF OpenStatuses
    <3> QED BY <1>2, <2>2, <3>1, ShownOfQueue
  <2>5. ShownOf(r)[n + 1] = "open"
    BY <1>2, <1>4, <1>7, <2>3, ShownOfQueue DEF OpenStatuses
  <2>6. Len(ShownOf(q)) = n /\ Len(ShownOf(r)) = n + 1 /\ DOMAIN ShownOf(q) = 1..n
    BY <1>2, <2>3, ShownOfQueue DEF n, q
  <2>7. Review!Proposed(ShownOf(q), ShownOf(r))
    BY <2>1, <2>4, <2>5, <2>6 DEF Review!Proposed, Review!Reopenable
  <2> QED BY <1>3, <2>7
<1>8. ASSUME s \notin Proposed, s \notin Emitted, n > 0, q[n] \in OpenStatuses
      PROVE  Review!Closed(Shown[s], Shown'[s], {"superseded"})
  <2>1. Len(r) = n /\ DOMAIN r = 1..n /\ n \in 1..n
    BY <1>2, <1>4, <1>8
  <2>2. r[n] = "superseded"
    BY <1>4, <1>8, <2>1 DEF Withdrawn
  <2>3. \A j \in 1..n : j # n => r[j] = q[j] /\ q[j] \notin OpenStatuses
    <3> TAKE j \in 1..n
    <3> HAVE j # n
    <3>1. q[j] \in {"approved", "superseded"}
      BY <1>2, <1>6
    <3> QED BY <1>4, <3>1 DEF Withdrawn, OpenStatuses
  <2>4. ShownOf(q)[n] = "open" /\ ShownOf(r)[n] = "superseded"
    BY <1>2, <1>8, <2>1, <2>2, ShownOfQueue DEF OpenStatuses
  <2>5. \A j \in 1..n : j # n => ShownOf(r)[j] = ShownOf(q)[j]
    BY <1>2, <2>1, <2>3, ShownOfQueue
  <2>6. DOMAIN ShownOf(q) = 1..n /\ DOMAIN ShownOf(r) = 1..n
    BY <1>2, <2>1, ShownOfQueue DEF n, q
  <2> QED BY <1>3, <2>1, <2>4, <2>5, <2>6 DEF Review!Closed
<1>9. ASSUME s \notin Proposed, s \in Emitted \/ n = 0 \/ q[n] \notin OpenStatuses
      PROVE  Shown'[s] = Shown[s]
  <2>1. Len(r) = n /\ DOMAIN r = 1..n
    BY <1>2, <1>4, <1>9
  <2>2. \A j \in 1..n : r[j] = q[j]
    <3> TAKE j \in 1..n
    <3>1. s \in Emitted \/ q[j] \notin OpenStatuses
      <4>1. j = n \/ j < n
        BY <1>2
      <4>2. CASE j < n
        BY <1>6, <4>2 DEF OpenStatuses
      <4> QED BY <1>2, <1>9, <4>1, <4>2
    <3> QED BY <1>4, <3>1 DEF Withdrawn
  <2>3. ShownOf(r) = ShownOf(q)
    BY <1>2, <2>1, <2>2 DEF ShownOf
  <2> QED BY <1>3, <2>3
<1> QED BY <1>2, <1>7, <1>8, <1>9

(* So does a decision. *)
LEMMA CloseDecides ==
  ASSUME TypeOK, QueueInv, TypeOK', NEW s \in Sigs, NEW i, NEW status \in {"approved", "rejected"},
         IsOpen(s, i), Close(s, i, status)
  PROVE  Review!Decide(s)
<1>1. TypeOK /\ TypeOK'
  OBVIOUS
<1>2. \A t \in Sigs : /\ Shown[t] = ShownOf(queue[t]) /\ Shown'[t] = ShownOf(queue'[t])
                      /\ queue[t] \in Seq(ChangeStatus) /\ queue'[t] \in Seq(ChangeStatus)
  BY <1>1 DEF Shown, TypeOK
<1>3. \A t \in Sigs : t # s => queue'[t] = queue[t]
  BY <1>1 DEF Close, TypeOK
<1>4. Review!Closed(Shown[s], Shown'[s], Review!Decisions)
  <2> DEFINE q == queue[s]
             r == queue'[s]
  <2>1. q \in Seq(ChangeStatus) /\ r \in Seq(ChangeStatus)
    BY <1>2
  <2>2. /\ DOMAIN r = DOMAIN q
        /\ \A j \in DOMAIN q : r[j] = IF j = i THEN status ELSE q[j]
    BY <1>1, CloseType
  <2>3. i \in DOMAIN q /\ q[i] \in OpenStatuses
    BY DEF IsOpen
  <2> HIDE DEF q, r
  <2>4. status \in {"approved", "rejected"} /\ status \notin OpenStatuses
    BY DEF OpenStatuses
  <2>5. DOMAIN ShownOf(r) = DOMAIN q /\ DOMAIN ShownOf(q) = DOMAIN q
    BY <2>1, <2>2, ShownOfQueue
  <2>6. ShownOf(q)[i] = "open" /\ ShownOf(r)[i] \in {"approved", "rejected"}
    <3>1. r[i] = status
      BY <2>2, <2>3
    <3> QED BY <2>1, <2>2, <2>3, <2>4, <3>1, ShownOfQueue
  <2>7. \A j \in DOMAIN q : j # i => ShownOf(r)[j] = ShownOf(q)[j]
    <3> TAKE j \in DOMAIN q
    <3> HAVE j # i
    <3>1. r[j] = q[j] /\ j \in DOMAIN r
      BY <2>2
    <3> QED BY <2>1, <3>1, ShownOfQueue
  <2>8. Review!Closed(ShownOf(q), ShownOf(r), Review!Decisions)
    BY <2>3, <2>5, <2>6, <2>7 DEF Review!Closed, Review!Decisions
  <2> QED BY <1>2, <2>8 DEF q, r
<1> QED BY <1>2, <1>3, <1>4 DEF Review!Decide

LEMMA QueueWrites ==
  ASSUME TypeOK, QueueInv, TypeOK', Next
  PROVE  \/ UNCHANGED queue
         \/ Apply
         \/ \E s \in Sigs : Review!Decide(s)
<1>1. ASSUME NEW s \in Sigs, NEW i, NEW n, ApproveLink(s, i, n)
      PROVE  Review!Decide(s)
  BY <1>1, CloseDecides DEF ApproveLink
<1>2. ASSUME NEW s \in Sigs, NEW i, RejectLink(s, i)
      PROVE  Review!Decide(s)
  BY <1>2, CloseDecides DEF RejectLink
<1>3. ReadState \/ Collect \/ Leave => UNCHANGED queue
  BY DEF ReadState, Collect, Leave, dbVars
<1> QED
  BY <1>1, <1>2, <1>3 DEF Next, ChangeNode, ChangeBlock, dbVars

(* The proposals about resources keep what ReviewQueue promises, however   *)
(* nodes and blocks come and go and whatever people decide while a run     *)
(* collects (propose, _open_change).                                       *)
THEOREM ResourcesReviewed == Spec => KeepsThePromise
<1>1. Init => Review!Init
  <2> SUFFICES ASSUME Init PROVE Shown = [s \in Sigs |-> <<>>]
    BY DEF Review!Init
  <2>1. \A s \in Sigs : ShownOf(queue[s]) = <<>>
    BY DEF Init, ShownOf
  <2> QED BY <2>1 DEF Shown
<1>2. TypeOK /\ QueueInv /\ TypeOK' /\ [Next]_vars => [Review!Next]_<<Shown, {}>>
  <2> SUFFICES ASSUME TypeOK, QueueInv, TypeOK', [Next]_vars PROVE [Review!Next]_<<Shown, {}>>
    OBVIOUS
  <2>1. CASE Apply
    BY <2>1, ApplyRuns DEF Review!Next, Review!Run
  <2>2. CASE UNCHANGED queue
    BY <2>2 DEF Shown
  <2>3. CASE UNCHANGED vars
    BY <2>2, <2>3 DEF vars, dbVars
  <2>4. CASE \E s \in Sigs : Review!Decide(s)
    BY <2>4 DEF Review!Next
  <2> QED BY <2>1, <2>2, <2>3, <2>4, QueueWrites
<1> QED BY <1>1, <1>2, QueueInvariant, PTL DEF Spec, KeepsThePromise, Review!Spec
=============================================================================
