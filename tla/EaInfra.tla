------------------------------ MODULE EaInfra ------------------------------
(***************************************************************************)
(* The infrastructure view of the EA Map (app/services/ea/infra/).         *)
(* A run of the sync reads the Terraform repositories, or takes what it    *)
(* knew of them, and rebuilds from all of them together the resources, the *)
(* containers and the links.  A data block refers to something of another  *)
(* stack or repository by its name; when nobody declares that name, the    *)
(* map shows a placeholder.  That a resource is a node of the map is proposed  *)
(* by its name and decided by people.                                      *)
(*                                                                         *)
(* The reads and the commit of the apply phase are one step here; what     *)
(* happens between them is in EaReview.                                    *)
(***************************************************************************)
EXTENDS Naturals, Sequences, FiniteSets

CONSTANTS
  Repos,         \* INFRA_REPOS
  Resources,     \* blocks that Terraform may declare
  Home,          \* the repository of each
  Refs,          \* <<s, t>>: block s refers to t
  ByName,        \* those of them through a data block, that has its name
  Containers,    \* blocks that contain those that refer to them
  Nodes,         \* components and blueprint nodes of the map
  Match,         \* the nodes that the name of a resource may mean
  Nobody,        \* no node, no container, no repository
  MaxProposals,  \* bound: proposals of one signature
  MaxEdits,      \* bound: changes of the nodes
  MaxFlips       \* bound: changes of the Terraform

ASSUME HomeAssumption == Home \in [Resources -> Repos]
ASSUME RefsAssumption ==
  /\ Refs \subseteq Resources \X Resources
  /\ \A p \in Refs : p[1] # p[2]
  /\ ByName \subseteq Refs /\ \A p \in Refs : Home[p[1]] # Home[p[2]] => p \in ByName
ASSUME MatchAssumption == Match \in [Resources -> SUBSET Nodes]
ASSUME NobodyAssumption == Nobody \notin Repos \union Nodes
ASSUME BoundsAssumption == MaxProposals \in Nat /\ MaxEdits \in Nat /\ MaxFlips \in Nat

(* Rows of ea_infra_resources: "<repo>:<stack>:<address>" and              *)
(* "external:<type>:<name>".                                               *)
Own(r) == [name |-> r, external |-> FALSE]
External(r) == [name |-> r, external |-> TRUE]
Ids == [name : Resources, external : BOOLEAN]
NoParent == [name |-> Nobody, external |-> FALSE]

(* Signatures of the proposals: "<resource>><node>". *)
Sigs == [res : Resources, node : Nodes]
OpenStatuses == {"pending"}
ChangeStatus == {"pending", "approved", "rejected", "superseded"}

VARIABLES
  tf,       \* the blocks that the default branches declare
  node,     \* status of the nodes of the map
  row,      \* ea_infra_resources
  links,    \* ea_infra_links
  queue,    \* the infra proposals of ea_changes, by signature, oldest first
  snap,     \* the extracts of ea_repo_snapshots: repositories and blocks
  pc,       \* phase of the run
  decided,  \* _State.decided
  facts,    \* InfraCollected.extracts
  edits, flips

dbVars  == <<node, row, links, queue, snap>>
runVars == <<pc, decided, facts>>
vars    == <<tf, dbVars, runVars, edits, flips>>

Unknown == [repos |-> {}, blocks |-> {}]
NoRow == [status |-> "none", repo |-> Nobody, parent |-> NoParent, ea_node_id |-> Nobody]
Undecided == [s \in Sigs |-> "none"]

Init ==
  /\ tf \in SUBSET Resources
  /\ node \in [Nodes -> {"none", "active"}]
  /\ row = [x \in Ids |-> NoRow]
  /\ links = {}
  /\ queue = [s \in Sigs |-> <<>>]
  /\ snap = Unknown
  /\ pc = "idle"
  /\ decided = Undecided
  /\ facts = Unknown
  /\ edits = 0 /\ flips = 0

-----------------------------------------------------------------------------
(* The run *)

(* Status of the last proposal of a signature that was not withdrawn. *)
LastDecision(q) ==
  LET Last(i) == /\ q[i] # "superseded"
                 /\ \A j \in DOMAIN q : j > i => q[j] = "superseded"
  IN  IF \E i \in DOMAIN q : Last(i) THEN q[CHOOSE i \in DOMAIN q : Last(i)] ELSE "none"

ReadState ==
  /\ pc = "idle"
  /\ pc' = "collecting"
  /\ decided' = [s \in Sigs |-> LastDecision(queue[s])]
  /\ UNCHANGED <<tf, dbVars, facts, edits, flips>>

(* Fault: a repository that cannot be read is left out. *)
Extracts_Fresh(fresh) ==
  [repos |-> fresh, blocks |-> {r \in tf : Home[r] \in fresh}]

(* What is read now, and the snapshots of the repositories that are out of *)
(* sight, that fail, or that were not pushed to.                           *)
Extracts(fresh) ==
  [repos  |-> snap.repos \union fresh,
   blocks |-> {r \in tf : Home[r] \in fresh} \union {r \in snap.blocks : Home[r] \notin fresh}]

(* collect *)
Collect ==
  /\ pc = "collecting"
  /\ \E fresh \in SUBSET Repos : facts' = Extracts(fresh)
  /\ pc' = "collected"
  /\ UNCHANGED <<tf, dbVars, decided, edits, flips>>

(* build: the references that resolve, and to what.  A name that nobody    *)
(* declares becomes a placeholder, if it is the name of a data block.      *)
Resolved(s, t) ==
  /\ <<s, t>> \in Refs
  /\ s \in facts.blocks
  /\ t \in facts.blocks \/ <<s, t>> \in ByName
Target(t) == IF t \in facts.blocks THEN Own(t) ELSE External(t)
Referrers(t) == {s \in facts.blocks : Resolved(s, t)}

Graph == {Own(r) : r \in facts.blocks}
           \union {Target(t) : t \in {t \in Resources : Referrers(t) # {}}}

RepoOf(x) ==
  IF x.external THEN Home[CHOOSE s \in Referrers(x.name) : TRUE] ELSE Home[x.name]

(* _link: the container, or an arrow. *)
ParentOf(x) ==
  LET around == {t \in Containers : ~x.external /\ Resolved(x.name, t)}
  IN  IF around = {} THEN NoParent ELSE Target(CHOOSE t \in around : TRUE)
Arrows ==
  {<<Own(p[1]), Target(p[2])>> :
     p \in {q \in Refs : Resolved(q[1], q[2]) /\ q[2] \notin Containers}}

(* Fault: the links are added to those there were. *)
LinksAfter_Kept == links \union Arrows

(* "links are pure Terraform facts: rebuilt every time". *)
LinksAfter == Arrows

(* Fault: a row that comes back is a new row. *)
RowAfter_Fresh(x) ==
  IF x \in Graph
  THEN [status |-> "active", repo |-> RepoOf(x), parent |-> ParentOf(x),
        ea_node_id |-> IF row[x].status = "active" THEN row[x].ea_node_id ELSE Nobody]
  ELSE IF row[x].status = "active" /\ row[x].repo \in facts.repos
       THEN [row[x] EXCEPT !.status = "removed"] ELSE row[x]

(* apply: rows are added, updated and reactivated; those that are gone are *)
(* removed, unless their repository was never read.                        *)
RowAfter(x) ==
  IF x \in Graph
  THEN [row[x] EXCEPT !.status = "active", !.repo = RepoOf(x), !.parent = ParentOf(x)]
  ELSE IF row[x].status = "active" /\ row[x].repo \in facts.repos
       THEN [row[x] EXCEPT !.status = "removed"] ELSE row[x]

(* _match_component: the node that the name means, among the active ones. *)
Meant(r) == {n \in Match[r] : node[n] = "active"}
Hit(r) == CHOOSE n \in Meant(r) : TRUE

(* Fault: resources that have a node are matched as well. *)
Emitted_Linked == {[res |-> r, node |-> Hit(r)] : r \in {q \in facts.blocks : Meant(q) # {}}}

Emitted == {[res |-> r, node |-> Hit(r)] :
              r \in {q \in facts.blocks : Meant(q) # {} /\ row[Own(q)].ea_node_id = Nobody}}

(* Fault: what a person refused is proposed again. *)
Proposed_Rejected == {s \in Emitted : decided[s] # "pending"}

(* propose: nothing that is queued, or that a person refused. *)
Proposed == {s \in Emitted : decided[s] \notin {"pending", "rejected"}}

(* An open proposal that this run does not make. *)
Withdrawn(s, status) ==
  IF s \notin Emitted /\ status \in OpenStatuses THEN "superseded" ELSE status

QueueAfter(s) ==
  LET old == [i \in DOMAIN queue[s] |-> Withdrawn(s, queue[s][i])]
  IN  IF s \in Proposed THEN Append(old, "pending") ELSE old

Over ==
  /\ pc' = "idle"
  /\ decided' = Undecided
  /\ facts' = Unknown

Apply ==
  /\ pc = "collected"
  /\ facts.repos # {}
  /\ \A s \in Proposed : Len(queue[s]) < MaxProposals    \* bound
  /\ row' = [x \in Ids |-> RowAfter(x)]
  /\ links' = LinksAfter
  /\ queue' = [s \in Sigs |-> QueueAfter(s)]
  /\ snap' = facts
  /\ Over
  /\ UNCHANGED <<tf, node, edits, flips>>

(* No repository was ever read, an exception, or a crash. *)
Leave ==
  /\ pc # "idle"
  /\ Over
  /\ UNCHANGED <<tf, dbVars, edits, flips>>

-----------------------------------------------------------------------------
(* Requests of people *)

IsOpen(s, i) == i \in DOMAIN queue[s] /\ queue[s][i] \in OpenStatuses
Close(s, i, status) == queue' = [queue EXCEPT ![s][i] = status]

(* _apply (review.py): the resource becomes the node of the proposal, or   *)
(* one that the person chooses.                                            *)
ApproveLink(s, i, n) ==
  /\ IsOpen(s, i)
  /\ row[Own(s.res)].status = "active"    \* otherwise 409
  /\ node[n] # "none"                     \* otherwise 409
  /\ row' = [row EXCEPT ![Own(s.res)].ea_node_id = n]
  /\ Close(s, i, "approved")
  /\ UNCHANGED <<tf, node, links, snap, runVars, edits, flips>>

RejectLink(s, i) ==
  /\ IsOpen(s, i)
  /\ Close(s, i, "rejected")
  /\ UNCHANGED <<tf, node, row, links, snap, runVars, edits, flips>>

(* A node is added to the map, archived, or put back. *)
ChangeNode(n) ==
  /\ edits < MaxEdits
  /\ edits' = edits + 1
  /\ node' = [node EXCEPT ![n] = IF @ = "active" THEN "archived" ELSE "active"]
  /\ UNCHANGED <<tf, row, links, queue, snap, runVars, flips>>

(* A push that adds or deletes a block. *)
ChangeBlock(r) ==
  /\ flips < MaxFlips
  /\ flips' = flips + 1
  /\ tf' = IF r \in tf THEN tf \ {r} ELSE tf \union {r}
  /\ UNCHANGED <<dbVars, runVars, edits>>

Next ==
  \/ ReadState \/ Collect \/ Apply \/ Leave
  \/ \E s \in Sigs, i \in 1..MaxProposals :
       \/ \E n \in Nodes : ApproveLink(s, i, n)
       \/ RejectLink(s, i)
  \/ \E n \in Nodes : ChangeNode(n)
  \/ \E r \in Resources : ChangeBlock(r)

Spec == Init /\ [][Next]_vars

-----------------------------------------------------------------------------
(* Properties *)

Row == [status : {"none", "active", "removed"}, repo : Repos \union {Nobody},
        parent : Ids \union {NoParent}, ea_node_id : Nodes \union {Nobody}]
Extract == [repos : SUBSET Repos, blocks : SUBSET Resources]

TypeOK ==
  /\ tf \in SUBSET Resources
  /\ node \in [Nodes -> {"none", "active", "archived"}]
  /\ row \in [Ids -> Row]
  /\ links \in SUBSET (Ids \X Ids)
  /\ queue \in [Sigs -> Seq(ChangeStatus)]
  /\ snap \in Extract /\ facts \in Extract
  /\ pc \in {"idle", "collecting", "collected"}
  /\ decided \in [Sigs -> {"none", "pending", "approved", "rejected"}]
  /\ edits \in Nat /\ flips \in Nat

Active(x) == row[x].status = "active"

(* The view never draws an arrow to, or a resource inside, something that  *)
(* is no longer on it, however repositories come, go and fail to be read   *)
(* (rows are removed one by one, links are rebuilt as a whole).            *)
NothingDangles ==
  /\ \A l \in links : Active(l[1]) /\ Active(l[2])
  /\ \A x \in Ids : Active(x) /\ row[x].parent # NoParent => Active(row[x].parent)

(* A placeholder stands for a resource only while no repository declares   *)
(* it: the view never shows both.                                          *)
PlaceholdersGoAway ==
  \A r \in Resources : ~(Active(Own(r)) /\ Active(External(r)))

(* "only ea_node_id is a human decision" (EaInfraResource): the node of a  *)
(* resource changes when a person approves a proposal, and survives        *)
(* whatever the Terraform does, the resource going and coming back too.    *)
NodesBelongToPeople ==
  [][\A x \in Ids : row'[x].ea_node_id # row[x].ea_node_id
        => pc' = pc /\ \E s \in Sigs : s.res = x.name /\ queue'[s] # queue[s]]_vars

(* Whatever nodes are archived and restored between the runs, a resource   *)
(* has at most one open proposal: approving all of the queue never         *)
(* replaces one approval by another.                                       *)
OneOpenPerResource ==
  \A r \in Resources : \A m, n \in Nodes :
     LET s == [res |-> r, node |-> m]
         t == [res |-> r, node |-> n]
     IN  \A i \in DOMAIN queue[s], j \in DOMAIN queue[t] :
           IsOpen(s, i) /\ IsOpen(t, j) => m = n /\ i = j

(* After a run, the open proposals are exactly the resources that carry a  *)
(* name of the map and have no node yet, less those that people decided,   *)
(* also while the run was collecting.                                      *)
InfraQueueExact ==
  [][Apply => \A s \in Sigs :
       (\E i \in DOMAIN queue'[s] : queue'[s][i] = "pending") <=>
         /\ s.res \in facts.blocks
         /\ row'[Own(s.res)].ea_node_id = Nobody
         /\ Meant(s.res) # {} /\ s.node = Hit(s.res)
         /\ \A i \in DOMAIN queue[s] : queue[s][i] # "rejected"]_vars

(* The queue as ReviewQueue sees it: whether a proposal is open, or how it *)
(* ended.                                                                  *)
ShownOf(q) == [i \in DOMAIN q |-> IF q[i] \in OpenStatuses THEN "open" ELSE q[i]]
Shown == [s \in Sigs |-> ShownOf(queue[s])]
Review == INSTANCE ReviewQueue
            WITH Subjects <- Sigs, queue <- Shown, contended <- {}

(* The proposals about resources keep the promise of ReviewQueue: at most one  *)
(* is open for a subject, nothing that a person refused is proposed again, *)
(* and no decision is ever taken back, whatever runs and requests do.      *)
KeepsThePromise == Review!Spec
=============================================================================
