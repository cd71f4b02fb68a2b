------------------------------ MODULE EaNodes ------------------------------
(***************************************************************************)
(* The nodes of the EA Map (ea_nodes) and the proposals about them: new    *)
(* repositories, components to archive, datasets of the data contracts     *)
(* (app/services/ea/sync/engine.py), their review (sync/review.py) and the *)
(* corrections people make to nodes (ea/edit.py).                          *)
(*                                                                         *)
(* One run at a time, and database transactions that do not overlap:       *)
(* EaReview is about those.  What a run does across its transactions is    *)
(* here: the rows of the components are loaded before the collect and stay *)
(* in the session (expire_on_commit=False), so the apply phase, whose      *)
(* query only selects the components that are active by then, still sees   *)
(* their old columns.  Rows of datasets are loaded by the apply phase.     *)
(*                                                                         *)
(* Versions number what a source says of a node; 0 stands for nothing.     *)
(* Every live repository has been pushed to lately, is no fork and belongs *)
(* to a team of the map: what makes others no candidates is left out.      *)
(***************************************************************************)
EXTENDS Integers, Sequences

CONSTANTS
  Comps,         \* repositories, which are or may become components
  Perimeter,     \* those whose name is in the perimeter of the map
  Private,       \* those that are private: the token may not see them
  Products,
  Datasets,
  NoParent,
  MaxVersion,    \* bound: versions of a source
  MaxProposals,  \* bound: proposals made for one signature
  MaxEdits,      \* bound: corrections people make
  MaxFlips       \* bound: changes of the sources

ASSUME KindsAssumption ==
  /\ Perimeter \subseteq Comps /\ Private \subseteq Comps
  /\ Comps \intersect Datasets = {} /\ Comps \intersect Products = {}
  /\ Datasets \intersect Products = {} /\ NoParent \notin Products
ASSUME BoundsAssumption ==
  /\ MaxVersion \in Nat \ {0} /\ MaxProposals \in Nat
  /\ MaxEdits \in Nat /\ MaxFlips \in Nat

Nodes == Comps \union Products \union Datasets
(* The signature (entity, op, target) of a proposal about a node. *)
Sigs  == [op : {"add"}, node : Comps] \union [op : {"update"}, node : Nodes]

OpenStatuses == {"pending"}
Decisions    == {"approved", "rejected"}
ChangeStatus == OpenStatuses \union Decisions \union {"superseded"}
NodeStatus   == {"none", "active", "archived"}
NodeSource   == {"curated", "sync", "manual"}
RepoState    == {"absent", "live", "archived"}
Versions     == 0..MaxVersion

VARIABLES
  repo,     \* the repositories on GitHub
  content,  \* what the repositories and the contracts say now
  node,     \* ea_nodes
  queue,    \* ea_changes by signature, in order of creation
  snap,     \* what is known of each source (ea_repo_snapshots)
  pc,       \* phase of the run
  decided,  \* _State.decided
  mem,      \* the component rows loaded by _read_state
  listing,  \* the census: the state of each repository
  facts,    \* what the run knows of each source
  edits, flips

dbVars  == <<node, queue, snap>>
runVars == <<pc, decided, mem, listing, facts>>
vars    == <<repo, content, dbVars, runVars, edits, flips>>

(* attrs: what the source said; choice: what a person said, 0 nothing (the *)
(* type of a component, the overrides of a dataset; both in the column     *)
(* attrs); text: name and description, 0 if a person wrote them.           *)
NoNode == [status |-> "none", source |-> "curated", verified |-> FALSE,
           parent |-> NoParent, attrs |-> 0, choice |-> 0, text |-> 0]
Imported(p) == [NoNode EXCEPT !.status = "active", !.parent = p]
Nothing == [n \in Nodes |-> 0]

(* The import of the map: some components with their product, the products *)
(* and nothing of the Data Lake.                                           *)
Init ==
  /\ repo \in [Comps -> {"absent", "live"}]
  /\ content = [n \in Nodes |-> IF n \in Products THEN 0 ELSE 1]
  /\ \E known \in SUBSET Comps, parent \in [Comps -> Products] :
       node = [n \in Nodes |-> CASE n \in Products -> Imported(NoParent)
                                 [] n \in known    -> Imported(parent[n])
                                 [] OTHER          -> NoNode]
  /\ queue = [s \in Sigs |-> <<>>]
  /\ snap = Nothing
  /\ pc = "idle"
  /\ decided = [s \in Sigs |-> "none"]
  /\ mem = [n \in Nodes |-> NoNode]
  /\ listing = [c \in Comps |-> "absent"]
  /\ facts = Nothing
  /\ edits = 0 /\ flips = 0

-----------------------------------------------------------------------------
(* The run *)

(* Status of the last proposal of a signature that counts as a decision. *)
LastDecision(q) ==
  LET Last(i) == /\ q[i].status # "superseded"
                 /\ \A j \in DOMAIN q : j > i => q[j].status = "superseded"
  IN  IF \E i \in DOMAIN q : Last(i)
      THEN q[CHOOSE i \in DOMAIN q : Last(i)].status ELSE "none"

(* _read_state *)
ReadState ==
  /\ pc = "idle"
  /\ pc' = "collecting"
  /\ decided' = [s \in Sigs |-> LastDecision(queue[s])]
  /\ mem' = [n \in Nodes |-> IF n \in Comps THEN node[n] ELSE NoNode]
  /\ UNCHANGED <<repo, content, dbVars, listing, facts, edits, flips>>

(* _is_candidate *)
Candidate(seen, c) ==
  /\ mem[c].status = "none"
  /\ seen[c] = "live" /\ c \in Perimeter
  /\ decided[[op |-> "add", node |-> c]] \notin Decisions
Target(seen, c) ==
  \/ mem[c].status = "active" /\ seen[c] = "live"
  \/ Candidate(seen, c)

(* _collect: the census, then the repositories and the contracts; a source *)
(* that cannot be read is known by its snapshot.                           *)
Collect ==
  /\ pc = "collecting"
  /\ \E hidden \in SUBSET Private, read \in SUBSET (Comps \union Datasets) :
       LET seen == [c \in Comps |-> IF c \in hidden THEN "absent" ELSE repo[c]]
       IN  /\ Datasets \subseteq read \/ Datasets \intersect read = {}
           /\ listing' = seen
           /\ facts' = [n \in Nodes |->
                CASE n \in Products                    -> 0
                  [] n \in Comps /\ ~Target(seen, n)   -> 0
                  [] n \in read                        -> content[n]
                  [] OTHER                             -> snap[n]]
  /\ pc' = "collected"
  /\ UNCHANGED <<repo, content, dbVars, decided, mem, edits, flips>>

Active == {c \in Comps : node[c].status = "active"}

(* The columns of a component that the apply phase sees. *)
Row(c) == IF mem[c].status = "none" THEN node[c] ELSE mem[c]

(* _apply_component: when an observed attribute has changed, the column    *)
(* attrs is written whole.                                                 *)
Observed(c) ==
  IF c \in Active /\ facts[c] # 0 /\ Row(c).attrs # facts[c]
  THEN [node[c] EXCEPT !.attrs = facts[c], !.choice = Row(c).choice]
  ELSE node[c]

(* Faults: a dataset that is no longer declared is archived; corrections   *)
(* are replaced by what the contract says.                                 *)
Declared_Archives(d) ==
  IF facts[d] # 0 THEN [node[d] EXCEPT !.status = "active", !.attrs = facts[d]]
  ELSE IF node[d].status = "active" THEN [node[d] EXCEPT !.status = "archived"]
  ELSE node[d]
Declared_Overwrites(d) ==
  IF facts[d] = 0 THEN node[d]
  ELSE [node[d] EXCEPT !.status = "active", !.attrs = facts[d],
                       !.choice = 0, !.text = facts[d]]

(* _apply_data_lake: content is applied at once; overrides stay, and so do *)
(* the name and description of a dataset that a person verified.           *)
Declared(d) ==
  CASE facts[d] = 0 -> node[d]
    [] facts[d] # 0 /\ node[d].status = "none" ->
         [NoNode EXCEPT !.status = "active", !.source = "sync",
                        !.attrs = facts[d], !.text = facts[d]]
    [] OTHER ->
         [node[d] EXCEPT !.status = "active", !.attrs = facts[d],
                         !.text = IF node[d].verified THEN @ ELSE facts[d]]

NodesAfter ==
  [n \in Nodes |-> CASE n \in Comps    -> Observed(n)
                     [] n \in Datasets -> Declared(n)
                     [] OTHER          -> node[n]]

(* Repositories archived or gone; one that the map knows to be private may *)
(* only be out of sight.                                                   *)
KnownPrivate(c, row) == c \in Private /\ row.source # "manual"
Gone == {c \in Active : \/ listing[c] = "archived"
                        \/ listing[c] = "absent" /\ ~KnownPrivate(c, Row(c))}

(* _propose_out_of_perimeter: components, and the products they leave      *)
(* empty.                                                                  *)
Out == {c \in Active \ Perimeter : Row(c).source # "manual"}
Inside(p) == {c \in Active : Row(c).parent = p}
Emptied == {p \in Products : Inside(p) # {} /\ Inside(p) \subseteq Out}

New == {c \in Comps : Candidate(listing, c) /\ facts[c] # 0}

Undeclared == {d \in Datasets : node[d].status = "active" /\ facts[d] = 0}

Emitted ==
  [op : {"add"}, node : New]
    \union [op : {"update"}, node : Gone \union Out \union Emptied \union Undeclared]

(* Fault: a rejection is forgotten. *)
Proposed_Rejected == {s \in Emitted : decided[s] \notin OpenStatuses}

(* propose: nothing that is queued, or that a person refused. *)
Proposed == {s \in Emitted : decided[s] \notin OpenStatuses \union {"rejected"}}

(* Fault: nothing is withdrawn. *)
Withdrawn_Never(s, status) == status

(* An open proposal of an earlier run that this one does not make. *)
Withdrawn(s, status) ==
  IF s \notin Emitted /\ status \in OpenStatuses THEN "superseded" ELSE status

QueueAfter(s) ==
  LET old == [i \in DOMAIN queue[s] |->
                [queue[s][i] EXCEPT !.status = Withdrawn(s, @)]]
  IN  IF s \in Proposed
      THEN Append(old, [status |-> "pending",
                        attrs |-> IF s.op = "add" THEN facts[s.node] ELSE 0])
      ELSE old

Over ==
  /\ pc' = "idle"
  /\ decided' = [s \in Sigs |-> "none"]
  /\ mem' = [n \in Nodes |-> NoNode]
  /\ listing' = [c \in Comps |-> "absent"]
  /\ facts' = Nothing

(* _apply and its commit. *)
Apply ==
  /\ pc = "collected"
  /\ \A s \in Proposed : Len(queue[s]) < MaxProposals    \* bound
  /\ node' = NodesAfter
  /\ queue' = [s \in Sigs |-> QueueAfter(s)]
  /\ snap' = [n \in Nodes |-> IF facts[n] # 0 \/ n \in Datasets THEN facts[n] ELSE snap[n]]
  /\ Over
  /\ UNCHANGED <<repo, content, edits, flips>>

(* An exception in any phase, or a crash: nothing is written. *)
Fail ==
  /\ pc # "idle"
  /\ Over
  /\ UNCHANGED <<repo, content, dbVars, edits, flips>>

-----------------------------------------------------------------------------
(* Requests of people *)

IsOpen(s, i) == i \in DOMAIN queue[s] /\ queue[s][i].status \in OpenStatuses
Close(s, i, status) == queue' = [queue EXCEPT ![s][i].status = status]

(* _approve_node_add, in the product the person chooses. *)
ApproveAdd(c, i, p) ==
  LET s == [op |-> "add", node |-> c] IN
  /\ IsOpen(s, i)
  /\ node[c].status = "none"     \* otherwise 409
  /\ node' = [node EXCEPT ![c] = [status |-> "active", source |-> "sync",
                                  verified |-> TRUE, parent |-> p, text |-> 0,
                                  attrs |-> queue[s][i].attrs, choice |-> 1]]
  /\ Close(s, i, "approved")
  /\ UNCHANGED <<repo, content, snap, runVars, edits, flips>>

(* _apply (review.py) *)
ApproveArchive(n, i) ==
  LET s == [op |-> "update", node |-> n] IN
  /\ IsOpen(s, i)
  /\ node' = [node EXCEPT ![n].status = "archived", ![n].verified = TRUE]
  /\ Close(s, i, "approved")
  /\ UNCHANGED <<repo, content, snap, runVars, edits, flips>>

(* _apply_rejection *)
Reject(s, i) ==
  /\ IsOpen(s, i)
  /\ Close(s, i, "rejected")
  /\ UNCHANGED <<repo, content, node, snap, runVars, edits, flips>>

Edit(n, row) ==
  /\ edits < MaxEdits
  /\ edits' = edits + 1
  /\ node' = [node EXCEPT ![n] = row]
  /\ UNCHANGED <<repo, content, queue, snap, runVars, flips>>

(* update_node: the type of a component, its product, the links and layer  *)
(* of a dataset (which leave it unverified), its name and description.     *)
SetType(c, choice) ==
  /\ node[c].status # "none"
  /\ Edit(c, [node[c] EXCEPT !.choice = choice, !.verified = TRUE])
Move(c, p) ==
  /\ node[c].status # "none"
  /\ Edit(c, [node[c] EXCEPT !.parent = p, !.verified = TRUE])
Override(d, choice) ==
  /\ node[d].status # "none"
  /\ Edit(d, [node[d] EXCEPT !.choice = choice])
Rename(d) ==
  /\ node[d].status # "none"
  /\ Edit(d, [node[d] EXCEPT !.text = 0, !.verified = TRUE])

(* create_node: it never says that the repository is private. *)
CreateNode(c, p) ==
  /\ node[c].status = "none"
  /\ Edit(c, [Imported(p) EXCEPT !.source = "manual", !.verified = TRUE, !.choice = 1])

-----------------------------------------------------------------------------
(* GitHub *)

Flip ==
  /\ flips < MaxFlips
  /\ flips' = flips + 1
  /\ UNCHANGED <<dbVars, runVars, edits>>

RepoChange(c) ==
  /\ Flip
  /\ \E state \in RepoState \ {repo[c]} : repo' = [repo EXCEPT ![c] = state]
  /\ UNCHANGED content

(* A push to a repository, or a contract that is changed, added, removed. *)
ContentChange(n) ==
  /\ Flip
  /\ \E v \in (IF n \in Datasets THEN Versions ELSE 1..MaxVersion) \ {content[n]} :
       content' = [content EXCEPT ![n] = v]
  /\ UNCHANGED repo

Next ==
  \/ ReadState \/ Collect \/ Apply \/ Fail
  \/ \E i \in 1..MaxProposals :
       \/ \E c \in Comps, p \in Products : ApproveAdd(c, i, p)
       \/ \E n \in Nodes : ApproveArchive(n, i)
       \/ \E s \in Sigs : Reject(s, i)
  \/ \E c \in Comps, choice \in {0, 1} : SetType(c, choice)
  \/ \E c \in Comps, p \in Products : Move(c, p) \/ CreateNode(c, p)
  \/ \E d \in Datasets, choice \in {0, 1} : Override(d, choice)
  \/ \E d \in Datasets : Rename(d)
  \/ \E c \in Comps : RepoChange(c)
  \/ \E n \in Comps \union Datasets : ContentChange(n)

Spec == Init /\ [][Next]_vars

-----------------------------------------------------------------------------
(* Properties *)

NodeRow == [status : NodeStatus, source : NodeSource, verified : BOOLEAN,
            parent : Products \union {NoParent}, attrs : Versions,
            choice : {0, 1}, text : Versions]
Change == [status : ChangeStatus, attrs : Versions]

(* Types of the tables and of the state of a run. *)
TypeOK ==
  /\ repo \in [Comps -> RepoState]
  /\ content \in [Nodes -> Versions]
  /\ node \in [Nodes -> NodeRow]
  /\ queue \in [Sigs -> Seq(Change)]
  /\ \A s \in Sigs : Len(queue[s]) <= MaxProposals
  /\ snap \in [Nodes -> Versions]
  /\ pc \in {"idle", "collecting", "collected"}
  /\ decided \in [Sigs -> OpenStatuses \union Decisions \union {"none"}]
  /\ mem \in [Nodes -> NodeRow]
  /\ listing \in [Comps -> RepoState]
  /\ facts \in [Nodes -> Versions]
  /\ edits \in 0..MaxEdits
  /\ flips \in 0..MaxFlips

(* "The sync never changes what people own: ... component types ..."       *)
(* (engine.py): the type a person chose survives every run.                *)
TypesKept ==
  [][edits' = edits =>
       \A c \in Comps : node[c].status # "none" => node'[c].choice = node[c].choice]_vars

(* Corrections of a dataset are kept by every run ("conservate dalle sync  *)
(* successive", README.md), and so are the name and description of one     *)
(* that a person verified: _apply_data_lake.                               *)
CorrectionsKept ==
  [][edits' = edits =>
       \A d \in Datasets : node[d].status # "none" =>
         /\ node'[d].choice = node[d].choice
         /\ node[d].verified => node'[d].text = node[d].text]_vars

(* No run takes a node off the map: only the approval of a proposal does   *)
(* (structural changes go through review).                                 *)
ArchivedByPeople ==
  [][\A n \in Nodes :
       node[n].status = "active" /\ node'[n].status # "active" =>
         \E i \in 1..MaxProposals :
           LET s == [op |-> "update", node |-> n] IN
           IsOpen(s, i) /\ queue'[s][i].status = "approved"]_vars

(* "a rejection keeps them for good" (_propose_out_of_perimeter): what a   *)
(* person refused is never queued again, for new nodes as for archiving.   *)
RejectedForGood ==
  \A s \in Sigs : \A i, j \in DOMAIN queue[s] :
    i < j => queue[s][i].status # "rejected"

(* What a run should have people decide about a node, from what GitHub and *)
(* the contracts say and from the map: a repository to add, a component    *)
(* that is archived, gone or outside the perimeter, a product all of whose *)
(* components are outside, a dataset that no contract declares.            *)
Outside(c) == c \notin Perimeter /\ node[c].source # "manual"
Vanished(c) ==
  listing[c] = "archived" \/ (listing[c] = "absent" /\ ~KnownPrivate(c, node[c]))
Components(p) == {c \in Active : node[c].parent = p}
Due(s) ==
  LET n == s.node IN
  \/ /\ s.op = "add" /\ node[n].status = "none"
     /\ listing[n] = "live" /\ n \in Perimeter /\ facts[n] # 0
  \/ s.op = "update" /\ n \in Active /\ (Vanished(n) \/ Outside(n))
  \/ /\ s.op = "update" /\ n \in Products /\ Components(n) # {}
     /\ \A c \in Components(n) : Outside(c)
  \/ s.op = "update" /\ n \in Datasets /\ node[n].status = "active" /\ facts[n] = 0

(* What a person did during the run and it cannot know: a repository put   *)
(* on the map by hand, a component moved from or to a product.             *)
ByHand(c) == mem[c].status = "none" /\ node[c].status # "none" /\ node[c].source = "manual"
Moved(p) == \E c \in Active : Row(c).parent # node[c].parent /\ p \in {Row(c).parent, node[c].parent}
Unseen(s) == (s.op = "add" /\ ByHand(s.node)) \/ (s.node \in Products /\ Moved(s.node))

(* After a run the open proposals about nodes are exactly the differences  *)
(* that nobody has decided: none is left open that the sources no longer   *)
(* justify, none is missing, whatever people decided or corrected during   *)
(* the run, but for what the run cannot know.                              *)
NodeQueueExact ==
  [][Apply => \A s \in Sigs : ~Unseen(s) =>
       LET open == \E i \in DOMAIN queue'[s] : queue'[s][i].status \in OpenStatuses
       IN  /\ open => Due(s)
           /\ Due(s) /\ ~open =>
                \E i \in DOMAIN queue[s] : queue[s][i].status \in Decisions]_vars

(* The queue as ReviewQueue sees it: whether a proposal is open, or how it *)
(* ended.                                                                  *)
ShownOf(q) == [i \in DOMAIN q |-> IF q[i].status \in OpenStatuses THEN "open" ELSE q[i].status]
Shown == [s \in Sigs |-> ShownOf(queue[s])]
Review == INSTANCE ReviewQueue
            WITH Subjects <- Sigs, queue <- Shown, contended <- {}

(* The proposals about nodes keep the promise of ReviewQueue: at most one  *)
(* is open for a subject, nothing that a person refused is proposed again, *)
(* and no decision is ever taken back, whatever runs and requests do.      *)
KeepsThePromise == Review!Spec
=============================================================================
