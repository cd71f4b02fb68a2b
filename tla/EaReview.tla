------------------------------ MODULE EaReview ------------------------------
(***************************************************************************)
(* The links of the EA Map and the queue of proposals about them: the sync *)
(* (app/services/ea/sync/engine.py), the review of its proposals           *)
(* (sync/review.py) and the corrections people make (ea/edit.py), all on   *)
(* the tables ea_edges and ea_changes.                                     *)
(*                                                                         *)
(* A sync reads which proposals were already decided, spends minutes       *)
(* collecting facts from GitHub with no transaction open, then reads the   *)
(* links and writes its outcome in one transaction.  A request of a person *)
(* reads the rows it needs, checks them, and writes at its commit.  Rows   *)
(* are never locked and carry no version, so a commit writes the columns   *)
(* it has assigned a new value, whatever happened to the row in between.   *)
(*                                                                         *)
(* A key stands for one (from, to, type).  Helm keys start from a          *)
(* component and are declared by its repository; contract keys link        *)
(* datasets and are declared by the data contracts.                        *)
(***************************************************************************)
EXTENDS Integers, Sequences, FiniteSets

CONSTANTS
  HelmKeys,      \* records [from, to, type]
  ContractKeys,  \* records [from, to, type]
  Workers,       \* sync runs that may be executing
  People,        \* people with a request in progress
  MaxProposals,  \* bound: proposals made for one signature
  MaxChanges,    \* bound: proposals made in all
  MaxEdits       \* bound: corrections people make

ASSUME KeysAssumption == HelmKeys \intersect ContractKeys = {}
ASSUME BoundsAssumption == MaxProposals \in Nat /\ MaxChanges \in Nat /\ MaxEdits \in Nat

Keys  == HelmKeys \union ContractKeys
Froms == {k.from : k \in Keys}
Comps == {k.from : k \in HelmKeys}
SamePair(k, l) == k.from = l.from /\ k.to = l.to

(* The signature (entity, op, target) that identifies a proposal. *)
Sigs == [op : {"add", "remove"}, key : Keys]

OpenStatuses  == {"pending", "conflict"}
LiveStatuses  == OpenStatuses \union {"rejected"}     \* never proposed again
KeptStatuses  == LiveStatuses \union {"approved"}     \* read as decisions
PeoplesStatuses == {"approved", "rejected"}
ChangeStatus  == KeptStatuses \union {"superseded"}
EditableStatuses == {"active", "verified"}
EdgeStatus    == {"none", "active", "verified", "removed", "rejected"}
EdgeOrigin    == {"helm", "contract", "manual"}

VARIABLES
  edge,      \* ea_edges by key: status ("none": no row), origin, and whether
             \* a person is recorded on it (verified_by, verified_at)
  queue,     \* ea_changes by signature, in order of creation: their statuses
  wpc,       \* phase of a sync
  decided,   \* _State.decided, read before the collect
  facts,     \* what the collect found: sources it knows, links they declare
  view,      \* the links and open proposals read by the apply phase
  req,       \* the request of a person between its reads and its commit
  edits,
  others,    \* history: what other runs have proposed since a run began
  lost       \* history: signatures whose proposals two writers, each of
             \* whom had read them before, have written

dbVars   == <<edge, queue>>
syncVars == <<wpc, decided, facts, view>>
seenVars == <<others, lost>>
vars     == <<edge, queue, syncVars, req, edits, seenVars>>

NoFacts == [read |-> {}, contracts |-> FALSE, links |-> {}, guessed |-> {}]
NoView  == [edge |-> [k \in Keys |-> "none"], origin |-> [k \in Keys |-> "helm"],
            open |-> {}]
NoReq   == [kind |-> "none"]

NoEdge == [status |-> "none", origin |-> "helm", person |-> FALSE]
Imported(k) == [status |-> "active", person |-> FALSE,
                origin |-> IF k \in HelmKeys THEN "helm" ELSE "contract"]

Init ==
  /\ edge \in {e \in [Keys -> {NoEdge} \union {Imported(k) : k \in Keys}] :
                 \A k \in Keys : e[k] \in {NoEdge, Imported(k)}}
  /\ queue = [s \in Sigs |-> <<>>]
  /\ wpc = [w \in Workers |-> "idle"]
  /\ decided = [w \in Workers |-> [s \in Sigs |-> "none"]]
  /\ facts = [w \in Workers |-> NoFacts]
  /\ view = [w \in Workers |-> NoView]
  /\ req = [p \in People |-> NoReq]
  /\ edits = 0
  /\ others = [w \in Workers |-> {}] /\ lost = {}

(* Nobody else is between its reads and its commit. *)
Alone == /\ \A w \in Workers : wpc[w] # "applying"
         /\ \A p \in People : req[p] = NoReq

----------------------------------------------------------------------------
(* The sync *)

(* Status of the last proposal of a signature that counts as a decision. *)
LastDecision(q) ==
  LET Last(i) == /\ q[i] \in KeptStatuses
                 /\ \A j \in DOMAIN q : j > i => q[j] \notin KeptStatuses
  IN  IF \E i \in DOMAIN q : Last(i) THEN q[CHOOSE i \in DOMAIN q : Last(i)] ELSE "none"

(* _read_state *)
SyncRead(w) ==
  /\ wpc[w] = "idle"
  /\ wpc' = [wpc EXCEPT ![w] = "collecting"]
  /\ decided' = [decided EXCEPT ![w] = [s \in Sigs |-> LastDecision(queue[s])]]
  /\ UNCHANGED <<dbVars, facts, view, req, edits, seenVars>>

(* _collect: what the run knows of some repositories, and of the contracts. *)
(* An extract is of the last push, or the one kept from an earlier run when *)
(* the source does not answer, so that its links may be any.  The contracts *)
(* also make the run guess the producers of their topics.                  *)
SyncCollect(w) ==
  /\ wpc[w] = "collecting"
  /\ \E read \in SUBSET Comps, contracts \in BOOLEAN, links \in SUBSET Keys :
     \E guessed \in SUBSET (Comps \ read) :
        /\ \A k \in links : IF k \in HelmKeys THEN k.from \in read ELSE contracts
        /\ guessed # {} => contracts
        /\ facts' = [facts EXCEPT ![w] = [read |-> read, contracts |-> contracts,
                                          links |-> links, guessed |-> guessed]]
  /\ wpc' = [wpc EXCEPT ![w] = "collected"]
  /\ UNCHANGED <<dbVars, decided, view, req, edits, seenVars>>

IsOpen(s, i) == queue[s][i] \in OpenStatuses
Changes     == {c \in Sigs \X (1..MaxProposals) : c[2] \in DOMAIN queue[c[1]]}
OpenChanges == {c \in Changes : IsOpen(c[1], c[2])}

(* The reads of _apply. *)
SyncLoad(w) ==
  /\ wpc[w] = "collected"
  /\ view' = [view EXCEPT ![w] = [edge   |-> [k \in Keys |-> edge[k].status],
                                  origin |-> [k \in Keys |-> edge[k].origin],
                                  open   |-> OpenChanges]]
  /\ wpc' = [wpc EXCEPT ![w] = "applying"]
  /\ UNCHANGED <<dbVars, decided, facts, req, edits, seenVars>>

HelmLinks(w) == facts[w].links \intersect HelmKeys
ContractLinks(w) == facts[w].links \intersect ContractKeys

(* "a person or the import already describes this dependency", whatever    *)
(* its type.                                                               *)
Described(w, k) == \E l \in Keys : SamePair(k, l) /\ view[w].edge[l] # "none"

(* _apply_helm_edges: new dependencies, and links no longer configured. *)
HelmAdds(w) == {k \in HelmLinks(w) : ~Described(w, k)}
HelmRemoves(w) ==
  {k \in Keys : /\ k.from \in facts[w].read
                /\ view[w].origin[k] = "helm"
                /\ view[w].edge[k] \in EditableStatuses
                /\ ~\E l \in HelmLinks(w) : SamePair(k, l)}

(* _apply_data_lake: links of the contracts are inserted and removed       *)
(* without review, unless a person verified them.                          *)
ContractAdds(w) == {k \in ContractLinks(w) : facts[w].contracts /\ view[w].edge[k] = "none"}
ContractGone(w, status) ==
  {k \in ContractKeys : /\ facts[w].contracts /\ k \notin ContractLinks(w)
                        /\ view[w].origin[k] = "contract"
                        /\ view[w].edge[k] = status}
ContractDrops(w) == ContractGone(w, "active")

Emitted(w) ==
  [op : {"add"}, key : HelmAdds(w)]
    \union [op : {"remove"}, key : HelmRemoves(w) \union ContractGone(w, "verified")]

(* Fault: a rejection is forgotten. *)
Proposed_Rejected(w) == {s \in Emitted(w) : decided[w][s] \notin OpenStatuses}

(* propose: nothing that is queued, or that a person refused. *)
Proposed(w) == {s \in Emitted(w) : decided[w][s] \notin LiveStatuses}

(* ap.scopes: _propose_producers adds the components it guesses.           *)
Scopes(w) == facts[w].read \union facts[w].guessed
               \union {k.from : k \in ContractGone(w, "verified")}

(* Fault: nothing is withdrawn. *)
Superseded_Never(w) == {}

(* Open proposals of earlier runs that this one, having read their source, *)
(* no longer makes.                                                        *)
Superseded(w) == {c \in view[w].open : /\ c[1] \notin Emitted(w)
                                       /\ c[1].key.from \in Scopes(w)}

NewStatus(w, s) ==
  IF s.op = "remove" /\ view[w].edge[s.key] = "verified" THEN "conflict" ELSE "pending"

QueueAfter(w, s) ==
  LET old == [i \in DOMAIN queue[s] |->
                IF <<s, i>> \in Superseded(w) THEN "superseded" ELSE queue[s][i]]
  IN  IF s \in Proposed(w) THEN Append(old, NewStatus(w, s)) ELSE old

(* History: the run withdraws a proposal that was decided after it had read *)
(* it, or proposes what another run has proposed since.                    *)
Crossed(w) ==
  (Proposed(w) \intersect others[w])
    \union {s \in Sigs : \E i \in DOMAIN queue[s] :
                         <<s, i>> \in Superseded(w) /\ queue[s][i] \in PeoplesStatuses}

(* The commit of _apply.  Inserting a link that somebody else has inserted *)
(* violates the unique key and fails the whole run (SyncFail).             *)
SyncCommit(w) ==
  /\ wpc[w] = "applying"
  /\ \A k \in ContractAdds(w) : edge[k].status = "none"
  /\ \A s \in Proposed(w) : Len(queue[s]) < MaxProposals               \* bound
  /\ Proposed(w) # {} =>
       Cardinality(Changes) + Cardinality(Proposed(w)) <= MaxChanges      \* bound
  /\ edge' = [k \in Keys |->
                CASE k \in ContractAdds(w)  -> Imported(k)
                  [] k \in ContractDrops(w) -> [edge[k] EXCEPT !.status = "removed"]
                  [] OTHER                  -> edge[k]]
  /\ queue' = [s \in Sigs |-> QueueAfter(w, s)]
  /\ lost' = lost \union Crossed(w)
  /\ others' = [v \in Workers |-> IF v = w \/ wpc[v] = "idle" THEN {}
                                  ELSE others[v] \union Proposed(w)]
  /\ wpc' = [wpc EXCEPT ![w] = "idle"]
  /\ view' = [view EXCEPT ![w] = NoView]
  /\ facts' = [facts EXCEPT ![w] = NoFacts]
  /\ decided' = [decided EXCEPT ![w] = [s \in Sigs |-> "none"]]
  /\ UNCHANGED <<req, edits>>

(* An exception in any phase, or a crash: nothing is written. *)
SyncFail(w) ==
  /\ wpc[w] # "idle"
  /\ wpc' = [wpc EXCEPT ![w] = "idle"]
  /\ view' = [view EXCEPT ![w] = NoView]
  /\ facts' = [facts EXCEPT ![w] = NoFacts]
  /\ decided' = [decided EXCEPT ![w] = [s \in Sigs |-> "none"]]
  /\ others' = [others EXCEPT ![w] = {}]
  /\ UNCHANGED <<dbVars, req, edits, lost>>

----------------------------------------------------------------------------
(* Requests of people *)

Begin(p, r) == req' = [req EXCEPT ![p] = r]
Done(p)     == req' = [req EXCEPT ![p] = NoReq]

(* Assigning a column the value that was read writes nothing. *)
Written(current, read, new) == IF read = new THEN current ELSE new

(* A person's write on the row of a key. *)
Touch(k, read, new) ==
  edge' = [edge EXCEPT ![k].status = Written(@, read, new), ![k].person = TRUE]
Insert(k, status, origin) ==
  /\ edge[k].status = "none"      \* otherwise the unique key refuses it
  /\ edge' = [edge EXCEPT ![k] = [status |-> status, origin |-> origin, person |-> TRUE]]

(* _open_change: 409 on a proposal that is no longer open. *)
Reviewable(s, i) == i \in DOMAIN queue[s] /\ IsOpen(s, i)

(* decide, up to its reads; approving the removal of a link that is gone   *)
(* is refused.                                                             *)
BeginDecide(p, s, i, approve) ==
  /\ req[p] = NoReq
  /\ Reviewable(s, i)
  /\ approve /\ s.op = "remove" => edge[s.key].status # "none"
  /\ Begin(p, [kind |-> "decide", sig |-> s, index |-> i, approve |-> approve,
               read |-> edge[s.key].status])
  /\ UNCHANGED <<dbVars, syncVars, edits, seenVars>>

(* _apply (review.py) *)
Approve(s, read) ==
  \/ /\ s.op = "add" /\ read = "none"
     /\ Insert(s.key, "verified", "helm")
  \/ s.op = "add" /\ read # "none" /\ Touch(s.key, read, "verified")
  \/ s.op = "remove" /\ Touch(s.key, read, "removed")

(* _apply_rejection *)
Reject(s, read) ==
  \/ s.op = "add" /\ read = "none" /\ Insert(s.key, "rejected", "helm")
  \/ s.op = "remove" /\ read = "active" /\ Touch(s.key, read, "verified")
  \/ /\ IF s.op = "add" THEN read # "none" ELSE read # "active"
     /\ UNCHANGED edge

CommitDecide(p) ==
  LET r == req[p] IN
  /\ r.kind = "decide"
  /\ IF r.approve THEN Approve(r.sig, r.read) ELSE Reject(r.sig, r.read)
  /\ queue' = [queue EXCEPT ![r.sig][r.index] =
                 IF r.approve THEN "approved" ELSE "rejected"]
  /\ lost' = IF Reviewable(r.sig, r.index) THEN lost ELSE lost \union {r.sig}
  /\ Done(p)
  /\ UNCHANGED <<syncVars, edits, others>>

(* Corrections: create_edge, verify_edge, update_edge, remove_edge *)

BeginEdit(p, kind, k) ==
  /\ req[p] = NoReq /\ edits < MaxEdits
  /\ CASE kind = "create" -> edge[k].status \notin EditableStatuses
       [] kind = "verify" -> edge[k].status \in EditableStatuses
       [] kind = "remove" -> edge[k].status \notin {"none", "removed"}
  /\ Begin(p, [kind |-> kind, key |-> k, read |-> edge[k].status])
  /\ edits' = edits + 1
  /\ UNCHANGED <<dbVars, syncVars, seenVars>>

CommitEdit(p) ==
  LET r == req[p] IN
  /\ \/ r.kind = "create" /\ r.read = "none" /\ Insert(r.key, "verified", "manual")
     \/ r.kind = "create" /\ r.read # "none" /\ Touch(r.key, r.read, "verified")
     \/ r.kind = "verify" /\ Touch(r.key, r.read, "verified")
     \/ r.kind = "remove" /\ Touch(r.key, r.read, "removed")
  /\ Done(p)
  /\ UNCHANGED <<queue, syncVars, edits, seenVars>>

(* update_edge with a new type: the row moves to another key.  Taken as    *)
(* one step, while no other transaction is open on the map.                *)
Retype(p, k, l) ==
  /\ req[p] = NoReq /\ Alone /\ edits < MaxEdits
  /\ SamePair(k, l) /\ edge[l].status = "none"
  /\ edge[k].status \in EditableStatuses
  /\ edge' = [edge EXCEPT ![k] = NoEdge,
                          ![l] = [edge[k] EXCEPT !.status = "verified", !.person = TRUE]]
  /\ edits' = edits + 1
  /\ UNCHANGED <<queue, syncVars, req, seenVars>>

(* The request is refused by the unique key, or its process dies. *)
Abandon(p) ==
  /\ req[p] # NoReq
  /\ Done(p)
  /\ UNCHANGED <<dbVars, syncVars, edits, seenVars>>

Next ==
  \/ \E w \in Workers : \/ SyncRead(w) \/ SyncCollect(w) \/ SyncLoad(w)
                        \/ SyncCommit(w) \/ SyncFail(w)
  \/ \E p \in People :
       \/ \E s \in Sigs, i \in 1..MaxProposals, approve \in BOOLEAN :
            BeginDecide(p, s, i, approve)
       \/ CommitDecide(p)
       \/ \E kind \in {"create", "verify", "remove"}, k \in Keys : BeginEdit(p, kind, k)
       \/ CommitEdit(p)
       \/ \E k, l \in Keys : Retype(p, k, l)
       \/ Abandon(p)

Spec == Init /\ [][Next]_vars

----------------------------------------------------------------------------
(* Properties *)

Decision == [kind : {"decide"}, sig : Sigs, index : 1..MaxProposals,
             approve : BOOLEAN, read : EdgeStatus]
Edit     == [kind : {"create", "verify", "remove"}, key : Keys, read : EdgeStatus]

TypeOK ==
  /\ edge \in [Keys -> [status : EdgeStatus, origin : EdgeOrigin, person : BOOLEAN]]
  /\ queue \in [Sigs -> Seq(ChangeStatus)]
  /\ wpc \in [Workers -> {"idle", "collecting", "collected", "applying"}]
  /\ decided \in [Workers -> [Sigs -> KeptStatuses \union {"none"}]]
  /\ facts \in [Workers -> [read : SUBSET Comps, contracts : BOOLEAN, links : SUBSET Keys,
                         guessed : SUBSET Comps]]
  /\ view \in [Workers -> [edge : [Keys -> EdgeStatus], origin : [Keys -> EdgeOrigin],
                           open : SUBSET (Sigs \X (1..MaxProposals))]]
  /\ req \in [People -> {NoReq} \union Decision \union Edit]
  /\ edits \in Nat
  /\ others \in [Workers -> SUBSET Sigs] /\ lost \in SUBSET Sigs

(* The queue never shows the same proposal twice, whatever is decided or   *)
(* corrected while a sync collects and applies.                            *)
OneOpenPerSig ==
  \A s \in Sigs : Cardinality({i \in DOMAIN queue[s] : IsOpen(s, i)}) <= 1

(* "A rejected proposal is not created again": no run adds a proposal with *)
(* the signature of a rejected one, even of one rejected while it was      *)
(* collecting, but where two writers have crossed.                         *)
RejectionSticks ==
  [][\A s \in Sigs \ lost' : Len(queue'[s]) > Len(queue[s])
        => \A i \in DOMAIN queue[s] : queue[s][i] # "rejected"]_vars

(* A proposal that a person decided keeps that decision, unless two        *)
(* requests decided it at once or a run withdrew it in the meantime.       *)
DecisionIsFinal ==
  [][\A s \in Sigs \ lost' : \A i \in DOMAIN queue[s] :
        queue[s][i] \in PeoplesStatuses => queue'[s][i] = queue[s][i]]_vars

(* "a link that is verified is never changed by the sync" (DESIGN.md 3.2,  *)
(* rule 1): a run leaves alone every link that is verified, removed or     *)
(* rejected, and every manual one.                                         *)
PeopleEdgesKept ==
  [][\A w \in Workers : SyncCommit(w) =>
        \A k \in Keys :
          ( \/ edge[k].status \in {"verified", "removed", "rejected"}
            \/ edge[k].status # "none" /\ edge[k].origin = "manual" )
          => edge'[k] = edge[k]]_vars

(* What the sources that a run knows say of a Helm link.                   *)
LinkMissing(w, k) == /\ k \in HelmLinks(w)
                     /\ \A l \in Keys : SamePair(k, l) => edge[l].status = "none"
LinkVanished(w, k) == /\ edge[k].origin = "helm" /\ edge[k].status \in EditableStatuses
                      /\ \A l \in HelmLinks(w) : ~SamePair(k, l)
Justified(w, s) == IF s.op = "add" THEN LinkMissing(w, s.key) ELSE LinkVanished(w, s.key)

(* Nobody has touched the links between the two ends since the run read    *)
(* them, or proposed the same since it began.                              *)
Steady(w, s) ==
  /\ s \notin others[w]
  /\ \A l \in Keys : SamePair(s.key, l) => /\ view[w].edge[l] = edge[l].status
                                          /\ view[w].origin[l] = edge[l].origin

(* When a run knows a repository, the queue then holds exactly what the    *)
(* repository and the map disagree about: every difference is queued or    *)
(* was refused by a person, unless its proposal was open when the run      *)
(* began; and nothing else is left open.  Decisions and corrections may    *)
(* come at any time; a link that one of them writes between the reads and  *)
(* the commit of the apply is left to the next run.                        *)
HelmQueueExact ==
  [][\A w \in Workers : SyncCommit(w) =>
        \A s \in [op : {"add", "remove"}, key : HelmKeys] \ lost' :
          s.key.from \in facts[w].read /\ Steady(w, s) =>
            /\ Justified(w, s) => \/ decided[w][s] \in OpenStatuses
                                  \/ \E i \in DOMAIN queue'[s] : queue'[s][i] \in LiveStatuses
            /\ (\E i \in DOMAIN queue'[s] : queue'[s][i] \in OpenStatuses)
                  => Justified(w, s)]_vars

(* The queue as ReviewQueue sees it: whether a proposal is open, or how it *)
(* ended.                                                                  *)
ShownOf(q) == [i \in DOMAIN q |-> IF q[i] \in OpenStatuses THEN "open" ELSE q[i]]
Shown == [s \in Sigs |-> ShownOf(queue[s])]
Review == INSTANCE ReviewQueue
            WITH Subjects <- Sigs, queue <- Shown, contended <- lost

(* The proposals about links keep the promise of ReviewQueue: at most one  *)
(* is open for a subject, nothing that a person refused is proposed again, *)
(* and no decision is ever taken back, whatever runs and requests do,      *)
(* until two writers cross on the subject.                                 *)
KeepsThePromise == Review!Spec
=============================================================================
