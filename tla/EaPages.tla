------------------------------- MODULE EaPages -------------------------------
(***************************************************************************)
(* The read side of the EA Map (ea/kb.py) and its pages (api/v1/ea.py).    *)
(* A request reads the nodes and then the links, in two statements; people *)
(* and syncs commit in between, each statement seeing what is committed    *)
(* when it starts.  From what it read the request builds the knowledge     *)
(* base, and from that, however late (a release waits for GitHub), a page. *)
(*                                                                         *)
(* Of the blueprint there are the processes and the products they use.     *)
(***************************************************************************)
EXTENDS EaGraph

CONSTANTS
  Later,     \* nodes that are not on the map at first
  Links,     \* the links there may be: [from, to, type]
  Changes,   \* releases that people ask about: [link, comp, pages]
  Histories, \* what test_runs may hold
  Flow,      \* a flow of FLOWS
  MaxEdits   \* bound: commits of others

(* Links are of nodes, and a process uses products: nobody else writes     *)
(* links of that type.  Runs are counted.                                  *)
ASSUME PagesAssumption ==
  /\ IsFiniteSet(Nodes)
  /\ \A l \in Links : l.from \in Nodes /\ l.to \in Nodes
  /\ \A l \in Links : l.type = "uses" => Kind[l.from] = "process" /\ Kind[l.to] = "product"
  /\ \A rows \in Histories : rows \in Seq([object : STRING, total : Nat, passed : Nat, failed : Nat, skipped : Nat])

VARIABLES
  node,      \* ea_nodes: status
  shown,     \* ea_edges that are active or verified
  pc, got,   \* the request: its phase, the nodes it has read
  kb,        \* the knowledge base it has built
  page,      \* what it answers
  edits

vars == <<node, shown, pc, got, kb, page, edits>>

GraphKinds == {"product", "component", "dataset"} \* of area, product, component, external, datastore, dataset
NoPage == [kind |-> "none"]
Refused == [kind |-> "refused"]
NoKb == [nodes |-> {}, edges |-> {}, uses |-> {}, processes |-> {}]

Ends(l) == {l.from, l.to}
Exists(l) == \A n \in Ends(l) : node[n] # "none"

Init ==
  /\ node = [n \in Nodes |-> IF n \in Later THEN "none" ELSE "active"]
  /\ shown \in SUBSET {l \in Links : Ends(l) \intersect Later = {}}
  /\ pc = "idle" /\ got = node /\ kb = NoKb /\ page = NoPage
  /\ edits = 0

(* Somebody else commits: a node is added, archived or put back, a link is *)
(* drawn or taken off.  Once the links are read nothing is read again, so  *)
(* that later commits are as if they came after the answer.                *)
Edit ==
  /\ edits < MaxEdits /\ pc # "built" /\ page = NoPage
  /\ edits' = edits + 1
  /\ \/ /\ \E n \in Nodes, status \in {"active", "archived"} :
             node[n] # status /\ node' = [node EXCEPT ![n] = status]
        /\ UNCHANGED shown
     \/ /\ \E l \in Links : /\ l \in shown \/ Exists(l)
                            /\ shown' = (shown \union {l}) \ (shown \intersect {l})
        /\ UNCHANGED node
  /\ UNCHANGED <<pc, got, kb, page>>

ReadNodes ==
  /\ pc = "idle"
  /\ got' = node
  /\ pc' = "nodes"
  /\ UNCHANGED <<node, shown, kb, page, edits>>

Active(kinds) == {n \in Nodes : got[n] = "active" /\ Kind[n] \in kinds}
Archived == {n \in Nodes : got[n] = "archived"}

(* What a process uses, archived or not. *)
UsedBy(edges, p) == {e.to : e \in {e \in edges : e.from = p /\ e.type = "uses"}}

(* Fault: a process stays whatever its products have become. *)
Left_Kept(edges) == Archived

(* What leaves the blueprint: what is archived, and processes that only    *)
(* used archived products.                                                 *)
Left(edges) ==
  Archived \union
    {p \in Nodes : UsedBy(edges, p) # {} /\ UsedBy(edges, p) \subseteq Archived}

(* build_kb *)
Build(edges) ==
  LET visible == Active(GraphKinds) IN
  [nodes     |-> visible,
   edges     |-> {e \in edges : e.type # "uses" /\ Ends(e) \subseteq visible},
   uses      |-> {<<e.from, e.to>> : e \in {e \in edges : /\ e.type = "uses"
                                                          /\ Ends(e) \intersect Left(edges) = {}}},
   processes |-> Active({"process"}) \ Left(edges)]

ReadEdges ==
  /\ pc = "nodes"
  /\ kb' = Build(shown)
  /\ pc' = "built"
  /\ UNCHANGED <<node, shown, got, page, edits>>

Answer(p) ==
  /\ pc = "built" /\ page = NoPage
  /\ page' = p
  /\ UNCHANGED <<node, shown, pc, got, kb, edits>>

(* A pull request comes in pages, a comparison of two refs in one answer. *)
FilesOf(c) == IF c.link = "pull" THEN ChangedFiles(c.pages) ELSE Head(c.pages)

(* A link that is neither is refused before anything is read. *)
BadLink ==
  /\ pc = "idle" /\ page = NoPage
  /\ page' = Refused
  /\ UNCHANGED <<node, shown, pc, got, kb, edits>>

(* release_impact: a component that is not on the map is refused, and so   *)
(* is a change that GitHub does not give.                                  *)
ReleaseImpact(c) ==
  \/ /\ c.comp \in kb.nodes
     /\ Answer([kind |-> "release", change |-> c, out |-> Analysis(kb, c.comp, FilesOf(c))])
  \/ Answer(Refused)
Flows == Answer([kind |-> "flow", out |-> FlowForMap(kb, Flow)])
Live(rows) == Answer([kind |-> "live", rows |-> rows, out |-> Summary(kb, rows)])

(* get_impact: one query on the tables, archived nodes included. *)
Impact(n) ==
  /\ pc = "idle" /\ page = NoPage /\ node[n] # "none"
  /\ page' = [kind |-> "impact", id |-> n, out |-> ImpactPage(shown, n, 3)]
  /\ UNCHANGED <<node, shown, pc, got, kb, edits>>

Respond ==
  /\ page # NoPage
  /\ page' = NoPage
  /\ pc' = "idle" /\ kb' = NoKb /\ got' = node
  /\ UNCHANGED <<node, shown, edits>>

Next ==
  \/ Edit \/ ReadNodes \/ ReadEdges \/ Flows \/ BadLink \/ Respond
  \/ \E c \in Changes : ReleaseImpact(c)
  \/ \E rows \in Histories : Live(rows)
  \/ \E n \in Nodes : Impact(n)

Spec == Init /\ [][Next]_vars

-----------------------------------------------------------------------------
(* Properties *)

(* Distances by definition: a node is within d steps if it is a neighbour  *)
(* of one that is within d - 1.                                            *)
Within(start, depth, next) ==
  LET Near[d \in 0..depth] ==
        IF d = 0 THEN {start} ELSE LET near == Near[d - 1] IN near \union UNION {next[n] : n \in near}
  IN  Near[depth]
At(start, d, next) == Within(start, d, next) \ Within(start, d - 1, next)

Exactly(hops, start, depth, next) ==
  {<<h.id, h.depth>> : h \in hops} = UNION {At(start, d, next) \X {d} : d \in 1..depth}

(* The walk of the analyses, with its queue and its marks, and the query   *)
(* of the impact page, which follows every path, both give each node its   *)
(* shortest distance, in graphs with cycles too, and the walk's paths are  *)
(* paths of the map.                                                       *)
DistancesExact ==
  /\ pc = "built" =>
       \A n \in kb.nodes, d \in 1..3 : \A next \in {Callers(kb), Called(kb), Downstream(kb)} :
         LET hops == Walk(n, d, next) IN
         /\ Exactly(hops, n, d, next)
         /\ \A h \in hops : \A i \in 1..h.depth : h.path[i + 1] \in next[h.path[i]]
  /\ page.kind = "impact" =>
       /\ Exactly(page.out.upstream, page.id, 3,
                  [n \in Nodes |-> {l.from : l \in {l \in shown : l.to = n}}])
       /\ Exactly(page.out.downstream, page.id, 3,
                  [n \in Nodes |-> {l.to : l \in {l \in shown : l.from = n}}])

(* The map a request draws hangs together although it was read in two      *)
(* statements: no link without its ends, no use of what was archived, and  *)
(* no process whose products are all gone ("a process that only used       *)
(* archived products has nothing left to show", build_kb).                 *)
MapHangsTogether ==
  [][pc = "nodes" /\ pc' = "built" =>
       /\ \A e \in kb'.edges : Ends(e) \subseteq kb'.nodes
       /\ \A u \in kb'.uses : u[2] \notin Archived
       /\ \A p \in kb'.processes :
            UsedBy(shown, p) # {} => \E u \in kb'.uses : u[1] = p]_vars

(* The ways a change reaches a node, with the distance by each.            *)
Ways(start) ==
  LET Near(relation, depth, next) ==
        UNION {{[id |-> n, relation |-> relation, depth |-> d] : n \in At(start, d, next)} : d \in 1..depth}
  IN  Near("chiamante", 3, Callers(kb)) \union Near("dato a valle", 3, Downstream(kb))
        \union Near("dipendenza", 1, Called(kb))

(* A release reaches a node by its calls, by its data and by what it       *)
(* calls: whatever the ways and the cycles among them, the node is listed  *)
(* once, with all of them, and a direct caller or consumer has no less     *)
(* risk than the change itself gives it, however it is reached otherwise.  *)
ImpactExact ==
  page.kind = "release" =>
    LET out    == page.out
        risk   == ChangeRisk(Classify(FilesOf(page.change)))
        ways   == Ways(page.change.comp)
        Of(id) == {w \in ways : w.id = id}
    IN  /\ risk # "nessuno" => {x.id : x \in out.impacted} = {w.id : w \in ways}
        /\ risk = "nessuno" => out.impacted = {}
        /\ \A x \in out.impacted :
             /\ x.relations = {w.relation : w \in Of(x.id)}
             /\ \A y \in out.impacted : y.id = x.id => y = x
             /\ \A w \in Of(x.id) :
                  /\ w.relation = "chiamante" /\ w.depth = 1 => Rank(x.risk) >= Rank(risk)
                  /\ w.relation = "dato a valle" /\ w.depth = 1 => x.risk \in Serious

(* What a release shows as touched is never left without a word on tests:  *)
(* a component that runs is a gap, or an integration suite among those to  *)
(* run covers it.                                                          *)
CoveredOrGap ==
  page.kind = "release" =>
    \A n \in page.out.highlight :
      Kind[n] = "component" /\ Tests[n].runtime =>
        (n \in page.out.gaps) # (\E s \in page.out.suites : /\ n \in s.covers
                                                           /\ s.suite.kind \in {"central", "bdd", "repo"})

(* All of it: what the page says of a release can be relied upon.          *)
ReleaseHonest == DistancesExact /\ ImpactExact /\ CoveredOrGap

(* The live map is red exactly where the newest run of a suite that covers *)
(* the node failed, green only where all of them have passed something,    *)
(* and no run is lost: an object that covers nothing is listed.            *)
LiveHonest ==
  page.kind = "live" =>
    LET rows == page.rows
        Last1(i) == \A j \in 1..(i - 1) : rows[j].object # rows[i].object
        Runs(n) == {rows[i] : i \in {i \in DOMAIN rows : Last1(i) /\ n \in ObjectNodes(kb, rows[i].object)}}
        status == page.out.nodes
    IN  /\ \A n \in DOMAIN status :
             /\ status[n] = "failed" <=> \E r \in Runs(n) : r.failed > 0
             /\ status[n] = "passed" => \A r \in Runs(n) : r.failed = 0 /\ r.passed > 0
        /\ \A i \in DOMAIN rows : \/ rows[i].object \in page.out.unmapped
                                  \/ \E n \in DOMAIN status : n \in ObjectNodes(kb, rows[i].object)
=============================================================================
