------------------------------- MODULE EaGraph -------------------------------
(***************************************************************************)
(* What the pages of the EA Map compute from the graph: the walks of       *)
(* ea/graph_index.py, the impact query of ea/impact.py, the maturity score *)
(* of ea/scoring.py, the impact of a release (ea/release_impact.py), the   *)
(* flows (ea/flows.py) and the live map (ea/live.py).                      *)
(*                                                                         *)
(* A graph is [nodes, edges, uses, processes]: the ids on the map, the     *)
(* technical links among them, which process uses which product, and the   *)
(* processes of the blueprint.                                             *)
(***************************************************************************)
EXTENDS Integers, Sequences, FiniteSets, SequencesExt, FiniteSetsExt

CONSTANTS
  Nodes,       \* every node there may be
  Kind,      \* [Nodes -> kind of node]
  Parent,    \* [Nodes -> the node that contains it]
  Tests,     \* [components -> what tests were found (ea_qa_signals)]
  Promote,   \* PROMOTE_MIN_DIRECT_CALLERS
  MaxFiles   \* MAX_FILES

CallEdges == {"api", "event"}      \* of api, soap, event, ui, data
FlowEdges == {"produces", "feeds"} \* of produces, derives, feeds

-----------------------------------------------------------------------------
(* Walks *)

Callers(g)    == [n \in Nodes |-> {e.from : e \in {e \in g.edges : e.to = n /\ e.type \in CallEdges}}]
Called(g)     == [n \in Nodes |-> {e.to : e \in {e \in g.edges : e.from = n /\ e.type \in CallEdges}}]
Downstream(g) == [n \in Nodes |-> {e.to : e \in {e \in g.edges : e.from = n /\ e.type \in FlowEdges}}]

Hop(path) == [id |-> Last(path), depth |-> Len(path) - 1, path |-> path]

(* A round of the loop of _walk, on a queue of hops and those seen so far. *)
Visit(state, next, depth) ==
  IF state.queue = <<>> THEN state
  ELSE LET cur  == Head(state.queue)
           ids  == IF cur.depth >= depth THEN {}
                   ELSE {n \in next[cur.id] : n # cur.path[1] /\ \A h \in state.seen : h.id # n}
           hops == {Hop(Append(cur.path, n)) : n \in ids}
       IN  [queue |-> Tail(state.queue) \o SetToSeq(hops), seen |-> state.seen \union hops]

(* _walk: the nodes within a number of steps, each with one path.  Every   *)
(* node is in the queue once.                                              *)
Walk(start, depth, next) ==
  LET Rounds[k \in 0..Cardinality(Nodes)] ==
        IF k = 0 THEN [queue |-> <<Hop(<<start>>)>>, seen |-> {}] ELSE Visit(Rounds[k - 1], next, depth)
  IN  Rounds[Cardinality(Nodes)].seen

(* The recursive query: every path without repetitions, then the shortest  *)
(* for each node.                                                          *)
Longer(paths, next) ==
  paths \union UNION {{Append(p, n) : n \in {n \in next[Last(p)] : ~Contains(p, n)}} : p \in paths}
Paths(start, depth, next) ==
  LET Upto[k \in 0..depth] == IF k = 0 THEN {<<start>>} ELSE Longer(Upto[k - 1], next)
  IN  Upto[depth]

Nearest(paths) ==
  {[id |-> Last(p), depth |-> Len(p) - 1] :
     p \in {p \in paths : Len(p) > 1 /\ \A q \in paths : Last(q) = Last(p) => Len(p) <= Len(q)}}

(* impact: over every visible link, of any type. *)
ImpactPage(edges, start, depth) ==
  [downstream |-> Nearest(Paths(start, depth, [n \in Nodes |-> {e.to : e \in {e \in edges : e.from = n}}])),
   upstream   |-> Nearest(Paths(start, depth, [n \in Nodes |-> {e.from : e \in {e \in edges : e.to = n}}]))]

(* product_of, processes_of *)
ProductOf(g, n) ==
  IF Kind[n] = "product" THEN {n}
  ELSE IF Kind[n] = "component" THEN {Parent[n]} \intersect g.nodes ELSE {}
ProcessesOf(g, p) == {b \in g.processes : <<b, p>> \in g.uses}

-----------------------------------------------------------------------------
(* Scoring *)

Count(facts) == Cardinality({f \in DOMAIN facts : facts[f]})
MaturityScore(t) ==
  Count([unit |-> t.unit, it |-> t.it \/ t.nodo_bdd, central |-> t.central # {} \/ t.nodo_bdd,
         perf |-> t.perf, nrt |-> t.nrt # {}])

(* _qa_payload: a component with its facts and score. *)
QaPayload(n) == [facts |-> Tests[n], score |-> MaturityScore(Tests[n])]

HasIntegration(t) == t.it \/ t.central # {} \/ t.nodo_bdd

-----------------------------------------------------------------------------
(* The impact of a release.  A changed file is the set of the categories   *)
(* whose pattern it matches; "code" matches every file.                    *)

Categories == <<"test", "contract", "data", "config", "ci", "docs", "code">>
RiskOrder  == <<"nessuno", "basso", "medio", "alto">>
Rank(risk) == CHOOSE i \in DOMAIN RiskOrder : RiskOrder[i] = risk
Lower(risk) == IF risk = "alto" THEN "medio" ELSE IF risk = "medio" THEN "basso" ELSE risk
Serious == {"alto", "medio"}

(* pull_request: pages are read until there are enough files. *)
ChangedFiles(pages) ==
  FoldLeft(LAMBDA files, more : IF Len(files) < MaxFiles THEN files \o more ELSE files, <<>>, pages)

(* classify: the first category that matches. *)
Category(file) == Categories[Min({i \in DOMAIN Categories : Categories[i] \in file})]
Classify(files) == {Category(f) : f \in ToSet(files)}

(* change_risk: the first rule that has a category of the change. *)
ChangeRisk(cats) ==
  CASE cats \intersect {"contract", "data"} # {} -> "alto"
    [] cats \intersect {"contract", "data"} = {} /\ cats \intersect {"code", "config"} # {} -> "medio"
    [] OTHER -> IF "ci" \in cats THEN "basso" ELSE "nessuno"

Reached(relation, hops, RiskAt(_)) ==
  {[id |-> h.id, depth |-> h.depth, relation |-> relation, risk |-> RiskAt(h.depth)] : h \in hops}

(* What analyse finds around the changed component, before it is merged. *)
Around(g, comp, cats) ==
  LET risk     == ChangeRisk(cats)
      contract == cats \intersect {"contract", "data"} # {}
      Caller(d) == IF d = 1 THEN risk ELSE IF d = 2 THEN Lower(risk) ELSE "basso"
      Data(d)   == IF d > 1 THEN "basso" ELSE IF contract THEN "alto" ELSE "medio"
      Called1(d) == IF "config" \in cats THEN "medio" ELSE "basso"
  IN  IF risk = "nessuno" THEN {}
      ELSE Reached("chiamante", Walk(comp, 3, Callers(g)), Caller)
             \union Reached("dato a valle", Walk(comp, 3, Downstream(g)), Data)
             \union Reached("dipendenza", Walk(comp, 1, Called(g)), Called1)

(* Fault: the first relation that is found decides. *)
Merged_First(items) ==
  {[id |-> x.id, risk |-> x.risk, depth |-> x.depth,
    relations |-> {y.relation : y \in {y \in items : y.id = x.id}}] :
     x \in {x \in items : \A y \in items : y.id = x.id => x.relation = "dipendenza" \/ y = x}}

(* _merge_duplicates: one entry for a node, with its highest risk (then    *)
(* the nearest) and every relation.                                        *)
Merged(items) ==
  LET Better(x, y) == \/ Rank(x.risk) > Rank(y.risk)
                      \/ x.risk = y.risk /\ x.depth < y.depth
  IN  {[id |-> x.id, risk |-> x.risk, depth |-> x.depth,
        relations |-> {y.relation : y \in {y \in items : y.id = x.id}}] :
         x \in {x \in items : \A y \in items : y.id = x.id => ~Better(y, x)}}

(* The suites that cover a component of the list of targets. *)
SuitesOf(n, own, risk) ==
  LET t == Tests[n] IN
  [kind : {"central"}, name : t.central] \union [kind : {"nrt"}, name : t.nrt]
    \union (IF t.nodo_bdd THEN {[kind |-> "bdd", name |-> "nodo"]} ELSE {})
    \union (IF t.it THEN {[kind |-> "repo", name |-> n]} ELSE {})
    \union (IF own /\ t.perf /\ risk \in Serious THEN {[kind |-> "perf", name |-> n]} ELSE {})

Suites(comp, risk, impacted) ==
  LET targets == {[id |-> comp, priority |-> 0]} \union
                 {[id |-> x.id, priority |-> IF x.risk \in Serious THEN 1 ELSE 2] : x \in impacted}
      covering == {t \in targets : Kind[t.id] = "component"}
      Covers(s) == {t \in covering : s \in SuitesOf(t.id, t.id = comp, risk)}
  IN  {[suite |-> s, covers |-> {t.id : t \in Covers(s)}, priority |-> Min({t.priority : t \in Covers(s)})] :
         s \in UNION {SuitesOf(t.id, t.id = comp, risk) : t \in covering}}

(* analyse *)
Analysis(g, comp, files) ==
  LET cats     == Classify(files)
      risk     == ChangeRisk(cats)
      impacted == Merged(Around(g, comp, cats))
      serious  == {comp} \union {x.id : x \in {x \in impacted : x.risk \in Serious}}
      touched  == {comp} \union {x.id : x \in {x \in impacted : x.risk = "alto"}}
      direct   == Cardinality(Walk(comp, 1, Callers(g)))
  IN  [risk      |-> IF risk = "medio" /\ direct >= Promote THEN "alto" ELSE risk,
       impacted  |-> impacted,
       score     |-> QaPayload(comp).score,
       suites    |-> Suites(comp, risk, impacted),
       gaps      |-> {n \in serious : /\ Kind[n] = "component" /\ Tests[n].runtime
                                        /\ ~HasIntegration(Tests[n])},
       processes |-> UNION {ProcessesOf(g, p) : p \in UNION {ProductOf(g, n) : n \in touched}},
       highlight |-> serious]

-----------------------------------------------------------------------------
(* Flows *)

(* _edge_on_map *)
OnMap(g, a, b) == \E e \in g.edges : {e.from, e.to} = {a, b} /\ e.type \in CallEdges \union FlowEdges

(* flows_for_map: the lanes and steps whose nodes are on the map. *)
FlowForMap(g, flow) ==
  LET lanes == SelectSeq(flow.lanes, LAMBDA x : x \in g.nodes)
      steps == SelectSeq(flow.steps, LAMBDA s : {s.from, s.to} \subseteq ToSet(lanes))
      Unchecked(s) == s.kind \in {"user", "self"} \/ s.from = s.to
  IN  [lanes   |-> lanes,
       missing |-> SelectSeq(flow.lanes, LAMBDA x : x \notin g.nodes),
       steps   |-> [i \in DOMAIN steps |->
                      [from |-> steps[i].from, to |-> steps[i].to,
                       on_map |-> IF Unchecked(steps[i]) THEN "unchecked"
                                  ELSE IF OnMap(g, steps[i].from, steps[i].to) THEN "yes" ELSE "no"]]]

-----------------------------------------------------------------------------
(* The live map.  A run is [object, total, passed, failed, skipped]; the   *)
(* rows are the runs of the last days, newest first.                       *)

StatusOrder == <<"none", "passed", "partial", "failed">>

RunStatus(r) ==
  CASE r.failed > 0 -> "failed"
    [] r.failed = 0 /\ r.passed > 0 /\ r.passed >= r.total - r.skipped -> "passed"
    [] OTHER -> "partial"

(* object_nodes: the components that a suite covers, else the node of that *)
(* name.                                                                   *)
ObjectNodes(g, object) ==
  LET hits == {n \in g.nodes : Kind[n] = "component" /\ object \in Tests[n].central \union Tests[n].nrt}
  IN  IF hits # {} THEN hits
      ELSE {n \in g.nodes : n = object /\ Kind[n] \in {"component", "product"}}

Worst(statuses) == StatusOrder[Max({i \in DOMAIN StatusOrder : StatusOrder[i] \in statuses})]

(* Fault: the oldest run of an object tells its status. *)
Newest_Oldest(rows, object) == rows[Max({i \in DOMAIN rows : rows[i].object = object})]

(* The last run of an object. *)
Newest(rows, object) == rows[Min({i \in DOMAIN rows : rows[i].object = object})]

(* summarise *)
Summary(g, rows) ==
  LET objects == {r.object : r \in ToSet(rows)}
      nodes   == UNION {ObjectNodes(g, o) : o \in objects}
  IN  [nodes    |-> [n \in nodes |->
                       Worst({RunStatus(Newest(rows, o)) : o \in {o \in objects : n \in ObjectNodes(g, o)}})],
       unmapped |-> {o \in objects : ObjectNodes(g, o) = {}}]
=============================================================================
