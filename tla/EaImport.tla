------------------------------- MODULE EaImport -------------------------------
(***************************************************************************)
(* The bootstrap of the EA Map (ea/importer.py): a knowledge base, found   *)
(* offline, becomes the rows of the map, in one transaction that refuses   *)
(* to touch a map that has any, unless it was told to replace it.  Nothing *)
(* keeps imports, syncs and people apart but the rows themselves: a        *)
(* transaction waits for the rows that another one has deleted, and fails  *)
(* when it would insert a key that is there, or update or refer to a row   *)
(* that is gone.                                                           *)
(*                                                                         *)
(* A sync is its row in ea_sync_runs and one transaction that updates that *)
(* row and writes what it has found: see EaSyncRuns and EaNodes.           *)
(***************************************************************************)
EXTENDS Integers, Sequences, FiniteSets, SequencesExt

CONSTANTS
  Imports,  \* executions of the script
  Syncs,    \* runs of the sync
  Kbs,      \* files: [nodes, services, processes, infra, on, edges]
  Made,     \* nodes that people create
  Found     \* a node that a sync adds

(* A node of the file that is something in the map. *)
Types == {"area", "product", "component", "external", "datastore"}
(* runs_on links to these were derived by a rule: _RULE_INFRA. *)
RuleInfra == {"in-apim"}
Nothing == "none"
Refused == [ok |-> FALSE]

VARIABLES
  nodes,   \* ea_nodes: set of [id, kind, parent, by]
  edges,   \* ea_edges: set of [from, to, type, origin]
  docs,    \* ea_doc_links: set of [node, url]
  meta,    \* the import that wrote ea_meta
  runs,    \* ea_sync_runs, those of imports included
  results, \* runs that have rows in ea_changes and ea_repo_snapshots
  pc,      \* of imports and syncs
  mem      \* what they know: the file, the rows and runs they delete

vars == <<nodes, edges, docs, meta, runs, results, pc, mem>>

Map(f(_), s) == [i \in DOMAIN s |-> f(s[i])]
Row(id, kind, parent) == [id |-> id, kind |-> kind, parent |-> parent]
Link(from, to, type, origin) == [from |-> from, to |-> to, type |-> type, origin |-> origin]
Ids(rows) == {r.id : r \in rows}
Key(e) == <<e.from, e.to, e.type>>

(* The nodes of the graph and those of the blueprint, in order. *)
NodeRows(kb) ==
  Map(LAMBDA n : Row(n.id, n.type, n.parent), kb.nodes)
    \o Map(LAMBDA p : Row(p.id, "process", Nothing), kb.processes)
    \o Map(LAMBDA s : Row(s.id, "service", Nothing), kb.services)
    \o Map(LAMBDA i : Row(i, "infra", Nothing), kb.infra)

(* The technical links and those of the blueprint, in order: what a        *)
(* service realizes, what a process uses, what a product runs on.          *)
EdgeRows(kb) ==
  Map(LAMBDA e : Link(e.from, e.to, e.type, e.origin), kb.edges)
    \o FlattenSeq(Map(LAMBDA s : Map(LAMBDA p : Link(s.id, p, "realizes", "curated"), s.proc), kb.services))
    \o FlattenSeq(Map(LAMBDA p : Map(LAMBDA x : Link(p.id, x, "uses", "curated"), p.prod), kb.processes))
    \o Map(LAMBDA o : Link(o.prod, o.infra, "runs_on", IF o.infra \in RuleInfra THEN "infra_rule" ELSE "curated"), kb.on)

DocRows(kb) == FlattenSeq(Map(LAMBDA n : Map(LAMBDA u : [node |-> n.id, url |-> u], n.links), kb.nodes))

(* Of links with the same key the first one. *)
FirstOf(rows) == {rows[i] : i \in {i \in DOMAIN rows : \A j \in 1..(i - 1) : Key(rows[j]) # Key(rows[i])}}

(* Ends and parents that are no node of the file. *)
Missing(ns, es) ==
  ((UNION {{e.from, e.to} : e \in es}) \union {n.parent : n \in ns}) \ ({Nothing} \union Ids(ns))

(* _collect: an unknown type, an id used twice or a reference to nothing   *)
(* refuses the whole file.                                                 *)
Collected(kb) ==
  LET rows == NodeRows(kb)
      ns   == ToSet(rows)
      es   == FirstOf(EdgeRows(kb))
  IN  IF /\ \A i \in DOMAIN kb.nodes : kb.nodes[i].type \in Types
         /\ \A i, j \in DOMAIN rows : rows[i].id = rows[j].id => i = j
         /\ Missing(ns, es) = {}
      THEN [ok |-> TRUE, nodes |-> ns, edges |-> es, docs |-> ToSet(DocRows(kb))]
      ELSE Refused

Init ==
  /\ nodes = {} /\ edges = {} /\ docs = {} /\ meta = Nothing
  /\ runs = {} /\ results = {}
  /\ pc = [x \in Imports \union Syncs |-> "new"]
  /\ mem = [i \in Imports |-> Refused]

Goto(x, phase) == pc' = [pc EXCEPT ![x] = phase]
Rows == <<nodes, edges, docs, meta, runs, results>>

(* import_kb reads the file, and whether the map is empty. *)
Check(i, kb, replace) ==
  /\ pc[i] = "new"
  /\ LET file == Collected(kb) IN
     IF ~file.ok \/ (nodes # {} /\ ~replace) THEN Goto(i, "failed") /\ UNCHANGED mem
     ELSE /\ mem' = [mem EXCEPT ![i] = [ok |-> TRUE, file |-> file, empty |-> nodes = {}, runs |-> {}, gone |-> {},
                                        nodes |-> {}, meta |-> Nothing]]
          /\ Goto(i, IF nodes = {} THEN "cleared" ELSE "checked")
  /\ UNCHANGED Rows

(* An open transaction has deleted rows that this one wants. *)
Deleting(i) == \E j \in Imports \ {i} : pc[j] \in {"started", "cleared"} /\ ~mem[j].empty

(* The first deletions, of proposals, statuses and runs, see the runs that *)
(* there are when they begin.                                              *)
SeeRuns(i) ==
  /\ pc[i] = "checked"
  /\ mem' = [mem EXCEPT ![i].runs = runs]
  /\ Goto(i, "seen")
  /\ UNCHANGED Rows

(* Fault: the rows of the runs stay. *)
Victims_None(i) == {}

Victims(i) == mem[i].runs

(* They are done.  From here a sync of one of the runs waits. *)
DeleteRuns(i) ==
  /\ pc[i] = "seen" /\ ~Deleting(i)
  /\ mem' = [mem EXCEPT ![i].gone = Victims(i)]
  /\ Goto(i, "started")
  /\ UNCHANGED Rows

(* The others, each of what is committed when it begins. *)
DeleteMap(i) ==
  /\ pc[i] = "started"
  /\ mem' = [mem EXCEPT ![i].nodes = nodes, ![i].meta = meta]
  /\ Goto(i, "cleared")
  /\ UNCHANGED Rows

(* A key that is there by now: of a node, or of ea_meta. *)
Conflict(i, left) == meta # mem[i].meta \/ Ids(left) \intersect Ids(mem[i].file.nodes) # {}

By(i) == {[id |-> n.id, kind |-> n.kind, parent |-> n.parent, by |-> i] : n \in mem[i].file.nodes}

(* Parents before children, links, meta, and a run that says so; the       *)
(* commit.  A node that came later stays.                                  *)
Load(i) ==
  /\ pc[i] = "cleared"
  /\ LET left == nodes \ mem[i].nodes IN
     IF Conflict(i, left) THEN Goto(i, "failed") /\ UNCHANGED Rows
     ELSE /\ nodes' = left \union By(i)
          /\ edges' = mem[i].file.edges
          /\ docs' = mem[i].file.docs
          /\ meta' = i
          /\ runs' = (runs \ mem[i].gone) \union {i}
          /\ results' = results \ mem[i].gone
          /\ Goto(i, "done")
  /\ UNCHANGED mem

Crash(i) ==
  /\ pc[i] \in {"checked", "seen", "started", "cleared"}
  /\ Goto(i, "failed")
  /\ UNCHANGED <<Rows, mem>>

(* create_run commits its row. *)
Register(s) ==
  /\ pc[s] = "new"
  /\ runs' = runs \union {s}
  /\ Goto(s, "running")
  /\ UNCHANGED <<nodes, edges, docs, meta, results, mem>>

Waits(s) == \E i \in Imports : pc[i] \in {"started", "cleared"} /\ s \in mem[i].gone

(* execute_run: its row is updated with what it has found, or is gone, and *)
(* then nothing is written at all.                                         *)
Finish(s) ==
  /\ pc[s] = "running" /\ ~Waits(s)
  /\ IF s \in runs
     THEN /\ results' = results \union {s}
          /\ nodes' = IF Found \in Ids(nodes) THEN nodes
                      ELSE nodes \union {[id |-> Found, kind |-> "dataset", parent |-> Nothing, by |-> s]}
     ELSE UNCHANGED <<nodes, results>>
  /\ Goto(s, "done")
  /\ UNCHANGED <<edges, docs, meta, runs, mem>>

(* create_node *)
Create(id) ==
  /\ id \notin Ids(nodes)
  /\ nodes' = nodes \union {[id |-> id, kind |-> "external", parent |-> Nothing, by |-> "person"]}
  /\ UNCHANGED <<edges, docs, meta, runs, results, pc, mem>>

(* The scripts end. *)
Ended ==
  /\ \A x \in Imports \union Syncs : pc[x] \in {"done", "failed"}
  /\ UNCHANGED vars

Next ==
  \/ \E i \in Imports : \/ SeeRuns(i) \/ DeleteRuns(i) \/ DeleteMap(i) \/ Load(i) \/ Crash(i)
                        \/ \E kb \in Kbs, replace \in BOOLEAN : Check(i, kb, replace)
  \/ \E s \in Syncs : Register(s) \/ Finish(s)
  \/ \E id \in Made : Create(id)
  \/ Ended

Spec == Init /\ [][Next]_vars

-----------------------------------------------------------------------------
(* Properties *)

(* The map hangs together: no link and no parent is missing, an id is one  *)
(* node, and rows of one import at most are there.                         *)
OneFile ==
  /\ (UNION {{e.from, e.to} : e \in edges}) \union {n.parent : n \in nodes} \subseteq Ids(nodes) \union {Nothing}
  /\ \A n, m \in nodes : n.id = m.id => n = m
  /\ Cardinality({n.by : n \in nodes} \intersect Imports) <= 1
  /\ \A n \in nodes : n.by \in Syncs => n.by \in runs

(* An import that ends has loaded the whole file and left nothing of what  *)
(* was there when it cleared the map; and a sync that was under way then   *)
(* never writes its results into the new map.                              *)
Replaced ==
  [][\A i \in Imports : pc[i] # "done" /\ pc'[i] = "done" =>
       /\ mem[i].file.edges = edges' /\ mem[i].file.docs = docs'
       /\ Ids(mem[i].file.nodes) \subseteq Ids(nodes')
       /\ ~mem[i].empty => nodes' \intersect mem[i].nodes = {}
       /\ mem[i].runs \intersect (results' \union runs') = {}]_vars
NeverMixed ==
  [][\A s \in Syncs : results' # results /\ s \in results' \ results =>
       \A i \in Imports : pc[i] = "done" => s \notin mem[i].runs]_vars

(* All of it: the map is of one file.                                      *)
ImportWhole == []OneFile /\ Replaced /\ NeverMixed
=============================================================================
