----------------------------- MODULE EaContracts -----------------------------
(***************************************************************************)
(* The Data Lake on the EA Map: the graph of datasets that is built from   *)
(* the data contracts (ea/contracts.py), the producers that the sync       *)
(* proposes for the topics that enter it (sync/engine.py,                  *)
(* _propose_producers) and the controls of the Data Quality framework that *)
(* the map shows on a dataset (ea/dq_overlay.py).                          *)
(*                                                                         *)
(* A table is a name with a layer and a base name; a table that no         *)
(* contract describes is a dataset named by the table (dl:...).  Runs do   *)
(* not overlap here: EaSyncRuns is about that.                             *)
(***************************************************************************)
EXTENDS Integers, Sequences, FiniteSets, SequencesExt, FiniteSetsExt

CONSTANTS
  Tables,     \* names of tables; no contract has such a name as id
  LayerOf,    \* [Tables -> {"bronze", "silver", "gold", "plain"}]
  BaseOf,     \* [Tables -> the name without its layer]
  ModelTable, \* [models of contracts -> the table of that name]
  Words,      \* models whose name is an ordinary word
  Files,      \* sequence of files, in the order of their paths: a contract is
              \* [ok, id, quality, server, table, title, topic, models, says, checked, consumers, checks]
  Order,      \* the datasets in the order of the map
  Controls,   \* controls of the framework: [refs, status, check]
  Components, \* candidates as producers
  Rules,      \* PRODUCER_RULES: sequence of [topics, node]
  Shared,     \* [topics \X Components -> distinctive words in common]
  Moving,     \* bound: files that come and go
  MaxChanges  \* bound: changes of the contracts and of the components

None == "none"
Open == {"pending", "conflict"}
Blocked == Open \union {"rejected"}

-----------------------------------------------------------------------------
(* The graph of the contracts.  repo is the set of the indices of the      *)
(* files that are there.                                                   *)

(* Contract.table: only servers that are databases have one. *)
TableOf(c) == IF c.server = "database" THEN c.table ELSE None

(* classify_layer *)
Layer(c) ==
  LET Named(layer) == IF layer = "bronze" THEN "ingestion"
                      ELSE IF layer \in {"silver", "gold"} THEN layer ELSE "silver"
      t == TableOf(c)
  IN  CASE c.server = "kafka" -> "ingestion"
        [] c.server = "files" -> "export"
        [] c.server = "database" /\ t # None /\ LayerOf[t] # "plain" -> Named(LayerOf[t])
        [] OTHER -> Named(c.title)

(* table_layer *)
LayerOfTable(t) == CASE LayerOf[t] = "gold" -> "gold" [] LayerOf[t] = "bronze" -> "ingestion" [] OTHER -> "silver"

Readable(repo) == {i \in repo : Files[i].ok /\ ~Files[i].quality}
(* The first file that uses an id has it. *)
Accepted(repo) == {i \in Readable(repo) : \A j \in Readable(repo) : Files[j].id = Files[i].id => i <= j}
Errors(repo)   == {i \in repo : ~Files[i].ok} \union (Readable(repo) \ Accepted(repo))
QualityTables(repo) == {i \in repo : Files[i].ok /\ Files[i].quality}

(* Fault: the models of an ingestion take the tables of the contracts. *)
OwnerOf_Models(repo, t) ==
  LET owners == {i \in Accepted(repo) : TableOf(Files[i]) = t}
      models == {i \in Accepted(repo) : /\ Layer(Files[i]) = "ingestion"
                                        /\ \E m \in Files[i].models : ModelTable[m] = t}
  IN  IF models # {} THEN Files[Min(models)].id
      ELSE IF owners # {} THEN Files[Max(owners)].id ELSE t

(* by_table and target: the contract about that table, else the ingestion  *)
(* that has a model of that name, else the table itself.                   *)
OwnerOf(repo, t) ==
  LET owners == {i \in Accepted(repo) : TableOf(Files[i]) = t}
      models == {i \in Accepted(repo) : /\ Layer(Files[i]) = "ingestion"
                                        /\ \E m \in Files[i].models : ModelTable[m] = t}
  IN  IF owners # {} THEN Files[Max(owners)].id
      ELSE IF models # {} THEN Files[Min(models)].id ELSE t

KnownModels(repo) == UNION {Files[i].models : i \in {i \in Accepted(repo) : Layer(Files[i]) = "ingestion"}}

(* lineage_tables: what the sentences that hint at an origin, and are not  *)
(* an advice, name.                                                        *)
Lineage(repo, c) ==
  LET sentences == {s \in c.says : s.hint /\ ~s.advice}
      tables == {t \in UNION {s.tables : s \in sentences} : ~(Layer(c) = "ingestion" /\ LayerOf[t] = "bronze")}
      models == ((UNION {s.models : s \in sentences}) \intersect KnownModels(repo)) \ Words
  IN  (tables \union {ModelTable[m] : m \in models}) \ {TableOf(c)}

(* _consumers *)
Consumers(c) ==
  IF Layer(c) = "ingestion" THEN {}
  ELSE c.consumers \union (IF Layer(c) = "gold" THEN {"ext-bi"} ELSE {})

(* A table that an ingestion is checked on is derived from it. *)
ChecksOn(c) == IF Layer(c) = "ingestion" THEN {c.checked} \ {None, TableOf(c)} ELSE {}

Attrs(c) == [layer |-> Layer(c), table |-> TableOf(c), topic |-> IF c.server = "kafka" THEN c.topic ELSE None,
             checked |-> c.checked, models |-> c.models, checks |-> c.checks]
TableAttrs(t) == [layer |-> LayerOfTable(t), table |-> t, topic |-> None,
                  checked |-> None, models |-> {}, checks |-> {}]

(* build_graph *)
Graph(repo) ==
  LET contracts == {Files[i] : i \in Accepted(repo)}
      derives == {e \in UNION {{<<OwnerOf(repo, t), c.id>> : t \in Lineage(repo, c)}
                                 \union {<<c.id, OwnerOf(repo, t)>> : t \in ChecksOn(c)} : c \in contracts} :
                    e[1] # e[2]}
      cited   == {t \in Tables : \E e \in derives : t \in {e[1], e[2]}}
  IN  [nodes |-> [d \in {c.id : c \in contracts} \union cited |->
                    IF d \in cited THEN TableAttrs(d) ELSE Attrs(CHOOSE c \in contracts : c.id = d)],
       derives |-> derives,
       feeds |-> UNION {{<<c.id, x>> : x \in Consumers(c)} : c \in contracts},
       errors |-> Errors(repo), quality |-> QualityTables(repo)]

-----------------------------------------------------------------------------
(* Controls on datasets.  datasets is a function from ids to attributes.   *)

First(ids) == CHOOSE d \in ids : \A e \in ids : SelectInSeq(Order, LAMBDA x : x = d) <= SelectInSeq(Order, LAMBDA x : x = e)

(* dataset_keys *)
Bases(a) ==
  IF a.layer # "ingestion" THEN {}
  ELSE {BaseOf[t] : t \in ({a.checked} \ {None}) \union {ModelTable[m] : m \in a.models}}

(* Fault: a table is looked up by its name first, whatever its layer. *)
HomeOf_Exact(datasets, ref) ==
  LET exact == {d \in DOMAIN datasets : datasets[d].table = ref}
      base  == {d \in DOMAIN datasets : BaseOf[ref] \in Bases(datasets[d])}
  IN  IF exact # {} THEN {First(exact)} ELSE IF base # {} THEN {First(base)} ELSE {}

(* match_controls, for one table that a control names. *)
HomeOf(datasets, ref) ==
  LET exact == {d \in DOMAIN datasets : LayerOf[ref] # "bronze" /\ datasets[d].table = ref}
      base  == {d \in DOMAIN datasets : BaseOf[ref] \in Bases(datasets[d])}
  IN  IF exact # {} THEN {First(exact)} ELSE IF base # {} THEN {First(base)} ELSE {}

(* load_controls *)
Loaded == {c \in Controls : c.status # "eliminato"}
Matched(datasets) ==
  [d \in DOMAIN datasets |-> {c \in Loaded : \E ref \in c.refs : d \in HomeOf(datasets, ref)}]

(* coverage *)
Coverage(a, controls) ==
  LET hub == {c.check : c \in controls} \ {None} IN
  [controls |-> Cardinality(controls), active |-> Cardinality({c \in controls : c.status = "attivo"}),
   aligned |-> a.checks \intersect hub, only_contract |-> a.checks \ hub, only_hub |-> hub \ a.checks]

-----------------------------------------------------------------------------
(* Producers *)

VARIABLES
  repo,    \* the contracts that are published
  stored,  \* those of the stored extract; none is {}
  active,  \* components that are active on the map
  data,    \* dataset nodes: id -> attributes
  edge,    \* ea_edges of type produces: [component, dataset] -> status
  chg,     \* ea_changes about them: statuses, oldest first
  pc, mem, \* the run, and what it knows
  changes

vars == <<repo, stored, active, data, edge, chg, pc, mem, changes>>

Ids == {Files[i].id : i \in {i \in DOMAIN Files : Files[i].server = "kafka"}} \* that may enter the Data Lake
Pairs == Components \X Ids
LastDecision(q) == IF q = <<>> THEN None ELSE Last(q)

(* propose_producer: the first rule for the topic whose node may be asked, *)
(* else a component with most words in common, and two at least.           *)
Guesses(topic, candidates) ==
  LET rules == {i \in DOMAIN Rules : topic \in Rules[i].topics /\ Rules[i].node \in candidates}
      Similar(n) == Shared[<<topic, n>>]
      alike == {n \in candidates : Similar(n) >= 2 /\ \A m \in candidates : Similar(m) <= Similar(n)}
  IN  IF topic = None THEN {} ELSE IF rules # {} THEN {Rules[Min(rules)].node} ELSE alike

(* A dataset somebody linked, or refused to link. *)
Decided(d) == \E c \in Components : edge[<<c, d>>] # None

Init ==
  /\ repo \in {DOMAIN Files, {}}
  /\ stored = {} /\ active = Components
  /\ data = [d \in {} |-> None]
  /\ edge = [p \in Pairs |-> None]
  /\ chg = [p \in Pairs |-> <<>>]
  /\ pc = "idle" /\ mem = [graph |-> None]
  /\ changes = 0

Publish(i) ==
  /\ changes < MaxChanges
  /\ repo' = (repo \union {i}) \ (repo \intersect {i})
  /\ changes' = changes + 1
  /\ UNCHANGED <<stored, active, data, edge, chg, pc, mem>>

(* A component is archived, or comes back. *)
Move(c) ==
  /\ changes < MaxChanges
  /\ active' = (active \union {c}) \ (active \intersect {c})
  /\ changes' = changes + 1
  /\ UNCHANGED <<repo, stored, data, edge, chg, pc, mem>>

(* create_edge and remove_edge *)
ByHand(p) ==
  /\ changes < MaxChanges /\ p[2] \in DOMAIN data
  /\ \/ edge[p] = None /\ edge' = [edge EXCEPT ![p] = "verified"]
     \/ edge[p] = "verified" /\ edge' = [edge EXCEPT ![p] = "removed"]
  /\ changes' = changes + 1
  /\ UNCHANGED <<repo, stored, active, data, chg, pc, mem>>

Refused(p) == IF edge[p] = None THEN "rejected" ELSE edge[p]

(* A person decides: an approval links, a refusal leaves its trace. *)
Decide(p, approve) ==
  /\ LastDecision(chg[p]) \in Open
  /\ chg' = [chg EXCEPT ![p] = Append(Front(@), IF approve THEN "approved" ELSE "rejected")]
  /\ edge' = [edge EXCEPT ![p] = IF approve THEN "verified" ELSE Refused(p)]
  /\ UNCHANGED <<repo, stored, active, data, pc, mem, changes>>

ReadState ==
  /\ pc = "idle"
  /\ mem' = [decided |-> [p \in Pairs |-> LastDecision(chg[p])]]
  /\ pc' = "read"
  /\ UNCHANGED <<repo, stored, active, data, edge, chg, changes>>

(* The contracts are read; or they are not, because they cannot be or      *)
(* because nothing seems to have been pushed, and the run goes on with the *)
(* stored extract.  And the files of some components are read.             *)
Collect ==
  /\ pc = "read"
  /\ \E read \in BOOLEAN, touched \in SUBSET Components :
       LET files == IF read THEN repo ELSE stored IN
       mem' = [decided |-> mem.decided, touched |-> touched, files |-> files, graph |-> Graph(files)]
  /\ pc' = "collected"
  /\ UNCHANGED <<repo, stored, active, data, edge, chg, changes>>

Wanted == mem.graph.nodes
Asking == {d \in DOMAIN Wanted : /\ Wanted[d].layer = "ingestion"
                                  /\ Guesses(Wanted[d].topic, active) # {} /\ ~Decided(d)}

(* Fault: what was asked once is not asked again. *)
Asked_Once(q, decided) == IF decided # None THEN q ELSE Append(q, "pending")

(* propose *)
Asked(q, decided) == IF decided \in Blocked THEN q ELSE Append(q, "pending")

(* _apply: the extract is stored if the run made one, _apply_data_lake, the *)
(* links among datasets apart (no extract applies like an empty one), and  *)
(* the end: open proposals of a scope of the run that it did not make are  *)
(* withdrawn.                                                              *)
Apply ==
  /\ pc = "collected"
  /\ \E guess \in [Asking -> Components] :
       /\ \A d \in Asking : guess[d] \in Guesses(Wanted[d].topic, active)
       /\ LET emitted == {<<guess[d], d>> : d \in Asking}
              scopes  == (mem.touched \intersect active) \union {guess[d] : d \in Asking}
          IN  chg' = [p \in Pairs |->
                        IF p \in emitted THEN Asked(chg[p], mem.decided[p])
                        ELSE IF p[1] \in scopes /\ LastDecision(chg[p]) \in Open
                        THEN Append(Front(chg[p]), "superseded") ELSE chg[p]]
  /\ data' = [d \in DOMAIN data \union DOMAIN Wanted |-> IF d \in DOMAIN Wanted THEN Wanted[d] ELSE data[d]]
  /\ stored' = mem.files
  /\ pc' = "applied"
  /\ UNCHANGED <<repo, active, edge, mem, changes>>

(* The run is over. *)
End ==
  /\ pc = "applied"
  /\ pc' = "idle" /\ mem' = [graph |-> None]
  /\ UNCHANGED <<repo, stored, active, data, edge, chg, changes>>

Next ==
  \/ ReadState \/ Collect \/ Apply \/ End
  \/ \E i \in Moving : Publish(i)
  \/ \E c \in Components : Move(c)
  \/ \E p \in Pairs : ByHand(p) \/ Decide(p, TRUE) \/ Decide(p, FALSE)

Spec == Init /\ [][Next]_vars

-----------------------------------------------------------------------------
(* Properties *)

(* Every file is a dataset, a table of results or an error, and every      *)
(* origin that a contract names is on the map: as the contract about that  *)
(* table when there is one, never beside it as a table without a contract. *)
LineageSound ==
  pc = "collected" =>
  LET files == mem.files
      g == mem.graph
      contracts == {Files[i] : i \in Accepted(files)}
      Described(t) == \E c \in contracts : TableOf(c) = t
  IN  /\ Cardinality(files) = Cardinality({c.id : c \in contracts}) + Cardinality(g.errors) + Cardinality(g.quality)
      /\ \A t \in Tables : Described(t) => t \notin DOMAIN g.nodes
      /\ \A e \in g.derives : {e[1], e[2]} \subseteq DOMAIN g.nodes
      /\ \A c \in contracts : \A t \in Lineage(files, c) :
           Described(t) => \E x \in contracts : TableOf(x) = t /\ (x = c \/ <<x.id, c.id>> \in g.derives)

(* A control is shown on the dataset of the table it names, if there is    *)
(* one, and else with the ingestion that fills it; a control of a landing  *)
(* table belongs to its ingestion, never to a dataset that only has the    *)
(* same name, and a table never counts for two datasets.                   *)
ControlsAtHome ==
  pc = "applied" =>
  LET matched == Matched(data) IN
  \A c \in Loaded :
    LET shown == {d \in DOMAIN data : c \in matched[d]} IN
    /\ \A d \in shown : \E ref \in c.refs :
         \/ data[d].table = ref /\ LayerOf[ref] # "bronze"
         \/ /\ BaseOf[ref] \in Bases(data[d])
            /\ LayerOf[ref] = "bronze" \/ \A e \in DOMAIN data : data[e].table # ref
    /\ \A ref \in c.refs :
         LayerOf[ref] # "bronze" /\ (\E d \in DOMAIN data : data[d].table = ref)
           => \E d \in shown : data[d].table = ref
    /\ Cardinality(shown) <= Cardinality(c.refs)

(* After every run, each topic that enters the Data Lake by the contracts  *)
(* the run knows has a producer that somebody linked or refused, or an     *)
(* open proposal, if there is anybody to propose: also when the run could  *)
(* not read the contracts, and when an earlier proposal was withdrawn      *)
(* because its contract or its component had gone.                         *)
NobodyForgotten ==
  [][pc = "collected" /\ pc' = "applied" =>
       \A d \in DOMAIN Wanted :
         \/ Wanted[d].layer # "ingestion"
         \/ Guesses(Wanted[d].topic, active) = {}
         \/ Decided(d)
         \/ \E c \in Components : LastDecision(chg'[<<c, d>>]) \in Open]_vars

(* Once a person has answered about a dataset, whatever the answer, no run *)
(* asks about that dataset again, neither for the same producer nor for    *)
(* another one that became the best guess.                                 *)
AnsweredOnce ==
  [][\A d \in Ids :
       (\E c \in Components : LastDecision(chg[<<c, d>>]) \in {"approved", "rejected"}) =>
         \A c \in Components : Len(chg'[<<c, d>>]) = Len(chg[<<c, d>>])]_vars

(* Both: people are asked about every producer, and once.                  *)
ProducersAsked == NobodyForgotten /\ AnsweredOnce
=============================================================================
