------------------------------ MODULE EaSignals ------------------------------
(***************************************************************************)
(* What a sync of the EA Map keeps without asking anybody: attributes and  *)
(* QA signals of a component, from the files of its repository             *)
(* (sync/extract.py, sync/derive.py), links to Confluence from its README  *)
(* and, for a product, from the titles of pages (sync/sources.py, the      *)
(* first part of sync/engine.py); and the component that a new repository  *)
(* is proposed as.  People own the other columns of ea_qa_signals and      *)
(* write them at any time (ea/edit.py).                                    *)
(*                                                                         *)
(* One repository and one product.  A commit is a set of paths and what    *)
(* the files say; paths belong to classes, the regular expressions of      *)
(* extract.py.                                                             *)
(***************************************************************************)
EXTENDS Integers, Sequences, FiniteSets, SequencesExt, FiniteSetsExt

CONSTANTS
  Words,      \* the name of the repository, cut at the dashes
  Versions,   \* its commits: [tree, listed, says], listed is what GitHub lists
  Class,      \* class -> paths: unit, feature, perf, workflow, identity, tf, helm
  Roots,      \* the files of _ROOT_FILES
  HelmFiles,  \* sequence of the values files: prod, uat, dev
  PerQuery,   \* files read by one query
  Central,    \* central suites that exercise the component: CENTRAL_SUITES
  Nrt,        \* NRT suite -> the central suite it runs
  Tas,        \* the repository is the Test Automation Service itself
  Teams,      \* teams that own a component of the map
  Siblings,   \* components of the map: [words, product]
  Products,   \* sequence of the products: [id, domain]
  Listings,   \* what Confluence may list: space -> sequence of [id, par, hit]
  Spaces,     \* sequence of the spaces where the product has a rule
  Extra,      \* sequence of pages that are always linked: [id, pages]
  MaxLinks,   \* links of a product: 8
  Values,     \* what people write about a component
  MaxChanges  \* bound: pushes, moves of pages and corrections

None == "none"
NoRow == [row |-> None]
NoFacts == [facts |-> None]

VARIABLES
  tip, pushedAt,  \* the commit of the default branch, and its time
  listing,        \* what Confluence lists
  snap,           \* ea_repo_snapshots: [sha, facts, at]
  node,           \* the component
  qa,             \* its row in ea_qa_signals: [observed, manual]
  readme, rule,   \* ea_doc_links of the component and of the product
  asked,          \* the open proposal of the component
  pc, mem,        \* the run, and what it knows
  req,            \* a request of a person: [row, value]
  now             \* clock: number of changes

vars == <<tip, pushedAt, listing, snap, node, qa, readme, rule, asked, pc, mem, req, now>>

-----------------------------------------------------------------------------
(* From the files to the facts *)

(* The first values file of HELM_ENVS that is there. *)
HelmOf(paths) ==
  LET there == {i \in DOMAIN HelmFiles : HelmFiles[i] \in paths} IN
  IF there = {} THEN {} ELSE {HelmFiles[Min(there)]}

(* wanted_files *)
Wanted(paths) ==
  paths \intersect (Roots \union HelmOf(paths) \union Class.identity \union Class.workflow)

(* What the files of a kind say, together. *)
Said(files, kind) == UNION {files[p][kind] : p \in {p \in DOMAIN files : kind \in DOMAIN files[p]}}

(* extract_repo: counts are of the tree, the rest of the files that were   *)
(* read; a values file that is not valid says nothing.                     *)
Extract(paths, files, truncated) ==
  LET Count(class) == Cardinality(paths \intersect Class[class]) IN
  [ns        |-> UNION {files[p].ns : p \in HelmOf(DOMAIN files)},
   domain    |-> Said(files, "domain"),
   fw        |-> Said(files, "fw"),
   owners    |-> Said(files, "owners"),
   links     |-> Said(files, "links"),
   flows     |-> Said(files, "flows"),
   unit      |-> Count("unit"), features |-> Count("feature"), perf |-> Count("perf"), tf |-> Count("tf"),
   docker    |-> "Dockerfile" \in paths,
   helm      |-> Count("helm") > 0,
   truncated |-> truncated]

(* qa_observed; a workflow is the set of what it mentions. *)
Observed(facts) ==
  [unit    |-> facts.unit,
   it      |-> facts.features,
   flow    |-> \E w \in facts.flows : "it" \in w,
   perf    |-> facts.perf > 0,
   sonar   |-> \E w \in facts.flows : "sonar" \in w,
   central |-> Central,
   nrt     |-> {n \in DOMAIN Nrt : Nrt[n] \in Central},
   tas     |-> ~Tas /\ \E w \in facts.flows : "tas" \in w]

(* The row of a component that no sync has seen yet. *)
Nothing ==
  [unit |-> 0, it |-> 0, flow |-> FALSE, perf |-> FALSE, sonar |-> FALSE, central |-> {}, nrt |-> {}, tas |-> FALSE]

(* component_attrs *)
Attrs(facts) ==
  [fw |-> facts.fw, ns |-> IF facts.ns # {} THEN facts.ns ELSE facts.domain, owners |-> facts.owners, flows |-> facts.flows]

Named(words) == ToSet(Words) \intersect words # {}

(* guess_ctype *)
GuessType(facts) ==
  CASE Named({"mock"}) -> "mock"
    [] Named({"test", "tests", "qa"}) -> "test"
    [] "Azure Functions" \in facts.fw \/ Last(Words) \in {"function", "functions"} -> "fn"
    [] facts.fw \intersect {"React", "Next.js"} # {} \/ Last(Words) \in {"fe", "frontend"} -> "fe"
    [] facts.tf > 10 /\ ~facts.docker -> "infra"
    [] facts.docker \/ facts.helm -> "be"
    [] OTHER -> "lib"

(* guess_product: the product of a component whose name begins alike, two  *)
(* words at least, if its domain does not say otherwise; else the first    *)
(* one with the domain.  Components come in no order.                      *)
Common(a, b) == Len(LongestCommonPrefix({a, b}))
GuessProduct(facts) ==
  LET alike    == {s \in Siblings : Common(s.words, Words) >= 2}
      byName   == {s.product : s \in {s \in alike : \A t \in alike : Common(t.words, Words) <= Common(s.words, Words)}}
      byDomain == {i \in DOMAIN Products : Products[i].domain \in facts.ns \union facts.domain}
      agreed   == {p \in byName : byDomain = {} \/ \E i \in byDomain : Products[i].id = p}
      first    == IF byDomain = {} THEN {} ELSE {Products[Min(byDomain)].id}
  IN  IF byName = {} THEN IF first = {} THEN {None} ELSE first
      ELSE agreed \union (IF agreed = byName THEN {} ELSE first)

(* _candidate_payload: counts of a tree that GitHub has cut are in it too. *)
Payloads(facts) ==
  {[ctype |-> GuessType(facts), parent |-> p, attrs |-> Attrs(facts), qa |-> Observed(facts), links |-> facts.links] :
     p \in GuessProduct(facts)}

-----------------------------------------------------------------------------
(* From the pages of Confluence to the links of a product *)

(* The members of a sequence at some of its indices, in an order: the nth  *)
(* is the one that n of them do not come after.                            *)
Ranked(s, indices, before) ==
  LET Nth(n) == CHOOSE k \in indices : Cardinality({i \in indices : <<k, i>> \notin before}) = n
  IN  [n \in 1..Cardinality(indices) |-> s[Nth(n)]]
Picked(s, indices) == Ranked(s, indices, {p \in indices \X indices : p[1] < p[2]})

Kids(pages, id) == Picked(pages, {i \in DOMAIN pages : pages[i].par = id})

(* SpaceIndex: two levels below the pages whose parent is not listed. *)
Levels(pages) ==
  LET ids   == {p.id : p \in ToSet(pages)}
      roots == Picked(pages, {i \in DOMAIN pages : pages[i].par \notin ids})
      first == FlattenSeq([i \in DOMAIN roots |-> Kids(pages, roots[i].id)])
  IN  FlattenSeq([i \in DOMAIN first |-> <<first[i]>> \o Kids(pages, first[i].id)])

(* subtree: a page, and the kids of all that is found.                     *)
Subtree(pages, id) ==
  LET Upto[k \in 0..Len(pages)] ==
        IF k = 0 THEN {id}
        ELSE LET above == Upto[k - 1] IN above \union {p.id : p \in {p \in ToSet(pages) : p.par \in above}}
  IN  Upto[Len(pages)]

(* Pages that the rules of the product link, rule by rule. *)
Matches(pages) ==
  FlattenSeq([i \in DOMAIN Spaces |->
    LET space  == pages[Spaces[i]]
        levels == Levels(space)
        hits   == Picked(levels, {k \in DOMAIN levels : levels[k].hit})
    IN  [k \in DOMAIN hits |-> [id |-> hits[k].id, pages |-> Cardinality(Subtree(space, hits[k].id))]]]) \o Extra

(* sorted: among pages of one size the order stays. *)
Largest(out) ==
  Ranked(out, DOMAIN out,
         {p \in (DOMAIN out) \X (DOMAIN out) : \/ out[p[1]].pages > out[p[2]].pages
                                               \/ out[p[1]].pages = out[p[2]].pages /\ p[1] < p[2]})

(* conf_links: the largest first, a page once. *)
ConfLinks(pages) ==
  LET sorted == Largest(Matches(pages))
      once   == Picked(sorted, {i \in DOMAIN sorted : \A j \in 1..(i - 1) : sorted[j].id # sorted[i].id})
  IN  SubSeq(once, 1, Min({Len(once), MaxLinks}))

-----------------------------------------------------------------------------
(* The world *)

Ids(links) == {links[i].id : i \in DOMAIN links}

Init ==
  /\ tip = 1 /\ pushedAt = 0 /\ listing = 1
  /\ snap = NoRow
  /\ node \in {NoRow, [ctype |-> "be", parent |-> Products[1].id, attrs |-> NoFacts]} \* new, or created by hand
  /\ qa = NoRow /\ readme = {} /\ rule = <<>> /\ asked = NoRow
  /\ pc = "idle" /\ mem = NoFacts
  /\ req = NoRow /\ now = 0

Change == now < MaxChanges /\ now' = now + 1

Push ==
  /\ Change /\ tip < Len(Versions)
  /\ tip' = tip + 1 /\ pushedAt' = now'
  /\ UNCHANGED <<listing, snap, node, qa, readme, rule, asked, pc, mem, req>>

MovePages ==
  /\ Change /\ listing < Len(Listings)
  /\ listing' = listing + 1
  /\ UNCHANGED <<tip, pushedAt, snap, node, qa, readme, rule, asked, pc, mem, req>>

(* _approve_node_add; the person chooses the product if none was guessed. *)
Approve ==
  /\ asked # NoRow /\ node = NoRow
  /\ \E i \in DOMAIN Products :
       /\ asked.parent \in {None, Products[i].id}
       /\ node' = [ctype |-> asked.ctype, parent |-> Products[i].id, attrs |-> asked.attrs]
  /\ qa' = [observed |-> asked.qa, manual |-> None]
  /\ readme' = asked.links
  /\ asked' = NoRow
  /\ UNCHANGED <<tip, pushedAt, listing, snap, rule, pc, mem, req, now>>

(* update_qa: the row is read, or made. *)
UpdateQa(value) ==
  /\ req = NoRow /\ node # NoRow /\ Change
  /\ req' = [row |-> qa, value |-> value]
  /\ UNCHANGED <<tip, pushedAt, listing, snap, node, qa, readme, rule, asked, pc, mem>>

(* The column is written; a row that was inserted meanwhile is an error. *)
CommitQa ==
  /\ req # NoRow
  /\ qa' = IF req.row # NoRow THEN [qa EXCEPT !.manual = req.value]
           ELSE IF qa = NoRow THEN [observed |-> Nothing, manual |-> req.value]
           ELSE qa
  /\ req' = NoRow
  /\ UNCHANGED <<tip, pushedAt, listing, snap, node, readme, rule, asked, pc, mem, now>>

-----------------------------------------------------------------------------
(* The run *)

(* Fault: only what was fetched by this run is applied. *)
LastFacts_Fresh(row) == NoFacts

(* What is known of a repository that is not read again. *)
LastFacts(row) == IF row = NoRow THEN NoFacts ELSE row.facts

Goto(phase, m) == pc' = phase /\ mem' = m

(* _read_state and the census: a repository with no push since its         *)
(* snapshot is not read.                                                   *)
Census ==
  /\ pc = "idle"
  /\ LET m == [known |-> node # NoRow, asked |-> asked # NoRow, snap |-> snap, facts |-> LastFacts(snap),
               sha |-> 0, touched |-> FALSE, paths |-> {}, files |-> [p \in {} |-> None], todo |-> <<>>]
     IN  IF snap # NoRow /\ snap.at >= pushedAt THEN Goto("pages", m) ELSE Goto("tree", m)
  /\ UNCHANGED <<tip, pushedAt, listing, snap, node, qa, readme, rule, asked, req, now>>

(* A source that cannot be read: the last facts stay. *)
SourceError ==
  /\ pc \in {"tree", "files"}
  /\ Goto("pages", [mem EXCEPT !.sha = 0])
  /\ UNCHANGED <<tip, pushedAt, listing, snap, node, qa, readme, rule, asked, req, now>>

(* get_tree *)
GetTree ==
  /\ pc = "tree"
  /\ LET paths == Versions[tip].listed IN
     IF mem.snap # NoRow /\ mem.snap.sha = tip THEN Goto("pages", [mem EXCEPT !.touched = TRUE])
     ELSE Goto("files", [mem EXCEPT !.sha = tip, !.paths = paths, !.todo = SetToSeq(Wanted(paths))])
  /\ UNCHANGED <<tip, pushedAt, listing, snap, node, qa, readme, rule, asked, req, now>>

(* get_files: some at a time, from the branch as it is by then; the facts  *)
(* of all of them.                                                         *)
GetFiles ==
  /\ pc = "files"
  /\ LET n     == Min({Len(mem.todo), PerQuery})
         says  == Versions[tip].says
         found == ToSet(SubSeq(mem.todo, 1, n)) \intersect DOMAIN says
         files == [p \in DOMAIN mem.files \union found |-> IF p \in found THEN says[p] ELSE mem.files[p]]
         rest  == SubSeq(mem.todo, n + 1, Len(mem.todo))
         cut   == Versions[mem.sha].listed # Versions[mem.sha].tree
     IN  IF rest # <<>> THEN Goto("files", [mem EXCEPT !.files = files, !.todo = rest])
         ELSE Goto("pages", [mem EXCEPT !.files = files, !.todo = rest, !.facts = Extract(mem.paths, files, cut)])
  /\ UNCHANGED <<tip, pushedAt, listing, snap, node, qa, readme, rule, asked, req, now>>

(* list_all_pages, or one of the spaces cannot be read; and the rows that  *)
(* the apply phase reads.                                                  *)
ReadRows ==
  /\ pc = "pages"
  /\ \E read \in BOOLEAN :
       Goto("commit", [known |-> mem.known, asked |-> mem.asked, sha |-> mem.sha, touched |-> mem.touched, facts |-> mem.facts,
                       pages |-> IF read THEN listing ELSE 0, node |-> node, row |-> qa, at |-> now])
  /\ UNCHANGED <<tip, pushedAt, listing, snap, node, qa, readme, rule, asked, req, now>>

(* A row that somebody has inserted since it was read. *)
Conflict(counted) == counted /\ mem.row = NoRow /\ qa # NoRow

(* _is_candidate, owners_overlap and propose, and the withdrawal of what   *)
(* the run does not propose.                                               *)
Propose ==
  IF ~mem.known /\ mem.facts # NoFacts /\ mem.facts.owners \intersect Teams # {}
  THEN IF mem.asked THEN UNCHANGED asked ELSE asked' \in Payloads(mem.facts)
  ELSE asked' = NoRow

(* _apply_product_docs, if every space was read. *)
ProductDocs == rule' = IF mem.pages # 0 THEN ConfLinks(Listings[mem.pages]) ELSE rule

(* _apply_component, and the commit of the run. *)
Commit ==
  /\ pc = "commit"
  /\ LET shown   == mem.node # NoRow /\ mem.facts # NoFacts
         counted == shown /\ ~mem.facts.truncated
     IN  /\ ~Conflict(counted)
         /\ snap' = CASE mem.sha # 0 -> [sha |-> mem.sha, facts |-> mem.facts, at |-> mem.at]
                      [] mem.touched -> [snap EXCEPT !.at = mem.at]
                      [] OTHER -> snap
         /\ node' = IF shown THEN [node EXCEPT !.attrs = Attrs(mem.facts)] ELSE node
         /\ qa' = IF ~counted THEN qa
                  ELSE [observed |-> Observed(mem.facts), manual |-> IF qa = NoRow THEN None ELSE qa.manual]
         /\ readme' = IF counted THEN mem.facts.links ELSE readme
         /\ ProductDocs /\ Propose
  /\ pc' = "done"
  /\ UNCHANGED <<tip, pushedAt, listing, mem, req, now>>

(* The run is over; or it fails before its commit, and nothing is written. *)
End ==
  /\ pc # "idle"
  /\ Goto("idle", NoFacts)
  /\ UNCHANGED <<tip, pushedAt, listing, snap, node, qa, readme, rule, asked, req, now>>

Next ==
  \/ Push \/ MovePages \/ Approve \/ CommitQa
  \/ \E v \in Values : UpdateQa(v)
  \/ Census \/ SourceError \/ GetTree \/ GetFiles \/ ReadRows \/ Commit \/ End

Spec == Init /\ [][Next]_vars

-----------------------------------------------------------------------------
(* Properties *)

(* When a run ends and its snapshot is of the tip of the branch, the       *)
(* component shows what the whole of that commit says, whether this run or *)
(* an earlier one read it, also if it was approved since from a proposal   *)
(* made of older files; of a tree that GitHub has cut it shows no count.   *)
Current(of, shown, row, links) ==
  of # NoRow /\ of.sha = tip /\ mem.node # NoRow =>
    LET commit == Versions[tip]
        facts  == Extract(commit.tree, commit.says, FALSE)
    IN  commit.listed = commit.tree =>
          /\ shown.attrs = Attrs(facts)
          /\ row.observed = Observed(facts)
          /\ links = facts.links

(* The links of a product break no uniqueness, and no page that its rules  *)
(* name is left out for a smaller one.                                     *)
LinksFit(links) ==
  /\ Cardinality(Ids(links)) = Len(links)
  /\ mem.pages # 0 =>
       LET all == Matches(Listings[mem.pages]) IN
       /\ Len(links) = Min({MaxLinks, Cardinality(Ids(all))})
       /\ \A i \in DOMAIN all : all[i].id \notin Ids(links) => \A k \in DOMAIN links : links[k].pages >= all[i].pages

(* A row of ea_qa_signals has two owners: a run changes only what it       *)
(* observes and a person only what people write ("observed columns are     *)
(* written only by the sync; manual columns only by users", EaQaSignal),   *)
(* however their transactions overlap, and nobody writes for a tree that   *)
(* was cut.                                                                *)
OwnerWrites ==
  qa # NoRow /\ qa' # qa =>
    \/ /\ pc = "commit" /\ pc' = "done" /\ ~mem.facts.truncated
       /\ qa'.manual = qa.manual
    \/ /\ req # NoRow /\ req' = NoRow
       /\ qa' = [observed |-> qa.observed, manual |-> req.value]

(* What is kept without asking can be relied upon: what a run leaves is    *)
(* current and fits, and nobody writes what belongs to another.            *)
SignalsKept ==
  [][/\ pc = "commit" /\ pc' = "done" => Current(snap', node', qa', readme') /\ LinksFit(rule')
     /\ OwnerWrites]_vars
=============================================================================
