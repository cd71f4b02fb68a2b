---------------------------- MODULE EaSnapshots ----------------------------
(***************************************************************************)
(* What a sync of the map re-reads (app/services/ea/sync/engine.py,        *)
(* app/services/ea/infra/sync.py).  The facts extracted from a repository  *)
(* are kept in ea_repo_snapshots; a run reads a repository again only when *)
(* GitHub lists a push later than fetched_at, and extracts it again only   *)
(* when the commit differs.  Everything is read with no transaction open;  *)
(* one transaction at the end of the run writes the snapshots.             *)
(*                                                                         *)
(* Runs are taken one after the other: two that overlap, where EaSyncRuns  *)
(* lets them, are left out here.  Commits of a branch are numbered in      *)
(* order.  Of the times pushed_at and fetched_at the code compares, the    *)
(* model keeps the comparison: pushed.  fetched_at is the time of the      *)
(* apply, not of the read, so that a push between the two is taken as      *)
(* read: missed remembers where that happened.                             *)
(***************************************************************************)
EXTENDS Naturals

CONSTANTS
  Repos,      \* repositories of components, of the contracts, of Terraform
  Infra,      \* those of Terraform, INFRA_REPOS
  MaxHead,    \* bound: commits of a branch
  MaxParser,  \* bound: versions of the Terraform parser
  MaxFaults   \* bound: reads and runs that fail

VARIABLES
  head,     \* the commit at the tip of the default branch
  parser,   \* PARSER_VERSION of the deployed code
  snap,     \* ea_repo_snapshots
  pushed,   \* pushed_at > fetched_at
  missed,   \* history: stamped last by a run that had read it before a push
  pc,       \* phase of the run
  outcome,  \* what the run did with each repository
  tree,     \* the commit that get_tree returned, 0: not asked
  files,    \* the commit whose files get_files returned, 0: not asked
  faults

runVars == <<pc, outcome, tree, files>>
vars == <<head, parser, snap, pushed, missed, runVars, faults>>

\* sha: head_sha; content: the commit the extracted facts come from.
NoSnapshot == [sha |-> 0, content |-> 0, parser |-> 0]
Outcomes == {"unlisted", "known", "todo", "tree", "touched", "fresh", "failed"}
Stored(r) == snap[r] # NoSnapshot
Unread == [r \in Repos |-> 0]

Init ==
  /\ head = [r \in Repos |-> 1]
  /\ parser = 1
  /\ snap = [r \in Repos |-> NoSnapshot]
  /\ pushed = [r \in Repos |-> TRUE]
  /\ missed = {}
  /\ pc = "idle"
  /\ outcome = [r \in Repos |-> "unlisted"]
  /\ tree = Unread
  /\ files = Unread
  /\ faults = 0

\* The extract of a Terraform repository carries the version of the parser.
ParserOf(r) == IF r \in Infra THEN parser ELSE 0

\* Faults: the version of the parser is not compared; a snapshot, once there,
\* is reused whatever was pushed.
Comparable_AnyParser(r) == Stored(r)
Reusable_Stored(r) == Stored(r)

Comparable(r) == Stored(r) /\ snap[r].parser = ParserOf(r)
Reusable(r) == Comparable(r) /\ ~pushed[r]

\* The census lists some repositories: the others are archived, gone or not
\* visible to the token, and what is known of them stays.
Census(listed) ==
  /\ pc = "idle"
  /\ pc' = "reading"
  /\ outcome' = [r \in Repos |-> IF r \notin listed THEN "unlisted"
                                 ELSE IF Reusable(r) THEN "known" ELSE "todo"]
  /\ UNCHANGED <<head, parser, snap, pushed, missed, tree, files, faults>>

Settled(r) == outcome[r] \notin {"todo", "tree"}

\* Terraform comes after the components and the contracts.
MayRead(r) ==
  /\ pc = "reading"
  /\ r \in Infra => \A q \in Repos \ Infra : Settled(q)

GetTree(r) ==
  /\ MayRead(r)
  /\ outcome[r] = "todo"
  /\ tree' = [tree EXCEPT ![r] = head[r]]
  /\ outcome' = [outcome EXCEPT ![r] =
       IF Comparable(r) /\ snap[r].sha = head[r] THEN "touched" ELSE "tree"]
  /\ UNCHANGED <<head, parser, snap, pushed, missed, pc, files, faults>>

\* The files are asked by branch, not by the commit of the tree.
GetFiles(r) ==
  /\ MayRead(r)
  /\ outcome[r] = "tree"
  /\ files' = [files EXCEPT ![r] = head[r]]
  /\ outcome' = [outcome EXCEPT ![r] = "fresh"]
  /\ UNCHANGED <<head, parser, snap, pushed, missed, pc, tree, faults>>

\* SourceError: the run goes on with what the snapshot says.
ReadFails(r) ==
  /\ MayRead(r)
  /\ ~Settled(r)
  /\ faults < MaxFaults
  /\ faults' = faults + 1
  /\ outcome' = [outcome EXCEPT ![r] = "failed"]
  /\ UNCHANGED <<head, parser, snap, pushed, missed, pc, tree, files>>

\* The run forgets what it read.
Over ==
  /\ pc' = "idle"
  /\ outcome' = [r \in Repos |-> "unlisted"]
  /\ tree' = Unread
  /\ files' = Unread

\* Fault: a read that failed is stamped like a good one.
Stamped_Failed(r) == outcome[r] \in {"fresh", "touched", "failed"}

Written(r) == outcome[r] = "fresh"
\* A Terraform repository found unchanged is not stamped.
Stamped(r) == Written(r) \/ (outcome[r] = "touched" /\ r \notin Infra)

\* A push came after the run had read the branch.
Overtaken(r) == tree[r] \in 1..(head[r] - 1)

Apply ==
  /\ pc = "reading"
  /\ \A r \in Repos : Settled(r)
  /\ snap' = [r \in Repos |->
       IF Written(r)
       THEN [sha |-> tree[r], content |-> files[r], parser |-> ParserOf(r)]
       ELSE snap[r]]
  /\ pushed' = [r \in Repos |-> pushed[r] /\ ~Stamped(r)]
  /\ missed' = {r \in Repos : IF Stamped(r) THEN Overtaken(r) ELSE r \in missed}
  /\ Over
  /\ UNCHANGED <<head, parser, faults>>

\* A dry run, an exception, a crash: nothing is written.
Abort ==
  /\ pc = "reading"
  /\ faults < MaxFaults
  /\ faults' = faults + 1
  /\ Over
  /\ UNCHANGED <<head, parser, snap, pushed, missed>>

Push(r) ==
  /\ head[r] < MaxHead
  /\ head' = [head EXCEPT ![r] = @ + 1]
  /\ pushed' = [pushed EXCEPT ![r] = TRUE]
  /\ UNCHANGED <<parser, snap, missed, runVars, faults>>

\* A new release, between two runs.
Deploy ==
  /\ pc = "idle"
  /\ parser < MaxParser
  /\ parser' = parser + 1
  /\ UNCHANGED <<head, snap, pushed, missed, runVars, faults>>

Next ==
  \/ \E listed \in SUBSET Repos : Census(listed)
  \/ \E r \in Repos : GetTree(r) \/ GetFiles(r) \/ ReadFails(r) \/ Push(r)
  \/ Apply
  \/ Abort
  \/ Deploy

Spec == Init /\ [][Next]_vars

-----------------------------------------------------------------------------

Snapshot ==
  [sha : 0..MaxHead, content : 0..MaxHead, parser : 0..MaxParser]

\* The types of the snapshots and of the state of a run.
TypeOK ==
  /\ head \in [Repos -> 1..MaxHead]
  /\ parser \in 1..MaxParser
  /\ snap \in [Repos -> Snapshot]
  /\ pushed \in [Repos -> BOOLEAN]
  /\ missed \in SUBSET Repos
  /\ pc \in {"idle", "reading"}
  /\ outcome \in [Repos -> Outcomes]
  /\ tree \in [Repos -> 0..MaxHead]
  /\ files \in [Repos -> 0..MaxHead]
  /\ faults \in 0..MaxFaults

AtTip(r) == snap[r].sha = head[r] /\ snap[r].content = head[r]

\* A repository that the next run would not read has nothing to be read: its
\* snapshot is the tip of the branch, unless the push came after the read of
\* the very run that stamped it.  _collect and _collect_contracts skip on
\* fetched_at >= pushed_at, and fetched_at is written by _apply.
NothingMissed ==
  \A r \in Repos : Stored(r) /\ ~pushed[r] => AtTip(r) \/ r \in missed

\* A run that works from a Terraform snapshot works from an extract of the
\* deployed parser, unless the repository could not be read in this run
\* (infra/sync.py collect: `current`).
ParserIsCurrent ==
  \A r \in Infra :
    outcome[r] \in {"known", "touched"} => snap[r].parser = parser

\* A snapshot is never replaced by an older commit or removed, whatever part
\* of a run fails (_apply writes only what was read to the end).
SnapshotsAdvance ==
  [][\A r \in Repos :
       /\ snap'[r].sha >= snap[r].sha
       /\ snap'[r].content >= snap[r].content]_vars

\* A missed push stays so: no run reads the repository before the next one.
LeftBehind(r) == r \in missed /\ ~pushed[r]

\* Once the repositories, the releases and the faults settle, every snapshot
\* is of the deployed parser and becomes the tip of its branch, or was
\* stamped over the last push and stays behind it.
CatchesUp ==
  <>[](\A r \in Repos : /\ snap[r].parser = ParserOf(r)
                        /\ AtTip(r) \/ LeftBehind(r))

=============================================================================
