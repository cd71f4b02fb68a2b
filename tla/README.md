# QA Hub backend: TLA+ specifications

This directory is the verification project of the QA Hub backend: TLA+ modules
translated from the Python source, the TLC configurations that check them on
small instances, and proofs that TLAPS checks for every value of the constants.
The backend is a FastAPI application with a Postgres database, Celery workers
and mostly read-only access to GitHub, Confluence, Jira and other services. Most
endpoints are one statement on one row; what is hard is the background work
that reads other systems for minutes, writes in several transactions and shares its
tables with people who correct them, and the pages that are computed from what it
leaves. The specifications are about these.

1. Inventory of the system
2. Modules, their state and their correspondence with the code
3. What the runs check
4. What is proved, and how
5. What the code does that its documents do not say
6. What is not modelled

Paths are relative to `app/` unless they begin with `docs/`, `tests/` or are
`README.md`, the one of the repository.


## 1. Inventory

### EA Map (`services/ea`)

The EA Map is a graph of products, components, datasets and other things of the
platform (`ea_nodes`), the links between them (`ea_edges`) and an
infrastructure view (`ea_infra_resources`, `ea_infra_links`). A first import
(`importer.py`) fills it; then it is kept by a weekly sync and by people, and
shown by pages that compute walks, scores, impact and lineage on it.

| Component | State | Operations | What is hard | Module |
|---|---|---|---|---|
| Registration of runs (`sync/engine.py`, `sync/runner.py`, `tasks/sync_ea.py`, `api/v1/ea.py`) | `ea_sync_runs`, `ea_sync_status`, an advisory lock | `create_run` from the API, the beat or the command line, delivery by Celery, `execute_run`, `_fail`, dry runs | Two triggers at once; a run that outlives `STALE_AFTER`; workers that die at any point; a lost message | EaSyncRuns |
| Links (`sync/engine.py`, `sync/review.py`, `edit.py`) | `ea_edges`, `ea_changes` | read, collect and apply of a run; approve, reject; create, verify, remove, retype | Decisions taken while a run collects; read-then-write without row locks | EaReview |
| Nodes (the same files) | `ea_nodes`, `ea_changes` | the same, with candidates, the perimeter, data contracts, archiving | The rows of a run survive its transactions (`expire_on_commit=False`) | EaNodes |
| Signals and documents (`sync/extract.py`, `sync/derive.py`, `sync/sources.py`, `edit.py`) | attributes, `ea_qa_signals`, links to Confluence | facts of a repository kept without review; the candidate a repository is proposed as | One row with two owners; files and tree read at different commits; a tree that GitHub truncates | EaSignals |
| Snapshots (`sync/engine.py`, `infra/sync.py`) | `ea_repo_snapshots` | census, `get_tree`, `get_files`, apply | Pushes during a run; releases of the parser; failures half-way | EaSnapshots |
| Infrastructure (`infra/`) | resources, containers, links, proposals | rebuilding from all extracts, placeholders, review of node links | Repositories that cannot be read; blocks that leave and return | EaInfra |
| Data contracts and producers (`contracts.py`, `sync/rules.py`, `dq_overlay.py`) | datasets, `ea_changes` | graph of datasets, proposals of Kafka producers, controls shown on datasets | Tables that are named before they are described; answers that must not be asked for again | EaContracts |
| Bootstrap (`importer.py`) | the whole map | load or replace in one transaction | Two imports, syncs and people at once | EaImport |
| Pages (`kb.py`, `graph_index.py`, `scoring.py`, `release_impact.py`, `flows.py`, `live.py`) | none | walks, queries, scores, impact of a release, flows, live map | Two reads of a map that changes; cycles and several ways to one node | EaPages, EaGraph |
| Assistant (`assistant.py`, `groq.py`, `assistant_settings.py`) | one conversation, the settings | a loop of at most `MAX_STEPS` turns with tool calls, retries, fallback models, two providers | Answers that are late, empty or malformed; a change of provider half-way | EaAssistant |

What makes it correct: one running row, no lock-out, and two workers only where one of
them has outlived its time; nothing that a person
decided, corrected or wrote is undone by a run; the queue of proposals is
exactly the differences that nobody decided yet; what a run does not read again
has not changed; a page never shows dangling links, a placeholder beside the
real thing, a risk too low or a red test as green; a question ends.

The parts meet in `execute_run`: the registration gives a run its row; `_read_state`
opens a transaction and reads what was decided and what is known; the collect
talks to GitHub with no transaction; `_apply` writes everything in one. People
write the same tables by `review.py` and `edit.py` between those steps, and pages
read them, in a transaction of their own with several statements.

### Imports and accounts

| Component | State | Operations | What is hard | Module |
|---|---|---|---|---|
| SANP Health (`services/sanp_health.py`, `sanp_health_artifacts.py`) | runs, results, a status row, an advisory lock | hourly sync: list, download, import, retention; pages | Overlapping syncs; an artifact that fails; recording a failure after the lock is gone; pages read while a sync commits | SanpHealth, SanpPage |
| T&M absences (`services/tm.py`) | `resource_absences`, resources | sync of team calendars, import of rows, single rows, cost report | Syncs and imports that overlap under READ COMMITTED; years and hours at the boundary; duplicates | TmAbsences |
| GPD positions (`services/gpd_position.py`) | snapshots by date, a status row | daily import back to the first known run | The unique keys; a run that could not be read; overlapping syncs | GpdPositions |
| PSP fees (`services/psp_fee.py`) | the catalogue, a status row | replacement in one transaction | Two syncs that delete and insert at once | PspFees |
| Users, roles, features (`services/users.py`, `roles.py`, `feature_visibility.py`) | a row each | first login, later logins, changes of roles and permissions | Read-then-write without locks | Access |

What makes them correct: what is complete is never imported again or lost; a
status tells the truth about what is stored; importing again changes nothing;
each source replaces its own rows only; the report counts a day once; what a
person may do is decided by administrators.

### The rest

Data quality catalogue, BDD projects, test metrics, documents and suites:
single-row CRUD. Jira, dashboards: reads of other services. Authentication: no
state. Quality gate: one dispatch and an audit record. They are listed in
`PROJECT.json` with the reason why they are not modelled.


## 2. Modules

Each component has a module `X` with its properties at the end; a module `MCX` with
the values that a configuration needs; one configuration per question; and, where
there are theorems, `XProofs`, which extends `X`. Parts that share no
state with each other are instances of three composite modules, so that one run
checks them all, and their proofs are together in one module as well: a behaviour of `EaSync`
is about the runs (which it extends) or the snapshots; one of `Hub` is about one of SANP Health (which it
extends), its pages, the bootstrap, GPD, PSP or the accounts; one of `EaMap` is about
the pages (which it extends), the Data Lake, the assistant or the signals. The
assumptions on the constants of the instances are stated there; `MCEaSync`, `MCHub` and `MCEaMap`
give them values.
Definitions called `Definition_Variant` are faults: they stand before the definition
`Definition` with the same parameters and are used by no specification; putting one
in its place must break a property. `PROJECT.json` maps each definition to its lines.

**ReviewQueue** (what the reviews promise). The proposals about a subject are a sequence. A
`Run` may add one behind others that are all over and were not refused, or withdraw the
open one; `Decide` closes the open one of one subject. No decision changes and nobody is
asked again about what was refused. EaReview, EaNodes and EaInfra implement it, each by a
mapping of its proposals (`Shown`): `KeepsThePromise == Review!Spec`.

**EaSyncRuns** (one run as a whole). A row of `ea_sync_runs` and the process
that serves it are apart: `runStatus`, `startedAt`, `finishedAt` against `pc`.
`CheckRuns`/`InsertRun` are `create_run` before and after its read, under `lock`;
`Dispatch` the hand-over to Celery, `StartRunner` and `FailNoSource` the runner,
`ReadState`, `Collect`, `Finish`, `Raise` and `CloseFailed` the phases of
`execute_run`, `Crash` the end of a process at any point, including the loss of
a message. `Tick` advances the clock whatever is under way: nothing in the code stops a
process after any time, so that a worker may outlive `StaleAfter`, be taken for dead,
and go on beside the run that took its place.

**EaReview** (links). `Workers` execute runs: `SyncRead` (which proposals were
decided), `SyncCollect` (facts of the sources at that time), `SyncLoad` (the
links, in the last transaction) and `SyncCommit`. `People` have requests that
read and commit. A commit writes the columns to which it assigned a new
value, as the ORM does (`Written`). Reads and commits of runs and people overlap at will.
What a source may say is any set of links (`SyncCollect`).
Two history variables serve the properties: `others`, what other runs have
proposed since a run began, and `lost`, the signatures on which two writers crossed: each
had read a proposal before the other wrote it.
A key is one (from, to, type); a helm key is declared by a repository, a
contract key by the data contracts. The proposals of a signature are a
sequence, oldest first, because the code looks at the latest decision.

**EaNodes** (nodes). `ReadState` keeps whole rows in `mem`, which is what
the session does with `expire_on_commit=False`; `Collect` takes the census; `Apply`
selects the active rows but sees their old columns through `mem`. Datasets are read
in `Apply`. Versions number what a source says of a node. People correct at any time:
`Unseen` is what they do during a run and it cannot know.

**EaSignals** (what a run keeps without asking). One repository and one product. A
commit is a set of paths and what the files say. `Census`, `GetTree`, `GetFiles` (from
the branch, in queries of `PerQuery`), `ReadRows` and `Commit` are the steps of a run, because
pushes (`Push`), Confluence (`MovePages`) and people (`Approve`, `UpdateQa`, `CommitQa`) come
between. `Extract`, `GuessType`, `GuessProduct` and `ConfLinks` are operators. A
candidate carries the facts of the day it was first proposed (`Propose`). What the code filters or
sorts is the members of a sequence in an order (`Picked`, `Ranked`), and its recursion over a tree of
pages a recursive function (`Subtree`), so that both can be proved about.

**EaInfra** (infrastructure view). `snap` is what is stored of the repositories,
`facts` what the run works with: those read now and the known ones of the others.
`Graph`, `Resolved`, `ParentOf` and `Arrows` are the resolution of references; those
in `ByName` go through a data block, to another repository or to the same one, and make a
placeholder when nothing has the name.
`RowAfter` and `LinksAfter` what `Apply` writes. A node of a resource is set by
`ApproveLink` only.

**EaSnapshots** (what a run reads). Commits of a branch are numbered, `pushed`
is the comparison of `pushed_at` with `fetched_at`. `Census` reads the list,
`GetTree`, `GetFiles` and `ReadFails` one repository, `Apply` stores, `Abort` loses a
run. `Deploy` releases a new Terraform parser, `Push` may come at any time. `missed`
is history: the repositories that a run stamped after a push it had not read.

**EaContracts** (the Data Lake). `Graph` builds the datasets, their lineage and the errors from
the files of a repository, with the first file of an id and the owner of a table
(`OwnerOf`) chosen as the code does. A run (`ReadState`, `Collect`, `Apply`) reads the
contracts or, when it cannot, works on the `stored` extract; it guesses the producers
(`Guesses`: by rule, else by words in common) and proposes, leaves or withdraws; people answer (`Decide`) and make links
`ByHand`. `HomeOf` and `Coverage` are the overlay of the controls.

**EaGraph, EaPages** (the pages). A request is `ReadNodes`, `ReadEdges`, then a page; `Edit` is
what others commit in between. `Build` is `build_kb`, with what it drops (`Left`). The
walks, the impact query, `Analysis` of a release, the flows, the score and the `Summary` of the
live map are in EaGraph, breadth-first as in `graph_index.py`, with
their depth and their order. What `graph_index.py` writes as a loop or a recursion is a function
of the step that is defined by recursion (`Near`, `Queue`, `Paths`), not a RECURSIVE
operator, so that the walks can be proved about. `Within` and `Ways` are what they are compared
with: the nodes that are reached in at most n steps, and in which ways.

**EaAssistant**. `Ask` reads the settings; then the model of the moment `Says` a text or
`Calls` tools, is `Overloaded`, `Limited` or `Refuses`, whatever was sent. `RunTool` runs one
call after the other, `NextStep` goes on until `MaxSteps`, `Deliver` answers. `NextModel`
and `Unavailable` are the fallbacks: the next model of Gemini, then the other provider, once,
from the first message (`Restart`). `Save` changes the settings meanwhile. `Picked` and
`Without` are the two comprehensions of the code over a sequence: the members that satisfy a
condition, and those that differ from one, in their order.

**EaImport** (bootstrap). `Collected` is the file that `Check` accepts or refuses.
The load is one transaction, cut where others can be seen or waited for: `SeeRuns`,
`DeleteRuns`, `DeleteMap`, `Load`, which commits or meets a `Conflict`. Syncs (`Register`,
`Finish`) and people (`Create`) write between; a sync of which the row is being deleted waits.

**SanpHealth**. `List` and `SkipComplete` choose the runs, `Collect` downloads
with no transaction, `Lock` takes the advisory lock and looks the runs up again,
`Commit` imports, sets the status and applies the retention; `Refused` is the
sync that finds the lock taken, `TransactionFails` and `RecordFailure` the rollback
and the transaction that records it. Times are hours.

**SanpPage** (readers of SANP). Here a sync is one commit (`Sync`, `RecordFailure`), and what
it stores of every artifact matters: prefixes, environments, levels, totals. A page is
`ReadRun`, `ReadResults`, `ReadChanges`, `ReadStatus` and `ReadNewest`, each with what is committed then.

**TmAbsences**. `StartSync`, `Read`, `ReadFails`, `Delete`, `Commit` are a sync
of the calendars, `StartImport`, `ImportRow`, `Commit` an import of rows. At READ
COMMITTED a DELETE removes what was committed when it began, so rows carry the
transaction that wrote them and `Commit` removes what `Delete` saw. A file may
have two rows about one day; an absence by hand may have any type.
`BillableDays` is the part of the cost report that depends on absences.
`calm` records, for the properties, that nobody wrote the calendars, the
resources or the table since a request began.

**GpdPositions**. Runs of the workflow are numbered in the order they were created and may succeed
late, by a second attempt. A sync reads what is known, lists a page of
successful runs, walks it from the newest to the first known one, and adds what it could
read in one transaction that the unique keys may refuse (`Accepted`). `missed` is history:
what two first syncs that overlap leave behind.

**PspFees**. The rows of one sync come and go together, as a batch. `Fetch` refuses an empty
catalogue. `Delete` sees the committed batches, `Deleted` waits for the locks of another one;
`ReadStatus` and `Commit` follow, with the key of the status; `Stop` is the rollback.

**Access**. A request (a login, a change of a user, of the permissions of a role, of a feature)
reads its row and commits what it makes of it: the columns that differ (`Written`), with
the unique keys of the table.

Abstractions that several modules share: names, texts and payloads are model
values or version numbers; identities of rows are replaced by what makes them
unique; logging, tracing and formatting are left out.


## 3. Runs

| Run | Properties | Bounds |
|---|---|---|
| `EaSync_live` | Runs: `OneRunningRow`, `OverlapOnlyStale`, `SuccessAgrees` (the status is of the last success), `OutcomeIsFinal`, `AttemptsInOrder`; `EveryRunClosed` and `LockoutEnds` (liveness). Snapshots: `NothingMissed`, `ParserIsCurrent`, `CatchesUp` (liveness) | Two attempts, five ticks, STALE_AFTER of two, workers of any length; an application and a Terraform repository, three commits, two parsers, two faults |
| `EaReview_map` | `KeepsThePromise` (refinement of ReviewQueue), `HelmQueueExact` | Two helm keys of one pair, one contract key, one person, one run at a time, two proposals per signature and two in all, one correction; reads and commits that overlap, and any facts |
| `EaReview_people` | Finding, see section 5 | A helm key, a contract key, a run, a person |
| `EaNodes_review` | `KeepsThePromise`, `NodeQueueExact` | A component inside and one outside the perimeter, one product; one correction, at any time |
| `EaNodes_datasets` | `CorrectionsKept`, `ArchivedByPeople` | One component, one dataset; corrections at any time |
| `EaNodes_types` | Finding, see section 5 | One component |
| `EaInfra_map` | `NothingDangles`, `PlaceholdersGoAway`, `NodesBelongToPeople`, `InfraQueueExact`, `KeepsThePromise` | Two repositories, three blocks of which one is a container, references by data blocks in one repository and across, two nodes with similar names |
| `EaMap_pages` | Pages: `ReleaseHonest`, `LiveHonest`, `MapHangsTogether`. Data Lake: `LineageSound`, `ControlsAtHome`, `ProducersAsked`. Assistant: `AssistantHonest`, `QuestionsEnd` (liveness). Signals: `SignalsKept` | Seven nodes, every subset of eight links with cycles, two commits between the reads; seven files of which three come and go, two changes of the contracts, the components and the links; three steps, two delays, one change of the settings; three commits of which GitHub truncates one, two listings of two spaces, three changes |
| `Hub_imports` | SANP: `ReportsHonest`, `CompleteIsFinal`, `PageHonest`. GPD: `NoHoles`. PSP: `CatalogueServed`. Accounts: `AdminsDecide`. Bootstrap: `ImportWhole` | Two syncs of one report with two artifacts, four hours; two reports and two syncs under a reader, three hours; four GPD runs on days 0, 1, 3 and 4, a backfill of one, pages of three, two syncs; catalogues of two, three and no records, two syncs; two people, two roles, two requests, three commits; two imports of five files, a sync, people |
| `EaAssistant_model` | Finding, see section 5 | Two models, three steps |
| `SanpHealth_retention` | Finding, see section 5 | Two reports, four hours |
| `TmAbsences_map` | `OthersKept`, `MirrorsCalendar`, `ImportedOnce` | The last day of a year and a holiday, two overlapping requests, two calendars, two writing transactions, one change |

Properties that these imply, or that the theorems below establish beside them (types,
one open proposal per signature, the finality of single decisions, the status of a
report), have no run of their own.

Why the bounds are enough for what they are used for:

- The bounds on proposals, corrections, versions, faults and writes cap counters
  in guards; each is large enough for a proposal to be made, decided, and be due
  once more, a source to change and change back (`MaxFlips = 2` where that
  matters), a fault in each of two runs.
- The overlaps need two processes: two attempts, of which the second takes the first for
  dead while it works (five ticks leave it time to go on), a run and a person, two syncs of the same report, two requests on absences,
  two commits between the two reads of a page.
- Times are in units that make the comparisons of the code come out both ways:
  `StaleAfter = 2` has an age before, at and after it; the retention and the retry
  of an artifact differ (`Retention = 2`, `Retry = 1` against 7 days and 24 hours:
  only their order and the boundary matter). In `SanpPage` a retention is not shorter
  than the retry and the time that a sync takes together, as in the code.
- The walks are compared with `Within` and `Ways` over all 256 graphs of eight links that contain two
  cycles, a chain longer than the depth of the query, two ways of different length to
  one node and a dataset between two components.
- `PerPage = 3` with four GPD runs makes a listing too short, and with `Backfill = 1` the days
  0, 1, 3 and 4 make a first import stop between any two runs that are further apart: two
  first syncs that overlap do leave runs behind, and `NoHoles` without `missed` fails.
- `MaxMoves = 2` is enough for a contract to go and come back, and for a better guess to appear
  after an answer or a withdrawal.
- The files of the Data Lake have each case of the parser: an ingestion, a table that
  is cited before it is described, two tables with one base name in different layers,
  an advice that is no lineage, a broken file, a contract twice, a contract about results.
- Symmetry is used for identities that the code does not compare (links of one pair, workers,
  artifacts) and in runs without liveness properties.
- For every safety property of these runs a theorem of section 4 removes the bounds, with no
  condition on how runs, requests and pushes overlap or on how long a process lives. Where an
  overlap can do harm the property itself says what it excepts (`Apart`, `lost`, `Steady`,
  `missed`, `Unseen`), and the states it excepts are reached in the runs.

`CHECK_DEADLOCK FALSE` is in the configuration `EaSync_live` only: each
attempt ends and the clock stops at `MaxTime`. Elsewhere some step is always possible.

### Fairness

`EaSync!SyncSpec`, the runs: time passes, and a process that has not died goes on
(`WF` of `Progress`, which includes the delivery of the message: the broker delivers
what it did not lose). `Crash` and `Raise` may happen at any time and are not fair.
`EveryRunClosed` therefore allows `pc = "lost"`, and `LockoutEnds` rests on the age
of the row. Both need a clock, not a bound on the life of workers.

`EaSync!SyncSpec`, the snapshots: `SF` of a census that lists every repository, because a
run starts every week and nothing else than a run under way prevents it;
`WF` of the reads and of the apply, because a process goes on. Pushes, releases and
faults are bounded, so they end: `CatchesUp` says what happens after they do.

`EaMap!MapSpec`, the assistant: `WF` of `Step`, because the clients of both providers have
timeouts, so a request that was sent is answered or fails. Nothing is
assumed about what the models answer: `QuestionsEnd` holds for models that call
tools, fail or say nothing for ever.

Nothing else is assumed to be fair; the other properties are about safety.


## 4. Proofs

`tlapm XProofs.tla` proves each of the eight modules, for every value of the constants that
satisfies the named assumptions of the module it is about. Every invariant and
every action property of section 3 that holds is the subject of a theorem. One theorem, `OneOpen`, has an
assumption of its own, one run at a time; it is given below.

Type correctness is proved of the components with an invariant on their types, by a step for
every action (`TypeStep`; `ScopeStep` in TmAbsences, where types and scope go together); in the other
parts of HubProofs, EaPagesProofs and EaMapProofs the types are conjuncts of the invariants below.

**EaSyncProofs, the runs.** `RowsExclusive`: `RegistrationInv` says that
the holder of the lock has read every running row and that rows appear under the lock
only, which makes `OneRunningRow` inductive. The other theorems bound nothing: a process may
live for ever. `WorkInv` adds `OverlapOnlyStale` and `AgeInv`, which says how old the
others are that a registration has read or that work beside a newer run
(`CheckComesLate`: who passes the check comes at least STALE_AFTER after each of them), and gives
`OverlapsAreStale`, `OutcomesFinal` and `AttemptsOrdered`. `SuccessShown` needs `SuccessInv`: whatever
`last_success_at` shows is the end of a run that is shown as successful, or was closed
over by a registration (`ClosedBy`).

**EaReview.** Proposals are only appended, and only by a run that saw no live
one: with one run at a time `OneOpen` follows from `OpenLast` and `OpenKnown`. The rest
allows any number of runs and people. `LiveInv` says that, away from the `lost` signatures,
a proposal that blocks another is the last of its signature (`LiveLast`) and known to every run that others
have not overtaken (`LiveKnown`): `DecisionsFinal`, `RejectionsStick` and the
refinement, `LinksReviewed`, in which every step is one of ReviewQueue, of a subject on which nobody
crossed, or a stutter. `HelmQueue` relates the queue after a commit to the differences of that run:
what is emitted is justified and what is due is emitted (`EmittedJustified`),
because what was refused when the run began is still so (`RefusalsKnown`) and what is open was seen
(`OpenSeen`). It is about the links that nobody touched between the reads and the commit of the apply
(`Steady`); the minutes of the collect are not excepted.

**EaNodes.** `DatasetCorrectionsKept` and `OnlyPeopleArchive` hold step by step from
the types, corrections being allowed at any time (`ApplyWrites`, `RowWrites`).
`RejectionsLast` rests on `Settled` (a proposal that is not the last of its
signature is approved or superseded) and `Blocked` (a run knows of a last one that
is open or rejected), and so does the refinement, `NodesReviewed`. `NodeQueue` rests on `Present`,
`Answers` and `Faithful`: the decisions a run has read are in the queue, what it has read as open is open or
decided since, and a component that came after its reads was put on the map by hand or by an
approval of such a proposal.

**EaInfra.** `Sourced`: every row on the view comes from a repository that was
read once, and a run never forgets such a repository; so what a run leaves on
the view is what it has just built (`NothingEverDangles`, `PlaceholdersLeave`).
`QueueInv` has `Settled` and `Blocked` as above, `Remembered` (what a run knows as
decided has a proposal), `Given` (what was approved has a node) and `Single`
(open proposals of one resource are one): `OneProposal`, `QueueExact`, and the
refinement, `ResourcesReviewed`. `NodesOfPeople` is an action property proved action by action.

**EaSyncProofs, the snapshots.** `ParserKept` rests on `Rested` (nothing is reused between runs,
so a release finds nothing in use). `SnapshotsForward` rests on `Bounded`:
what was read lies between the snapshot and the tip. `OnlyThoseMissed`, with pushes at any
time, rests on `Held`: what a run has read is the tip, or a push has come since.

**TmAbsences.** `ScopeInv`: what a request is about to remove or write is
within its window or its file, whatever the others do; `OnlyItsOwnRows`, and
`BilledOnce` from the types. `FaithInv`: while nobody disturbs a request, what it
holds is what the calendars and the table say; `ImportIdempotent`,
`CalendarMirrored`. The latter holds whatever duplicates earlier overlaps have left,
which is how it shows that a later sync removes them.

**HubProofs** (SANP Health, and the smaller modules as instances).
- SANP Health. `LockInv`: the sync that has the lock has looked up what is
  missing since it took it. `CommitEffect` says once what a commit does to a report, and
  `OnlyCommitWrites` that nothing else does: `CompleteFinal`, `StatusMatches`,
  `RemovalsOnSuccess`, `SuccessKnown`, and with them `ReportsAreHonest`, follow with any
  number of syncs and crashes.
- `CatalogueKept` (PSP), for a finite set of syncs and catalogues of natural size (`Fed`).
  `PspInv` says that a batch was written by one sync and that a DELETE has seen the last
  catalogue or waits for who wrote it; the number of catalogues is bounded by an
  injection from batches to syncs (`Apart`).
- `SnapshotsWhole` (GPD), for any log, any backfill and syncs that overlap. `GpdInv` says what is
  whole (`Whole`), what a sync that has listed may rely on (`Seen`) and what it adds (`Collects`).
  A run is stored, `missed`, or too old and behind all that is stored (`Spared`).
- `PeopleDecided` (accounts), for any people, roles and requests whose patches are
  Booleans. `PeopleInv` and `RolesAsked` say what a request that has read knows of its row.

- `PagesHonest` (the pages of SANP), for any reports and artifacts. `PageInv` says what is stored of
  a report (`StoreInv`) and that what a request has read of a report that is still there is what the last
  sync of it stored (`RowRead`, `ResultsRead`). A retention that outlasts the retries by more than
  a sync lasts (`ReportsAssumption`; 7 days and 24 hours in the code) is what keeps
  a report from being imported again after it was removed.
- `ImportsWhole` (the bootstrap), for any files and any number of imports, syncs and
  people. `ImportInv`: what an import knows of the map when it cleared it (`Knows`), that the
  rows that came later are no import's unless another one has ended (`Cleared`), and that the syncs
  whose rows it deletes write nothing any more.

**EaPagesProofs.** The assumption on links (`PagesAssumption`) is that "uses" leads from
a process to a product: only importer.py:244 writes such links, and edit.py:137 refuses the other types by hand.
- `MapHolds`: a map that was read in two statements hangs together, whatever is committed between
  them, because `Build` drops what it does not find.
- `LivesHonest`: `LiveInv` says what a page was computed from; `NewestIs` and `WorstIs` say what the newest
  run of a suite and the worst of several states are.
- `ReleaseIsHonest`: the walks of `graph_index.py` are exact on every finite graph. That the
  recursive functions exist and unfold is `RecursionAt` and `Recursion`, `FlattenIs` for sequences.
  `Hopping` is the invariant of the breadth-first walk: what was found is what is reached, each by a
  shortest path, and the queue is in the order of the depth. `FoundIs`: what is
  nearer than all of the queue is found. `PathsSound` and `PathsComplete` say of the impact query that its paths follow links
  only and that one of the shortest length leads to whatever is in reach, because a shortest
  way visits nothing twice. `MergedIs` and `AroundIs` give the entries of a release, `SuitesAre` and
  `CoverageIsTold` their suites and gaps.

**EaMapProofs** (for `EaMap`; what holds of the pages is carried over by `PagesHonest`).
- `ProducersAreAsked`: `KnownInv` says that what a run knew as open is open still or
  answered, and that a refusal has left its trace on the link; `LakeInv` that the graph of a run is of the files it
  works on, those it read or those of the stored extract.
- `ControlsShown` and `LineageKept`: what `Graph`, the owner of a table and the overlay are for any
  files. `LakeAssumption` says that ids of contracts are no tables, which the prefixes
  `dc:` and `dl:` ensure (contracts.py:87-91 and 498-510).
- `AssistantIsHonest`: `Heard` says that every call of every turn but those that are left has its
  result, in order; `ChatInv` relates it to the models that are left, the steps and the fallback.
- `SignalsAreKept`: `StoredInv` says that a snapshot of the tip that GitHub lists whole is
  exact; `RunInv` that what a run has read agrees with the tip unless the tip has moved, and that what is left to ask
  for covers the rest (`Gathered`). `ConfLinksFit`: the links of a product are distinct,
  as many as fit, and none that was left out is larger; it rests on `RankedIs`, which says
  that a ranking is a permutation in order. `SignalsAssumption` says that a commit that is found has a first values file that
  can be read, and that what is looked for in other files is looked for in wanted ones (extract.py).

Only model-checked are the four liveness properties `EveryRunClosed`, `LockoutEnds`, `CatchesUp`
and `QuestionsEnd`: liveness under fairness, and anything with ENABLED, is out of reach of the proof
system. The four properties that section 5 names do not hold.


## 5. What the code does that its documents do not say

Four disagreements have a run that shows them:

- `EaNodes_types`. `services/ea/sync/engine.py` says at its top that the sync never
  changes component types. A type that a person sets while a run is
  collecting is overwritten: `_apply_component` writes the whole `attrs` of a row loaded
  minutes before (engine.py:466).
- `EaReview_people`. docs/ea-map/DESIGN.md:110 says that a link that is verified is never modified by
  the sync. `_apply` reads the links without a lock; a person who confirms a link of the contracts
  between these reads and the commit is overwritten when the contracts no longer declare it (engine.py:879).
- `EaAssistant_model`. README.md:241 says that the model that answered first stays for the later
  steps of the request. When it is overloaded at a later step, `_generate` goes on with the next one
  of `GEMINI_FALLBACK_MODELS` and stays with that (assistant.py:426-456).
- `SanpHealth_retention`. README.md:158 says that an error of GitHub or of an
  artifact does not remove the last complete report. The retention also runs after
  a sync that imported only part of a report, and removes a complete one that is
  older than RETENTION_DAYS although no complete one replaces it.

The rest was met while modelling. The models do the same, and the properties are stated
so that they allow it.

The sync of the EA map:

- docs/ea-map/DESIGN.md:172 says one run at a time. Two work at once when the first outlives
  STALE_AFTER, for the Celery task has no time limit: both may queue one
  proposal, outcomes are overwritten, and the older status may be written last. `OverlapOnlyStale`,
  `OutcomeIsFinal` and `AttemptsInOrder` say that this is the only way.
- A dry run that fails closes its row as failed instead of leaving none.
- Two people who decide one proposal at once both succeed, and the last commit stays. A run
  withdraws a proposal that is decided between the reads and the commit of its apply phase, and the
  decision is shown as superseded. `lost` marks both. They are races of milliseconds, against minutes for
  the collect, which the properties do not except.
- An override of a dataset that is saved between the reads and the commit of the apply phase
  can be overwritten: EaNodes takes the apply phase as one step.
- A link that was removed after it left the contracts stays removed when it comes
  back. A link written by hand, found in the helm values and gone again is not
  proposed for removal: only links of origin helm are.
- A product can be archived by an approval after a component was moved into it.
- A push between the read of a repository and the apply is older than `fetched_at`, and the
  repository is not read again before the next push, while docs/ea-map/DESIGN.md:146 has every run
  compare its commit with the stored one. `NothingMissed` and `CatchesUp` except exactly these (`missed`); if it was
  the last push, the snapshot stays behind for good. `pushed_at` has a resolution of one second.
- Files are read from the branch while the tree has a sha: a push between the two leaves facts
  of two commits together until the next push.
- A component that is proposed from a truncated tree takes counts that a comment in
  `_apply_component` calls wrong; they stay while the tree is truncated. The facts of a
  candidate are those of the day it was first proposed, until the first run after its approval.
- A control on a landing table that no ingestion fills is shown nowhere.
- The bootstrap does not delete the resources of the infrastructure view; they lose their
  nodes, and it deletes the snapshots, so that until Terraform is read again the view keeps what it
  showed. A sync that registers while an import is past its deletion of the runs reads
  the old map and may commit into the new one.

The assistant:

- Settings that are saved do not change the engine of a question under way, as README.md:206 says.
- A tool argument that should be a number and is not ends the question with an error 500.

Imports and accounts:

- SANP: a newer report of which nothing could be stored leaves no row, so the latest page is not
  called stale; nor is it once the 24 hours for a retry are over. A report of which all
  artifacts are about MAIN fails without a message. What is missing in a partial report is shown as
  NOT_CONFIGURED. A report removed between the reads of a page shows fewer rows, or
  none. An older sync that ends later moves `last_success_at` back.
- GPD: two runs of one day violate the unique date and make every later sync fail. A run
  that succeeds late, behind one that is known, is never imported, nor is one
  that could not be read once a later one is. First imports that overlap may leave a hole of
  runs older than BACKFILL_DAYS (days 1, 2 and 5 with a backfill of two: one sync
  begins before the run of day 5 and commits after the other); `NoHoles` excepts these, and no others.
- PSP: overlapping syncs may leave the catalogue twice, until the next one.
- Overlapping imports of absences, or overlapping syncs, leave duplicates: the table
  has no unique key. The cost report does not count them twice (`BilledOnce`), and
  the next undisturbed sync removes those of the calendars.
- The cost report bills all the working days of a month that the contract covers
  in part only. Absences by hand accept any type, while the comment of the
  column lists four, and the comment on its source omits csv.
- Two changes of the permissions of one role that overlap lose one of them: the
  column is written whole.


## 6. Not modelled

In parts of the system that are modelled:

- Links: a new type of a link (`Retype`) moves its row to another key. It is one step, taken while no
  other transaction is open on the links.
- Nodes: datastores, external systems and consumers of the contracts, which the sync adds
  and never changes.
- Infrastructure: the parsing of Terraform, instances of `for_each`, environments and the
  payload of the pages. Sources: rate limits and retries of single calls.
- Extraction: regular expressions, the tables of `rules.py`, endpoints in the
  helm values. Contracts: service levels, counts of fields, consumers.
- Knowledge base: the search by text, summaries, the card of a node. The release page:
  the paging of the GitHub API.
- T&M: matching of names, time zones, holidays, creation of resources, rates.
- SANP: the ZIP container of an artifact, which is valid or not.

These are data or formatting: they have no order of steps, and a model of them would be a
transliteration.

Not modelled at all: the data quality catalogue, BDD projects, test metrics,
documents and suites (CRUD of single rows; BDD also encrypts settings and
calls an AI service); Jira, dashboards, authentication (no state of their own);
the quality gate (one dispatch and its record); placeholders, schemas, configuration,
migrations and deployment.

What could still be proved: one behaviour of EaSyncRuns composed with EaReview, EaNodes and EaSnapshots.
EaReview allows runs that overlap and its theorems cover them; EaNodes, EaSnapshots, EaInfra and
EaContracts take runs one after the other, which `OverlapOnlyStale` gives as long as none
outlives STALE_AFTER.


## Running

```
tlc -config EaReview_map.cfg MCEaReview
tlc -config Hub_imports.cfg MCHub
tlapm EaReviewProofs.tla
```

Each run takes at most about three minutes with two workers. A module of proofs takes
from some seconds to about a quarter of an hour (EaMapProofs, the longest).
