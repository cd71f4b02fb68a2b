---------------------------------- MODULE Hub ----------------------------------
(***************************************************************************)
(* The parts of the Hub that import reports or a whole EA Map, show        *)
(* reports, or keep the accounts.  They share no table, so any of their    *)
(* interleavings is one of each part beside steps that leave it alone: a   *)
(* behaviour is about one of them, and the others stay as they begin.      *)
(***************************************************************************)
EXTENDS SanpHealth, Sequences

(* SanpPage *)
CONSTANTS Reports, Artifacts, Pages, PageRetention, PageRetry, Lag, MaxHour, MaxSyncs
(* EaImport *)
CONSTANTS Scripts, MapSyncs, Kbs, Made, Found
(* GpdPositions *)
CONSTANTS Last, Day, Reported, Unread, GpdSyncs, PerPage, Backfill
(* PspFees *)
CONSTANTS PspSyncs, Catalogs, MaxBatches
(* Access *)
CONSTANTS Emails, Names, Subs, Roles, System, Actions, Defaults, Patches, Features, Requests, MaxCommits

VARIABLES
  about,
  hour, left, reports, outcome, syncs, pagePc, read,                     \* SanpPage
  nodes, edges, docs, meta, rows, found, loadPc, loads,                  \* EaImport
  ended, late, snaps, missed, count, gpdPc, known, page, gpdNew, gpdHad, \* GpdPositions
  source, table, items, pspPc, records, seen, gone, pspHad, batches,     \* PspFees
  users, perms, shown, req, commits                                      \* Access

Page == INSTANCE SanpPage WITH
  Runs <- Reports, Retention <- PageRetention, Retry <- PageRetry, MaxTime <- MaxHour,
  now <- hour, done <- left, rows <- reports, status <- outcome, ended <- syncs, pc <- pagePc, mem <- read
Load == INSTANCE EaImport WITH
  Imports <- Scripts, Syncs <- MapSyncs, runs <- rows, results <- found, pc <- loadPc, mem <- loads
Gpd == INSTANCE GpdPositions WITH Syncs <- GpdSyncs, pc <- gpdPc, new <- gpdNew, had <- gpdHad
Psp == INSTANCE PspFees WITH
  Syncs <- PspSyncs, pc <- pspPc, had <- pspHad, status <- items, got <- records
Acc == INSTANCE Access

(* The artifacts of a run of the workflow: changes have a level, and only  *)
(* what is about MAIN is of an environment that no name requires.  Reports *)
(* are kept longer than they are retried, by more than a sync lasts.       *)
ASSUME ReportsAssumption ==
  /\ Page!Missing \notin Reports /\ Pages \subseteq Reports \union {"latest"} /\ "latest" \notin Reports
  /\ \A r \in Reports : /\ Artifacts[r] \in Seq([prefix : STRING, file : STRING, env : STRING, levels : Seq(1..3)])
                        /\ \A i \in DOMAIN Artifacts[r] : Artifacts[r][i].env \in {"DEV", "UAT", "PROD", "MAIN"}
  /\ PageRetention \in Nat /\ PageRetry \in Nat /\ Lag \in Nat /\ PageRetention >= PageRetry + Lag
  /\ MaxHour \in Nat /\ MaxSyncs \in Nat

(* A script is no sync and nothing that a row of the map is otherwise by.  *)
ASSUME ImportAssumption ==
  /\ Scripts \intersect (MapSyncs \union {"person", Load!Nothing}) = {}
  /\ "person" \notin MapSyncs

(* A run of the log has a day; not every run leaves a report.              *)
ASSUME LogAssumption ==
  /\ Last \in Nat /\ PerPage \in Nat /\ Backfill \in Nat
  /\ Day \in [1..Last -> Int] /\ Reported \subseteq 1..Last /\ Unread \subseteq 1..Last

(* Catalogues are as long as they are.                                     *)
ASSUME CatalogAssumption ==
  /\ IsFiniteSet(PspSyncs) /\ PspSyncs # {}
  /\ \A v \in DOMAIN Catalogs : Catalogs[v] \in Nat

(* Those who log in become guests, and what is asked about a role is about *)
(* actions that there are.                                                 *)
ASSUME PeopleAssumption ==
  /\ "guest" \in Roles /\ Acc!Unset \notin Roles \union Subs
  /\ \A p \in Patches : DOMAIN p \subseteq Actions /\ p \in [DOMAIN p -> BOOLEAN]

pageVars == <<hour, left, reports, outcome, syncs, pagePc, read>>
loadVars == <<nodes, edges, docs, meta, rows, found, loadPc, loads>>
gpdVars == <<ended, late, snaps, missed, count, gpdPc, known, page, gpdNew, gpdHad>>
pspVars == <<source, table, items, pspPc, records, seen, gone, pspHad, batches>>
accVars == <<users, perms, shown, req, commits>>
hubVars == <<about, vars, pageVars, loadVars, gpdVars, pspVars, accVars>>

HubInit ==
  /\ about \in {"sanp", "page", "map", "gpd", "psp", "access"}
  /\ Init /\ Page!Init /\ Load!Init /\ Gpd!Init /\ Psp!Init /\ Acc!Init
  /\ about # "sanp" => done = [r \in Runs |-> 0]
  /\ about # "psp" => source = CHOOSE v \in DOMAIN Catalogs : TRUE

HubNext ==
  /\ UNCHANGED about
  /\ \/ about = "sanp" /\ Next /\ UNCHANGED <<pageVars, loadVars, gpdVars, pspVars, accVars>>
     \/ about = "page" /\ Page!Next /\ UNCHANGED <<vars, loadVars, gpdVars, pspVars, accVars>>
     \/ about = "map" /\ Load!Next /\ UNCHANGED <<pageVars, vars, gpdVars, pspVars, accVars>>
     \/ about = "gpd" /\ Gpd!Next /\ UNCHANGED <<pageVars, loadVars, vars, pspVars, accVars>>
     \/ about = "psp" /\ Psp!Next /\ UNCHANGED <<pageVars, loadVars, vars, gpdVars, accVars>>
     \/ about = "access" /\ Acc!Next /\ UNCHANGED <<pageVars, loadVars, vars, gpdVars, pspVars>>

HubSpec == HubInit /\ [][HubNext]_hubVars

(* SanpPage: what is shown is what was stored. *)
PageHonest == Page!PageHonest
(* EaImport: the map is of one file. *)
ImportWhole == Load!ImportWhole
(* GpdPositions: there is no hole among the snapshots. *)
NoHoles == Gpd!NoHoles
(* PspFees: the catalogue of the last sync is there, whole. *)
CatalogueServed == Psp!CatalogueServed
(* Access: only administrators change what a person may do. *)
AdminsDecide == Acc!AdminsDecide
=============================================================================
