---- MODULE EaSync ----
(***************************************************************************)
(* The runs of the EA sync as a whole, and what a run reads again of the   *)
(* repositories.  EaSnapshots takes runs one at a time, with no clock, so  *)
(* the two share no state: a behaviour is about one of them, and the other *)
(* stays as it begins.                                                     *)
(***************************************************************************)
EXTENDS EaSyncRuns

(* EaSnapshots *)
CONSTANTS Repos, Infra, MaxHead, MaxParser, MaxFaults

VARIABLES
  about,
  head, parser, snap, pushed, missed, reading, found, tree, files, faults \* EaSnapshots

Snap == INSTANCE EaSnapshots WITH pc <- reading, outcome <- found

(* Repositories of Terraform are repositories, and each branch has a       *)
(* commit.                                                                 *)
ASSUME SnapshotsAssumption ==
  /\ Infra \subseteq Repos
  /\ MaxHead \in Nat \ {0} /\ MaxParser \in Nat \ {0} /\ MaxFaults \in Nat

snapVars == <<head, parser, snap, pushed, missed, reading, found, tree, files, faults>>
syncVars == <<about, vars, snapVars>>

(* Who asks for the runs is of no matter to what they read.                *)
SyncInit ==
  /\ about \in {"runs", "snapshots"}
  /\ Init
  /\ about = "snapshots" => trigger = [r \in Runs |-> "beat"]
  /\ Snap!Init

OfRuns(A) == about = "runs" /\ A /\ UNCHANGED <<about, snapVars>>
OfSnapshots(A) == about = "snapshots" /\ A /\ UNCHANGED <<about, vars>>

SyncNext == OfRuns(Next) \/ OfSnapshots(Snap!Next)

(* Time passes, and a process that does not die goes on.  Runs are started *)
(* every week and the token sees every repository again and again; faults, *)
(* pushes and releases come to an end.                                     *)
SyncSpec ==
  /\ SyncInit /\ [][SyncNext]_syncVars
  /\ WF_syncVars(OfRuns(Tick)) /\ \A r \in Runs : WF_syncVars(OfRuns(Progress(r)))
  /\ SF_syncVars(OfSnapshots(Snap!Census(Repos)))
  /\ \A r \in Repos : WF_syncVars(OfSnapshots(Snap!GetTree(r))) /\ WF_syncVars(OfSnapshots(Snap!GetFiles(r)))
  /\ WF_syncVars(OfSnapshots(Snap!Apply))

(* EaSnapshots: what a run skips is up to date, or a push was stamped over. *)
NothingMissed == Snap!NothingMissed
(* EaSnapshots: an extract of an older parser is never reused. *)
ParserIsCurrent == Snap!ParserIsCurrent
(* EaSnapshots: every snapshot becomes the tip, or stays behind such a push. *)
CatchesUp == about = "snapshots" => Snap!CatchesUp
=============================================================================
