--------------------------------- MODULE EaMap ---------------------------------
(***************************************************************************)
(* What the EA Map shows and says: its pages, what it reads of the Data    *)
(* Lake, its assistant, and what its syncs keep without asking.  They      *)
(* share no state, so any of their interleavings is one of each part       *)
(* beside steps that leave it alone: a behaviour is about one of them, and *)
(* the others stay as they begin.                                          *)
(***************************************************************************)
EXTENDS EaPages

(* EaContracts *)
CONSTANTS Tables, LayerOf, BaseOf, ModelTable, Words, Files, Order, Controls, Components, Rules, Shared, Moving, MaxMoves
(* EaAssistant *)
CONSTANTS Known, Keys, Configs, Fallbacks, Turns, Cited, MaxSteps, Delays, MaxLit, MaxSaves
(* EaSignals *)
CONSTANTS
  RepoWords, Versions, Class, Roots, HelmFiles, PerQuery, Central, Nrt, Tas, Teams, Siblings, Products,
  Listings, Spaces, Extra, MaxLinks, Values, MaxPushes

VARIABLES
  about,
  tip, pushedAt, listing, snap, comp, qa, readme, rule, asked, keepPc, keepMem, req, now, \* EaSignals
  repo, stored, active, data, edge, chg, runPc, mem, changes,   \* EaContracts
  row, chatPc, config, conv, queue, tries, out, saves           \* EaAssistant

Lake == INSTANCE EaContracts WITH MaxChanges <- MaxMoves, pc <- runPc
Chat == INSTANCE EaAssistant WITH pc <- chatPc
Kept == INSTANCE EaSignals WITH
  Words <- RepoWords, MaxChanges <- MaxPushes, node <- comp, pc <- keepPc, mem <- keepMem

(* Contracts are a sequence of files, name known tables, have ids that     *)
(* begin with dc: where a table has dl:, and refer to what can be counted. *)
ASSUME LakeAssumption ==
  /\ Len(Files) \in Nat /\ DOMAIN Files = 1..Len(Files) /\ Moving \subseteq DOMAIN Files
  /\ "none" \notin Tables /\ \A m \in DOMAIN ModelTable : ModelTable[m] \in Tables
  /\ \A i \in DOMAIN Files : LET c == Files[i] IN
       /\ c.id \notin Tables /\ {c.table, c.checked} \subseteq Tables \union {"none"}
       /\ c.models \subseteq DOMAIN ModelTable /\ \A s \in c.says : s.tables \subseteq Tables
  /\ Len(Order) \in Nat /\ \A c \in Controls : IsFiniteSet(c.refs)

(* Turns, the ids of a call and the fallbacks are sequences, and there is  *)
(* a step at least.                                                        *)
ASSUME ChatAssumption ==
  /\ MaxSteps \in Nat \ {0} /\ MaxLit \in Nat /\ IsFiniteSet(Known)
  /\ Fallbacks \in Seq(ToSet(Fallbacks))
  /\ \A turn \in Turns : /\ turn \in Seq(ToSet(turn))
                         /\ \A k \in DOMAIN turn : turn[k].ids \in Seq(ToSet(turn[k].ids))

(* Commits, listings and rules are sequences.  Of the files of a commit    *)
(* the first values file can be read, and what is looked for in the others *)
(* is looked for in those that are wanted.                                 *)
ASSUME SignalsAssumption ==
  /\ Versions \in Seq(ToSet(Versions)) /\ Versions # <<>> /\ HelmFiles \in Seq(ToSet(HelmFiles))
  /\ \A v \in ToSet(Versions) :
       /\ IsFiniteSet(v.listed)
       /\ Kept!HelmOf(v.tree) \subseteq DOMAIN v.says /\ DOMAIN v.says \subseteq v.tree
       /\ \A p \in DOMAIN v.says \ Kept!Wanted(v.tree) : DOMAIN v.says[p] \subseteq {"ns"}
  /\ Listings \in Seq(ToSet(Listings)) /\ Listings # <<>> /\ Spaces \in Seq(ToSet(Spaces))
  /\ \A pages \in ToSet(Listings), key \in ToSet(Spaces) : pages[key] \in Seq(ToSet(pages[key]))
  /\ Extra \in Seq(ToSet(Extra)) /\ \A x \in ToSet(Extra) : x.pages \in Nat
  /\ PerQuery \in Nat /\ MaxLinks \in Nat

keptVars == <<tip, pushedAt, listing, snap, comp, qa, readme, rule, asked, keepPc, keepMem, req, now>>
lakeVars == <<repo, stored, active, data, edge, chg, runPc, mem, changes>>
chatVars == <<row, chatPc, config, conv, queue, tries, out, saves>>
mapVars == <<about, vars, lakeVars, chatVars, keptVars>>

MapInit ==
  /\ about \in {"pages", "lake", "chat", "signals"}
  /\ Init /\ Lake!Init /\ Chat!Init /\ Kept!Init
  /\ about # "pages" => shown = {}
  /\ about # "lake" => repo = {}
  /\ about # "chat" => ~row.fallback
  /\ about # "signals" => comp = Kept!NoRow

MapNext ==
  /\ UNCHANGED about
  /\ \/ about = "pages" /\ Next /\ UNCHANGED <<lakeVars, chatVars, keptVars>>
     \/ about = "lake" /\ Lake!Next /\ UNCHANGED <<vars, chatVars, keptVars>>
     \/ about = "chat" /\ Chat!Next /\ UNCHANGED <<vars, lakeVars, keptVars>>
     \/ about = "signals" /\ Kept!Next /\ UNCHANGED <<vars, lakeVars, chatVars>>

(* Fairness is that of the assistant: see EaAssistant. *)
MapSpec ==
  /\ MapInit /\ [][MapNext]_mapVars
  /\ WF_mapVars(about = "chat" /\ Chat!Step /\ UNCHANGED <<about, vars, lakeVars, keptVars>>)

(* EaContracts: every origin that a contract names is on the map. *)
LineageSound == Lake!LineageSound
(* EaContracts: a control is shown where its table is. *)
ControlsAtHome == Lake!ControlsAtHome
(* EaContracts: every topic has a producer, an answer or a proposal, and   *)
(* an answer is never asked for twice.                                     *)
ProducersAsked == Lake!ProducersAsked
(* EaAssistant: a model is sent one whole conversation, and an answer is   *)
(* about the map and of one conversation.                                  *)
AssistantHonest == Chat!AssistantHonest
(* EaSignals: what a sync keeps without asking can be relied upon. *)
SignalsKept == Kept!SignalsKept
(* EaAssistant: every question ends. *)
QuestionsEnd == Chat!QuestionsEnd
=============================================================================
