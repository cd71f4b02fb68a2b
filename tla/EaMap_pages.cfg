\* The pages of the EA Map over every subset of the links with two commits in
\* between; or contracts that come and go, one sync at a time; or questions to
\* the assistant; or a repository and pages that change while they are read.
SPECIFICATION MapSpec
CONSTANTS
  c1 = c1
  c2 = c2
  c3 = c3
  d1 = d1
  p1 = p1
  p2 = p2
  m1 = m1
  Nodes <- Small
  Kind <- KindOf
  Parent <- ParentOf
  Tests <- TestsOf
  Promote = 2
  MaxFiles = 2
  Later = {d1}
  Links <- SomeLinks
  Changes <- SomeChanges
  Histories <- SomeHistories
  Flow <- SomeFlow
  MaxEdits = 2
  Tables <- SomeTables
  LayerOf <- Layers
  BaseOf <- BaseNames
  ModelTable <- OfModel
  Words = {}
  Files <- SomeFiles
  Order <- MapOrder
  Controls <- SomeControls
  Components = {"gpd-manager", "gpd-core"}
  Rules <- SomeRules
  Shared <- Alike
  Moving = {1, 2, 3}
  MaxMoves = 2
  Known = {"a", "b", "c"}
  Keys = {"gemini", "groq"}
  Configs <- SomeConfigs
  Fallbacks <- SomeFallbacks
  Turns <- SomeTurns
  Cited <- SomeCited
  MaxSteps = 3
  Delays = 2
  MaxLit = 2
  MaxSaves = 1
  RepoWords <- SomeWords
  Versions <- SomeCommits
  Class <- SomeClasses
  Roots = {"README", "CODEOWNERS", "pom"}
  HelmFiles <- SomeHelmFiles
  PerQuery = 3
  Central = {"gpd"}
  Nrt <- SomeNrt
  Tas = FALSE
  Teams = {"team"}
  Siblings <- SomeSiblings
  Products <- SomeProducts
  Listings <- SomePages
  Spaces <- SomeSpaces
  Extra <- SomeExtra
  MaxLinks = 3
  Values = {"v"}
  MaxPushes = 3
INVARIANTS ReleaseHonest LiveHonest LineageSound ControlsAtHome AssistantHonest
PROPERTIES MapHangsTogether ProducersAsked SignalsKept QuestionsEnd
