\* Two repositories, a placeholder, a container, and two nodes with one name.
SPECIFICATION Spec
CONSTANTS
  app = app
  core = core
  fn = fn
  apim = apim
  vnet = vnet
  n1 = n1
  n2 = n2
  Repos = {app, core}
  Resources = {fn, apim, vnet}
  Home <- HomeOf
  Refs <- References
  ByName <- LookUps
  Containers = {vnet}
  Nodes = {n1, n2}
  Match <- MatchOf
  Nobody = Nobody
  MaxProposals = 2
  MaxEdits = 2
  MaxFlips = 2
INVARIANTS NothingDangles PlaceholdersGoAway
PROPERTIES NodesBelongToPeople InfraQueueExact KeepsThePromise
