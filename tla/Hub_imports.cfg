\* Two syncs that overlap, of one SANP report with two artifacts, of the GPD
\* snapshots or of the PSP catalogue; or two requests about the accounts; the
\* pages of the reports while syncs commit; or two imports of a whole map beside a sync.
SPECIFICATION HubSpec
CONSTANTS
  Runs = {r1}
  Items = {i1, i2}
  Workers = {w1, w2}
  None = None
  Retention = 2
  Retry = 1
  MaxTime = 4
  Reports = {"r1", "r2"}
  Artifacts <- SomeArtifacts
  Pages = {"latest", "r2"}
  PageRetention = 1
  PageRetry = 0
  Lag = 1
  MaxHour = 3
  MaxSyncs = 2
  Scripts = {"i1", "i2"}
  MapSyncs = {"s1"}
  Kbs <- SomeKbs
  Made = {"x", "y"}
  Found = "d"
  Last = 4
  Day <- SomeDays
  Reported = {1, 2, 4}
  Unread = {2}
  GpdSyncs = {"task", "person"}
  PerPage = 3
  Backfill = 1
  PspSyncs = {"task", "person"}
  Catalogs <- SomeCatalogs
  MaxBatches = 4
  Emails = {"e1", "e2"}
  Names = {"n1"}
  Subs = {"s1"}
  Roles = {"guest", "admin"}
  System = {"admin"}
  Actions = {"view", "edit"}
  Defaults <- SomeDefaults
  Patches <- SomePatches
  Features = {"bdd"}
  Requests = {"q1", "q2"}
  MaxCommits = 3
SYMMETRY Symmetry
INVARIANTS ReportsHonest CatalogueServed
PROPERTIES CompleteIsFinal PageHonest NoHoles AdminsDecide ImportWhole
