SPECIFICATION FairSpec

CONSTANTS
  scan = scan
  map = map
  join = join
  j1 = j1
  j2 = j2
  d1 = d1
  d2 = d2
  Jobs = {j1, j2}
  Stages = {scan, map, join}
  Parallelism <- TwoTwoOne
  Edges <- ReadBoth
  Pairwise = {map}
  ArrivalTime <- Later
  Position <- InOrder
  DataCenters = {d1, d2}
  CandidateDcs <- ScansAnywhere
  Executors <- OneEach
  Valid = {scan, map, join}
  Fallback = FALSE
  Interval = 0
  Work = {1, 2}
  MaxDuration = 3
  Modes <- AllModes
  Nowhere = Nowhere

INVARIANTS
  FollowsInputs
  StepsAreBatches

PROPERTIES
  EpisodeEnds
