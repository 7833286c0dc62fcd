CONSTANTS
  Links <- MCLinks
  MaxMoves <- MCMaxMoves
  MaxLeave = 1
  PageSizes <- MCPageSizes
  EventTypes = {"A", "B"}
  StoredIds = {1}
  MaxTotal = 2
  Failures <- MCFailures
  MaxLoads = 2
  SendIds = {1, 2}
  InitialId = 1
  Drafts <- MCDrafts
  MaxSends = 2
  Copies = {c1, c2}
  MaxOthers = 2
  Processes = {"consumer"}
  HISTORY = 2
  MaxScrapes = 2
  MaxCount = 2
  MaxRestarts = 1
  MaxPolls = 2
  MaxChanges = 2
  MaxFailures = 1
  TourSteps <- MCTourSteps
  MaxTour = 2
SPECIFICATION Spec
INVARIANTS
  ConsoleTypeOK
  ExplorerShowsWhatIsAsked
  PagesHold
  DlqTellsTruth
  TrackerTellsTruth
  RefusalsAgree
  RaceNeverOverclaims
  IncreaseNeverOvercounts
  TourTellsTruth
PROPERTIES
  DlqCatchesUp
  TrackerSettles
  HealthSettles
CHECK_DEADLOCK FALSE
