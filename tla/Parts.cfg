SPECIFICATION PartsSpec
CONSTANTS
  MaxTurns = 2
  MaxStops = 1
  MaxHooks = 1
  Sessions = {c1}
  Remotes = {r1, r2}
  Models = {opus, other}
  DefaultModel = opus
  NoModel = NoModel
  NoSession = NoSession
  MaxJobs = 2
  Daemons = {d1, d2}
  WorkerSlots = {s1}
  PIDs = {1, 2}
  MaxBirths = 4
  PromptHooks = {h1, h2}
  MaxTalks = 3
  Reconcilers = {rec1, rec2}
  Shared = {a}
  Own = {u, v}
  Nothing = Nothing
  Importers = {i1, i2}
  Profiles = {p1, p2, p3}
  Notes = {n}
  NoImporter = NoImporter
  Versions = {v1, v2, v3}
  NoVersion = NoVersion
  RuntimeSlots = {w1}
  MaxRuns = 2
  MaxOutput = 3
  Kept = 2
  MaxCalls = 2
INVARIANTS
  PartsTypeOK
  AnswersMatch
  OnlyRecordedAreSignalled
  OwnContentSurvives
  OneCopyPerNote
  KeysMeetTheirScreen
PROPERTIES
  PromptsStay
  InterruptionStands
  ChoiceIsKept
  SetupEnds
  NoLaunchBesideRecorded
  CheckpointArrives
  NeededCopiesStay
  DialogIsAnswered
  AnswersAsSeen
CHECK_DEADLOCK FALSE
