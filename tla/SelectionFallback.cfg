SPECIFICATION SelectionSpec
CONSTANTS
  Sessions = {c1}
  Remotes = {r1, r2}
  Models = {opus, other}
  DefaultModel = opus
  NoModel = NoModel
  NoSession = NoSession
PROPERTY
  FallbackObservesOnly
CHECK_DEADLOCK FALSE
