\* Two deployments of three builds, one with a migration edited after it was applied; a migration by hand.
SPECIFICATION Spec
CONSTANTS
  first = first
  second = second
  edited = edited
  Build = {first, second, edited}
  MaxFile = 2
  Sum <- Sums
  Job = {pre, hand}
  PreDeploy = pre
  Instance = {i1, i2}
  Process = {i1, i2}
  None = None
  MaxDeploys = 2
  Visitor = {v1, v2}
  MaxReleases = 2
  DefaultSize = 2
  MaxPageSize = 3
  MaxRows = 3
SYMMETRY Alike
INVARIANTS
  SchemaIsRecorded
  OnlyEditsFail
  MigratedBeforeServing
  PagesCover
  OneCall
PROPERTY
  NeverOlder
