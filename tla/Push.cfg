CONSTANTS
  None = None
  Image = Image
  Other = Other
  Layer = {l1, l2}
  CacheRepo = "cache"
  Tag <- MCTag
  Repo <- MCRepo
  Immutable <- MCImmutable
  Options <- MCOptions
SPECIFICATION Spec
INVARIANTS OutputsAreOfTheImage PushedEverywhere FlagsDecideWhatIsPushed NoLateDenial
CHECK_DEADLOCK FALSE
