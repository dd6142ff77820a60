SPECIFICATION MCSpec
CONSTANTS
  Names <- MCNames
  Members = {1, 2, 3}
  Libs <- MCLibs
  MemberChoices <- AllMembers
  Settings <- AllSettings
INVARIANTS
  LoopsSearchAll
  LoopsOverrideCommons
  WeakOnlyAsLastResort
PROPERTIES
  OnlyNeededLoaded
CHECK_DEADLOCK FALSE
