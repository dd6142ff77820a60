SPECIFICATION FairSpec
CONSTANTS
  Names <- MCNames
  Members = {1, 2}
  Libs <- MCLibs
  MemberChoices <- OptionMembers
  Settings <- LiveSettings
PROPERTIES
  NoIdleRound
  Terminates
CHECK_DEADLOCK FALSE
