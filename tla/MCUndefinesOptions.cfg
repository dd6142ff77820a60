SPECIFICATION Spec
CONSTANTS
  Names <- MCNames
  Members = {1, 2, 3}
  Libs <- MCLibs
  MemberChoices <- OptionMembers
  Settings <- TwoUndefined
INVARIANTS
  AllSearched
CHECK_DEADLOCK FALSE
