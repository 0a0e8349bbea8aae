SPECIFICATION Spec
CONSTANTS
  Chains <- MCChains
  MaxBlocks = 3
  MaxDeltas = 2
  None = None
CHECK_DEADLOCK FALSE
INVARIANTS StopEndsTheStream StreamSaysWhatChatWould ArgumentsFollowTheirCall StopTellsOfCalls
