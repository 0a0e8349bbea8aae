SPECIFICATION Spec
CONSTANTS
  None = None
  Tools = {"fs", "shell"}
  Actions <- MCActions
  MaxCalls = 2
  MaxIterations = 2
  MaxTasks = 2
CHECK_DEADLOCK FALSE
INVARIANTS TypeOK ConversationCanGoOn ReportIsTrue DesktopFollowsTheModel
PROPERTIES LoopsAreDialogues EveryRunEnds
