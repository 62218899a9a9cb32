SPECIFICATION CompletionSpec
CONSTANTS
  Lengths = {0, 60}
  MaxTurns = 4
  MaxAtoms = 3
  MaxMarkup = 5
  MaxBlocks = 7
  Budget = 50
  HintLength = 100
  Requests <- MCRequests
  Atoms <- MCAtoms
  MayFollow <- MCMayFollow
INVARIANTS
  TypeOK
  PromptIsRecentStretch
  AnswersLastUser
  TrimKeepsLongestFit
  PrefixReused
  CallsAreBlocks
  NoCallMissed
PROPERTIES
  ReplyAnswered
