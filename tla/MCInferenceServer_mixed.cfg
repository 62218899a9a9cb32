SPECIFICATION Spec
CONSTANTS
  Requests = {r1, r2}
  Warmup = warmup
  NoOne = noOne
  Kinds = {"v1_stream", "v1_block", "chat_block", "gen_stream"}
  Limits = {1}
  Capacity = 1
  CtxEnd = 3
  Deadline = 1
SYMMETRY RequestSymmetry
INVARIANTS
  TypeOK
  ExclusiveDialog
  RewindFindsCache
  EndMeansReleased
  OpenAIStartsClean
  StreamsWellFormed
  WatchedAreCapped
PROPERTIES
  FailureNotHandedOn
  AbortNotHandedOn
