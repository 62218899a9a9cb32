SPECIFICATION ServerSpec
CONSTANTS
  Requests = {r1, r2}
  Warmup = warmup
  NoOne = noOne
  Kinds = {"chat_stream", "v1_block"}
  Limits = {}
  Capacity = 1
  CtxEnd = 1
  Deadline = 1
PROPERTIES
  EveryStepCounts
  ImplementsGate
  ImplementsLiveGate
  EveryRequestEnds
  DisconnectReleases
