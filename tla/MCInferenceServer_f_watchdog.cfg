SPECIFICATION Spec
CONSTANTS
  Requests = {r1, r2}
  Warmup = warmup
  NoOne = noOne
  Kinds = {"v1_stream", "v1_block"}
  Limits = {1}
  Capacity = 1
  CtxEnd = 2
  Deadline = 2
SYMMETRY RequestSymmetry
PROPERTIES
  WatchdogHitsOwnQuery
