SPECIFICATION Spec
CONSTANTS
  phi = phi
  qwen = qwen
  hi = hi
  there = there
  nothing = nothing
  Models <- MCModels
  Pieces <- MCPieces
  Empty <- nothing
  MaxPieces = 2
  MaxIdle = 1
INVARIANT PrintsWhatWasSent
