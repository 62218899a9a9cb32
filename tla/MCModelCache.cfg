SPECIFICATION Spec
CONSTANTS
  phi = phi
  qwen = qwen
  Models <- MCModels
  Known <- MCKnown
  DriveRoots <- MCDriveRoots
INVARIANT TypeOK
PROPERTIES RemovesWhatRunUses PulledIsFound
