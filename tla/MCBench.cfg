SPECIFICATION Spec
CONSTANTS
  Disks <- MCDisks
  Tiers <- MCTiers
  NPrompts = 2
  Repeats = 2
  MaxLines = 4
INVARIANTS TypeOK HandlesNest CwdRestored TierIsPinned StaysBelow CsvIsTheLoop
