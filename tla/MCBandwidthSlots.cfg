SPECIFICATION Spec
CONSTANTS
  Registered <- MCAllOwners
  Others = {"ESCO", "DFU", "VA"}
  Backlog = 2
INVARIANT ThrottledByHigher
