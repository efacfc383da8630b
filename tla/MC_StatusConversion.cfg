CONSTANTS
  MaxRestarts = 1
  MaxRuntime = 2
SPECIFICATION Spec
INVARIANTS
  VanishedRunningNotPending
