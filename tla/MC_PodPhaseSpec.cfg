\* getPhase against the phase computer of the specification, section 4.3
CONSTANTS
  MaxInit = 1
  MaxCtrs = 2
SPECIFICATION Spec
INVARIANTS
  PhaseMatchesSpec
