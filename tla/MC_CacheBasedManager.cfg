\* Three pods registering, updating and unregistering specs that reference
\* any subset of two objects
CONSTANTS
  PodKeys = {k1, k2, k3}
  ObjNames = {s1, s2}
  Nil = Nil
SPECIFICATION Spec
INVARIANTS
  RefCountMatchesPods
