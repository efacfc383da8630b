\* Two static pods sharing a name, config events only, syncPod succeeding: enough
\* events for an update to be coalesced while the second pod is held back
\* by allowStaticPodStart.
CONSTANTS
  u1 = u1
  u2 = u2
  u3 = u3
  c1 = c1
  Nil = Nil
  UIDs = {u1, u2}
  FullName <- MCNamesShared
  StaticUIDs = {u1, u2}
  DefaultGrace = 3
  GraceVals = {2}
  Chs = {}
  SyncOutcomes = {"ok"}
  TermOutcomes = {"ok"}
  FnHonoursCtx = TRUE
  MaxGen = 1
  Cmds = 0
  Callers <- MCCallersWired
  MaxEvents = 5
SPECIFICATION Spec
CHECK_DEADLOCK FALSE
PROPERTIES
  DeliveredInOrder
