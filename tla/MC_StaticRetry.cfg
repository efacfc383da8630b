\* Every caller of the podWorkers API with two static pods sharing a name:
\* is a static pod that allowPodStart turned away ever retried?
CONSTANTS
  u1 = u1
  u2 = u2
  u3 = u3
  c1 = c1
  Nil = Nil
  UIDs = {u1, u2}
  FullName <- MCNamesShared
  StaticUIDs = {u1, u2}
  DefaultGrace = 3
  GraceVals = {0, 2}
  Chs = {c1}
  SyncOutcomes = {"ok", "terminal", "error"}
  TermOutcomes = {"ok", "error"}
  FnHonoursCtx = TRUE
  MaxGen = 2
  Cmds = 0
  Callers <- MCCallersAll
  MaxEvents = 3
SPECIFICATION Spec
CHECK_DEADLOCK FALSE
PROPERTIES
  BlockedStaticPodRetried
