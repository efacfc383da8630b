\* The repository as wired: SampleKubelet.Start feeding the pod workers, the
\* OnAdd callback writing the status cache, PodFn returning (true, nil).
CONSTANTS
  u1 = u1
  u2 = u2
  u3 = u3
  c1 = c1
  Nil = Nil
  UIDs = {u1, u2}
  FullName <- MCNamesDistinct
  StaticUIDs = {}
  DefaultGrace = 3
  GraceVals = {0, 2}
  Chs = {}
  SyncOutcomes = {"terminal"}
  TermOutcomes = {"ok"}
  FnHonoursCtx = FALSE
  MaxGen = 1
  Cmds = 1
  Callers <- MCCallersWired
  MaxEvents = 3
SPECIFICATION Spec
CHECK_DEADLOCK FALSE
PROPERTIES
  GracePeriodNeverIncreases
