SPECIFICATION Spec
CONSTANTS
  s1 = s1
  c1 = c1
  x1 = x1
  t1 = t1
  t2 = t2
  n1 = n1
  a1 = a1
  Sessions = {s1}
  Contexts = {c1}
  Surfaces = {x1}
  Tracks = {t1, t2}
  Nodes = {n1}
  Anchors = {a1}
  Session <- OneSession
  Context <- OneContext
  Surface <- OneSurface
  Slot <- OneSlot
  NoAnchor = NoAnchor
  Stages <- AllStages
  MaxMutations = 1
  MaxPosters = 1
INVARIANTS CacheSound NamesResolve TargetAgreement PostersAnchored
CHECK_DEADLOCK FALSE
