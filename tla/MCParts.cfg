SPECIFICATION PartsSpec
CONSTANTS
  Lanes = {l1, l2, l3}
  NoLane = NoLane
  Generations = {1, 2}
  Nonces = {1, 2}
  Buffers = 2
  BufferSize = 2
  MaxOutput = 4
  MaxResets = 1
  Lives = {"l1", "l2"}
  Clients = {"c"}
  Pids = {1, 2}
  Paths = {"named", "asked"}
  Launches <- MCLaunches
  Other = "other"
  NoLife = "none"
  Producers = {"p1", "p2"}
  MAX_OWNERS = 2
  MAX_RETAINED_LAYOUTS = 1
  MaxTexts = 1
  MaxLayout = 2
  Ids = {"a", "b"}
  NoId = "none"
  MAX_PENDING = 2
  MAX_ASSEMBLED = 1
  WORKER_QUEUE = 2
  TASK_QUEUE = 1
  RATE_BURST = 2
  MaxRequests = 4
  Conns = {"c1", "c2"}
  MaxPending = 1
  MaxActive = 1
  MaxPastes = 2
  MaxEpoch = 1
  MaxDrops = 1
  MaxGeneration = 2
  Sends <- MCSends
  MaxParsed = 2
  Sizes <- MCSizes
  Limits = {0, 2}
  TabEvery = 2
  Counts = {1, 2, 3}
  MaxTermSteps = 4
INVARIANTS OneTransportPerGeneration AttachedIsLive InstalledIsOwned GrantHasLane
INVARIANTS NoSilentGap ReadAhead PtyWorker DropsKept SessionsKept TextKept
INVARIANTS ScreenKept NotificationsKept
CHECK_DEADLOCK FALSE
