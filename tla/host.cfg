SPECIFICATION Spec
CONSTANTS
  Machines = {m1, m2}
  Nobody = Nobody
  VMIDs = {1, 2}
  None = None
  Digests = {d1, d2}
  Noise = Noise
  NoDigest = NoDigest
  Owners = Owners
  n1 = n1
  n2 = n2
  a = a
  b = b
  c = c
  Unplugged = Unplugged
  Nothing = Nothing
  Unaliased = Unaliased
  NoView = NoView
  Ids = {c1, c2}
  NoId = NoId
  NoGuest = NoGuest
  Hosted = {h1, h2}
  Owner = Owner
  Unsold = Unsold
  MaxPort = 2
  MaxWriteFaults = 1
  MaxStops = 1
  MaxKeys = 3
  MaxFaults = 1
  MaxMoves = 1
  MaxTroubles = 2
  MaxMishaps = 2
  MaxConf = 2
  SyncFails = FALSE
  MaxBreaks = 2
  MaxConns = 2
  Memory = 3
  Contributed = 3
  Uses = 1
  MaxGlitches = 1
  MaxHitches = 2
  ReportEvery = 2
  Probing = 2
  ReadEvery = 1
  StuckAfter = 3
  UnreadMax = 1
  StreamMax = 1
  MaxDrives = 2
  MaxLists = 1
  Slack = 0
  PassMost = 1
  MaxTokens = 2
  MaxTime = 2
  MaxResets = 1
  MaxIssued = 2
  MaxLapses = 2
  Floor = 2
  Ceiling = 3
  DefaultPeriod = 2
  Periods = {0, 3}
  MaxWire = 2
  MaxChanges = 2
  MaxFalters = 1
  MaxAsks = 3
  MaxFaltered = 2
INVARIANTS TypeOK PortOfOne SoldCardIsClean HeldIsWhole OwnSegment OneWorkerOrNone OneHolder ResidueIsOwn ServesOrLeft ShownWhileItMoves DoneIsDone RebootedOnce
PROPERTIES GoneIsClosed EveryScrubEnds MirrorSettles WantedIsPlugged ServesAsAsked LetGoCloses CertificateServed CoreIsTold BootFilesFollow
CHECK_DEADLOCK FALSE
