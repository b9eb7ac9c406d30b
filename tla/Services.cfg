SPECIFICATION Spec
CONSTANTS
  None = None
  Missing = Missing
  Names = {"k"}
  Algs = {"sha256"}
  Datas = {"x", "y"}
  TsigZones = {"a"}
  Tasks = {"t1", "t2"}
  SignedZones = {"a", "b"}
\* Four or five owner names over three threads, fewer over two or one.
  MaxOwners = 5
  MaxTasks = 3
  ParallelFrom = 4
  ChannelCap = 1
  HistoryCap = 2
  KeyZones = {"a"}
  MaxVersions = 3
  MaxRetries = 2
  Kinds = {"level", "config_file"}
  Policies = {"p", "q"}
  Versions = {"v1", "v2"}
  PolicyZones = {"a"}
INVARIANTS
  TypeOK
  TsigSaveIsComing
  SignedExactlyOnce
  SigningStatusFollows
  CacheNeverStale
  CronGivesUp
  OverridesAreNotSaved
  ZonesUseLatest
PROPERTIES
  TsigUsedKeysStay
  SigningEnds
  KeyChangesReachTheSigner
\* The key manager ends when it is told to or cannot run a command.
CHECK_DEADLOCK FALSE
