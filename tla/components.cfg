CONSTANTS
  c1 = c1  c2 = c2
  Clients = {c1, c2}  Cap = 1  Size = 1  MaxEntries = 2  MaxTalk = 0  MaxReceived = 2
  Peers = {c1, c2}  MaxMessages = 2  Requests = {c1, c2}  Depth = 1  MaxRecords = 2
  Resources = {"f"}  DryRun = FALSE  Path = "f"  FromBeginning = FALSE  CodecFails = FALSE  MaxLines = 3
  MaxLives = 2  AckBatch = 2  Prefetch = 3  Messages = 4  MaxDrops = 2  Shippers = {c1, c2}  BatchLen = 2
  ChannelSize = 1  MaxBatches = 2  MaxResets = 1  Posts = {c1, c2}  Bodies <- postedBodies  Inlets <- inlets
  MaxItems = 3  Count = 2
  Filters = {c1, c2}  Terms = {"a", "b"}  Configured = {"b"}  IgnoreMissing = FALSE  MaxSeen = 3
  Values = {"a", "b"}  Timeframe = TRUE  SkipMissing = FALSE  MaxChanges = 4  Lookers = {c1, c2}
  GeoOptions <- geoOptions  Addresses = {"a", "b", "nonsense"}  CacheSize = 1  MaxReleases = 2  MaxLocated = 3
  Tickers = {c1, c2}  DigestSettings <- digestOptions  MaxDigested = 5  MaxDigests = 3
  BatchSize = 2  PoolMax = 1  MaxGiven = 4  MaxLogged = 4  Publishers = {c1, c2}  MaxConns = 3  MaxPublished = 2
  Senders = {c1, c2}  MaxDials = 3  MaxTroubles = 2  MaxOut = 3
  Configs <- plainConfigs  Files <- plainFiles
SYMMETRY Symmetry
SPECIFICATION Spec
INVARIANTS
  TypeOK
  FiltersSound InputsSound OutputsSound ClientsSound ProcessingSound ConfigSound
 
CHECK_DEADLOCK FALSE
