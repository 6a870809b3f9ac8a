\* One client of the town that may follow records and edits and give up records,
\* fair scheduling; one edit, the listener dropped once, the map reset once.
SPECIFICATION FairSpec
CONSTANTS
    c1 = c1  c2 = c2  c3 = c3  c4 = c4  host = host  nearhost = nearhost
    town = town  raw = raw  tidied = tidied  bad = bad  xml = xml  msgpack = msgpack
    None = None  Everywhere = Everywhere
    Addresses = {host, nearhost}
    AddressOf <- Hosts
    Tidy <- TidyWkt
    Conns <- OneConn
    Areas = {town}  Wkt = {}  Formats = {xml}
    MaxConnections = 2  MaxPerAddress = 2  MaxAreas = 1
    Requests <- LeavingRequests
    EditKinds <- TownEdits
    Slow = {}  Failing = {}
    Heartbeats = TRUE  Stoppable = FALSE
    MaxEdits = 1  MaxResets = 1  MaxFailures = 0
    MaxDrops = 1  MaxConnects = 1  MaxQueue = 1
PROPERTIES CatchesUp RecordsReachSubscribers SubscribersAnswered IdleConnectionsEnd
