\* One client, SIGTERM at any time, fair scheduling.
SPECIFICATION FairSpec
CONSTANTS
    c1 = c1  c2 = c2  c3 = c3  c4 = c4  host = host  nearhost = nearhost
    town = town  raw = raw  tidied = tidied  bad = bad  xml = xml  msgpack = msgpack
    None = None  Everywhere = Everywhere
    Addresses = {host, nearhost}
    AddressOf <- Hosts
    Tidy <- TidyWkt
    Conns <- OneConn
    Areas = {town}  Wkt = {}  Formats = {xml}
    MaxConnections = 2  MaxPerAddress = 2  MaxAreas = 1
    Requests <- RecordsRequests
    EditKinds <- NoEdits
    Slow = {}  Failing = {}
    Heartbeats = TRUE  Stoppable = TRUE
    MaxEdits = 0  MaxResets = 0  MaxFailures = 0
    MaxDrops = 0  MaxConnects = 1  MaxQueue = 1
PROPERTIES StopsCleanly
CHECK_DEADLOCK FALSE
