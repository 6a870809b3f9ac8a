\* Two clients that ask for the same area, given as the same WKT.
SPECIFICATION Spec
CONSTANTS
    c1 = c1  c2 = c2  c3 = c3  c4 = c4  host = host  nearhost = nearhost
    town = town  raw = raw  tidied = tidied  bad = bad  xml = xml  msgpack = msgpack
    None = None  Everywhere = Everywhere
    Addresses = {host, nearhost}
    AddressOf <- Hosts
    Tidy <- TidyWkt
    Conns <- TwoConns
    Areas = {town, raw, tidied}  Wkt = {raw}  Formats = {xml}
    MaxConnections = 2  MaxPerAddress = 2  MaxAreas = 1
    Requests <- AreaRequests
    EditKinds <- NoEdits
    Slow = {}  Failing = {}
    Heartbeats = FALSE  Stoppable = FALSE
    MaxEdits = 0  MaxResets = 0  MaxFailures = 0
    MaxDrops = 0  MaxConnects = 2  MaxQueue = 1
PROPERTIES FollowedAreasFree
CHECK_DEADLOCK FALSE
