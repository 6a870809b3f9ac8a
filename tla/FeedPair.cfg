\* Two records subscribers of four clients, two of each host: after one of two
\* areas when one may be followed, or after everywhere; an edit, a failure.
SPECIFICATION Spec
CONSTANTS
    c1 = c1  c2 = c2  c3 = c3  c4 = c4  host = host  nearhost = nearhost
    town = town  raw = raw  tidied = tidied  bad = bad  xml = xml  msgpack = msgpack
    None = None  Everywhere = Everywhere
    Addresses = {host, nearhost}
    AddressOf <- Hosts
    Tidy <- TidyWkt
    Conns <- FourConns
    Areas = {town, tidied}  Wkt = {}  Formats = {xml}
    MaxConnections = 2  MaxPerAddress = 1  MaxAreas = 1
    Requests <- LimitRequests
    EditKinds <- TownEdits
    Slow = {}  Failing = {"records"}
    Heartbeats = FALSE  Stoppable = FALSE
    MaxEdits = 1  MaxResets = 0  MaxFailures = 1
    MaxDrops = 0  MaxConnects = 2  MaxQueue = 1
SYMMETRY Alike
INVARIANTS RecordsExactlyOnce AreasWithinLimit ConnectionsWithinLimits
PROPERTIES StartsFresh ImplementsFeed
\* Once an edit is told and nobody is left, nothing happens without the heartbeat.
CHECK_DEADLOCK FALSE
