\* One client that may ask anything but to end its records, fall behind, or leave; any call failing
\* once, the listener dropped once, the map reset once, SIGTERM at any time.
SPECIFICATION Spec
CONSTANTS
    c1 = c1  c2 = c2  c3 = c3  c4 = c4  host = host  nearhost = nearhost
    town = town  raw = raw  tidied = tidied  bad = bad  xml = xml  msgpack = msgpack
    None = None  Everywhere = Everywhere
    Addresses = {host, nearhost}
    AddressOf <- Hosts
    Tidy <- TidyWkt
    Conns <- OneConn
    Areas = {raw, bad, tidied}  Wkt = {raw, bad}  Formats = {xml, msgpack}
    MaxConnections = 2  MaxPerAddress = 2  MaxAreas = 1
    Requests <- OneOfEach
    EditKinds <- TidiedEdits
    Slow = {c1}  Failing = {"latest", "check_wkt", "concerns", "records"}
    Heartbeats = FALSE  Stoppable = TRUE
    MaxEdits = 1  MaxResets = 1  MaxFailures = 1
    MaxDrops = 1  MaxConnects = 1  MaxQueue = 1
INVARIANTS TypeOK WaitersHaveCheck IdleHasDeadline EditsHinted
PROPERTIES ImplementsFeed
CHECK_DEADLOCK FALSE
