\* One client, check_wkt failing once.
SPECIFICATION Spec
CONSTANTS
    c1 = c1  c2 = c2  c3 = c3  c4 = c4  host = host  nearhost = nearhost
    town = town  raw = raw  tidied = tidied  bad = bad  xml = xml  msgpack = msgpack
    None = None  Everywhere = Everywhere
    Addresses = {host, nearhost}
    AddressOf <- Hosts
    Tidy <- TidyWkt
    Conns <- OneConn
    Areas = {raw, bad, tidied}  Wkt = {raw, bad}  Formats = {xml, msgpack}
    MaxConnections = 2  MaxPerAddress = 2  MaxAreas = 1
    Requests <- OneOfEach
    EditKinds <- NoEdits
    Slow = {}  Failing = {"check_wkt"}
    Heartbeats = TRUE  Stoppable = FALSE
    MaxEdits = 0  MaxResets = 0  MaxFailures = 1
    MaxDrops = 0  MaxConnects = 2  MaxQueue = 2
INVARIANTS RequestsHaveWorker
