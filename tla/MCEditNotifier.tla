--------------------------- MODULE MCEditNotifier ---------------------------
(***************************************************************************)
(* Small instances of EditNotifier for TLC.                                *)
(***************************************************************************)
EXTENDS EditNotifierRefinement, TLC

CONSTANTS c1, c2, c3, c4, host, nearhost, town, raw, tidied, bad, xml, msgpack

OneConn == {c1}
TwoConns == {c1, c2}
FourConns == {c1, c2, c3, c4}

\* Two hosts, each with two of four connections.
Hosts == [c \in Conns |-> IF c \in TwoConns THEN host ELSE nearhost]

\* Connections of a host are alike, and so are hosts.
Alike ==
    {p \in Permutations(Conns \cup Addresses) :
        \A c \in Conns : p[c] \in Conns /\ AddressOf[p[c]] = p[AddressOf[c]]}

\* The map refuses bad, and tidies raw.
TidyWkt == [a \in Wkt |-> IF a = bad THEN None ELSE tidied]

Hello_ == [op |-> "hello", kind |-> "edits", area |-> Everywhere, format |-> xml]
Ping_ == [op |-> "ping", kind |-> "edits", area |-> Everywhere, format |-> xml]
Sub(kind, area, format) ==
    [op |-> "subscribe", kind |-> kind, area |-> area, format |-> format]
Unsub(kind) ==
    [op |-> "unsubscribe", kind |-> kind, area |-> Everywhere, format |-> xml]

RecordsRequests == {Hello_, Sub("records", town, xml)}
\* Records of two areas, one of which is not to be followed beside the other, or
\* of everywhere, which always is.
LimitRequests == RecordsRequests \cup {Sub("records", a, xml) : a \in {tidied, Everywhere}}
\* A subscriber that may give up its subscription, or ask for another: with the
\* first it waits with no deadline.
LeavingRequests == RecordsRequests \cup {Sub("edits", town, xml), Unsub("records")}
\* An area given as WKT, and another.
AreaRequests == {Hello_, Sub("edits", raw, xml), Sub("records", town, xml), Unsub("edits")}
\* One of everything, but for an end to records.
OneOfEach ==
    {Hello_, Ping_, Sub("edits", raw, xml), Sub("edits", bad, xml),
     Sub("records", tidied, msgpack), Unsub("edits")}

TownEdits == {{town}}
TidiedEdits == {{tidied}}
NoEdits == {}
=============================================================================
