---------------------------- MODULE Preferences ----------------------------
(***************************************************************************)
(* The preferences of a user: rows of a key and a value, which requests    *)
(* replace as a whole or set one at a time.  Nothing keeps keys unique,    *)
(* and every statement is a transaction of its own.                        *)
(***************************************************************************)
EXTENDS Naturals, FiniteSets

CONSTANTS
    Keys, Values,
    Replacers,   \* requests that replace all
    Setters,     \* requests that set one
    MaxRows,     \* bound: the rows made
    NoValue

ASSUME PreferencesAssumption ==
    MaxRows \in Nat /\ NoValue \notin Keys \cup Values /\ Replacers \cap Setters = {}

VARIABLES
    rows,      \* the rows, by the IDs the database gave them
    made,      \* how many rows were made
    request,   \* how far each request has got
    joined,    \* history: the requests now at work that met another
    crossed    \* history: the rows that such requests wrote

preferenceVars == <<rows, made, request, joined, crossed>>

Requests == Replacers \cup Setters
Row == [id: Nat, key: Keys, value: Values]

NotCome == [stage |-> "idle", map |-> <<>>, row |-> 0, key |-> NoValue, value |-> NoValue]

\* What a replacing request brings: for some keys, values.
Maps == UNION {[K -> Values] : K \in SUBSET Keys}

PreferencesTypeOK ==
    /\ rows \subseteq Row /\ made \in 0..MaxRows
    /\ request \in [Requests ->
          [stage: {"idle", "clear", "fill", "get", "save", "create"}, map: Maps, row: Nat,
           key: Keys \cup {NoValue}, value: Values \cup {NoValue}]]
    /\ joined \subseteq Requests /\ crossed \subseteq 1..MaxRows

InitPreferences ==
    /\ rows = {} /\ made = 0
    /\ request = [r \in Requests |-> NotCome]
    /\ joined = {} /\ crossed = {}

Busy == {r \in Requests : request[r].stage # "idle"}
Of(key) == {row \in rows : row.key = key}

Arrive(r, new) ==
    /\ request[r].stage = "idle"
    /\ request' = [request EXCEPT ![r] = new]
    /\ joined' = IF Busy = {} THEN {} ELSE Busy \cup {r}
    /\ UNCHANGED <<rows, made, crossed>>

Go(r, new) ==
    /\ request' = [request EXCEPT ![r] = new]
    /\ joined' = IF new = NotCome THEN joined \ {r} ELSE joined

Write(r, row) ==
    /\ rows' = {other \in rows : other.id # row.id} \cup {row}
    /\ crossed' = IF r \in joined THEN crossed \cup {row.id} ELSE crossed

CreateRow(r, key, value) ==
    /\ made < MaxRows
    /\ made' = made + 1
    /\ Write(r, [id |-> made + 1, key |-> key, value |-> value])

(***************************************************************************)
(* All preferences are replaced.                                           *)
(***************************************************************************)
BeginReplace(r, map) == Arrive(r, [NotCome EXCEPT !.stage = "clear", !.map = map])

Clear(r) ==
    /\ request[r].stage = "clear"
    /\ rows' = {}
    /\ Go(r, [request[r] EXCEPT !.stage = "fill"])
    /\ UNCHANGED <<made, crossed>>

\* One row after another, in any order of the keys.
Fill(r, key) ==
    LET map == request[r].map
    IN /\ request[r].stage = "fill"
       /\ key \in DOMAIN map
       /\ CreateRow(r, key, map[key])
       /\ Go(r, [request[r] EXCEPT !.map = [k \in DOMAIN map \ {key} |-> map[k]]])

Replaced(r) ==
    /\ request[r].stage = "fill"
    /\ DOMAIN request[r].map = {}
    /\ Go(r, NotCome)
    /\ UNCHANGED <<rows, made, crossed>>

(***************************************************************************)
(* One preference is set.                                                  *)
(***************************************************************************)
BeginSet(r, key, value) ==
    Arrive(r, [NotCome EXCEPT !.stage = "get", !.key = key, !.value = value])

\* (Mutant: what exists is not looked for.)
GetNothing(r) ==
    LET q == request[r]
    IN /\ q.stage = "get"
       /\ Go(r, [q EXCEPT !.stage = "create"])
       /\ UNCHANGED <<rows, made, crossed>>

\* The row is looked for.  If there are two, the request fails.
Get(r) ==
    LET q == request[r]
        found == Of(q.key)
    IN /\ q.stage = "get"
       /\ \/ found = {} /\ Go(r, [q EXCEPT !.stage = "create"])
          \/ \E row \in found : found = {row} /\ Go(r, [q EXCEPT !.stage = "save", !.row = row.id])
          \/ Cardinality(found) > 1 /\ Go(r, NotCome)
       /\ UNCHANGED <<rows, made, crossed>>

\* A row that was deleted meanwhile is inserted again, with the ID it had.
Save(r) ==
    LET q == request[r]
    IN /\ q.stage = "save"
       /\ Write(r, [id |-> q.row, key |-> q.key, value |-> q.value])
       /\ Go(r, NotCome)
       /\ UNCHANGED made

CreatePreference(r) ==
    LET q == request[r]
    IN /\ q.stage = "create"
       /\ CreateRow(r, q.key, q.value)
       /\ Go(r, NotCome)

\* The request fails, or its process dies.
FailRequest(r) ==
    /\ request[r].stage # "idle"
    /\ Go(r, NotCome)
    /\ UNCHANGED <<rows, made, crossed>>

NextPreferences ==
    \/ \E r \in Replacers :
          \/ \E map \in Maps : BeginReplace(r, map)
          \/ Clear(r)
          \/ \E key \in Keys : Fill(r, key)
          \/ Replaced(r)
    \/ \E r \in Setters :
          \/ \E key \in Keys, value \in Values : BeginSet(r, key, value)
          \/ Get(r)
          \/ Save(r)
          \/ CreatePreference(r)
    \/ \E r \in Requests : FailRequest(r)

PreferencesSpec == InitPreferences /\ [][NextPreferences]_preferenceVars

\* Of two rows of one key, one was written by a request that another was at work
\* with: those that met no other leave one row for every key, even if they failed
\* halfway.
OneRowPerKey ==
    \A row, other \in rows :
        (row # other /\ row.key = other.key) => {row.id, other.id} \cap crossed # {}
=============================================================================
