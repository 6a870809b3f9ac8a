---------------------------- MODULE OverpassSearch ----------------------------
(***************************************************************************)
(* What an Overpass query finds in the map, by which searches, and what is *)
(* fetched of the map to draw it: the statements of a script that have no  *)
(* others in them and do not follow relations to their end.                *)
(*                                                                         *)
(* A query reads the map in one transaction, as it is when that begins.    *)
(* A distance is a difference of positions.  An element is its ID, those   *)
(* of the kinds being apart.  Every element has or has not the one tag     *)
(* that filters ask for.                                                   *)
(* An ID that no relation or way may have stands for "no restriction".     *)
(***************************************************************************)
EXTENDS OverpassTree, SequencesExt, FiniteSetsExt

CONSTANTS
    Nodes, Ways, Relations,  \* IDs, those of nodes before those of ways and relations
    Accounts                 \* the IDs of the accounts of this server, by their names

VARIABLES
    map,     \* what there is, where, tagged, edited by whom (a name, an ID) and when, and its references
    limits,  \* of the settings, and whether the map stores boxes
    script   \* what is run

ASSUME SearchAssumption ==
    /\ \A e \in Nodes \cup Ways \cup Relations : e \in Nat /\ e > 0
    /\ Nodes \cap Ways = {} /\ Nodes \cap Relations = {} /\ Ways \cap Relations = {}

All == Nodes \cup Ways \cup Relations
KindOf(e) == IF e \in Nodes THEN "node" ELSE IF e \in Ways THEN "way" ELSE "relation"
OfKind(kind) == {e \in All : KindOf(e) = kind}
Kinds == <<"node", "way", "relation">>

Unknown == 0
Anything == All \cup {Unknown}  \* in place of the IDs to look among, where there are none

Nowhere == [bbox |-> <<>>, around |-> <<>>]  \* a region that is not given

(***************************************************************************)
(* The map, as pgmap reads it.                                             *)
(***************************************************************************)
by_ids(ids) == ids \cap map.there
ways_of_nodes(ids) == {w \in by_ids(Ways) : map.refs[w] \cap ids # {}}
relations_of(ids) == {r \in by_ids(Relations) : \E m \in map.members[r] : m.ref \in ids}
member_ids(relations) == {m.ref : m \in UNION {map.members[r] : r \in relations}}
refs_of(ways) == UNION {map.refs[w] : w \in ways}

Within(n, region) ==
    /\ region.bbox # <<>> => region.bbox[1] <= map.place[n] /\ map.place[n] <= region.bbox[2]
    /\ region.around # <<>> =>
          \E p \in region.around[2] : map.place[n] - p \in -region.around[1]..region.around[1]

\* The stored box of a way or relation, which is that of its nodes.
NodesUnder(e) ==
    by_ids(CASE e \in Nodes -> {e}
             [] e \in Ways -> map.refs[e]
             [] e \in Relations ->
                    LET ids == member_ids({e})
                    IN (ids \cap Nodes) \cup refs_of(by_ids(ids \cap Ways)))

Overlaps(e, box) ==
    /\ \E n \in NodesUnder(e) : map.place[n] <= box[2]
    /\ \E n \in NodesUnder(e) : map.place[n] >= box[1]

Meets(e, f) ==
    CASE f.is = "has" -> (e \in map.tagged) = (f.mode \in {"exists", "equals", "matches"})
      [] f.is = "user" -> map.user[e] \in f.names \/ map.uid[e] \in f.uids
      [] f.is = "newer" -> map.time[e] > f.than
      [] f.is = "changed" ->
             map.time[e] >= f.since /\ \A until \in ToSet(f.until) : map.time[e] <= until

\* What pgmap finds.
Search(kind, conditions, region, ids) ==
    {e \in by_ids(OfKind(kind)) :
        /\ ids = Anything \/ e \in ids
        /\ \A f \in conditions : Meets(e, f)
        /\ region # Nowhere => IF kind = "node" THEN Within(e, region) ELSE Overlaps(e, region.bbox)}

TooMany(elements, maximum) == Cardinality(elements) > maximum

\* Ten times the limit, in the code.
intermediate_maximum == limits.factor * limits.maximum

(***************************************************************************)
(* Regions.                                                                *)
(***************************************************************************)
intersect_bboxes(boxes) == <<Max({b[1] : b \in boxes}), Min({b[2] : b \in boxes})>>

key(region) == <<region.bbox, region.around>>

area(region) ==
    Min((IF region.bbox = <<>> THEN {} ELSE {region.bbox[2] - region.bbox[1]})
        \cup (IF region.around = <<>> THEN {} ELSE {2 * region.around[1] * Cardinality(region.around[2])}))

\* The nodes in a region, kept with the regions searched before, unless there
\* are too many of them or of the ways using them.
around_region(cache, region, maximum) ==
    LET nodes == Search("node", {}, region, Anything)
    IN IF \/ \E known \in cache : known.key = key(region)
          \/ TooMany(nodes, maximum)
          \/ TooMany(ways_of_nodes(nodes), limits.maximum)
       THEN cache
       ELSE cache \cup {[key |-> key(region), nodes |-> nodes]}

InCache(cache, region) == \E known \in cache : known.key = key(region)
NodesIn(cache, region) == (CHOOSE known \in cache : known.key = key(region)).nodes

Result(cache, found, over) == [cache |-> cache, found |-> found, over |-> over]

\* Up from the nodes in the region.
reached_from_region(cache, kind, conditions, region, ids) ==
    LET nodes == NodesIn(cache, region)
        ways == ways_of_nodes(nodes)
        candidates == IF kind = "way" THEN ways ELSE relations_of(nodes) \cup relations_of(ways)
        wanted == IF ids = Anything THEN candidates ELSE candidates \cap ids
        found == {e \in wanted : \A f \in conditions : Meets(e, f)}
    IN Result(cache, found,
              \/ kind = "relation"
                 /\ Cardinality(relations_of(nodes)) + Cardinality(relations_of(ways)) > limits.maximum
              \/ conditions # {} /\ TooMany(found, limits.maximum))

\* (Mutant: of a relation, only the nodes that are its members are looked at.)
having_node_in_region(cache, kind, found, region) ==
    LET nodes == IF kind = "way" THEN refs_of(found) ELSE member_ids(found) \cap Nodes
        inside == {n \in by_ids(nodes) : Within(n, region)}
    IN Result(cache,
              {e \in found : (IF kind = "way" THEN map.refs[e] ELSE member_ids({e})) \cap inside # {}},
              TooMany(nodes, intermediate_maximum))

\* Down from what the other filters found, and kept if it reaches into the region.
having_part_in_region(cache, kind, found, region) ==
    LET member_ways == IF kind = "way" THEN {} ELSE member_ids(found) \cap Ways
        nodes == IF kind = "way" THEN refs_of(found)
                 ELSE (member_ids(found) \cap Nodes) \cup refs_of(by_ids(member_ways))
        inside == {n \in by_ids(nodes) : Within(n, region)}
        reaching == {w \in by_ids(member_ways) : map.refs[w] \cap inside # {}}
    IN Result(cache,
              {e \in found : (IF kind = "way" THEN map.refs[e] ELSE member_ids({e}))
                                 \cap (inside \cup reaching) # {}},
              TooMany(member_ways, intermediate_maximum) \/ TooMany(nodes, intermediate_maximum))

\* Ways or relations in a region whose boxes are not stored, or at a distance.
in_region(cache, kind, conditions, region, ids, selective) ==
    LET small == area(region) <= limits.area
        few == around_region(cache, region, limits.regionFirst)
        all == around_region(cache, region, intermediate_maximum)
        found == Search(kind, conditions, Nowhere, ids)
    IN CASE selective /\ small /\ InCache(few, region) ->
                reached_from_region(few, kind, conditions, region, ids)
         [] selective /\ ~(small /\ InCache(few, region))
              /\ ~TooMany(found, Min({limits.maximum, limits.tagFirst})) ->
                having_part_in_region(cache, kind, found, region)
         [] ~selective \/ (small /\ ~InCache(few, region)
              /\ TooMany(found, Min({limits.maximum, limits.tagFirst}))) ->
                IF InCache(all, region) THEN reached_from_region(all, kind, conditions, region, ids)
                ELSE Result(cache, {}, TRUE)
         [] OTHER -> Result(cache, {}, TRUE)

(***************************************************************************)
(* Geometry.                                                               *)
(***************************************************************************)

\* (Mutant: only the nodes of ways that are printed themselves.)
GeometryOfWays(elements, ordered) ==
    LET missing == (member_ids(ordered \cap Relations) \cap Ways) \ elements
        known == (elements \cap Ways) \cup by_ids(missing)
        needed == (refs_of(ordered \cap Ways) \cup (member_ids(ordered \cap Relations) \cap Nodes)) \ elements
    IN [nodes |-> (elements \cap Nodes) \cup by_ids(needed), ways |-> known,
        over |-> TooMany(missing, limits.maximum) \/ TooMany(needed, limits.maximum)]

\* The nodes whose positions are known, and the ways whose nodes are, to draw
\* some elements of a set.
resolve_geometry(elements, ordered) ==
    LET members == member_ids(ordered \cap Relations)
        missing == (members \cap Ways) \ elements
        known == (elements \cap Ways) \cup by_ids(missing)
        needed == (refs_of((ordered \cap Ways) \cup (members \cap known)) \cup (members \cap Nodes)) \ elements
    IN [nodes |-> (elements \cap Nodes) \cup by_ids(needed), ways |-> known,
        over |-> TooMany(missing, limits.maximum) \/ TooMany(needed, limits.maximum)]

element_points(e, geometry) ==
    {map.place[n] : n \in geometry.nodes \cap
        CASE e \in Nodes -> {e}
          [] e \in Ways -> map.refs[e]
          [] e \in Relations -> member_ids({e}) \cup refs_of(member_ids({e}) \cap geometry.ways)}

get_set(sets, name) == IF name \in DOMAIN sets THEN sets[name] ELSE {}

around_positions(sets, f) ==
    IF f.at # <<>> THEN [points |-> {f.at[1]}, over |-> FALSE]
    ELSE LET elements == get_set(sets, f.set)
             geometry == resolve_geometry(elements, elements)
         IN [points |-> UNION {element_points(e, geometry) : e \in elements}, over |-> geometry.over]

(***************************************************************************)
(* A query.                                                                *)
(***************************************************************************)
Of(filters, kinds) == {f \in ToSet(filters) : f.is \in kinds}

\* The elements of one kind that a recurse filter allows.
linked_ids(sets, link, kind) ==
    LET from == get_set(sets, link.set)
        Has(m) == link.role = None \/ m.role = link.role
        memberKind == CASE link.type = "bn" -> "node" [] link.type = "bw" -> "way" [] OTHER -> "relation"
    IN CASE link.type = "w" -> IF kind = "node" THEN refs_of(from \cap Ways) ELSE {}
         [] link.type = "r" ->
                {m.ref : m \in {n \in UNION {map.members[r] : r \in from \cap Relations} : Has(n)}}
                    \cap OfKind(kind)
         [] link.type = "bn" /\ kind = "way" -> ways_of_nodes(from \cap Nodes)
         [] link.type \in {"bn", "bw", "br"} /\ kind = "relation" ->
                {r \in by_ids(Relations) :
                    \E m \in map.members[r] : m.ref \in from \cap OfKind(memberKind) /\ Has(m)}
         [] OTHER -> {}

\* With the IDs of the accounts of the names asked for, as edits made before an
\* account was renamed have its old name.
with_account_ids(f) ==
    IF f.is # "user" THEN f
    ELSE [is |-> "user", names |-> ToSet(f.names),
          uids |-> ToSet(f.uids) \cup {Accounts[n] : n \in ToSet(f.names) \cap DOMAIN Accounts}]

conditions_of(s) == {with_account_ids(f) : f \in Of(s.filters, {"has", "user", "newer", "changed"})}

boxes_of(s) ==
    {f.box : f \in Of(s.filters, {"bbox"})} \cup (IF script.bbox = <<>> THEN {} ELSE {script.bbox})

arounds_of(s) == Of(s.filters, {"around"})
positions_of(sets, s) == around_positions(sets, CHOOSE f \in arounds_of(s) : TRUE)

region_of(sets, s) ==
    [bbox |-> IF boxes_of(s) = {} THEN <<>> ELSE intersect_bboxes(boxes_of(s)),
     around |-> IF arounds_of(s) = {} THEN <<>>
                ELSE <<(CHOOSE f \in arounds_of(s) : TRUE).radius, positions_of(sets, s).points>>]

\* The IDs of one kind that the filters leave to look among.
ids_of(sets, s, kind) ==
    LET candidates ==
            {ToSet(f.ids) \cap OfKind(kind) : f \in Of(s.filters, {"id"})}
                \cup {get_set(sets, f.set) \cap OfKind(kind) : f \in Of(s.filters, {"item"})}
                \cup {linked_ids(sets, f, kind) : f \in Of(s.filters, {"recurse"})}
    IN IF candidates = {} THEN Anything ELSE {e \in UNION candidates : \A set \in candidates : e \in set}

indexed(s) == \E f \in conditions_of(s) : f.is = "has" /\ f.mode \in {"exists", "equals"}

\* One search finds it, by the stored boxes if it is an area of ways or relations.
AtOnce(kind, region) == kind = "node" \/ region = Nowhere \/ (limits.boxes /\ region.around = <<>>)

together(earlier, part) ==
    LET both == earlier.found \cup part.found
    IN Result(part.cache, both, part.over \/ TooMany(both, limits.maximum))

\* With what was found of other kinds, that of one.
find(sets, s, kind, earlier) ==
    LET region == region_of(sets, s)
        ids == ids_of(sets, s, kind)
        found == Search(kind, conditions_of(s), region, ids)
        part == IF AtOnce(kind, region) THEN Result(earlier.cache, found, FALSE)
                ELSE in_region(earlier.cache, kind, conditions_of(s), region, ids, indexed(s) \/ ids # Anything)
    IN IF earlier.over \/ ids = {} \/ kind \notin s.types THEN earlier ELSE together(earlier, part)

find_all(sets, s, cache) ==
    find(sets, s, "relation", find(sets, s, "way", find(sets, s, "node", Result(cache, {}, FALSE))))

Fail(r, error) == [run |-> [r EXCEPT !.error = error], found |-> {}]

Found(r, result, over) ==
    IF result.over \/ over THEN Fail(r, "too many")
    ELSE [run |-> [r EXCEPT !.cache = result.cache], found |-> result.found]

Query(r, s) ==
    LET Count(kind) == Cardinality({i \in DOMAIN s.filters : s.filters[i].is = kind})
        around == arounds_of(s) # {}
        positions == positions_of(r.sets, s)
        region == region_of(r.sets, s)
        selective == indexed(s) \/ Of(s.filters, {"id", "item", "recurse"}) # {}
        linksOver == \E kind \in s.types, f \in Of(s.filters, {"recurse"}) :
                         TooMany(linked_ids(r.sets, f, kind), intermediate_maximum)
    IN IF Count("user") > 1 \/ Count("around") > 1 THEN Fail(r, "unsupported")
       ELSE IF around /\ positions.over THEN Fail(r, "too many")
       ELSE IF around /\ Cardinality(positions.points) > limits.positions THEN Fail(r, "positions")
       ELSE IF (boxes_of(s) # {} /\ region.bbox[1] > region.bbox[2]) \/ (around /\ positions.points = {})
       THEN [run |-> r, found |-> {}]
       ELSE IF ~selective /\ region = Nowhere THEN Fail(r, "whole map")
       ELSE IF ~selective /\ area(region) > limits.area THEN Fail(r, "area")
       ELSE Found(r, find_all(r.sets, s, r.cache), linksOver)

(***************************************************************************)
(* Sets and output.                                                        *)
(***************************************************************************)

stored_as(sets, name, found) ==
    [n \in {name} \cup DOMAIN sets |-> IF n = name THEN found ELSE sets[n]]

\* (Mutant: it is stored without a name to store it under.)
StoreAlways(e, name) ==
    IF e.run.error # None THEN e
    ELSE IF TooMany(e.found, limits.maximum) THEN Fail(e.run, "too many")
    ELSE [e EXCEPT !.run.sets = stored_as(@, name, e.found)]

store(e, name) ==
    IF e.run.error # None THEN e
    ELSE IF TooMany(e.found, limits.maximum) THEN Fail(e.run, "too many")
    ELSE IF name = None THEN e
    ELSE [e EXCEPT !.run.sets = stored_as(@, name, e.found)]

\* The first elements, of nodes, then ways, then relations, each by their IDs.
Ordered(elements, limit) ==
    IF limit = <<>> THEN elements
    ELSE {e \in elements : Cardinality({f \in elements : f < e}) < limit[1]}

print_set(r, s) ==
    LET elements == get_set(r.sets, s.from)
        ordered == Ordered(elements, s.limit)
        geometry == IF s.geometry = None THEN [nodes |-> {}, ways |-> {}, over |-> FALSE]
                    ELSE resolve_geometry(elements, ordered)
        Printed(found) == [print |-> s, found |-> found, nodes |-> geometry.nodes, ways |-> geometry.ways]
    IN IF s.mode = "count"
       THEN [r EXCEPT !.output = Append(@, Printed({Cardinality(elements \cap OfKind(k)) : k \in ToSet(Kinds)}))]
       ELSE IF r.size + Cardinality(ordered) > limits.maximum \/ geometry.over
       THEN [r EXCEPT !.error = "too many"]
       ELSE [r EXCEPT !.output = Append(@, Printed(ordered)), !.size = @ + Cardinality(ordered)]

(***************************************************************************)
(* What a query means, whatever the limits and the way it is searched.     *)
(***************************************************************************)
Positions(set) == {map.place[n] : n \in UNION {NodesUnder(e) : e \in set}}

Inside(s, p) == \A b \in boxes_of(s) : b[1] <= p /\ p <= b[2]

Near(sets, f, n) ==
    \E p \in IF f.at = <<>> THEN Positions(get_set(sets, f.set)) ELSE {f.at[1]} :
        map.place[n] - p \in -f.radius..f.radius

\* Its nodes are, or if boxes are stored, its box is, where the filters ask for.
Lies(sets, s, e) ==
    IF e \notin Nodes /\ limits.boxes /\ arounds_of(s) = {}
    THEN \E p \in Coordinates : Inside(s, p) /\ Overlaps(e, <<p, p>>)
    ELSE \E n \in NodesUnder(e) : Inside(s, map.place[n]) /\ \A f \in arounds_of(s) : Near(sets, f, n)

\* It is a node of a way of the set or a member of a relation of it, or has one of its
\* nodes, ways or relations as such, in the role asked for.
Linked(sets, f, e) ==
    LET set == get_set(sets, f.set)
        Holds(r, part) == \E m \in map.members[r] : m.ref = part /\ f.role \in {None, m.role}
    IN \/ f.type = "w" /\ \E w \in set \cap Ways : e \in map.refs[w]
       \/ f.type = "r" /\ \E r \in set \cap Relations : Holds(r, e)
       \/ f.type = "bn" /\ e \in Ways /\ \E n \in set \cap Nodes : n \in map.refs[e]
       \/ /\ e \in Relations
          /\ \/ f.type = "bn" /\ \E n \in set \cap Nodes : Holds(e, n)
             \/ f.type = "bw" /\ \E w \in set \cap Ways : Holds(e, w)
             \/ f.type = "br" /\ \E r \in set \cap Relations : Holds(e, r)

Fits(sets, f, e) ==
    CASE f.is \in {"has", "newer", "changed"} -> Meets(e, f)
      [] f.is = "user" ->
             \/ map.user[e] \in ToSet(f.names)
             \/ map.uid[e] \in ToSet(f.uids) \cup {Accounts[n] : n \in ToSet(f.names) \cap DOMAIN Accounts}
      [] f.is = "id" -> e \in ToSet(f.ids)
      [] f.is = "item" -> e \in get_set(sets, f.set)
      [] f.is = "recurse" -> Linked(sets, f, e)
      [] OTHER -> TRUE

Selects(sets, s, e) ==
    /\ e \in map.there /\ KindOf(e) \in s.types
    /\ (boxes_of(s) # {} \/ arounds_of(s) # {}) => Lies(sets, s, e)
    /\ \A f \in ToSet(s.filters) : Fits(sets, f, e)

Meaning(sets, found, name) ==
    [sets |-> IF name = None THEN sets ELSE stored_as(sets, name, found), found |-> found]

(***************************************************************************)
(* Types, and what is kept of searches.                                    *)
(***************************************************************************)
MapTypeOK ==
    map \in [there : SUBSET All, place : [Nodes -> Coordinates], tagged : SUBSET All,
             user : [All -> STRING], uid : [All -> Nat], time : [All -> Nat],
             refs : [Ways -> SUBSET Nodes], members : [Relations -> SUBSET [ref : All, role : STRING]]]

ScriptTypeOK == script.bbox \in Boxes \cup {<<>>}

\* The nodes kept with a region are those in it.
CacheOK(cache) ==
    \A known \in cache :
        known.nodes = {n \in by_ids(Nodes) : Within(n, [bbox |-> known.key[1], around |-> known.key[2]])}

\* The sets hold what is in the map.
SetsOK(sets) == DOMAIN sets \subseteq SetNames /\ \A name \in DOMAIN sets : sets[name] \subseteq map.there

Outputs == [print : Prints, found : SUBSET Nat, nodes : SUBSET Nodes, ways : SUBSET Ways]
Errors == {None, "unsupported", "too many", "positions", "whole map", "area", "timeout"}

RunTypeOK(r) ==
    /\ r \in [sets : {r.sets}, cache : {r.cache}, output : Seq(Outputs), size : Nat, error : Errors]
    /\ SetsOK(r.sets) /\ CacheOK(r.cache)

\* What is printed with its geometry comes with every position that the map has for it.
Drawn(o) ==
    (o.print.geometry # None /\ o.print.mode # "count") =>
        \A e \in o.found :
            /\ e \in Ways => NodesUnder(e) \subseteq o.nodes
            /\ e \in Relations => NodesUnder(e) \subseteq o.nodes
                   /\ by_ids(member_ids({e}) \cap Ways) \subseteq o.ways
=============================================================================
