------------------------- MODULE OverpassEvaluator -------------------------
(***************************************************************************)
(* An Overpass query run against the map: statements that make named sets  *)
(* of elements, within limits of time and of how many elements it holds.   *)
(* How each finds what it does is in OverpassSearch.                       *)
(***************************************************************************)
EXTENDS OverpassQL, OverpassSearch

CONSTANTS
    Requests,  \* how a query may come, with its text
    Worlds(_)  \* the maps and limits that one may meet

VARIABLES
    request,  \* how the query came, with its text and the box in its URL
    at,       \* the statement to be run
    run,      \* the sets, the regions searched and the output so far, and an error
    status,
    meant     \* history: the sets that the statements so far mean

overpassVars == <<text, map, limits, request, script, at, run, status, meant>>

(***************************************************************************)
(* Statements.                                                             *)
(***************************************************************************)

Reach(found, over) == [found |-> found, over |-> over]

\* Relations that are members of relations, until there are no more, or too many.
RECURSIVE Descend(_, _)
Descend(relations, pending) ==
    LET found == by_ids(pending)
        more == relations \cup found
    IN IF pending = {} THEN Reach(relations, FALSE)
       ELSE IF TooMany(pending, intermediate_maximum) \/ TooMany(more, limits.maximum)
       THEN Reach(relations, TRUE)
       ELSE Descend(more, (member_ids(found) \cap Relations) \ more)

\* Relations that hold any found so far, until there are no more.
RECURSIVE Ascend(_, _)
Ascend(relations, pending) ==
    IF pending = {} THEN relations
    ELSE LET found == relations_of(pending) \ relations IN Ascend(relations \cup found, found)

\* Down to members of relations and nodes of ways, those that the map lacks counted too.
Down(type, from, deep) ==
    LET member_ways == member_ids(deep.found) \cap Ways
        ways == by_ids(member_ways)
        node_ids == (member_ids(deep.found) \cap Nodes) \cup refs_of((from \cap Ways) \cup ways)
        result == ways \cup (IF type = "down" THEN {} ELSE deep.found)
    IN Reach(result \cup by_ids(node_ids),
             \/ deep.over \/ TooMany(member_ways, intermediate_maximum)
             \/ Cardinality(node_ids) + Cardinality(result) > limits.maximum)

\* (Mutant: relations are followed one step.)
RecurseOnce(type, from) ==
    LET relations == from \cap Relations
        waysUp == ways_of_nodes(from \cap Nodes)
        holding == relations_of(from \cap Nodes) \cup relations_of((from \cap Ways) \cup waysUp)
    IN CASE type = "down" -> Down(type, from, Reach(relations, FALSE))
         [] type = "down-rel" ->
                Down(type, from, Reach(relations \cup by_ids(member_ids(relations) \cap Relations), FALSE))
         [] type = "up" -> Reach(waysUp \cup holding, FALSE)
         [] type = "up-rel" -> Reach(waysUp \cup holding \cup relations \cup relations_of(relations \cup holding), FALSE)

\* Too many found upwards are so when they are stored, if no sooner.
recurse(type, from) ==
    LET relations == from \cap Relations
        waysUp == ways_of_nodes(from \cap Nodes)
        holding == relations_of(from \cap Nodes) \cup relations_of((from \cap Ways) \cup waysUp)
    IN CASE type = "down" -> Down(type, from, Reach(relations, FALSE))
         [] type = "down-rel" ->
                Down(type, from, Descend(relations, (member_ids(relations) \cap Relations) \ relations))
         [] type = "up" -> Reach(waysUp \cup holding, FALSE)
         [] type = "up-rel" -> Reach(waysUp \cup Ascend(relations \cup holding, relations \cup holding), FALSE)

\* One statement, and those in it, with the set it results in.
RECURSIVE execute(_, _)
execute(r, s) ==
    IF r.error # None THEN Fail(r, r.error)
    ELSE CASE s.is = "query" -> store(Query(r, s), s.into)
           [] s.is = "union" ->
                  LET first == execute(r, s.parts[1])
                      Join(e, part) == LET f == execute(e.run, part) IN [f EXCEPT !.found = @ \cup e.found]
                  IN store(FoldLeft(Join, first, Tail(s.parts)), s.into)
           [] s.is = "difference" ->
                  LET first == execute(r, s.parts[1])
                      second == execute(first.run, s.parts[2])
                  IN store([second EXCEPT !.found = first.found \ @], s.into)
           [] s.is = "set" -> store([run |-> r, found |-> get_set(r.sets, s.set)], s.into)
           [] s.is = "down" ->
                  LET reached == recurse(s.type, get_set(r.sets, s.from))
                  IN IF reached.over THEN Fail(r, "too many")
                     ELSE store([run |-> r, found |-> reached.found], s.into)
           [] s.is = "print" -> [run |-> print_set(r, s), found |-> {}]

(***************************************************************************)
(* What a script means, whatever the limits and the way it is searched.    *)
(***************************************************************************)

\* The relations that hold one another, down or up, from some.
Closed(start, set) == start \subseteq set /\ by_ids(member_ids(set) \cap Relations) \subseteq set
Deep(start) == {r \in Relations : \A set \in SUBSET Relations : Closed(start, set) => r \in set}
High(start) ==
    {r \in Relations : \A set \in SUBSET Relations :
        (start \subseteq set /\ relations_of(set) \subseteq set) => r \in set}

Reached(type, from) ==
    LET relations == from \cap Relations
        WithParts(set) == UNION {by_ids(member_ids({r}) \ Relations) \cup NodesUnder(r) : r \in set}
        ways == (from \cap Ways) \cup {w \in by_ids(Ways) : map.refs[w] \cap from # {}}
        holding == {r \in by_ids(Relations) :
                       \E m \in map.members[r] : m.ref \in ways \cup (from \cap Nodes)}
        down == UNION {NodesUnder(w) : w \in from \cap Ways}
        up == {w \in ways : map.refs[w] \cap from # {}} \cup holding
    IN CASE type = "down" -> down \cup WithParts(relations)
         [] type = "down-rel" -> down \cup WithParts(Deep(relations)) \cup Deep(relations)
         [] type = "up" -> up
         [] type = "up-rel" -> up \cup High(relations \cup holding)

RECURSIVE Means(_, _)
Means(sets, s) ==
    CASE s.is = "query" -> Meaning(sets, {e \in All : Selects(sets, s, e)}, s.into)
      [] s.is \in {"union", "difference"} ->
             LET Part(m, part) ==
                     LET n == Means(m.sets, part)
                     IN [sets |-> n.sets,
                         found |-> IF s.is = "union" THEN m.found \cup n.found ELSE m.found \ n.found]
                 all == FoldLeft(Part, Means(sets, s.parts[1]), Tail(s.parts))
             IN Meaning(all.sets, all.found, s.into)
      [] s.is = "set" -> Meaning(sets, get_set(sets, s.set), s.into)
      [] s.is = "down" -> Meaning(sets, Reached(s.type, get_set(sets, s.from)), s.into)
      [] s.is = "print" -> [sets |-> sets, found |-> {}]

(***************************************************************************)
(* A request.                                                              *)
(***************************************************************************)

\* The statements of an XAPI request.
xapi_to_script(types, filters) ==
    Script(<< [is |-> "union", into |-> DefaultSet, parts |->
                  << [is |-> "query", types |-> types, filters |-> filters, into |-> DefaultSet],
                     [is |-> "down", type |-> "down-rel", from |-> DefaultSet, into |-> DefaultSet] >>],
              [is |-> "print", from |-> DefaultSet, mode |-> "meta", geometry |-> None,
               order |-> "asc", limit |-> <<>>] >>)

NotRun == [sets |-> <<>>, cache |-> {}, output |-> <<>>, size |-> 0, error |-> None]

Init ==
    /\ request \in Requests
    /\ text = request.text
    /\ map = <<>> /\ limits = <<>>
    /\ script = Script(<<>>)
    /\ at = 0
    /\ run = NotRun
    /\ meant = NotRun.sets
    /\ status = "come"

Refuse ==
    /\ status' = "refused"
    /\ UNCHANGED <<text, map, limits, request, script, at, run, meant>>

Accept(new) ==
    /\ script' = new
    /\ at' = 1
    /\ status' = "running"
    /\ \E world \in Worlds(request) : map' = world.map /\ limits' = world.limits
    /\ UNCHANGED <<text, request, run, meant>>

\* An Overpass query, whose box may be in the URL.
Interpret ==
    /\ status = "come" /\ request.by = "interpreter"
    /\ LET p == parse
       IN CASE p.at = 0 -> Refuse
            [] p.at # 0 /\ ~p.got.fromUrl -> Accept(p.got)
            [] OTHER -> IF bbox(Got(1, request.bbox)).at = 0 THEN Refuse
                        ELSE Accept([p.got EXCEPT !.bbox = request.bbox])

Xapi ==
    /\ status = "come" /\ request.by = "xapi"
    /\ IF request.filters = <<>> THEN Refuse ELSE Accept(xapi_to_script(request.types, request.filters))

Execute ==
    LET next == execute(run, script.statements[at]).run
    IN /\ status = "running"
       /\ at <= Len(script.statements)
       /\ run' = next
       /\ at' = at + 1
       /\ meant' = IF next.error = None THEN Means(meant, script.statements[at]).sets ELSE meant
       /\ status' = IF next.error # None THEN "failed"
                    ELSE IF at = Len(script.statements) THEN "answered" ELSE "running"
       /\ UNCHANGED <<text, map, limits, request, script>>

\* A statement that reads the map has no time left.
TimeOut ==
    /\ status = "running"
    /\ script.statements[at].is \in {"query", "union", "difference", "down"}
    /\ run' = [run EXCEPT !.error = "timeout"]
    /\ status' = "failed"
    /\ UNCHANGED <<text, map, limits, request, script, at, meant>>

Next == Interpret \/ Xapi \/ Execute \/ TimeOut

Spec == Init /\ [][Next]_overpassVars

\* A statement is of the tree, and so are those in it.
RECURSIVE StatementOK(_)
StatementOK(s) ==
    CASE s.is = "query" -> s \in Queries
      [] s.is = "set" -> s \in Items
      [] s.is = "down" -> s \in Recurses
      [] s.is = "print" -> s \in Prints
      [] s.is \in {"union", "difference"} ->
             s.into \in SetNames /\ \A i \in DOMAIN s.parts : StatementOK(s.parts[i])

TypeOK ==
    /\ at > 0 => MapTypeOK /\ ScriptTypeOK /\ \A i \in DOMAIN script.statements : StatementOK(script.statements[i])
    /\ at > 0 => RunTypeOK(run) /\ run.size \in 0..limits.maximum
    /\ status \in {"come", "refused", "running", "failed", "answered"}
    /\ at \in 0..(Len(script.statements) + 1)

(***************************************************************************)
(* What an answer is.                                                      *)
(***************************************************************************)

\* A query that has not failed has exactly the sets that its statements mean: of
\* searching by tags, by stored boxes, or up from the nodes of a region, in
\* whatever order and with whatever was searched before, none finds more or
\* less, and what is over a limit is an error, never a part of the answer.
AnswersExactly == status \in {"running", "answered"} => run.sets = meant

\* Whatever is printed with its geometry comes with every position that the map
\* has for it.
GeometryComplete == \A i \in DOMAIN run.output : Drawn(run.output[i])

\* An XAPI answer has everything needed to draw what it has: whatever the map has
\* of what an element of it refers to is in it too.
DrawnWhole ==
    (status = "answered" /\ request.by = "xapi") =>
        \A e \in run.output[1].found :
            by_ids(CASE e \in Nodes -> {} [] e \in Ways -> map.refs[e] [] OTHER -> member_ids({e}))
                \subseteq run.output[1].found
=============================================================================
