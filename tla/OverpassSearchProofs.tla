------------------------ MODULE OverpassSearchProofs ------------------------
(***************************************************************************)
(* That a query selects what it means.                                     *)
(*                                                                         *)
(* The evaluator searches in several ways: up from the nodes in a region,  *)
(* down from what the other filters find, by the stored boxes, with the    *)
(* nodes of regions searched before.  Which it takes depends on limits and *)
(* on what is kept.  For every map, limits, sets and query: if it does not *)
(* refuse the query, it finds the elements that each filter admits and     *)
(* whose nodes reach where the filters ask for, and no others.             *)
(*                                                                         *)
(* The argument goes from the inside out.  A region search is exact, each  *)
(* way of it by a lemma of its own (UpFindsWanted, DownKeepsWanted), given *)
(* that what is kept of earlier searches is right, which it stays          *)
(* (CacheStaysOK).  The region that is searched is where the filters ask   *)
(* for (RegionMeans), the conditions and IDs are the other filters         *)
(* (ConditionsMean, IdsMean), so each kind adds what is selected of it     *)
(* (FindAddsAKind), and the three together are the query.                  *)
(***************************************************************************)
EXTENDS OverpassSearch, FiniteSetTheorems, NaturalsInduction, WellFoundedInduction, TLAPS

\* The kinds are apart: an element is of the one kind that its ID tells.
LEMMA KindsAreApart ==
    /\ OfKind("node") = Nodes /\ OfKind("way") = Ways /\ OfKind("relation") = Relations
    /\ \A e \in All : KindOf(e) \in Types /\ e \in OfKind(KindOf(e))
    /\ \A e \in All, kind \in Types : e \in OfKind(kind) <=> KindOf(e) = kind
    /\ Unknown \notin All
  BY SearchAssumption DEF OfKind, KindOf, All, Types, Unknown

\* A set of numbers that is not empty has a least.
LEMMA LeastNat ==
    ASSUME NEW T, T \subseteq Nat, T # {}
    PROVE  \E x \in T : \A y \in T : x <= y
<1> DEFINE R == {q \in Nat \X Nat : q[1] < q[2]}
<1>1. IsWellFoundedOn(R, Nat)
  <2>1. R = OpToRel(<, Nat)
    BY Zenon DEF OpToRel
  <2> QED BY <2>1, NatLessThanWellFounded, Zenon
<1>2. PICK x \in T : \A y \in T : ~ (<<y, x>> \in R)
  <2> HIDE DEF R
  <2> QED BY <1>1, WFMin
<1>3. ASSUME NEW y \in T PROVE x <= y
  <2>1. <<y, x>> \in R <=> y < x
    OBVIOUS
  <2> HIDE DEF R
  <2> QED BY <1>2, <2>1
<1> QED BY <1>3

\* Some coordinates have a first and a last.
LEMMA FirstAndLast ==
    ASSUME NEW S, S \subseteq Coordinates, S # {}
    PROVE  /\ Max(S) \in S /\ \A x \in S : x <= Max(S)
           /\ Min(S) \in S /\ \A x \in S : Min(S) <= x
<1>1. \A x \in S : x \in Int /\ Lowest <= x /\ x <= Highest
  BY TreeAssumption DEF Coordinates
<1>2. \E m \in S : \A x \in S : m <= x
  <2> DEFINE T == {n \in Nat : Lowest + n \in S}
  <2>1. \A x \in S : x - Lowest \in T
    BY <1>1, TreeAssumption
  <2>2. T \subseteq Nat /\ T # {}
    BY <2>1
  <2>3. PICK m \in T : \A n \in T : m <= n
    <3> HIDE DEF T
    <3> QED BY <2>2, LeastNat
  <2>4. \A x \in S : Lowest + m <= x
    BY <2>1, <2>3, <1>1, TreeAssumption
  <2> QED BY <2>4
<1>3. \E m \in S : \A x \in S : m >= x
  <2> DEFINE T == {n \in Nat : Highest - n \in S}
  <2>1. \A x \in S : Highest - x \in T
    BY <1>1, TreeAssumption
  <2>2. T \subseteq Nat /\ T # {}
    BY <2>1
  <2>3. PICK m \in T : \A n \in T : m <= n
    <3> HIDE DEF T
    <3> QED BY <2>2, LeastNat
  <2>4. \A x \in S : Highest - m >= x
    BY <2>1, <2>3, <1>1, TreeAssumption
  <2> QED BY <2>4
<1>4. Max(S) \in S /\ \A x \in S : Max(S) >= x
  BY <1>3, Zenon DEF Max
<1>5. Min(S) \in S /\ \A x \in S : Min(S) <= x
  BY <1>2, Zenon DEF Min
<1> QED BY <1>1, <1>4, <1>5

\* A position is in the box common to some if it is in each.
LEMMA CommonBox ==
    ASSUME NEW boxes, boxes \subseteq Boxes, boxes # {}
    PROVE  LET b == intersect_bboxes(boxes)
           IN /\ b[1] \in Coordinates /\ b[2] \in Coordinates /\ b # <<>>
              /\ \A p \in Int : (b[1] <= p /\ p <= b[2]) <=> \A c \in boxes : c[1] <= p /\ p <= c[2]
<1> DEFINE Firsts == {c[1] : c \in boxes}
           Lasts == {c[2] : c \in boxes}
<1>1. \A c \in boxes : c[1] \in Coordinates /\ c[2] \in Coordinates
  BY DEF Boxes
<1>2. Firsts \subseteq Coordinates /\ Firsts # {} /\ Lasts \subseteq Coordinates /\ Lasts # {}
  BY <1>1
<1>3. /\ Max(Firsts) \in Firsts /\ \A x \in Firsts : x <= Max(Firsts)
      /\ Min(Lasts) \in Lasts /\ \A x \in Lasts : Min(Lasts) <= x
  <2> HIDE DEF Firsts, Lasts
  <2> QED BY <1>2, FirstAndLast
<1>4. intersect_bboxes(boxes) = <<Max(Firsts), Min(Lasts)>>
  BY DEF intersect_bboxes
<1>5. Max(Firsts) \in Coordinates /\ Min(Lasts) \in Coordinates
  BY <1>2, <1>3
<1>6. \A p \in Int : (Max(Firsts) <= p /\ p <= Min(Lasts)) <=> \A c \in boxes : c[1] <= p /\ p <= c[2]
  <2>1. \A x \in Coordinates : x \in Int
    BY TreeAssumption DEF Coordinates
  <2>2. ASSUME NEW p \in Int, Max(Firsts) <= p, p <= Min(Lasts), NEW c \in boxes
        PROVE  c[1] <= p /\ p <= c[2]
    <3>1. c[1] <= Max(Firsts) /\ Min(Lasts) <= c[2]
      BY <1>3
    <3> HIDE DEF Firsts, Lasts
    <3> QED BY <2>1, <2>2, <3>1, <1>1, <1>5
  <2>3. ASSUME NEW p \in Int, \A c \in boxes : c[1] <= p /\ p <= c[2]
        PROVE  Max(Firsts) <= p /\ p <= Min(Lasts)
    <3>1. \E c \in boxes : Max(Firsts) = c[1]
      BY <1>3
    <3>2. \E c \in boxes : Min(Lasts) = c[2]
      BY <1>3
    <3> HIDE DEF Firsts, Lasts
    <3> QED BY <2>3, <3>1, <3>2
  <2> QED BY <2>2, <2>3
<1>7. <<Max(Firsts), Min(Lasts)>> # <<>>
  <2> HIDE DEF Firsts, Lasts
  <2> QED OBVIOUS
<1> QED
  <2> HIDE DEF Firsts, Lasts
  <2> QED BY <1>4, <1>5, <1>6, <1>7

(***************************************************************************)
(* Elements, and the nodes of each.                                        *)
(***************************************************************************)

\* What the map has is elements of the three kinds, at coordinates, with references to others.
LEMMA OfTheMap ==
    ASSUME MapTypeOK
    PROVE  /\ map.there \subseteq All
           /\ \A n \in Nodes : map.place[n] \in Coordinates
           /\ \A w \in Ways : map.refs[w] \subseteq Nodes
           /\ \A r \in Relations : \A m \in map.members[r] : m.ref \in All
  BY DEF MapTypeOK

\* What an element's nodes are, of each kind.
LEMMA NodesOfKinds ==
    ASSUME MapTypeOK, NEW e \in All, NEW n
    PROVE  /\ n \in NodesUnder(e) => n \in Nodes /\ n \in map.there
           /\ e \in Nodes => (n \in NodesUnder(e) <=> n = e /\ e \in map.there)
           /\ e \in Ways => (n \in NodesUnder(e) <=> n \in map.refs[e] /\ n \in map.there)
           /\ e \in Relations =>
                 (n \in NodesUnder(e) <=>
                     /\ n \in Nodes /\ n \in map.there
                     /\ \E m \in map.members[e] :
                           m.ref = n \/ (m.ref \in Ways /\ m.ref \in map.there /\ n \in map.refs[m.ref]))
<1>1. CASE e \in Nodes
  <2>1. e \notin Ways /\ e \notin Relations
    BY <1>1, SearchAssumption
  <2>2. NodesUnder(e) = {e} \cap map.there
    BY <1>1, <2>1, Zenon DEF NodesUnder, by_ids
  <2> QED BY <1>1, <2>1, <2>2
<1>2. CASE e \in Ways
  <2>1. e \notin Nodes /\ e \notin Relations
    BY <1>2, SearchAssumption
  <2>2. NodesUnder(e) = map.refs[e] \cap map.there
    BY <1>2, <2>1, Zenon DEF NodesUnder, by_ids
  <2> QED BY <1>2, <2>1, <2>2, OfTheMap
<1>3. CASE e \in Relations
  <2>1. e \notin Nodes /\ e \notin Ways
    BY <1>3, SearchAssumption
  <2>2. member_ids({e}) = {m.ref : m \in map.members[e]}
    BY DEF member_ids
  <2>3. NodesUnder(e) = ((member_ids({e}) \cap Nodes) \cup refs_of(member_ids({e}) \cap Ways \cap map.there))
                            \cap map.there
    BY <1>3, <2>1, Zenon DEF NodesUnder, by_ids
  <2>4. n \in refs_of(member_ids({e}) \cap Ways \cap map.there)
            <=> \E m \in map.members[e] : m.ref \in Ways /\ m.ref \in map.there /\ n \in map.refs[m.ref]
    BY <2>2 DEF refs_of
  <2>5. n \in refs_of(member_ids({e}) \cap Ways \cap map.there) => n \in Nodes
    BY <2>4, OfTheMap
  <2> QED BY <1>3, <2>1, <2>2, <2>3, <2>4, <2>5
<1> QED BY <1>1, <1>2, <1>3 DEF All

(***************************************************************************)
(* Regions.  What follows is of any region: the nodes in it are those for  *)
(* which Within holds, whatever it says.                                   *)
(***************************************************************************)
Reaches(e, region) == \E n \in NodesUnder(e) : Within(n, region)

\* What a search by region is to find of one kind.
Wanted(kind, conditions, region, ids) ==
    {e \in by_ids(OfKind(kind)) :
        /\ ids = Anything \/ e \in ids
        /\ \A f \in conditions : Meets(e, f)
        /\ Reaches(e, region)}

\* What is kept with a region is what is in it.
LEMMA NodesInRegion ==
    ASSUME NEW cache, CacheOK(cache), NEW region, InCache(cache, region)
    PROVE  NodesIn(cache, region) = {n \in by_ids(Nodes) : Within(n, region)}
<1> DEFINE known == CHOOSE k \in cache : k.key = key(region)
<1>1. known \in cache /\ known.key = key(region)
  BY Zenon DEF InCache
<1>2. known.key[1] = region.bbox /\ known.key[2] = region.around
  BY <1>1 DEF key
<1>3. \A n : Within(n, [bbox |-> known.key[1], around |-> known.key[2]]) <=> Within(n, region)
  <2> HIDE DEF known
  <2> QED BY <1>2 DEF Within
<1>4. known.nodes = {n \in by_ids(Nodes) : Within(n, [bbox |-> known.key[1], around |-> known.key[2]])}
  <2> HIDE DEF known
  <2> QED BY <1>1, Zenon DEF CacheOK
<1>5. NodesIn(cache, region) = known.nodes
  BY Zenon DEF NodesIn
<1> HIDE DEF known
<1> QED BY <1>3, <1>4, <1>5, Zenon

\* What is kept with a region is the nodes in it, if what was kept before is.
LEMMA SearchedNodesAreIn ==
    ASSUME MapTypeOK, NEW region
    PROVE  Search("node", {}, region, Anything)
               = {n \in by_ids(Nodes) : Within(n, [bbox |-> key(region)[1], around |-> key(region)[2]])}
<1>1. \A n \in by_ids(Nodes) :
          Within(n, [bbox |-> key(region)[1], around |-> key(region)[2]]) <=> Within(n, region)
  BY DEF Within, key
<1>2. region = Nowhere => \A n : Within(n, region)
  BY DEF Within, Nowhere
<1>3. OfKind("node") = Nodes
  BY KindsAreApart
<1> QED BY <1>1, <1>2, <1>3, Zenon DEF Search

\* To keep a region more leaves right what is kept.
LEMMA CacheStaysOK ==
    ASSUME MapTypeOK, NEW cache, CacheOK(cache), NEW region, NEW maximum
    PROVE  CacheOK(around_region(cache, region, maximum))
<1> DEFINE new == [key |-> key(region), nodes |-> Search("node", {}, region, Anything)]
<1>1. around_region(cache, region, maximum) \subseteq cache \cup {new}
  BY DEF around_region
<1>2. new.key = key(region) /\ new.nodes = Search("node", {}, region, Anything)
  OBVIOUS
<1>3. new.nodes = {n \in by_ids(Nodes) : Within(n, [bbox |-> new.key[1], around |-> new.key[2]])}
  <2> HIDE DEF new
  <2> QED BY <1>2, SearchedNodesAreIn, Zenon
<1> HIDE DEF new
<1> QED BY <1>1, <1>3, Zenon DEF CacheOK

\* Up from the nodes in a region: what has one of them, or a way that has.
LEMMA UpFindsWanted ==
    ASSUME MapTypeOK, NEW cache, CacheOK(cache), NEW region, InCache(cache, region),
           NEW kind \in {"way", "relation"}, NEW conditions, NEW ids
    PROVE  LET result == reached_from_region(cache, kind, conditions, region, ids)
           IN result.found = Wanted(kind, conditions, region, ids) /\ result.cache = cache
<1> DEFINE nodes == {n \in by_ids(Nodes) : Within(n, region)}
           ways == ways_of_nodes(nodes)
           candidates == IF kind = "way" THEN ways ELSE relations_of(nodes) \cup relations_of(ways)
           wanted == IF ids = Anything THEN candidates ELSE candidates \cap ids
           result == reached_from_region(cache, kind, conditions, region, ids)
<1>1. NodesIn(cache, region) = nodes
  BY NodesInRegion
<1>2. result.found = {e \in wanted : \A f \in conditions : Meets(e, f)} /\ result.cache = cache
  BY <1>1, Zenon DEF reached_from_region, Result
<1>3. \A n : n \in nodes <=> n \in Nodes /\ n \in map.there /\ Within(n, region)
  BY DEF by_ids
<1>4. \A w : w \in ways <=> w \in Ways /\ w \in map.there /\ \E n \in nodes : n \in map.refs[w]
  BY DEF ways_of_nodes, by_ids
<1>5. \A ids_, r : r \in relations_of(ids_)
          <=> r \in Relations /\ r \in map.there /\ \E m \in map.members[r] : m.ref \in ids_
  BY DEF relations_of, by_ids
<1>6. ASSUME NEW e
      PROVE  e \in candidates <=> e \in by_ids(OfKind(kind)) /\ Reaches(e, region)
  <2> HIDE DEF nodes, ways
  <2>1. CASE kind = "way"
    <3>1. e \in by_ids(OfKind(kind)) <=> e \in Ways /\ e \in map.there
      BY <2>1, KindsAreApart DEF by_ids
    <3>2. ASSUME e \in Ways, e \in map.there
          PROVE  Reaches(e, region) <=> \E n \in nodes : n \in map.refs[e]
      <4>1. \A n : n \in NodesUnder(e) <=> n \in map.refs[e] /\ n \in map.there
        BY <3>2, NodesOfKinds DEF All
      <4>2. \A n : n \in map.refs[e] => n \in Nodes
        BY <3>2, OfTheMap
      <4> QED BY <4>1, <4>2, <1>3, Zenon DEF Reaches
    <3> QED BY <2>1, <3>1, <3>2, <1>4
  <2>2. CASE kind = "relation"
    <3>1. e \in by_ids(OfKind(kind)) <=> e \in Relations /\ e \in map.there
      BY <2>2, KindsAreApart DEF by_ids
    <3>2. e \in candidates <=> e \in Relations /\ e \in map.there
              /\ \E m \in map.members[e] : m.ref \in nodes \/ m.ref \in ways
      <4>1. kind # "way"
        BY <2>2
      <4>2. e \in candidates <=> e \in relations_of(nodes) \/ e \in relations_of(ways)
        BY <4>1
      <4> QED BY <4>2, <1>5, Zenon
    <3>3. ASSUME e \in Relations, e \in map.there
          PROVE  Reaches(e, region) <=> \E m \in map.members[e] : m.ref \in nodes \/ m.ref \in ways
      <4>1. \A n : n \in NodesUnder(e) <=>
                       /\ n \in Nodes /\ n \in map.there
                       /\ \E m \in map.members[e] :
                             m.ref = n \/ (m.ref \in Ways /\ m.ref \in map.there /\ n \in map.refs[m.ref])
        BY <3>3, NodesOfKinds DEF All
      <4> QED BY <4>1, <1>3, <1>4, Zenon DEF Reaches
    <3> HIDE DEF candidates
    <3> QED BY <3>1, <3>2, <3>3
  <2> QED BY <2>1, <2>2
<1>7. \A e : e \in wanted <=> e \in candidates /\ (ids = Anything \/ e \in ids)
  <2>1. \A e \in candidates : e \in All
    <3> HIDE DEF candidates
    <3>1. \A e : e \in by_ids(OfKind(kind)) => e \in All
      BY DEF by_ids, OfKind
    <3> QED BY <1>6, <3>1
  <2> HIDE DEF candidates
  <2> QED BY <2>1, Zenon DEF Anything
<1> HIDE DEF wanted, candidates, result
<1> QED
  <2>1. result.found = Wanted(kind, conditions, region, ids)
    BY <1>2, <1>6, <1>7, Zenon DEF Wanted
  <2> QED BY <2>1, <1>2 DEF result

\* Down from what the other filters find: what of it has a node in the region.
LEMMA DownKeepsWanted ==
    ASSUME MapTypeOK, NEW cache, NEW region, NEW kind \in {"way", "relation"}, NEW conditions, NEW ids
    PROVE  LET result == having_part_in_region(cache, kind, Search(kind, conditions, Nowhere, ids), region)
           IN result.found = Wanted(kind, conditions, region, ids) /\ result.cache = cache
<1> DEFINE found == Search(kind, conditions, Nowhere, ids)
           member_ways == IF kind = "way" THEN {} ELSE member_ids(found) \cap Ways
           nodes == IF kind = "way" THEN refs_of(found)
                    ELSE (member_ids(found) \cap Nodes) \cup refs_of(by_ids(member_ways))
           inside == {n \in by_ids(nodes) : Within(n, region)}
           reaching == {w \in by_ids(member_ways) : map.refs[w] \cap inside # {}}
           result == having_part_in_region(cache, kind, found, region)
<1>1. result.cache = cache
      /\ result.found = {e \in found : (IF kind = "way" THEN map.refs[e] ELSE member_ids({e}))
                                           \cap (inside \cup reaching) # {}}
  BY Zenon DEF having_part_in_region, Result
<1>2. \A e : e \in found <=> /\ e \in by_ids(OfKind(kind)) /\ (ids = Anything \/ e \in ids)
                             /\ \A f \in conditions : Meets(e, f)
  BY Zenon DEF Search
<1>3. ASSUME NEW e \in found
      PROVE  (IF kind = "way" THEN map.refs[e] ELSE member_ids({e})) \cap (inside \cup reaching) # {}
                 <=> Reaches(e, region)
  <2>1. CASE kind = "way"
    <3>1. e \in Ways /\ e \in map.there
      BY <2>1, <1>2, KindsAreApart DEF by_ids
    <3>2. inside = {n \in refs_of(found) \cap map.there : Within(n, region)} /\ reaching = {}
      BY <2>1 DEF by_ids
    <3>3. \A n \in map.refs[e] : n \in refs_of(found)
      BY DEF refs_of
    <3>4. \A n : n \in NodesUnder(e) <=> n \in map.refs[e] /\ n \in map.there
      BY <3>1, NodesOfKinds DEF All
    <3> HIDE DEF found, inside, reaching
    <3> QED BY <2>1, <3>2, <3>3, <3>4 DEF Reaches
  <2>2. CASE kind = "relation"
    <3>1. e \in Relations /\ e \in map.there
      BY <2>2, <1>2, KindsAreApart DEF by_ids
    <3>2. \A m \in map.members[e] : m.ref \in member_ids(found) /\ m.ref \in member_ids({e})
      BY DEF member_ids
    <3>3. \A x \in member_ids({e}) : \E m \in map.members[e] : x = m.ref
      BY DEF member_ids
    <3>4. kind # "way"
      BY <2>2
    <3>5. \A w : w \in by_ids(member_ways) <=> w \in member_ids(found) /\ w \in Ways /\ w \in map.there
      BY <3>4 DEF by_ids
    <3>6. \A n : n \in inside <=> /\ n \in map.there /\ Within(n, region)
                                  /\ \/ n \in member_ids(found) /\ n \in Nodes
                                     \/ \E w : w \in by_ids(member_ways) /\ n \in map.refs[w]
      BY <3>4, Zenon DEF by_ids, refs_of
    <3>7. \A w : w \in reaching <=> w \in by_ids(member_ways) /\ \E n \in inside : n \in map.refs[w]
      OBVIOUS
    <3>8. \A w \in Ways : \A n \in map.refs[w] : n \in Nodes
      BY OfTheMap
    <3>9. \A n : n \in NodesUnder(e) <=>
                     /\ n \in Nodes /\ n \in map.there
                     /\ \E m \in map.members[e] :
                           m.ref = n \/ (m.ref \in Ways /\ m.ref \in map.there /\ n \in map.refs[m.ref])
      BY <3>1, NodesOfKinds DEF All
    <3> HIDE DEF found, member_ways, nodes, inside, reaching
    <3>10. ASSUME Reaches(e, region)
           PROVE  \E x \in member_ids({e}) : x \in inside \/ x \in reaching
      <4>1. PICK n \in NodesUnder(e) : Within(n, region)
        BY <3>10 DEF Reaches
      <4>2. PICK m \in map.members[e] :
                m.ref = n \/ (m.ref \in Ways /\ m.ref \in map.there /\ n \in map.refs[m.ref])
        BY <4>1, <3>9
      <4>3. n \in Nodes /\ n \in map.there /\ m.ref \in member_ids(found) /\ m.ref \in member_ids({e})
        BY <4>1, <3>2, <3>9
      <4>4. CASE m.ref = n
        BY <4>1, <4>3, <4>4, <3>6
      <4>5. CASE m.ref \in Ways /\ m.ref \in map.there /\ n \in map.refs[m.ref]
        <5>1. m.ref \in by_ids(member_ways)
          BY <4>3, <4>5, <3>5
        <5>2. n \in inside
          BY <4>1, <4>3, <4>5, <5>1, <3>6
        <5>3. m.ref \in reaching
          BY <4>5, <5>1, <5>2, <3>7
        <5> QED BY <4>3, <5>3
      <4> QED BY <4>2, <4>4, <4>5
    <3>11. ASSUME NEW x \in member_ids({e}), x \in inside \/ x \in reaching
           PROVE  Reaches(e, region)
      <4>1. PICK m \in map.members[e] : m.ref = x
        BY <3>3
      <4>2. x \in All
        BY <3>1, <4>1, OfTheMap
      <4>3. CASE x \in inside /\ x \in Nodes
        BY <4>1, <4>3, <3>6, <3>9 DEF Reaches
      <4>4. CASE x \in reaching
        BY <4>1, <4>4, <3>5, <3>6, <3>7, <3>8, <3>9 DEF Reaches
      <4>5. x \in inside => x \in Nodes
        BY <3>5, <3>6, <3>8
      <4> QED BY <3>11, <4>3, <4>4, <4>5
    <3> QED BY <3>4, <3>10, <3>11, Zenon
  <2> QED BY <2>1, <2>2
<1> HIDE DEF found, inside, reaching, result
<1>4. result.found = Wanted(kind, conditions, region, ids)
  BY <1>1, <1>2, <1>3, Zenon DEF Wanted
<1> QED BY <1>1, <1>4, Zenon DEF result, found

\* However the elements of a kind in a region are searched for, unless some limit
\* is met, those are found that are to be, and what is kept of it is right.
THEOREM RegionSearchIsExact ==
    ASSUME MapTypeOK, NEW cache, CacheOK(cache), NEW region,
           NEW kind \in {"way", "relation"}, NEW conditions, NEW ids, NEW selective \in BOOLEAN,
           ~in_region(cache, kind, conditions, region, ids, selective).over
    PROVE  LET result == in_region(cache, kind, conditions, region, ids, selective)
           IN result.found = Wanted(kind, conditions, region, ids) /\ CacheOK(result.cache)
<1> DEFINE few == around_region(cache, region, limits.regionFirst)
           all == around_region(cache, region, intermediate_maximum)
           found == Search(kind, conditions, Nowhere, ids)
           up(known) == reached_from_region(known, kind, conditions, region, ids)
           down == having_part_in_region(cache, kind, found, region)
           result == in_region(cache, kind, conditions, region, ids, selective)
<1>1. \/ InCache(few, region) /\ result = up(few)
      \/ result = down
      \/ InCache(all, region) /\ result = up(all)
      \/ result = Result(cache, {}, TRUE)
  <2> DEFINE small == area(region) <= limits.area
             tooMany == TooMany(found, Min({limits.maximum, limits.tagFirst}))
  <2>1. result = CASE selective /\ small /\ InCache(few, region) -> up(few)
                   [] selective /\ ~(small /\ InCache(few, region)) /\ ~tooMany -> down
                   [] ~selective \/ (small /\ ~InCache(few, region) /\ tooMany) ->
                          IF InCache(all, region) THEN up(all) ELSE Result(cache, {}, TRUE)
                   [] OTHER -> Result(cache, {}, TRUE)
    BY Zenon DEF in_region
  <2> HIDE DEF few, all, small, tooMany, up, down, result
  <2> QED BY <2>1
<1>2. CacheOK(few) /\ CacheOK(all)
  BY CacheStaysOK
<1>3. result # Result(cache, {}, TRUE)
  BY DEF Result
<1>4. InCache(few, region) => up(few).found = Wanted(kind, conditions, region, ids) /\ up(few).cache = few
  BY <1>2, UpFindsWanted
<1>5. InCache(all, region) => up(all).found = Wanted(kind, conditions, region, ids) /\ up(all).cache = all
  BY <1>2, UpFindsWanted
<1>6. down.found = Wanted(kind, conditions, region, ids) /\ down.cache = cache
  BY DownKeepsWanted
<1>7. result.found = Wanted(kind, conditions, region, ids) /\ CacheOK(result.cache)
  <2> HIDE DEF few, all, up, down, result
  <2> QED BY <1>1, <1>2, <1>3, <1>4, <1>5, <1>6
<1> QED BY <1>7

(***************************************************************************)
(* Geometry.                                                               *)
(***************************************************************************)

\* What is fetched to draw elements has all the nodes of each that the map has,
\* and the ways that are members of it; and nothing that the map has not.
LEMMA GeometryIsWhole ==
    ASSUME MapTypeOK, NEW elements, elements \subseteq map.there, NEW ordered, ordered \subseteq elements
    PROVE  LET geometry == resolve_geometry(elements, ordered)
           IN /\ geometry.nodes \subseteq Nodes \cap map.there /\ geometry.ways \subseteq Ways \cap map.there
              /\ \A e \in ordered :
                    /\ NodesUnder(e) \subseteq geometry.nodes
                    /\ e \in Relations => by_ids(member_ids({e}) \cap Ways) \subseteq geometry.ways
<1> DEFINE members == member_ids(ordered \cap Relations)
           missing == (members \cap Ways) \ elements
           known == (elements \cap Ways) \cup by_ids(missing)
           needed == (refs_of((ordered \cap Ways) \cup (members \cap known)) \cup (members \cap Nodes)) \ elements
           geometry == resolve_geometry(elements, ordered)
<1>1. geometry.nodes = (elements \cap Nodes) \cup by_ids(needed) /\ geometry.ways = known
  BY DEF resolve_geometry
<1>2. \A w : w \in known <=> w \in Ways /\ w \in map.there /\ (w \in elements \/ w \in members)
  BY DEF by_ids
<1>3. \A e \in ordered \cap Relations : \A m \in map.members[e] : m.ref \in members
  BY DEF member_ids
<1>4. \A x \in members : x \in All
  <2>1. \A x \in members : \E r \in ordered \cap Relations : \E m \in map.members[r] : x = m.ref
    BY DEF member_ids
  <2> QED BY <2>1, OfTheMap
<1>5. \A n : n \in needed <=>
          /\ n \notin elements
          /\ \/ n \in members /\ n \in Nodes
             \/ \E w \in (ordered \cap Ways) \cup (members \cap known) : n \in map.refs[w]
  BY Zenon DEF refs_of
<1>6. \A n \in needed : n \in Nodes
  <2> HIDE DEF needed, members, known
  <2> QED BY <1>2, <1>5, OfTheMap
<1>7. geometry.nodes \subseteq Nodes \cap map.there /\ geometry.ways \subseteq Ways \cap map.there
  <2> HIDE DEF needed, known, geometry
  <2> QED BY <1>1, <1>2, <1>6 DEF by_ids
<1>8. ASSUME NEW e \in ordered
      PROVE  /\ NodesUnder(e) \subseteq geometry.nodes
             /\ e \in Relations => by_ids(member_ids({e}) \cap Ways) \subseteq geometry.ways
  <2>1. e \in All /\ e \in map.there /\ e \in elements
    BY OfTheMap
  <2>2. \A n : n \in geometry.nodes <=> (n \in elements /\ n \in Nodes) \/ (n \in needed /\ n \in map.there)
    BY <1>1 DEF by_ids
  <2> HIDE DEF members, missing, known, needed, geometry
  <2>3. CASE e \in Nodes
    BY <2>1, <2>2, <2>3, NodesOfKinds, SearchAssumption
  <2>4. CASE e \in Ways
    <3>1. \A n : n \in NodesUnder(e) => n \in map.refs[e] /\ n \in map.there /\ n \in Nodes
      BY <2>1, <2>4, NodesOfKinds
    <3> QED BY <3>1, <2>2, <2>4, <1>5, SearchAssumption
  <2>5. CASE e \in Relations
    <3>1. \A w : w \in by_ids(member_ids({e}) \cap Ways) =>
              w \in Ways /\ w \in map.there /\ \E m \in map.members[e] : w = m.ref
      BY DEF by_ids, member_ids
    <3>2. by_ids(member_ids({e}) \cap Ways) \subseteq known
      <4>1. ASSUME NEW w \in by_ids(member_ids({e}) \cap Ways)
            PROVE  w \in known
        <5>1. PICK m \in map.members[e] : w = m.ref
          BY <3>1
        <5>2. w \in members
          BY <5>1, <1>3, <2>5
        <5> QED BY <3>1, <5>2, <1>2
      <4> QED BY <4>1
    <3>3. ASSUME NEW n \in NodesUnder(e)
          PROVE  n \in geometry.nodes
      <4>1. n \in Nodes /\ n \in map.there
        BY <2>1, NodesOfKinds
      <4>2. PICK m \in map.members[e] :
                m.ref = n \/ (m.ref \in Ways /\ m.ref \in map.there /\ n \in map.refs[m.ref])
        BY <2>1, <2>5, NodesOfKinds
      <4>3. m.ref \in members
        BY <1>3, <2>5
      <4>4. m.ref # n => m.ref \in members \cap known
        BY <4>2, <4>3, <1>2
      <4> QED BY <4>1, <4>2, <4>3, <4>4, <1>5, <2>2
    <3> QED BY <3>2, <3>3, <1>1
  <2> QED BY <2>1, <2>3, <2>4, <2>5 DEF All
<1> HIDE DEF geometry
<1> QED BY <1>7, <1>8 DEF geometry

\* An around filter measures from the positions of all the nodes of its set.
LEMMA MeasuredFromAll ==
    ASSUME MapTypeOK, NEW elements, elements \subseteq map.there
    PROVE  UNION {element_points(e, resolve_geometry(elements, elements)) : e \in elements}
               = Positions(elements)
<1> DEFINE geometry == resolve_geometry(elements, elements)
<1>1. /\ geometry.nodes \subseteq Nodes \cap map.there /\ geometry.ways \subseteq Ways \cap map.there
      /\ \A e \in elements :
            /\ NodesUnder(e) \subseteq geometry.nodes
            /\ e \in Relations => by_ids(member_ids({e}) \cap Ways) \subseteq geometry.ways
  BY GeometryIsWhole
<1> HIDE DEF geometry
<1>2. ASSUME NEW e \in elements
      PROVE  element_points(e, geometry) = {map.place[n] : n \in NodesUnder(e)}
  <2> DEFINE under == CASE e \in Nodes -> {e}
                        [] e \in Ways -> map.refs[e]
                        [] e \in Relations -> member_ids({e}) \cup refs_of(member_ids({e}) \cap geometry.ways)
  <2>1. e \in All /\ e \in map.there
    BY OfTheMap
  <2>2. geometry.nodes \cap under = NodesUnder(e)
    <3>1. CASE e \in Nodes
      <4>1. e \notin Ways /\ e \notin Relations
        BY <3>1, SearchAssumption
      <4>2. under = {e}
        BY <3>1, <4>1, Zenon
      <4> HIDE DEF under
      <4> QED BY <4>2, <3>1, <2>1, <1>1, NodesOfKinds
    <3>2. CASE e \in Ways
      <4>1. e \notin Nodes /\ e \notin Relations
        BY <3>2, SearchAssumption
      <4>2. under = map.refs[e]
        BY <3>2, <4>1, Zenon
      <4> HIDE DEF under
      <4> QED BY <4>2, <3>2, <2>1, <1>1, NodesOfKinds
    <3>3. CASE e \in Relations
      <4>1. e \notin Nodes /\ e \notin Ways
        BY <3>3, SearchAssumption
      <4>2. under = member_ids({e}) \cup refs_of(member_ids({e}) \cap geometry.ways)
        BY <3>3, <4>1, Zenon
      <4>3. \A x : x \in member_ids({e}) <=> \E m \in map.members[e] : x = m.ref
        BY DEF member_ids
      <4>4. \A n : n \in under <=> n \in member_ids({e})
                       \/ \E w : w \in member_ids({e}) /\ w \in geometry.ways /\ n \in map.refs[w]
        BY <4>2, Zenon DEF refs_of
      <4>5. \A w : w \in member_ids({e}) => (w \in geometry.ways <=> w \in Ways /\ w \in map.there)
        BY <1>1, <3>3 DEF by_ids
      <4>6. \A n : n \in NodesUnder(e) <=>
                       /\ n \in Nodes /\ n \in map.there
                       /\ \E m \in map.members[e] :
                             m.ref = n \/ (m.ref \in Ways /\ m.ref \in map.there /\ n \in map.refs[m.ref])
        BY <2>1, <3>3, NodesOfKinds
      <4> HIDE DEF under
      <4>7. ASSUME NEW n
            PROVE  n \in geometry.nodes /\ n \in under <=> n \in NodesUnder(e)
        <5>1. ASSUME n \in under, n \in geometry.nodes
              PROVE  n \in NodesUnder(e)
          <6>1. n \in Nodes /\ n \in map.there
            BY <5>1, <1>1
          <6>2. CASE n \in member_ids({e})
            BY <6>1, <6>2, <4>3, <4>6
          <6>3. CASE \E w : w \in member_ids({e}) /\ w \in geometry.ways /\ n \in map.refs[w]
            <7>1. PICK w : w \in member_ids({e}) /\ w \in geometry.ways /\ n \in map.refs[w]
              BY <6>3
            <7>2. w \in Ways /\ w \in map.there
              BY <7>1, <4>5
            <7>3. PICK m \in map.members[e] : w = m.ref
              BY <7>1, <4>3
            <7> QED BY <6>1, <7>1, <7>2, <7>3, <4>6
          <6> QED BY <5>1, <6>2, <6>3, <4>4
        <5>2. n \in NodesUnder(e) => n \in under
          BY <4>3, <4>4, <4>5, <4>6
        <5> QED BY <5>1, <5>2, <1>1
      <4> QED BY <4>7
    <3> QED BY <2>1, <3>1, <3>2, <3>3 DEF All
  <2>3. element_points(e, geometry) = {map.place[n] : n \in geometry.nodes \cap under}
    BY Zenon DEF element_points
  <2> HIDE DEF under
  <2> QED BY <2>2, <2>3, Zenon
<1>3. UNION {element_points(e, geometry) : e \in elements} = Positions(elements)
  <2>1. \A p : p \in Positions(elements) <=> \E e \in elements : \E n \in NodesUnder(e) : p = map.place[n]
    BY Zenon DEF Positions
  <2>2. \A p : p \in UNION {element_points(e, geometry) : e \in elements}
                   <=> \E e \in elements : \E n \in NodesUnder(e) : p = map.place[n]
    <3>1. \A e \in elements : \A p :
              p \in element_points(e, geometry) <=> \E n \in NodesUnder(e) : p = map.place[n]
      BY <1>2
    <3> DEFINE all == UNION {element_points(e, geometry) : e \in elements}
    <3>2. \A p : p \in all <=> \E e \in elements : p \in element_points(e, geometry)
      OBVIOUS
    <3> HIDE DEF all
    <3>3. \A p : p \in all <=> \E e \in elements : \E n \in NodesUnder(e) : p = map.place[n]
      BY <3>1, <3>2, SMT
    <3> QED BY <3>3, Zenon DEF all
  <2> QED BY <2>1, <2>2, Zenon
<1> QED BY <1>3 DEF geometry

\* Whatever is printed with its geometry comes with every position that the map
\* has for it, those of nodes of ways that are only members of it as well,
\* whatever else is in the set and however few are printed.
THEOREM PrintsWhole ==
    ASSUME MapTypeOK, NEW s \in Prints, NEW r, RunTypeOK(r),
           \A i \in DOMAIN r.output : Drawn(r.output[i])
    PROVE  \A i \in DOMAIN print_set(r, s).output : Drawn(print_set(r, s).output[i])
<1> DEFINE elements == get_set(r.sets, s.from)
           ordered == Ordered(elements, s.limit)
           geometry == IF s.geometry = None THEN [nodes |-> {}, ways |-> {}, over |-> FALSE]
                       ELSE resolve_geometry(elements, ordered)
           counts == {Cardinality(elements \cap OfKind(k)) : k \in ToSet(Kinds)}
           Printed(found) == [print |-> s, found |-> found, nodes |-> geometry.nodes, ways |-> geometry.ways]
           output == print_set(r, s).output
<1>1. elements \subseteq map.there
  BY DEF get_set, RunTypeOK, SetsOK
<1>2. ordered \subseteq elements
  BY DEF Ordered
<1>3. \A found : /\ Printed(found).print = s /\ Printed(found).found = found
                 /\ Printed(found).nodes = geometry.nodes /\ Printed(found).ways = geometry.ways
  OBVIOUS
<1>4. s.mode = "count" => Drawn(Printed(counts))
  <2> HIDE DEF Printed
  <2> QED BY <1>3 DEF Drawn
<1>5. Drawn(Printed(ordered))
  <2>1. s.geometry # None =>
            \A e \in ordered :
                /\ NodesUnder(e) \subseteq geometry.nodes
                /\ e \in Relations => by_ids(member_ids({e}) \cap Ways) \subseteq geometry.ways
    <3> HIDE DEF elements, ordered
    <3> QED BY <1>1, <1>2, GeometryIsWhole
  <2> HIDE DEF Printed, geometry, ordered
  <2> QED BY <1>3, <2>1 DEF Drawn
<1>6. r.output \in Seq(Outputs)
  BY DEF RunTypeOK
<1>7. \/ output = r.output
      \/ s.mode = "count" /\ output = Append(r.output, Printed(counts))
      \/ output = Append(r.output, Printed(ordered))
  <2>1. print_set(r, s) =
            IF s.mode = "count" THEN [r EXCEPT !.output = Append(@, Printed(counts))]
            ELSE IF r.size + Cardinality(ordered) > limits.maximum \/ geometry.over
            THEN [r EXCEPT !.error = "too many"]
            ELSE [r EXCEPT !.output = Append(@, Printed(ordered)), !.size = @ + Cardinality(ordered)]
    BY Zenon DEF print_set
  <2> HIDE DEF ordered, geometry, counts, Printed
  <2> QED BY <2>1 DEF RunTypeOK
<1> HIDE DEF output, Printed, counts, ordered
<1>8. ASSUME NEW o, Drawn(o), output = Append(r.output, o), NEW i \in DOMAIN output
      PROVE  Drawn(output[i])
  BY <1>6, <1>8
<1> QED BY <1>4, <1>5, <1>7, <1>8 DEF output

(***************************************************************************)
(* Filters of a query.                                                     *)
(***************************************************************************)

\* A filter of a kind that is asked for is one of the filters.
LEMMA FilterKinds ==
    ASSUME NEW f \in Filters
    PROVE  /\ f.is = "bbox" => f.box \in Boxes
           /\ f.is = "around" => f.radius \in Nat /\ (f.at # <<>> => f.at[1] \in Coordinates)
           /\ f.is \in {"has", "bbox", "id", "item", "recurse", "around", "user", "newer", "changed"}
           /\ f.is = "recurse" => f.type \in {"w", "r", "bn", "bw", "br"}
  BY DEF Filters, HasKvs, BboxQueries, IdQueries, ItemFilters, RecurseFilters, Arounds, Users, Newers, Changeds

\* The filters of a query are of the kinds of filters that the language has.
LEMMA FiltersOfAQuery ==
    ASSUME NEW s \in Queries, ScriptTypeOK
    PROVE  /\ \A f \in ToSet(s.filters) : f \in Filters
           /\ \A kinds, f : f \in Of(s.filters, kinds) <=> f \in ToSet(s.filters) /\ f.is \in kinds
           /\ boxes_of(s) \subseteq Boxes
<1>1. \A f \in ToSet(s.filters) : f \in Filters
  BY DEF Queries, ToSet
<1>2. \A kinds, f : f \in Of(s.filters, kinds) <=> f \in ToSet(s.filters) /\ f.is \in kinds
  BY Zenon DEF Of
<1>3. boxes_of(s) \subseteq Boxes
  <2>1. \A f \in Of(s.filters, {"bbox"}) : f.box \in Boxes
    BY <1>1, <1>2, FilterKinds
  <2>2. script.bbox # <<>> => script.bbox \in Boxes
    BY DEF ScriptTypeOK
  <2> QED BY <2>1, <2>2 DEF boxes_of
<1> QED BY <1>1, <1>2, <1>3

\* A query that is not refused has one around filter at the most.
LEMMA OneAround ==
    ASSUME NEW s \in Queries, ~(Cardinality({i \in DOMAIN s.filters : s.filters[i].is = "around"}) > 1)
    PROVE  \A f \in arounds_of(s), g \in arounds_of(s) : f = g
<1> DEFINE places == {i \in DOMAIN s.filters : s.filters[i].is = "around"}
<1>1. s.filters \in Seq(Filters)
  BY DEF Queries
<1>2. IsFiniteSet(places)
  <2>1. DOMAIN s.filters = 1..Len(s.filters) /\ Len(s.filters) \in Nat
    BY <1>1
  <2>2. 1 \in Int /\ Len(s.filters) \in Int
    BY <2>1
  <2>3. IsFiniteSet(1..Len(s.filters))
    BY <2>2, FS_Interval, Zenon
  <2>4. places \in SUBSET (1..Len(s.filters))
    BY <2>1
  <2> HIDE DEF places
  <2> QED BY <2>3, <2>4, FS_Subset, Zenon
<1>3. ASSUME NEW f \in arounds_of(s), NEW g \in arounds_of(s), f # g
      PROVE  FALSE
  <2>1. PICK i \in places : s.filters[i] = f
    BY DEF arounds_of, Of, ToSet
  <2>2. PICK j \in places : s.filters[j] = g
    BY DEF arounds_of, Of, ToSet
  <2>3. i # j
    BY <1>3, <2>1, <2>2
  <2>4. IsFiniteSet({i}) /\ Cardinality({i}) = 1
    BY FS_Singleton
  <2>5. Cardinality({i} \cup {j}) = Cardinality({i}) + 1
    <3>1. j \notin {i}
      BY <2>3
    <3> QED BY <3>1, <2>4, FS_AddElement, Zenon
  <2>6. ~(Cardinality(places) > 1)
    OBVIOUS
  <2>7. {i} \cup {j} \in SUBSET places
    OBVIOUS
  <2> HIDE DEF places
  <2>8. Cardinality({i} \cup {j}) <= Cardinality(places)
    BY <1>2, <2>7, FS_Subset, Zenon
  <2>9. Cardinality(places) \in Nat
    BY <1>2, FS_CardinalityType, Zenon
  <2> QED BY <2>4, <2>5, <2>6, <2>8, <2>9
<1> QED BY <1>3

\* The conditions of a search are the filters by tags, users and times.
LEMMA ConditionsMean ==
    ASSUME NEW s \in Queries, ScriptTypeOK, NEW sets, NEW e
    PROVE  (\A c \in conditions_of(s) : Meets(e, c))
               <=> \A f \in Of(s.filters, {"has", "user", "newer", "changed"}) : Fits(sets, f, e)
<1>1. ASSUME NEW f, f.is \in {"has", "user", "newer", "changed"}
      PROVE  Meets(e, with_account_ids(f)) <=> Fits(sets, f, e)
  <2>1. CASE f.is = "user"
    <3> DEFINE c == with_account_ids(f)
    <3>1. c.is = "user" /\ c.names = ToSet(f.names)
          /\ c.uids = ToSet(f.uids) \cup {Accounts[n] : n \in ToSet(f.names) \cap DOMAIN Accounts}
      BY <2>1 DEF with_account_ids
    <3> HIDE DEF c
    <3>2. Meets(e, c) <=> map.user[e] \in c.names \/ map.uid[e] \in c.uids
      BY <3>1 DEF Meets
    <3>3. Fits(sets, f, e) <=> \/ map.user[e] \in ToSet(f.names)
                               \/ map.uid[e] \in ToSet(f.uids)
                                      \cup {Accounts[n] : n \in ToSet(f.names) \cap DOMAIN Accounts}
      BY <2>1 DEF Fits
    <3> QED BY <3>1, <3>2, <3>3, Zenon DEF c
  <2>2. CASE f.is \in {"has", "newer", "changed"}
    <3>1. with_account_ids(f) = f
      BY <2>2 DEF with_account_ids
    <3>2. Fits(sets, f, e) <=> Meets(e, f)
      BY <2>2, Zenon DEF Fits
    <3> QED BY <3>1, <3>2
  <2> QED BY <1>1, <2>1, <2>2
<1>2. \A f \in Of(s.filters, {"has", "user", "newer", "changed"}) : f.is \in {"has", "user", "newer", "changed"}
  BY Zenon DEF Of
<1>3. \A f \in Of(s.filters, {"has", "user", "newer", "changed"}) :
          Meets(e, with_account_ids(f)) <=> Fits(sets, f, e)
  BY <1>1, <1>2
<1>4. (\A c \in conditions_of(s) : Meets(e, c))
          <=> \A f \in Of(s.filters, {"has", "user", "newer", "changed"}) : Meets(e, with_account_ids(f))
  BY Zenon DEF conditions_of
<1> QED BY <1>3, <1>4, Zenon

\* What is linked to the elements of a set is elements, of the kind asked for.
LEMMA LinkedAreElements ==
    ASSUME MapTypeOK, NEW sets, NEW f \in Filters, f.is = "recurse", NEW kind \in Types
    PROVE  linked_ids(sets, f, kind) \subseteq All
<1>1. refs_of(get_set(sets, f.set) \cap Ways) \subseteq All
  BY OfTheMap DEF refs_of, All
<1>2. by_ids(Ways) \subseteq All /\ by_ids(Relations) \subseteq All /\ OfKind(kind) \subseteq All
  BY DEF by_ids, All, OfKind
<1>3. ways_of_nodes(get_set(sets, f.set) \cap Nodes) \subseteq All
  BY <1>2 DEF ways_of_nodes
<1> QED BY <1>1, <1>2, <1>3, FilterKinds DEF linked_ids

\* The IDs that a recurse filter allows are those of the elements linked to its set.
LEMMA LinkedMeans ==
    ASSUME MapTypeOK, NEW sets, NEW f \in Filters, f.is = "recurse", NEW e \in All, e \in map.there
    PROVE  e \in linked_ids(sets, f, KindOf(e)) <=> Linked(sets, f, e)
<1> DEFINE set == get_set(sets, f.set)
           Holds(r, part) == \E m \in map.members[r] : m.ref = part /\ f.role \in {None, m.role}
<1>1. f.type \in {"w", "r", "bn", "bw", "br"}
  BY FilterKinds
<1>2. /\ KindOf(e) = "node" <=> e \in Nodes
      /\ KindOf(e) = "way" <=> e \in Ways
      /\ KindOf(e) = "relation" <=> e \in Relations
      /\ e \in OfKind(KindOf(e))
  BY KindsAreApart DEF Types, KindOf
<1>3. CASE f.type = "w"
  <2>1. e \in linked_ids(sets, f, KindOf(e)) <=> e \in Nodes /\ e \in refs_of(set \cap Ways)
    BY <1>2, <1>3 DEF linked_ids
  <2>2. e \in refs_of(set \cap Ways) <=> \E w \in set \cap Ways : e \in map.refs[w]
    BY DEF refs_of
  <2>3. Linked(sets, f, e) <=> \E w \in set \cap Ways : e \in map.refs[w]
    BY <1>3 DEF Linked
  <2> QED BY <2>1, <2>2, <2>3, OfTheMap
<1>4. CASE f.type = "r"
  <2>1. e \in linked_ids(sets, f, KindOf(e)) <=> \E r \in set \cap Relations : Holds(r, e)
    BY <1>2, <1>4 DEF linked_ids
  <2>2. Linked(sets, f, e) <=> \E r \in set \cap Relations : Holds(r, e)
    BY <1>4 DEF Linked
  <2> QED BY <2>1, <2>2
<1>5. ASSUME NEW kind \in Types,
             <<f.type, kind>> \in {<<"bn", "node">>, <<"bw", "way">>, <<"br", "relation">>},
             e \in Relations
      PROVE  e \in linked_ids(sets, f, KindOf(e)) <=> Linked(sets, f, e)
  <2>1. e \in linked_ids(sets, f, KindOf(e))
            <=> \E m \in map.members[e] : m.ref \in set \cap OfKind(kind) /\ f.role \in {None, m.role}
    BY <1>2, <1>5 DEF linked_ids, by_ids
  <2>2. Linked(sets, f, e) <=> \E part \in set \cap OfKind(kind) : Holds(e, part)
    BY <1>2, <1>5, KindsAreApart DEF Linked
  <2> QED BY <2>1, <2>2
<1>6. CASE f.type = "bn" /\ e \in Ways
  <2>1. e \in linked_ids(sets, f, KindOf(e)) <=> map.refs[e] \cap (set \cap Nodes) # {}
    BY <1>2, <1>6 DEF linked_ids, ways_of_nodes, by_ids
  <2>2. Linked(sets, f, e) <=> \E n \in set \cap Nodes : n \in map.refs[e]
    BY <1>2, <1>6 DEF Linked
  <2> QED BY <2>1, <2>2
<1>7. CASE f.type \in {"bn", "bw", "br"} /\ e \notin Relations /\ ~(f.type = "bn" /\ e \in Ways)
  <2>1. linked_ids(sets, f, KindOf(e)) = {}
    BY <1>2, <1>7 DEF linked_ids
  <2>2. ~Linked(sets, f, e)
    BY <1>7 DEF Linked
  <2> QED BY <2>1, <2>2
<1>8. CASE f.type \in {"bn", "bw", "br"} /\ e \in Relations
  <2>1. "node" \in Types /\ "way" \in Types /\ "relation" \in Types
    BY DEF Types
  <2>2. \E kind \in Types : <<f.type, kind>> \in {<<"bn", "node">>, <<"bw", "way">>, <<"br", "relation">>}
    BY <1>8, <2>1
  <2> QED BY <1>5, <1>8, <2>2
<1> QED BY <1>1, <1>3, <1>4, <1>6, <1>7, <1>8

\* The IDs to look among are those that the filters by IDs, sets and links leave.
LEMMA IdsMean ==
    ASSUME MapTypeOK, ScriptTypeOK, NEW sets, NEW s \in Queries, NEW kind \in Types,
           NEW e \in All, KindOf(e) = kind, e \in map.there
    PROVE  (ids_of(sets, s, kind) = Anything \/ e \in ids_of(sets, s, kind))
               <=> \A f \in Of(s.filters, {"id", "item", "recurse"}) : Fits(sets, f, e)
<1> DEFINE byId == {ToSet(f.ids) \cap OfKind(kind) : f \in Of(s.filters, {"id"})}
           byItem == {get_set(sets, f.set) \cap OfKind(kind) : f \in Of(s.filters, {"item"})}
           byLink == {linked_ids(sets, f, kind) : f \in Of(s.filters, {"recurse"})}
           candidates == byId \cup byItem \cup byLink
           left == {x \in UNION candidates : \A set \in candidates : x \in set}
<1>1. ids_of(sets, s, kind) = IF candidates = {} THEN Anything ELSE left
  BY Zenon DEF ids_of
<1>2. e \in OfKind(kind)
  BY KindsAreApart
<1>3. /\ \A f \in Of(s.filters, {"id"}) : Fits(sets, f, e) <=> e \in ToSet(f.ids) \cap OfKind(kind)
      /\ \A f \in Of(s.filters, {"item"}) : Fits(sets, f, e) <=> e \in get_set(sets, f.set) \cap OfKind(kind)
      /\ \A f \in Of(s.filters, {"recurse"}) : Fits(sets, f, e) <=> e \in linked_ids(sets, f, kind)
  <2>1. ASSUME NEW f \in Of(s.filters, {"recurse"})
        PROVE  Fits(sets, f, e) <=> e \in linked_ids(sets, f, kind)
    <3>1. f \in Filters /\ f.is = "recurse"
      BY FiltersOfAQuery
    <3>2. Fits(sets, f, e) <=> Linked(sets, f, e)
      BY <3>1 DEF Fits
    <3> QED BY <3>1, <3>2, LinkedMeans
  <2>2. ASSUME NEW f \in Of(s.filters, {"id"}) PROVE Fits(sets, f, e) <=> e \in ToSet(f.ids) \cap OfKind(kind)
    BY <1>2, FiltersOfAQuery DEF Fits
  <2>3. ASSUME NEW f \in Of(s.filters, {"item"})
        PROVE  Fits(sets, f, e) <=> e \in get_set(sets, f.set) \cap OfKind(kind)
    <3>1. f.is = "item"
      BY FiltersOfAQuery
    <3>2. Fits(sets, f, e) <=> e \in get_set(sets, f.set)
      BY <3>1, Zenon DEF Fits
    <3> QED BY <1>2, <3>2
  <2> QED BY <2>1, <2>2, <2>3
<1>4. \A f : f \in Of(s.filters, {"id", "item", "recurse"})
                 <=> \/ f \in Of(s.filters, {"id"}) \/ f \in Of(s.filters, {"item"})
                     \/ f \in Of(s.filters, {"recurse"})
  BY FiltersOfAQuery
<1>5. (\A set \in candidates : e \in set)
          <=> \A f \in Of(s.filters, {"id", "item", "recurse"}) : Fits(sets, f, e)
  <2>1. /\ (\A set \in byId : e \in set) <=> \A f \in Of(s.filters, {"id"}) : Fits(sets, f, e)
        /\ (\A set \in byItem : e \in set) <=> \A f \in Of(s.filters, {"item"}) : Fits(sets, f, e)
        /\ (\A set \in byLink : e \in set) <=> \A f \in Of(s.filters, {"recurse"}) : Fits(sets, f, e)
    BY <1>3, Zenon
  <2> HIDE DEF byId, byItem, byLink
  <2> QED BY <2>1, <1>4
<1>6. \A set \in candidates : Unknown \notin set
  <2>1. \A f \in Of(s.filters, {"recurse"}) : Unknown \notin linked_ids(sets, f, kind)
    BY FiltersOfAQuery, LinkedAreElements, KindsAreApart
  <2>2. Unknown \notin OfKind(kind)
    BY KindsAreApart DEF OfKind
  <2> QED BY <2>1, <2>2
<1> HIDE DEF candidates
<1>7. CASE candidates = {}
  BY <1>1, <1>5, <1>7
<1>8. CASE candidates # {}
  <2>1. e \in left <=> \A set \in candidates : e \in set
    BY <1>8
  <2>2. left # Anything
    BY <1>6, <1>8 DEF Anything
  <2> HIDE DEF left
  <2> QED BY <1>1, <1>5, <1>8, <2>1, <2>2
<1> QED BY <1>7, <1>8

(***************************************************************************)
(* The region of a query.                                                  *)
(***************************************************************************)

\* A node is within the region of a query if it is inside every box and near
\* whatever the around filter measures from.
LEMMA RegionMeans ==
    ASSUME MapTypeOK, ScriptTypeOK, NEW sets, SetsOK(sets), NEW s \in Queries,
           \A f \in arounds_of(s), g \in arounds_of(s) : f = g
    PROVE  LET region == region_of(sets, s)
           IN /\ region = Nowhere <=> boxes_of(s) = {} /\ arounds_of(s) = {}
              /\ region.around = <<>> <=> arounds_of(s) = {}
              /\ boxes_of(s) # {} => region.bbox = intersect_bboxes(boxes_of(s))
              /\ \A n \in Nodes : Within(n, region) <=>
                    Inside(s, map.place[n]) /\ \A f \in arounds_of(s) : Near(sets, f, n)
<1> DEFINE region == region_of(sets, s)
           f == CHOOSE g \in arounds_of(s) : TRUE
           points == positions_of(sets, s).points
<1>1. /\ region.bbox = IF boxes_of(s) = {} THEN <<>> ELSE intersect_bboxes(boxes_of(s))
      /\ region.around = IF arounds_of(s) = {} THEN <<>> ELSE <<f.radius, points>>
      /\ region = [bbox |-> region.bbox, around |-> region.around]
  <2> HIDE DEF points, f
  <2> QED BY DEF region_of, points, f
<1>2. \A a, b : <<a, b>> # <<>>
  OBVIOUS
<1>3. boxes_of(s) # {} => /\ intersect_bboxes(boxes_of(s)) # <<>>
                          /\ \A p \in Int :
                                (intersect_bboxes(boxes_of(s))[1] <= p /\ p <= intersect_bboxes(boxes_of(s))[2])
                                    <=> \A c \in boxes_of(s) : c[1] <= p /\ p <= c[2]
  <2>1. boxes_of(s) \subseteq Boxes
    BY FiltersOfAQuery
  <2> QED BY <2>1, CommonBox
<1>4. region.bbox = <<>> <=> boxes_of(s) = {}
  BY <1>1, <1>3
<1>5. region.around = <<>> <=> arounds_of(s) = {}
  BY <1>1, <1>2
<1>6. region = Nowhere <=> region.bbox = <<>> /\ region.around = <<>>
  <2>1. Nowhere.bbox = <<>> /\ Nowhere.around = <<>>
    BY DEF Nowhere
  <2>2. region = [bbox |-> region.bbox, around |-> region.around]
    BY <1>1
  <2> HIDE DEF region
  <2>3. region.bbox = <<>> /\ region.around = <<>> => region = Nowhere
    BY <2>2, Zenon DEF Nowhere
  <2> QED BY <2>1, <2>3
<1>7. ASSUME arounds_of(s) # {}
      PROVE  /\ arounds_of(s) = {f} /\ f.is = "around" /\ f \in Filters
             /\ points = IF f.at = <<>> THEN Positions(get_set(sets, f.set)) ELSE {f.at[1]}
  <2>1. f \in arounds_of(s)
    BY <1>7, Zenon
  <2>2. f.is = "around" /\ f \in Filters
    BY <2>1, FiltersOfAQuery DEF arounds_of
  <2>3. get_set(sets, f.set) \subseteq map.there
    BY DEF get_set, SetsOK
  <2> HIDE DEF f
  <2>4. f.at = <<>> => around_positions(sets, f).points = Positions(get_set(sets, f.set))
    BY <2>3, MeasuredFromAll DEF around_positions
  <2>5. f.at # <<>> => around_positions(sets, f).points = {f.at[1]}
    BY DEF around_positions
  <2>6. points = around_positions(sets, f).points
    BY DEF points, positions_of, f
  <2>7. arounds_of(s) = {f}
    BY <2>1
  <2> HIDE DEF points
  <2> QED BY <2>2, <2>4, <2>5, <2>6, <2>7
<1>8. \A n \in Nodes : map.place[n] \in Int
  BY OfTheMap, TreeAssumption DEF Coordinates
<1>9. ASSUME NEW n \in Nodes
      PROVE  (region.bbox # <<>> => region.bbox[1] <= map.place[n] /\ map.place[n] <= region.bbox[2])
                 <=> Inside(s, map.place[n])
  <2>1. CASE boxes_of(s) = {}
    <3> HIDE DEF region
    <3> QED BY <2>1, <1>4 DEF Inside
  <2>2. CASE boxes_of(s) # {}
    <3>1. region.bbox = intersect_bboxes(boxes_of(s)) /\ region.bbox # <<>>
      BY <2>2, <1>1, <1>4
    <3> HIDE DEF region
    <3> QED BY <2>2, <3>1, <1>3, <1>8, Zenon DEF Inside
  <2> QED BY <2>1, <2>2
<1>10. ASSUME NEW n \in Nodes
       PROVE  (region.around # <<>> =>
                      \E p \in region.around[2] : map.place[n] - p \in -region.around[1]..region.around[1])
                  <=> \A g \in arounds_of(s) : Near(sets, g, n)
  <2>1. CASE arounds_of(s) = {}
    <3> HIDE DEF region
    <3> QED BY <2>1, <1>5
  <2>2. CASE arounds_of(s) # {}
    <3>1. region.around[1] = f.radius /\ region.around[2] = points
      <4> HIDE DEF f, points, region
      <4> QED BY <2>2, <1>1
    <3>2. (\A g \in arounds_of(s) : Near(sets, g, n)) <=> Near(sets, f, n)
      <4>1. arounds_of(s) = {f}
        BY <2>2, <1>7
      <4> HIDE DEF f
      <4> QED BY <4>1
    <3>3. Near(sets, f, n) <=> \E p \in points : map.place[n] - p \in -f.radius..f.radius
      <4>1. points = IF f.at = <<>> THEN Positions(get_set(sets, f.set)) ELSE {f.at[1]}
        BY <2>2, <1>7
      <4> HIDE DEF f, points
      <4> QED BY <4>1, Zenon DEF Near
    <3> HIDE DEF f, points, region
    <3> QED BY <2>2, <1>5, <3>1, <3>2, <3>3
  <2> QED BY <2>1, <2>2
<1>11. \A n \in Nodes : Within(n, region) <=>
           Inside(s, map.place[n]) /\ \A g \in arounds_of(s) : Near(sets, g, n)
  <2> HIDE DEF region
  <2> QED BY <1>9, <1>10, Zenon DEF Within
<1> HIDE DEF region
<1> QED BY <1>1, <1>4, <1>5, <1>6, <1>11 DEF region

\* A box overlaps the common box if some coordinate in every box is in it.
LEMMA OverlapMeans ==
    ASSUME MapTypeOK, ScriptTypeOK, NEW s \in Queries, boxes_of(s) # {}, NEW e \in All,
           intersect_bboxes(boxes_of(s))[1] <= intersect_bboxes(boxes_of(s))[2]
    PROVE  Overlaps(e, intersect_bboxes(boxes_of(s)))
               <=> \E p \in Coordinates : Inside(s, p) /\ Overlaps(e, <<p, p>>)
<1> DEFINE b == intersect_bboxes(boxes_of(s))
<1>1. /\ b[1] \in Coordinates /\ b[2] \in Coordinates
      /\ \A p \in Int : (b[1] <= p /\ p <= b[2]) <=> Inside(s, p)
  <2>1. boxes_of(s) \subseteq Boxes
    BY FiltersOfAQuery
  <2> QED BY <2>1, CommonBox DEF Inside
<1>2. \A n \in NodesUnder(e) : map.place[n] \in Coordinates
  BY NodesOfKinds, OfTheMap
<1>3. \A p : Overlaps(e, <<p, p>>) <=> /\ \E n \in NodesUnder(e) : map.place[n] <= p
                                       /\ \E n \in NodesUnder(e) : map.place[n] >= p
  BY DEF Overlaps
<1>4. Overlaps(e, b) <=> /\ \E n \in NodesUnder(e) : map.place[n] <= b[2]
                         /\ \E n \in NodesUnder(e) : map.place[n] >= b[1]
  BY DEF Overlaps
<1>5. b[1] <= b[2]
  OBVIOUS
<1> HIDE DEF b
<1>6. \A c \in Coordinates : c \in Int
  BY TreeAssumption DEF Coordinates
<1>7. ASSUME Overlaps(e, b)
      PROVE  \E p \in Coordinates : Inside(s, p) /\ Overlaps(e, <<p, p>>)
  <2>1. PICK n \in NodesUnder(e) : map.place[n] <= b[2]
    BY <1>4, <1>7
  <2>2. CASE map.place[n] >= b[1]
    <3>1. Inside(s, map.place[n])
      BY <1>1, <1>2, <1>6, <2>1, <2>2
    <3>2. Overlaps(e, <<map.place[n], map.place[n]>>)
      BY <1>2, <1>3, <1>6
    <3> QED BY <1>2, <3>1, <3>2
  <2>3. CASE ~(map.place[n] >= b[1])
    <3>1. Inside(s, b[1])
      BY <1>1, <1>5, <1>6
    <3>2. Overlaps(e, <<b[1], b[1]>>)
      BY <1>1, <1>2, <1>3, <1>4, <1>6, <1>7, <2>3
    <3> QED BY <1>1, <3>1, <3>2
  <2> QED BY <2>2, <2>3
<1>8. ASSUME NEW p \in Coordinates, Inside(s, p), Overlaps(e, <<p, p>>)
      PROVE  Overlaps(e, b)
  <2>1. b[1] <= p /\ p <= b[2]
    BY <1>1, <1>6, <1>8
  <2>2. PICK n \in NodesUnder(e) : map.place[n] <= p
    BY <1>3, <1>8
  <2>3. PICK m \in NodesUnder(e) : map.place[m] >= p
    BY <1>3, <1>8
  <2> QED BY <1>1, <1>2, <1>4, <1>6, <2>1, <2>2, <2>3
<1> QED BY <1>7, <1>8 DEF b

(***************************************************************************)
(* Queries.                                                                *)
(***************************************************************************)

\* What a query may go on to search for: it has one around filter at the most,
\* and its boxes have something in common.
Searchable(s) ==
    /\ \A f \in arounds_of(s), g \in arounds_of(s) : f = g
    /\ boxes_of(s) # {} => intersect_bboxes(boxes_of(s))[1] <= intersect_bboxes(boxes_of(s))[2]

\* Where the filters ask for an element to be is where its nodes reach, or its box.
LEMMA LiesMeans ==
    ASSUME MapTypeOK, ScriptTypeOK, NEW sets, SetsOK(sets), NEW s \in Queries, Searchable(s),
           NEW e \in All, e \in map.there, region_of(sets, s) # Nowhere
    PROVE  LET region == region_of(sets, s)
           IN /\ e \in Nodes => (Lies(sets, s, e) <=> Within(e, region))
              /\ e \notin Nodes /\ AtOnce(KindOf(e), region)
                     => (Lies(sets, s, e) <=> Overlaps(e, region.bbox))
              /\ e \notin Nodes /\ ~AtOnce(KindOf(e), region)
                     => (Lies(sets, s, e) <=> Reaches(e, region))
<1> DEFINE region == region_of(sets, s)
<1>1. /\ region = Nowhere <=> boxes_of(s) = {} /\ arounds_of(s) = {}
      /\ region.around = <<>> <=> arounds_of(s) = {}
      /\ boxes_of(s) # {} => region.bbox = intersect_bboxes(boxes_of(s))
      /\ \A n \in Nodes : Within(n, region) <=>
            Inside(s, map.place[n]) /\ \A f \in arounds_of(s) : Near(sets, f, n)
  BY RegionMeans DEF Searchable
<1>2. region # Nowhere
  OBVIOUS
<1> HIDE DEF region
<1>3. (\E n \in NodesUnder(e) : Inside(s, map.place[n]) /\ \A f \in arounds_of(s) : Near(sets, f, n))
          <=> Reaches(e, region)
  <2>1. \A n \in NodesUnder(e) : n \in Nodes
    BY NodesOfKinds
  <2> QED BY <1>1, <2>1, Zenon DEF Reaches
<1>4. CASE e \in Nodes
  <2>1. Lies(sets, s, e) <=> Reaches(e, region)
    BY <1>3, <1>4, Zenon DEF Lies
  <2>2. \A n : n \in NodesUnder(e) <=> n = e
    BY <1>4, NodesOfKinds
  <2> QED BY <1>4, <2>1, <2>2, Zenon DEF Reaches, region
<1>5. CASE e \notin Nodes
  <2>1. KindOf(e) # "node"
    BY <1>5 DEF KindOf
  <2>2. AtOnce(KindOf(e), region) <=> limits.boxes /\ arounds_of(s) = {}
    BY <1>1, <1>2, <2>1 DEF AtOnce
  <2>3. CASE limits.boxes /\ arounds_of(s) = {}
    <3>1. Lies(sets, s, e) <=> \E p \in Coordinates : Inside(s, p) /\ Overlaps(e, <<p, p>>)
      BY <1>5, <2>3, Zenon DEF Lies
    <3>2. boxes_of(s) # {}
      BY <1>1, <1>2, <2>3
    <3>3. Overlaps(e, region.bbox) <=> \E p \in Coordinates : Inside(s, p) /\ Overlaps(e, <<p, p>>)
      BY <1>1, <3>2, OverlapMeans DEF Searchable
    <3> QED BY <1>5, <2>2, <2>3, <3>1, <3>3, Zenon DEF region
  <2>4. CASE ~(limits.boxes /\ arounds_of(s) = {})
    <3>1. Lies(sets, s, e) <=> Reaches(e, region)
      BY <1>3, <2>4, Zenon DEF Lies
    <3> QED BY <1>5, <2>2, <2>4, <3>1, Zenon DEF region
  <2> QED BY <2>3, <2>4
<1> QED BY <1>4, <1>5

\* A query selects what the conditions and IDs of a search leave, and where it is.
LEMMA SelectsMeans ==
    ASSUME MapTypeOK, ScriptTypeOK, NEW sets, SetsOK(sets), NEW s \in Queries, Searchable(s),
           NEW kind \in Types, NEW e \in All, KindOf(e) = kind
    PROVE  Selects(sets, s, e) <=>
               /\ e \in map.there /\ kind \in s.types
               /\ region_of(sets, s) # Nowhere => Lies(sets, s, e)
               /\ ids_of(sets, s, kind) = Anything \/ e \in ids_of(sets, s, kind)
               /\ \A c \in conditions_of(s) : Meets(e, c)
<1>1. region_of(sets, s) # Nowhere <=> boxes_of(s) # {} \/ arounds_of(s) # {}
  BY RegionMeans DEF Searchable
<1>2. (\A c \in conditions_of(s) : Meets(e, c))
          <=> \A f \in Of(s.filters, {"has", "user", "newer", "changed"}) : Fits(sets, f, e)
  BY ConditionsMean
<1>3. e \in map.there =>
          ((ids_of(sets, s, kind) = Anything \/ e \in ids_of(sets, s, kind))
              <=> \A f \in Of(s.filters, {"id", "item", "recurse"}) : Fits(sets, f, e))
  BY IdsMean
<1>4. (\A f \in ToSet(s.filters) : Fits(sets, f, e)) <=>
          /\ \A f \in Of(s.filters, {"has", "user", "newer", "changed"}) : Fits(sets, f, e)
          /\ \A f \in Of(s.filters, {"id", "item", "recurse"}) : Fits(sets, f, e)
  <2>1. ASSUME NEW f \in ToSet(s.filters)
        PROVE  \/ f \in Of(s.filters, {"has", "user", "newer", "changed"})
               \/ f \in Of(s.filters, {"id", "item", "recurse"})
               \/ Fits(sets, f, e)
    <3>1. f \in Filters
      BY FiltersOfAQuery
    <3>2. f.is \in {"bbox", "around"} => Fits(sets, f, e)
      BY DEF Fits
    <3> QED BY <3>1, <3>2, FilterKinds DEF Of
  <2>2. \A kinds : Of(s.filters, kinds) \subseteq ToSet(s.filters)
    BY DEF Of
  <2> QED BY <2>1, <2>2
<1> QED BY <1>1, <1>2, <1>3, <1>4, Zenon DEF Selects

\* The search for one kind adds what the query selects of it.
LEMMA FindAddsAKind ==
    ASSUME MapTypeOK, ScriptTypeOK, NEW sets, SetsOK(sets), NEW s \in Queries, Searchable(s),
           NEW kind \in Types, NEW earlier, CacheOK(earlier.cache), ~find(sets, s, kind, earlier).over
    PROVE  LET result == find(sets, s, kind, earlier)
           IN /\ ~earlier.over /\ CacheOK(result.cache)
              /\ result.found = earlier.found \cup {e \in OfKind(kind) : Selects(sets, s, e)}
<1> DEFINE region == region_of(sets, s)
           ids == ids_of(sets, s, kind)
           conditions == conditions_of(s)
           selective == indexed(s) \/ ids # Anything
           searched == in_region(earlier.cache, kind, conditions, region, ids, selective)
           part == IF AtOnce(kind, region)
                   THEN Result(earlier.cache, Search(kind, conditions, region, ids), FALSE) ELSE searched
           both == earlier.found \cup part.found
           over == part.over \/ TooMany(both, limits.maximum)
           result == find(sets, s, kind, earlier)
           selected == {e \in OfKind(kind) : Selects(sets, s, e)}
<1>1. result = IF earlier.over \/ ids = {} \/ kind \notin s.types THEN earlier ELSE Result(part.cache, both, over)
  BY Zenon DEF find, together
<1>2. ASSUME NEW e \in OfKind(kind)
      PROVE  Selects(sets, s, e) <=>
                 /\ e \in map.there /\ kind \in s.types
                 /\ region # Nowhere => Lies(sets, s, e)
                 /\ ids = Anything \/ e \in ids
                 /\ \A c \in conditions : Meets(e, c)
  <2>1. e \in All /\ KindOf(e) = kind
    BY DEF OfKind
  <2> QED BY <2>1, SelectsMeans
<1>3. \A e \in OfKind(kind) : e \in All /\ KindOf(e) = kind /\ (e \in Nodes <=> kind = "node")
  BY KindsAreApart DEF OfKind
<1>4. ASSUME ~(earlier.over \/ ids = {} \/ kind \notin s.types)
      PROVE  part.found = selected /\ CacheOK(part.cache)
  <2>1. ~part.over
    <3>1. result = Result(part.cache, both, over)
      BY <1>1, <1>4, Zenon
    <3>2. over \in BOOLEAN
      OBVIOUS
    <3>3. result.over = over
      <4> HIDE DEF over, part, both, result
      <4> QED BY <3>1, <3>2 DEF Result
    <3>4. ~result.over
      OBVIOUS
    <3>5. ~over
      <4> HIDE DEF over, result
      <4> QED BY <3>3, <3>4
    <3> HIDE DEF part, both, result
    <3> QED BY <3>5
  <2>2. CASE AtOnce(kind, region)
    <3>1. part.found = Search(kind, conditions, region, ids) /\ part.cache = earlier.cache
      BY <2>2 DEF Result
    <3>2. \A e : e \in Search(kind, conditions, region, ids) <=>
              /\ e \in OfKind(kind) /\ e \in map.there /\ (ids = Anything \/ e \in ids)
              /\ \A c \in conditions : Meets(e, c)
              /\ region # Nowhere => IF kind = "node" THEN Within(e, region) ELSE Overlaps(e, region.bbox)
      BY Zenon DEF Search, by_ids
    <3>3. ASSUME NEW e \in OfKind(kind), e \in map.there, region # Nowhere
          PROVE  Lies(sets, s, e) <=> IF kind = "node" THEN Within(e, region) ELSE Overlaps(e, region.bbox)
      BY <1>3, <2>2, <3>3, LiesMeans
    <3> HIDE DEF region, ids, conditions, part
    <3>4. Search(kind, conditions, region, ids) = selected
      BY <1>2, <1>4, <3>2, <3>3
    <3> QED BY <3>1, <3>4
  <2>3. CASE ~AtOnce(kind, region)
    <3>1. part = searched /\ ~searched.over
      BY <2>1, <2>3
    <3>2. kind \in {"way", "relation"} /\ region # Nowhere
      BY <2>3 DEF AtOnce, Types
    <3>3. selective \in BOOLEAN
      OBVIOUS
    <3>4. searched.found = Wanted(kind, conditions, region, ids) /\ CacheOK(searched.cache)
      <4> HIDE DEF region, ids, conditions, selective
      <4> QED BY <3>1, <3>2, <3>3, RegionSearchIsExact
    <3>5. ASSUME NEW e \in OfKind(kind), e \in map.there
          PROVE  Lies(sets, s, e) <=> Reaches(e, region)
      BY <1>3, <2>3, <3>2, <3>5, LiesMeans
    <3>6. \A e : e \in Wanted(kind, conditions, region, ids) <=>
              /\ e \in OfKind(kind) /\ e \in map.there /\ (ids = Anything \/ e \in ids)
              /\ (\A c \in conditions : Meets(e, c)) /\ Reaches(e, region)
      BY Zenon DEF Wanted, by_ids
    <3> HIDE DEF region, ids, conditions, part, searched
    <3>7. Wanted(kind, conditions, region, ids) = selected
      BY <1>2, <1>4, <3>2, <3>5, <3>6
    <3> QED BY <3>1, <3>4, <3>7
  <2> QED BY <2>2, <2>3
<1>5. CASE earlier.over \/ ids = {} \/ kind \notin s.types
  <2>1. result = earlier /\ ~earlier.over
    BY <1>1, <1>5
  <2>2. Anything # {}
    BY DEF Anything
  <2>3. selected = {}
    <3> HIDE DEF region, ids, conditions
    <3> QED BY <1>2, <1>5, <2>1, <2>2
  <2> HIDE DEF result, selected
  <2>4. CacheOK(result.cache) /\ result.found = earlier.found \cup selected
    BY <2>1, <2>3
  <2> QED BY <2>1, <2>4 DEF result, selected
<1>6. CASE ~(earlier.over \/ ids = {} \/ kind \notin s.types)
  <2>1. result = Result(part.cache, both, over)
    BY <1>1, <1>6, Zenon
  <2>2. result.cache = part.cache /\ result.found = earlier.found \cup part.found
    <3> HIDE DEF result, part, over
    <3> QED BY <2>1 DEF Result
  <2>3. part.found = selected /\ CacheOK(part.cache)
    BY <1>4, <1>6
  <2> HIDE DEF result, part, selected
  <2>4. CacheOK(result.cache) /\ result.found = earlier.found \cup selected
    BY <2>2, <2>3
  <2> QED BY <1>6, <2>4 DEF result, selected
<1> QED BY <1>5, <1>6

\* What is over a limit stays so.
LEMMA OverStays ==
    ASSUME NEW sets, NEW s, NEW kind, NEW earlier, ~find(sets, s, kind, earlier).over
    PROVE  ~earlier.over
<1>1. earlier.over => find(sets, s, kind, earlier) = earlier
  BY Zenon DEF find
<1> QED BY <1>1

\* A query that does not fail finds exactly what it selects: whatever its filters,
\* of searching by tags, by stored boxes, up from the nodes of a region or down to
\* them, and whatever was searched before, none finds more or less; and what is kept
\* for later statements is right.
THEOREM QueryIsExact ==
    ASSUME MapTypeOK, ScriptTypeOK, NEW r, RunTypeOK(r), NEW s \in Queries,
           Query(r, s).run.error = None
    PROVE  /\ Query(r, s).found = {e \in All : Selects(r.sets, s, e)}
           /\ RunTypeOK(Query(r, s).run) /\ Query(r, s).run.sets = r.sets
<1> DEFINE selected == {e \in All : Selects(r.sets, s, e)}
           region == region_of(r.sets, s)
           positions == positions_of(r.sets, s)
           around == arounds_of(s) # {}
           start == Result(r.cache, {}, FALSE)
           nodesToo == find(r.sets, s, "node", start)
           waysToo == find(r.sets, s, "way", nodesToo)
           result == find(r.sets, s, "relation", waysToo)
           users == Cardinality({i \in DOMAIN s.filters : s.filters[i].is = "user"})
           arounds == Cardinality({i \in DOMAIN s.filters : s.filters[i].is = "around"})
           nothing == (boxes_of(s) # {} /\ region.bbox[1] > region.bbox[2])
                          \/ (around /\ positions.points = {})
           empty == [run |-> r, found |-> {}]
           full == [run |-> [r EXCEPT !.cache = result.cache], found |-> result.found]
<1>1. SetsOK(r.sets) /\ CacheOK(r.cache)
      /\ r \in [sets : {r.sets}, cache : {r.cache}, output : Seq(Outputs), size : Nat, error : Errors]
  BY DEF RunTypeOK
<1>2. /\ ~(arounds > 1)
      /\ \/ nothing /\ Query(r, s) = empty
         \/ ~nothing /\ ~result.over /\ Query(r, s) = full
  <2> DEFINE selective == indexed(s) \/ Of(s.filters, {"id", "item", "recurse"}) # {}
             linksOver == \E kind \in s.types, f \in Of(s.filters, {"recurse"}) :
                              TooMany(linked_ids(r.sets, f, kind), intermediate_maximum)
             many == around /\ positions.over
             far == around /\ Cardinality(positions.points) > limits.positions
             whole == ~selective /\ region = Nowhere
             large == ~selective /\ area(region) > limits.area
             over == result.over \/ linksOver
             two == users > 1 \/ arounds > 1
  <2>1. Query(r, s) =
            IF two THEN Fail(r, "unsupported")
            ELSE IF many THEN Fail(r, "too many")
            ELSE IF far THEN Fail(r, "positions")
            ELSE IF nothing THEN empty
            ELSE IF whole THEN Fail(r, "whole map")
            ELSE IF large THEN Fail(r, "area")
            ELSE IF over THEN Fail(r, "too many")
            ELSE full
    BY Zenon DEF Query, Found, find_all
  <2>2. /\ Query(r, s) # Fail(r, "unsupported") /\ Query(r, s) # Fail(r, "too many")
        /\ Query(r, s) # Fail(r, "positions") /\ Query(r, s) # Fail(r, "whole map")
        /\ Query(r, s) # Fail(r, "area")
    <3>1. \A error : Fail(r, error).run.error = error
      BY <1>1 DEF Fail
    <3>2. \A error : error # None => Query(r, s) # Fail(r, error)
      BY <3>1, Zenon
    <3>3. /\ "unsupported" # None /\ "too many" # None /\ "positions" # None /\ "whole map" # None
          /\ "area" # None
      BY DEF None
    <3> QED BY <3>2, <3>3, Zenon
  <2>3. ~two /\ (nothing \/ ~over) /\ Query(r, s) = IF nothing THEN empty ELSE full
    <3> HIDE DEF two, many, far, nothing, whole, large, over, empty, full
    <3> QED BY <2>1, <2>2, Zenon
  <2>4. ~(arounds > 1) /\ (~over => ~result.over)
    <3> HIDE DEF users, arounds, result
    <3> QED BY <2>3
  <2> HIDE DEF arounds, nothing, over, empty, full
  <2> QED BY <2>3, <2>4, Zenon
<1>3. \A f \in arounds_of(s), g \in arounds_of(s) : f = g
  BY <1>2, OneAround
<1>4. /\ boxes_of(s) # {} => region.bbox = intersect_bboxes(boxes_of(s))
      /\ region.around = <<>> <=> arounds_of(s) = {}
      /\ \A n \in Nodes : Within(n, region) <=>
            Inside(s, map.place[n]) /\ \A f \in arounds_of(s) : Near(r.sets, f, n)
  BY <1>1, <1>3, RegionMeans
<1>5. boxes_of(s) # {} =>
          LET b == intersect_bboxes(boxes_of(s))
          IN /\ b[1] \in Int /\ b[2] \in Int
             /\ \A p \in Int : Inside(s, p) => b[1] <= p /\ p <= b[2]
  <2>1. boxes_of(s) \subseteq Boxes
    BY FiltersOfAQuery
  <2>2. \A c \in Coordinates : c \in Int
    BY TreeAssumption DEF Coordinates
  <2> QED BY <2>1, <2>2, CommonBox, Zenon DEF Inside
<1>6. CASE nothing
  <2>1. Query(r, s).run = r /\ Query(r, s).found = {}
    <3>1. Query(r, s) = empty
      BY <1>2, <1>6
    <3> QED BY <3>1
  <2>2. \A e \in All : e \in map.there => ~Lies(r.sets, s, e)
    <3>1. \A c \in Coordinates : c \in Int
      BY TreeAssumption DEF Coordinates
    <3>2. CASE boxes_of(s) # {} /\ region.bbox[1] > region.bbox[2]
      <4>1. \A p \in Int : ~Inside(s, p)
        <5> HIDE DEF region
        <5> QED BY <1>4, <1>5, <3>2
      <4>2. \A e \in All : \A n \in NodesUnder(e) : map.place[n] \in Int
        BY <3>1, NodesOfKinds, OfTheMap
      <4> QED BY <3>1, <4>1, <4>2, Zenon DEF Lies
    <3>3. CASE around /\ positions.points = {}
      <4>1. region.around[2] = {}
        BY <3>3 DEF region_of
      <4>2. \A n : ~Within(n, region)
        <5> HIDE DEF region
        <5> QED BY <1>4, <3>3, <4>1 DEF Within
      <4>3. \A e \in All : \A n \in NodesUnder(e) : n \in Nodes
        BY NodesOfKinds
      <4> HIDE DEF region
      <4> QED BY <1>4, <3>3, <4>2, <4>3, Zenon DEF Lies
    <3> QED BY <1>6, <3>2, <3>3
  <2>3. boxes_of(s) # {} \/ arounds_of(s) # {}
    BY <1>6
  <2>4. selected = {}
    BY <2>2, <2>3, Zenon DEF Selects
  <2> QED BY <2>1, <2>4
<1>7. CASE ~nothing
  <2>1. Searchable(s)
    <3>1. boxes_of(s) # {} => ~(intersect_bboxes(boxes_of(s))[1] > intersect_bboxes(boxes_of(s))[2])
      <4> HIDE DEF region
      <4> QED BY <1>4, <1>7
    <3> QED BY <1>3, <1>5, <3>1 DEF Searchable
  <2>2. Query(r, s) = full /\ ~result.over
    BY <1>2, <1>7
  <2>3. /\ "node" \in Types /\ "way" \in Types /\ "relation" \in Types
        /\ start.cache = r.cache /\ start.found = {}
    BY DEF Types, Result
  <2>4. ~waysToo.over /\ ~nodesToo.over
    BY <2>2, OverStays
  <2>5. /\ CacheOK(nodesToo.cache)
        /\ nodesToo.found = {e \in OfKind("node") : Selects(r.sets, s, e)}
    <3>1. CacheOK(start.cache) /\ start.found = {}
      BY <1>1, <2>3
    <3>2. /\ CacheOK(nodesToo.cache)
          /\ nodesToo.found = start.found \cup {e \in OfKind("node") : Selects(r.sets, s, e)}
      <4> HIDE DEF start
      <4> QED BY <1>1, <2>1, <2>3, <2>4, <3>1, FindAddsAKind
    <3> QED BY <3>1, <3>2
  <2>6. /\ CacheOK(waysToo.cache)
        /\ waysToo.found = nodesToo.found \cup {e \in OfKind("way") : Selects(r.sets, s, e)}
    <3> HIDE DEF nodesToo
    <3> QED BY <1>1, <2>1, <2>3, <2>4, <2>5, FindAddsAKind
  <2>7. /\ CacheOK(result.cache)
        /\ result.found = waysToo.found \cup {e \in OfKind("relation") : Selects(r.sets, s, e)}
    <3>1. ~result.over /\ SetsOK(r.sets) /\ "relation" \in Types
      BY <1>1, <2>2, <2>3
    <3>2. CacheOK(waysToo.cache)
      BY <2>6
    <3> HIDE DEF waysToo
    <3> QED BY <2>1, <3>1, <3>2, FindAddsAKind
  <2> HIDE DEF nodesToo, waysToo, result
  <2>8. result.found = selected
    <3>1. \A e : e \in All <=> e \in OfKind("node") \/ e \in OfKind("way") \/ e \in OfKind("relation")
      BY KindsAreApart DEF All
    <3> QED BY <2>5, <2>6, <2>7, <3>1
  <2>9. /\ Query(r, s).run = [r EXCEPT !.cache = result.cache]
        /\ Query(r, s).found = result.found
    <3> HIDE DEF empty, nothing
    <3> QED BY <2>2
  <2> DEFINE run == [r EXCEPT !.cache = result.cache]
  <2>10. run.sets = r.sets /\ run.cache = result.cache
         /\ run \in [sets : {run.sets}, cache : {run.cache}, output : Seq(Outputs), size : Nat, error : Errors]
    BY <1>1
  <2> HIDE DEF run
  <2>11. RunTypeOK(run)
    BY <1>1, <2>7, <2>10 DEF RunTypeOK
  <2> QED BY <2>8, <2>9, <2>10, <2>11 DEF run
<1> QED BY <1>6, <1>7

\* A query, of which the set is then stored, leaves the sets that it means: none but
\* its own is changed, and that is what it selects.
THEOREM QueryStatementMeans ==
    ASSUME MapTypeOK, ScriptTypeOK, NEW r, RunTypeOK(r), NEW s \in Queries,
           store(Query(r, s), s.into).run.error = None
    PROVE  LET run == store(Query(r, s), s.into).run
           IN /\ run.sets = Meaning(r.sets, {e \in All : Selects(r.sets, s, e)}, s.into).sets
              /\ RunTypeOK(run)
<1> DEFINE q == Query(r, s)
           selected == {e \in All : Selects(r.sets, s, e)}
           stored == store(q, s.into)
           sets == stored_as(q.run.sets, s.into, q.found)
<1>1. q.run.error = None
  BY DEF store
<1>2. q.found = selected /\ RunTypeOK(q.run) /\ q.run.sets = r.sets
  BY <1>1, QueryIsExact
<1>3. q = [run |-> q.run, found |-> q.found]
  BY DEF Query, Found, Fail
<1>4. q.run \in [sets : {q.run.sets}, cache : {q.run.cache}, output : Seq(Outputs), size : Nat, error : Errors]
  BY <1>2 DEF RunTypeOK
<1>5. stored.run.error = None
  OBVIOUS
<1>6. s.into \in SetNames
  BY DEF Queries
<1> HIDE DEF q, sets
<1>7. ~TooMany(q.found, limits.maximum)
  <2>1. TooMany(q.found, limits.maximum) => stored = Fail(q.run, "too many")
    BY <1>1, Zenon DEF store
  <2>2. Fail(q.run, "too many").run.error # None
    BY <1>4 DEF Fail, None
  <2> HIDE DEF stored
  <2> QED BY <1>5, <2>1, <2>2
<1>8. stored = IF s.into = None THEN q ELSE [q EXCEPT !.run.sets = stored_as(@, s.into, q.found)]
  BY <1>1, <1>7, Zenon DEF store
<1> HIDE DEF stored, selected
<1>9. SetsOK(sets)
  <2>1. q.found \subseteq map.there
    BY <1>2 DEF selected, Selects
  <2>2. sets = [name \in {s.into} \cup DOMAIN q.run.sets |->
                    IF name = s.into THEN q.found ELSE q.run.sets[name]]
    BY DEF sets, stored_as
  <2>3. SetsOK(q.run.sets)
    BY <1>2 DEF RunTypeOK
  <2> QED BY <1>6, <2>1, <2>2, <2>3 DEF SetsOK
<1>10. CASE s.into = None
  <2>1. stored = q
    BY <1>8, <1>10
  <2> QED BY <1>2, <1>10, <2>1 DEF Meaning, q, stored, selected
<1>11. CASE s.into # None
  <2>1. stored.run = [q.run EXCEPT !.sets = sets]
    BY <1>3, <1>8, <1>11 DEF sets
  <2>2. stored.run.sets = sets /\ stored.run.cache = q.run.cache
        /\ stored.run \in [sets : {stored.run.sets}, cache : {stored.run.cache},
                           output : Seq(Outputs), size : Nat, error : Errors]
    BY <1>4, <2>1
  <2>3. RunTypeOK(stored.run)
    BY <1>2, <1>9, <2>2 DEF RunTypeOK
  <2>4. Meaning(r.sets, selected, s.into).sets = sets
    BY <1>2, <1>11 DEF Meaning, sets
  <2> QED BY <2>2, <2>3, <2>4 DEF q, stored, selected
<1> QED BY <1>10, <1>11
=============================================================================
