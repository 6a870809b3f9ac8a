------------------------- MODULE ExtractPatchProofs -------------------------
(***************************************************************************)
(* What is proved of the operators of ExtractUpdate, for every map and     *)
(* every sequence of its edits: that answers, page after page, give all    *)
(* that is asked for; and that a patch of an extract by the records of     *)
(* some edits, all that reach the rectangle at the least, has what the     *)
(* source has after them.                                                  *)
(***************************************************************************)
EXTENDS ExtractUpdate, Integers, FiniteSetTheorems, WellFoundedInduction, TLAPS

(***************************************************************************)
(* The least and the last of a set of numbers.                             *)
(***************************************************************************)

\* A set of numbers that is not empty has a least.
LEMMA LeastNat ==
    ASSUME NEW T, T \subseteq Nat, T # {}
    PROVE  \E x \in T : \A y \in T : x <= y
<1> DEFINE R == {q \in Nat \X Nat : q[1] < q[2]}
<1>1. IsWellFoundedOn(R, Nat)
  <2>1. R = OpToRel(<, Nat)
    BY Zenon DEF OpToRel
  <2> QED BY <2>1, NatLessThanWellFounded, Zenon
<1>2. PICK x \in T : \A y \in T : ~ (<<y, x>> \in R)
  <2> HIDE DEF R
  <2> QED BY <1>1, WFMin
<1>3. ASSUME NEW y \in T PROVE x <= y
  <2>1. <<y, x>> \in R <=> y < x
    OBVIOUS
  <2> HIDE DEF R
  <2> QED BY <1>2, <2>1
<1> QED BY <1>3

\* A set of numbers up to some number has a last.
LEMMA MaxOf ==
    ASSUME NEW S, NEW n \in Nat, S \subseteq 0..n, S # {}
    PROVE  Max(S) \in S /\ \A x \in S : x <= Max(S)
<1> DEFINE T == {k \in Nat : \A x \in S : x <= k}
<1>1. n \in T
  OBVIOUS
<1>2. PICK k \in T : \A l \in T : k <= l
  BY <1>1, LeastNat
<1>3. k \in S
  <2> SUFFICES ASSUME k \notin S PROVE FALSE
    OBVIOUS
  <2>1. \A x \in S : x <= k - 1 /\ x \in Nat
    BY <1>2
  <2>2. k - 1 \in Nat
    <3>1. PICK x \in S : TRUE
      OBVIOUS
    <3> QED BY <2>1, <3>1
  <2>3. k - 1 \in T
    BY <2>1, <2>2
  <2> QED BY <2>3, <1>2
<1>4. \A x \in S : k >= x
  BY <1>2
<1>5. \A x \in S : Max(S) >= x /\ Max(S) \in S
  BY <1>3, <1>4, Zenon DEF Max
<1> QED BY <1>5, <1>3

(***************************************************************************)
(* Answers, page after page.                                               *)
(***************************************************************************)

\* An answer has all that is asked for, or is cut short and says where the rest begins.
LEMMA AnswerGoesOn ==
    ASSUME NEW first \in Nat, NEW last \in Nat, NEW filtered \in BOOLEAN
    PROVE  \/ /\ ~Answer(first, last, filtered).truncated
              /\ Answer(first, last, filtered).rows = Wanted(first, last, filtered)
           \/ /\ Answer(first, last, filtered).truncated
              /\ Answer(first, last, filtered).next \in (first + 1)..last
              /\ Wanted(first, last, filtered) =
                     Answer(first, last, filtered).rows
                         \cup Wanted(Answer(first, last, filtered).next, last, filtered)
<1> DEFINE W == Wanted(first, last, filtered)
           Before(r) == {s \in W : s < r}
           sent == {r \in W : Cardinality(Before(r)) < PageRows}
<1>1. Answer(first, last, filtered) =
          [rows |-> sent, truncated |-> sent # W, next |-> IF sent = {} THEN 0 ELSE Max(sent) + 1]
  BY DEF Answer
<1>5. /\ Answer(first, last, filtered).rows = sent
      /\ Answer(first, last, filtered).next = IF sent = {} THEN 0 ELSE Max(sent) + 1
  <2> HIDE DEF sent, W
  <2> QED BY <1>1
<1>6. Answer(first, last, filtered).truncated <=> sent # W
  <2> DEFINE differ == sent # W
  <2> HIDE DEF differ
  <2>1. Answer(first, last, filtered).truncated = differ
    BY <1>1 DEF differ
  <2> QED BY <2>1, Zenon DEF differ
<1>2. W \subseteq first..last
  BY DEF Wanted
<1>3. CASE sent = W
  <2> HIDE DEF sent
  <2> QED BY <1>5, <1>6, <1>3
<1>4. CASE sent # W
  <2>1. IsFiniteSet(W)
    <3>1. IsFiniteSet(first..last)
      BY FS_Interval
    <3> QED BY <1>2, <3>1, FS_Subset
  <2>2. \A r \in W : IsFiniteSet(Before(r)) /\ Cardinality(Before(r)) \in Nat
    BY <2>1, FS_Subset, FS_CardinalityType
  <2>3. PICK x \in W \ sent : TRUE
    BY <1>4
  <2>4. sent # {}
    <3>1. PICK r \in W : \A s \in W : r <= s
      <4>1. W \subseteq Nat
        BY <1>2
      <4> QED BY <2>3, <4>1, LeastNat
    <3>2. Before(r) = {}
      BY <3>1, <1>2
    <3>3. Cardinality(Before(r)) < PageRows
      <4>1. Cardinality({}) = 0
        BY FS_EmptySet
      <4> HIDE DEF Before
      <4> QED BY <3>2, <4>1, BoundsAssumption
    <3> QED BY <3>1, <3>3
  <2>5. Max(sent) \in sent /\ \A r \in sent : r <= Max(sent)
    <3>1. sent \subseteq 0..last
      BY <1>2
    <3> HIDE DEF sent
    <3> QED BY <2>4, <3>1, MaxOf
  <2> DEFINE top == Max(sent)
  <2>6. ASSUME NEW r \in W, r <= top PROVE r \in sent
    <3>1. Before(r) \subseteq Before(top)
      BY <2>5, <2>6, <1>2
    <3>2. top \in W /\ Cardinality(Before(top)) < PageRows
      BY <2>5
    <3>3. Cardinality(Before(r)) <= Cardinality(Before(top))
      <4> HIDE DEF Before, W, top
      <4> QED BY <3>1, <3>2, <2>2, FS_Subset
    <3>4. Cardinality(Before(r)) < PageRows
      <4> HIDE DEF Before, W, top
      <4> QED BY <3>2, <3>3, <2>2, <2>6, BoundsAssumption
    <3> QED BY <3>4, <2>6
  <2> HIDE DEF sent
  <2>7. top \in first..last /\ x \in first..last /\ x > top
    <3>1. top \in W /\ x \in W
      BY <2>3, <2>5 DEF sent
    <3> HIDE DEF top, W
    <3>2. top \in first..last /\ x \in first..last
      BY <3>1, <1>2
    <3>3. ~(x <= top)
      BY <2>3, <2>6
    <3> QED BY <3>2, <3>3
  <2>8. W = sent \cup Wanted(top + 1, last, filtered)
    <3>1. sent \subseteq W
      BY DEF sent
    <3>2. \A r \in W : r \in sent \/ r \in (top + 1)..last
      BY <2>6, <2>7, <1>2
    <3>3. \A r \in (top + 1)..last : r \in first..last
      BY <2>7
    <3> QED BY <3>1, <3>2, <3>3 DEF Wanted
  <2>9. Answer(first, last, filtered).truncated /\ Answer(first, last, filtered).rows = sent
    <3> HIDE DEF W
    <3> QED BY <1>5, <1>6, <1>4
  <2>10. Answer(first, last, filtered).next = top + 1
    BY <1>5, <2>4
  <2>11. top + 1 \in (first + 1)..last
    <3> HIDE DEF top
    <3> QED BY <2>7
  <2> HIDE DEF top
  <2> QED BY <2>8, <2>9, <2>10, <2>11
<1> QED BY <1>3, <1>4

\* Answer after answer, every record asked for is given and no other.
LEMMA AllAnswers ==
    ASSUME NEW first \in Nat, NEW last \in Nat, NEW filtered \in BOOLEAN
    PROVE  Activities(first, last, filtered) = Wanted(first, last, filtered)
<1> DEFINE Rows(g, f) ==
               LET answer == Answer(f, last, filtered)
               IN IF answer.truncated THEN answer.rows \cup g[answer.next] ELSE answer.rows
           Is(g) == g = [f \in Nat |-> IF f > last THEN {} ELSE Rows(g, f)]
           From == CHOOSE g : Is(g)
           W == [f \in Nat |-> Wanted(f, last, filtered)]
<1>1. Activities(first, last, filtered) = From[first]
  BY DEF Activities
<1>2. Is(W)
  <2>1. ASSUME NEW f \in Nat PROVE W[f] = IF f > last THEN {} ELSE Rows(W, f)
    <3>1. CASE f > last
      BY <3>1 DEF Wanted
    <3>2. CASE f <= last
      BY <3>2, AnswerGoesOn
    <3> QED BY <3>1, <3>2
  <2> QED BY <2>1
<1>3. Is(From)
  BY <1>2
<1>4. \A f \in Nat : From[f] = IF f > last THEN {} ELSE Rows(From, f)
  BY <1>3
<1>5. \A f \in Nat : f > last => W[f] = {} /\ From[f] = {}
  <2> SUFFICES ASSUME NEW f \in Nat, f > last PROVE W[f] = {} /\ From[f] = {}
    OBVIOUS
  <2>1. From[f] = {}
    <3> HIDE DEF From, Rows
    <3> QED BY <1>4
  <2>2. f..last = {}
    OBVIOUS
  <2>3. Wanted(f, last, filtered) = {}
    BY <2>2 DEF Wanted
  <2> QED BY <2>1, <2>3
<1>6. \A f \in Nat : From[f] = W[f]
  <2> HIDE DEF From
  <2> SUFFICES ASSUME NEW g \in Nat, From[g] # W[g] PROVE FALSE
    OBVIOUS
  <2> DEFINE T == {n \in Nat : \E f \in Nat : f + n = last + 1 /\ From[f] # W[f]}
  <2>1. g <= last
    BY <1>5
  <2>2. last + 1 - g \in T
    BY <2>1
  <2>3. PICK n \in T : \A l \in T : n <= l
    BY <2>2, LeastNat
  <2>4. PICK f \in Nat : f + n = last + 1 /\ From[f] # W[f]
    BY <2>3
  <2>5. f <= last
    <3> HIDE DEF W
    <3> QED BY <2>4, <1>5
  <2>6. \A h \in (f + 1)..last : From[h] = W[h]
    <3> SUFFICES ASSUME NEW h \in (f + 1)..last, From[h] # W[h] PROVE FALSE
      OBVIOUS
    <3>1. last + 1 - h \in T
      OBVIOUS
    <3> QED BY <3>1, <2>3, <2>4
  <2>7. From[f] = Rows(From, f)
    BY <2>5, <1>4
  <2>8. From[f] = W[f]
    <3>1. CASE ~Answer(f, last, filtered).truncated
      BY <2>7, <3>1, AnswerGoesOn
    <3>2. CASE Answer(f, last, filtered).truncated
      <4> DEFINE next == Answer(f, last, filtered).next
      <4>1. next \in (f + 1)..last /\ W[f] = Answer(f, last, filtered).rows \cup Wanted(next, last, filtered)
        BY <3>2, AnswerGoesOn
      <4>2. From[next] = Wanted(next, last, filtered)
        <5> HIDE DEF next
        <5>1. next \in Nat /\ From[next] = W[next]
          BY <4>1, <2>6
        <5> QED BY <5>1
      <4> QED BY <2>7, <3>2, <4>1, <4>2
    <3> QED BY <3>1, <3>2
  <2> QED BY <2>4, <2>8
<1> QED BY <1>1, <1>6

(***************************************************************************)
(* Copies and records.                                                     *)
(***************************************************************************)

\* Records have their type.
LEMMA RecordHasItsType ==
    ASSUME NEW before \in [Ids -> Element], NEW after \in [Ids -> Element],
           NEW atomic \in Nat, NEW recorded \in BOOLEAN
    PROVE  RecordOf(before, after, atomic, recorded) \in RecordType
<1> DEFINE changed == {i \in Ids : before[i] # after[i]}
           parents == Parents(before, changed) \cup Parents(after, changed)
           around == parents \cup Parents(before, parents) \cup Parents(after, parents)
           related == Nodes \cap UNION {after[w].refs : w \in Ways \cap (changed \cup around)}
<1>1. \A m \in [Ids -> Element] : \A ids \in SUBSET Ids : Copies(m, ids) \in SUBSET Copy
  BY DEF Copies, CopyOf, Copy, Element
<1>2. changed \in SUBSET Ids /\ around \in SUBSET Ids /\ related \in SUBSET Ids
  BY DEF Parents, Ids
<1>3. {CopyOf(after, i) : i \in changed} \in SUBSET Copy
  BY DEF CopyOf, Copy, Element
<1>4. Relations \cap Parents(after, related) \in SUBSET Ids
  BY DEF Parents, Ids
<1> DEFINE reaches == Reach(before, changed \cup around) \/ Reach(after, changed \cup around)
           deletes == \E i \in changed : ~after[i].live
<1>5. reaches \in BOOLEAN /\ deletes \in BOOLEAN
  BY DEF Reach
<1> DEFINE holding == IF recorded THEN Copies(after, Relations \cap Parents(after, related)) ELSE {}
<1>6. RecordOf(before, after, atomic, recorded) =
        [atomic |-> atomic,
        existing |-> Copies(before, changed),
        updated |-> {CopyOf(after, i) : i \in changed},
        deletes |-> deletes,
        affectedparents |-> Copies(after, around),
        related |-> Copies(after, related),
        relatedparents |-> holding,
        recorded |-> recorded,
        reaches |-> reaches]
  BY DEF RecordOf
<1> HIDE DEF changed, around, related, reaches, deletes
<1>7. /\ Copies(before, changed) \in SUBSET Copy
      /\ Copies(after, around) \in SUBSET Copy
      /\ Copies(after, related) \in SUBSET Copy
      /\ Copies(after, Relations \cap Parents(after, related)) \in SUBSET Copy
  BY <1>1, <1>2, <1>4
<1>8. holding \in SUBSET Copy
  BY <1>7
<1> HIDE DEF holding
<1> QED
  BY <1>3, <1>8, <1>5, <1>6, <1>7 DEF RecordType

\* The elements an edit changed, those around them, and the nodes of these.
Edited(before, after) == {i \in Ids : before[i] # after[i]}

Surroundings(before, after) ==
    LET parents == Parents(before, Edited(before, after)) \cup Parents(after, Edited(before, after))
    IN parents \cup Parents(before, parents) \cup Parents(after, parents)

NodesAround(before, after) ==
    Nodes \cap UNION {after[w].refs : w \in Ways \cap (Edited(before, after) \cup Surroundings(before, after))}

\* What a record of an edit says of the source before and after it.
Says(r, before, after) ==
    /\ r.existing = Copies(before, Edited(before, after))
    /\ r.updated = {CopyOf(after, i) : i \in Edited(before, after)}
    /\ r.deletes <=> \E i \in Edited(before, after) : ~after[i].live
    /\ r.affectedparents = Copies(after, Surroundings(before, after))
    /\ r.related = Copies(after, NodesAround(before, after))
    /\ r.recorded => r.relatedparents =
                         Copies(after, Relations \cap Parents(after, NodesAround(before, after)))
    /\ ~r.recorded => r.relatedparents = {}
    /\ r.reaches <=>
           \/ Reach(before, Edited(before, after) \cup Surroundings(before, after))
           \/ Reach(after, Edited(before, after) \cup Surroundings(before, after))

\* A record says what it should of an edit.
LEMMA RecordSays ==
    ASSUME NEW before, NEW after, NEW atomic, NEW recorded \in BOOLEAN
    PROVE  /\ Says(RecordOf(before, after, atomic, recorded), before, after)
           /\ RecordOf(before, after, atomic, recorded).atomic = atomic
<1> DEFINE r == RecordOf(before, after, atomic, recorded)
           changed == Edited(before, after)
           around == Surroundings(before, after)
           related == NodesAround(before, after)
           deletes == \E i \in changed : ~after[i].live
           reaches == Reach(before, changed \cup around) \/ Reach(after, changed \cup around)
           holding == IF recorded THEN Copies(after, Relations \cap Parents(after, related)) ELSE {}
<1>1. r = [atomic |-> atomic,
           existing |-> Copies(before, changed),
           updated |-> {CopyOf(after, i) : i \in changed},
           deletes |-> deletes,
           affectedparents |-> Copies(after, around),
           related |-> Copies(after, related),
           relatedparents |-> holding,
           recorded |-> recorded,
           reaches |-> reaches]
  BY DEF RecordOf, Edited, Surroundings, NodesAround
<1> HIDE DEF r, changed, around, related, deletes, reaches, holding
<1>2. /\ r.atomic = atomic
      /\ r.existing = Copies(before, changed)
      /\ r.updated = {CopyOf(after, i) : i \in changed}
      /\ r.affectedparents = Copies(after, around)
      /\ r.related = Copies(after, related)
      /\ r.relatedparents = holding
  BY <1>1
<1>3. r.deletes = deletes /\ r.recorded = recorded /\ r.reaches = reaches
  BY <1>1
<1>4. recorded => holding = Copies(after, Relations \cap Parents(after, related))
  BY DEF holding
<1>5. ~recorded => holding = {}
  BY DEF holding
<1>6. /\ r.deletes <=> deletes
      /\ r.recorded <=> recorded
      /\ r.reaches <=> reaches
  BY <1>3, Zenon
<1>7. /\ r.recorded => holding = Copies(after, Relations \cap Parents(after, related))
      /\ ~r.recorded => holding = {}
  BY <1>4, <1>5, <1>6
<1> QED
  BY <1>2, <1>6, <1>7 DEF Says, r, changed, around, related, deletes, reaches

(***************************************************************************)
(* The source over time.                                                   *)
(***************************************************************************)

\* An edit changes one element, whose version it raises.
Raises(before, after, i) ==
    /\ \A j \in Ids \ {i} : after[j] = before[j]
    /\ after[i].version = before[i].version + 1
    /\ after[i].refs = before[i].refs \/ after[i].refs \in Shapes[i]

\* An edit raises the version of one element and changes no other.
LEMMA EditRaises ==
    ASSUME NEW before \in [Ids -> Element], NEW after \in After(before)
    PROVE  after \in [Ids -> Element] /\ \E i \in Ids : Raises(before, after, i)
<1>1. PICK i \in Ids : \E e \in Versions(before, i) : after = [before EXCEPT ![i] = e]
  BY DEF After
<1>0. PICK e \in Versions(before, i) : after = [before EXCEPT ![i] = e]
  BY <1>1
<1>2. before[i] \in Element
  OBVIOUS
<1>3. e \in Element /\ e.version = before[i].version + 1
      /\ (e.refs = before[i].refs \/ e.refs \in Shapes[i])
  <2> DEFINE old == before[i]
             forms == [version: {old.version + 1}, live: {TRUE}, at: {"in", "out"}, refs: Shapes[i]]
             deletion == [old EXCEPT !.version = @ + 1, !.live = FALSE]
  <2>1. e \in forms \/ e = deletion
    BY <1>0 DEF Versions
  <2>2. CASE e \in forms
    <3>1. \A refs \in Shapes[i] : refs \in SUBSET Ids
      BY ElementsAssumption
    <3>2. old.version \in Nat
      BY <1>2 DEF Element
    <3>3. e \in Element /\ e.version = old.version + 1 /\ e.refs \in Shapes[i]
      <4>1. /\ e.version = old.version + 1 /\ e.live \in {TRUE}
            /\ e.at \in {"in", "out"} /\ e.refs \in Shapes[i]
            /\ e = [version |-> e.version, live |-> e.live, at |-> e.at, refs |-> e.refs]
        BY <2>2
      <4> HIDE DEF old, forms
      <4>2. e.live \in BOOLEAN
        BY <4>1
      <4>3. e.version \in Nat
        BY <4>1, <3>2
      <4>4. e.refs \in SUBSET Ids
        BY <4>1, <3>1
      <4>5. e \in Element
        BY <4>1, <4>2, <4>3, <4>4 DEF Element
      <4> QED BY <4>1, <4>5
    <3> QED
      BY <3>3
  <2>3. CASE e = deletion
    <3>1. e = [old EXCEPT !.version = @ + 1, !.live = FALSE]
      BY <2>3
    <3>2. old \in Element
      BY <1>2
    <3> HIDE DEF old
    <3>3. e = [version |-> old.version + 1, live |-> FALSE, at |-> old.at, refs |-> old.refs]
      BY <3>1, <3>2 DEF Element
    <3>4. old.version \in Nat /\ old.at \in {"in", "out"} /\ old.refs \in SUBSET Ids
      BY <3>2 DEF Element
    <3>5. e \in Element /\ e.version = old.version + 1 /\ e.refs = old.refs
      BY <3>3, <3>4 DEF Element
    <3> QED
      BY <3>5 DEF old
  <2> HIDE DEF forms, deletion
  <2> QED
    BY <2>1, <2>2, <2>3
<1> QED
  BY <1>0, <1>3 DEF Raises

\* Versions only grow, and tell what an element is.
VersionsTell(ms) ==
    \A k, l \in 1..Len(ms) : k <= l => \A i \in Ids :
        /\ ms[k][i].version <= ms[l][i].version
        /\ ms[k][i].version = ms[l][i].version => ms[k][i] = ms[l][i]

\* Of some elements that are not all as they were, one changed last, and the
\* others have been as they are since then.
LastChanges(ms) ==
    \A k, l \in 1..Len(ms) : \A X \in SUBSET Ids :
        k <= l /\ (\E i \in X : ms[k][i] # ms[l][i]) =>
            \E t \in k..(l - 1) :
                /\ \E i \in X : ms[t][i] # ms[t + 1][i]
                /\ \A i \in X : ms[t + 1][i] = ms[l][i]

\* An element that is not as it was changed a first time.
FirstChanges(ms) ==
    \A k, l \in 1..Len(ms) : \A i \in Ids :
        k <= l /\ ms[k][i] # ms[l][i] =>
            \E t \in k..(l - 1) : ms[t][i] # ms[t + 1][i] /\ ms[t][i] = ms[k][i]

\* The source and its records.
History(ms, rs) ==
    /\ ms \in Seq([Ids -> Element]) /\ rs \in Seq(RecordType)
    /\ Len(ms) = Len(rs) + 1
    /\ ms[1] = Start
    /\ \A k \in 1..Len(ms) : \A w \in Ways : ms[k][w].refs \subseteq Nodes
    /\ \A r \in 1..Len(rs) :
          /\ Says(rs[r], ms[r], ms[r + 1])
          /\ \E i \in Ids : Raises(ms[r], ms[r + 1], i)
          /\ rs[r].atomic \in Nat \ {0}
    /\ \A k, l \in 1..Len(rs) : k <= l => rs[k].atomic <= rs[l].atomic
    /\ VersionsTell(ms)
    /\ LastChanges(ms)
    /\ FirstChanges(ms)

\* After another edit, versions still tell an element's states apart.
LEMMA VersionsTellOn ==
    ASSUME NEW ms \in Seq([Ids -> Element]), Len(ms) >= 1, NEW m \in [Ids -> Element],
           VersionsTell(ms), NEW e \in Ids, Raises(ms[Len(ms)], m, e)
    PROVE  VersionsTell(Append(ms, m))
<1> DEFINE new == Append(ms, m)
           n == Len(ms)
<1>1. /\ Len(new) = n + 1 /\ new[n + 1] = m
      /\ \A k \in 1..n : new[k] = ms[k]
  OBVIOUS
<1>2. \A k \in 1..n, i \in Ids : ms[k][i].version \in Nat
  BY DEF Element
<1>3. \A i \in Ids : m[i].version \in Nat
  BY DEF Element
<1>4. \A i \in Ids : \/ m[i] = ms[n][i]
                     \/ m[i].version = ms[n][i].version + 1
  BY DEF Raises
<1>5. ASSUME NEW k \in 1..n, NEW i \in Ids
      PROVE  ms[k][i].version <= m[i].version /\ (ms[k][i].version = m[i].version => ms[k][i] = m[i])
  <2>1. ms[k][i].version <= ms[n][i].version /\ (ms[k][i].version = ms[n][i].version => ms[k][i] = ms[n][i])
    BY DEF VersionsTell
  <2> QED
    BY <1>2, <1>3, <1>4, <2>1
<1> HIDE DEF new
<1>6. ASSUME NEW k \in 1..(n + 1), NEW l \in 1..(n + 1), k <= l, NEW i \in Ids
      PROVE  new[k][i].version <= new[l][i].version /\ (new[k][i].version = new[l][i].version => new[k][i] = new[l][i])
  <2>1. CASE l \in 1..n
    <3>1. k \in 1..n
      BY <1>6, <2>1
    <3> QED
      BY <1>1, <1>6, <2>1, <3>1 DEF VersionsTell
  <2>2. CASE l = n + 1 /\ k \in 1..n
    BY <1>1, <1>5, <2>2
  <2>3. CASE l = n + 1 /\ k = n + 1
    BY <1>1, <1>3, <2>3
  <2> QED
    BY <2>1, <2>2, <2>3
<1> QED
  BY <1>1, <1>6 DEF VersionsTell, new

\* After another edit, what changed still changed last by some edit.
LEMMA LastChangesOn ==
    ASSUME NEW ms \in Seq([Ids -> Element]), Len(ms) >= 1, NEW m \in [Ids -> Element],
           LastChanges(ms)
    PROVE  LastChanges(Append(ms, m))
<1> DEFINE new == Append(ms, m)
           n == Len(ms)
<1>1. /\ Len(new) = n + 1 /\ new[n + 1] = m
      /\ \A k \in 1..n : new[k] = ms[k]
  OBVIOUS
<1> HIDE DEF new
<1>2. ASSUME NEW k \in 1..(n + 1), NEW l \in 1..(n + 1), NEW X \in SUBSET Ids, k <= l,
             NEW i \in X, new[k][i] # new[l][i]
      PROVE  \E t \in k..(l - 1) :
                 /\ \E j \in X : new[t][j] # new[t + 1][j]
                 /\ \A j \in X : new[t + 1][j] = new[l][j]
  <2>1. ASSUME NEW h \in 1..n, k <= h, new[k][i] # new[h][i],
               \A j \in X : new[h][j] = new[l][j]
        PROVE  \E t \in k..(h - 1) :
                 /\ \E j \in X : new[t][j] # new[t + 1][j]
                 /\ \A j \in X : new[t + 1][j] = new[l][j]
    <3>1. k \in 1..n /\ ms[k][i] # ms[h][i]
      BY <1>1, <2>1
    <3>2. PICK t \in k..(h - 1) :
              /\ \E j \in X : ms[t][j] # ms[t + 1][j]
              /\ \A j \in X : ms[t + 1][j] = ms[h][j]
      BY <2>1, <3>1 DEF LastChanges
    <3>3. t \in 1..n /\ t + 1 \in 1..n
      BY <3>1
    <3>4. new[t] = ms[t] /\ new[t + 1] = ms[t + 1] /\ new[h] = ms[h]
      BY <1>1, <3>3
    <3>5. /\ \E j \in X : new[t][j] # new[t + 1][j]
          /\ \A j \in X : new[t + 1][j] = new[l][j]
      BY <2>1, <3>2, <3>4
    <3> QED
      BY <3>5
  <2>2. CASE l \in 1..n
    BY <1>2, <2>1, <2>2
  <2>3. CASE l = n + 1
    <3>1. k \in 1..n
      BY <1>2, <2>3
    <3>2. CASE \E j \in X : new[n][j] # new[n + 1][j]
      BY <2>3, <3>1, <3>2
    <3>3. CASE \A j \in X : new[n][j] = new[n + 1][j]
      <4>0. n \in 1..n /\ k <= n /\ new[k][i] # new[n][i] /\ \A j \in X : new[n][j] = new[l][j]
        BY <1>2, <2>3, <3>1, <3>3
      <4>1. PICK t \in k..(n - 1) :
                 /\ \E j \in X : new[t][j] # new[t + 1][j]
                 /\ \A j \in X : new[t + 1][j] = new[l][j]
        BY <2>1, <4>0
      <4>2. t \in k..(l - 1)
        BY <2>3, <4>1
      <4> QED
        BY <4>1, <4>2
    <3> QED
      BY <3>2, <3>3
  <2> QED
    BY <2>2, <2>3
<1>3. LastChanges(new)
  <2> SUFFICES ASSUME NEW k \in 1..Len(new), NEW l \in 1..Len(new), NEW X \in SUBSET Ids,
                      k <= l, \E i \in X : new[k][i] # new[l][i]
               PROVE  \E t \in k..(l - 1) :
                          /\ \E i \in X : new[t][i] # new[t + 1][i]
                          /\ \A i \in X : new[t + 1][i] = new[l][i]
    BY DEF LastChanges
  <2>1. PICK i \in X : new[k][i] # new[l][i]
    OBVIOUS
  <2>2. k \in 1..(n + 1) /\ l \in 1..(n + 1)
    BY <1>1
  <2> QED
    BY <1>2, <2>1, <2>2
<1> QED
  BY <1>3 DEF new

\* After another edit, what changed still changed first by some edit.
LEMMA FirstChangesOn ==
    ASSUME NEW ms \in Seq([Ids -> Element]), Len(ms) >= 1, NEW m \in [Ids -> Element],
           FirstChanges(ms)
    PROVE  FirstChanges(Append(ms, m))
<1> DEFINE new == Append(ms, m)
           n == Len(ms)
<1>1. /\ Len(new) = n + 1 /\ new[n + 1] = m
      /\ \A k \in 1..n : new[k] = ms[k]
  OBVIOUS
<1> HIDE DEF new
<1>2. ASSUME NEW k \in 1..(n + 1), NEW l \in 1..(n + 1), NEW i \in Ids, k <= l,
             new[k][i] # new[l][i]
      PROVE  \E t \in k..(l - 1) : new[t][i] # new[t + 1][i] /\ new[t][i] = new[k][i]
  <2>1. ASSUME NEW h \in 1..n, k <= h, new[k][i] # new[h][i]
        PROVE  \E t \in k..(h - 1) : new[t][i] # new[t + 1][i] /\ new[t][i] = new[k][i]
    <3>1. k \in 1..n /\ ms[k][i] # ms[h][i]
      BY <1>1, <2>1
    <3>2. PICK t \in k..(h - 1) : ms[t][i] # ms[t + 1][i] /\ ms[t][i] = ms[k][i]
      BY <2>1, <3>1 DEF FirstChanges
    <3>3. t \in 1..n /\ t + 1 \in 1..n
      BY <3>1
    <3> QED
      BY <1>1, <3>1, <3>2, <3>3
  <2>2. CASE l \in 1..n
    BY <1>2, <2>1, <2>2
  <2>3. CASE l = n + 1
    <3>1. k \in 1..n
      BY <1>2, <2>3
    <3>2. CASE new[k][i] = new[n][i]
      BY <1>2, <2>3, <3>1, <3>2
    <3>3. CASE new[k][i] # new[n][i]
      <4>1. PICK t \in k..(n - 1) : new[t][i] # new[t + 1][i] /\ new[t][i] = new[k][i]
        BY <2>1, <3>1, <3>3
      <4>2. t \in k..(l - 1)
        BY <2>3, <4>1
      <4> QED
        BY <4>1, <4>2
    <3> QED
      BY <3>2, <3>3
  <2> QED
    BY <2>2, <2>3
<1>3. FirstChanges(new)
  BY <1>1, <1>2 DEF FirstChanges
<1> QED
  BY <1>3 DEF new

\* A history goes on with an edit that comes no earlier than the others.
LEMMA HistoryGoesOn ==
    ASSUME NEW ms, NEW rs, History(ms, rs), NEW m \in After(ms[Len(ms)]),
           NEW atomic \in Nat \ {0}, \A r \in 1..Len(rs) : rs[r].atomic <= atomic,
           NEW recorded \in BOOLEAN
    PROVE  History(Append(ms, m), Append(rs, RecordOf(ms[Len(ms)], m, atomic, recorded)))
<1> DEFINE n == Len(rs)
           new == RecordOf(ms[Len(ms)], m, atomic, recorded)
           ms2 == Append(ms, m)
           rs2 == Append(rs, new)
<1>1. /\ ms \in Seq([Ids -> Element]) /\ rs \in Seq(RecordType)
      /\ Len(ms) = n + 1 /\ n \in Nat
      /\ ms[Len(ms)] \in [Ids -> Element]
  BY DEF History
<1>2. m \in [Ids -> Element] /\ \E i \in Ids : Raises(ms[Len(ms)], m, i)
  BY <1>1, EditRaises
<1>3. new \in RecordType
  <2>1. recorded \in BOOLEAN
    OBVIOUS
  <2> HIDE DEF new
  <2>2. ms[Len(ms)] \in [Ids -> Element] /\ m \in [Ids -> Element] /\ atomic \in Nat
    BY <1>1, <1>2
  <2> QED
    BY <2>1, <2>2, RecordHasItsType DEF new
<1>4. new.atomic = atomic /\ Says(new, ms[Len(ms)], m)
  BY RecordSays
<1> HIDE DEF new
<1>5. /\ ms2 \in Seq([Ids -> Element]) /\ Len(ms2) = n + 2 /\ ms2[n + 2] = m
      /\ \A k \in 1..(n + 1) : ms2[k] = ms[k]
  BY <1>1, <1>2
<1>6. /\ rs2 \in Seq(RecordType) /\ Len(rs2) = n + 1 /\ rs2[n + 1] = new
      /\ \A k \in 1..n : rs2[k] = rs[k]
  BY <1>1, <1>3
<1>7. VersionsTell(ms2)
  <2>1. PICK i \in Ids : Raises(ms[Len(ms)], m, i)
    BY <1>2
  <2>2. VersionsTell(ms)
    BY DEF History
  <2> QED
    BY <1>1, <1>2, <2>1, <2>2, VersionsTellOn
<1>8. LastChanges(ms2) /\ FirstChanges(ms2)
  BY <1>1, <1>2, LastChangesOn, FirstChangesOn DEF History
<1> HIDE DEF ms2, rs2
<1>9. ms2[1] = Start
  BY <1>1, <1>5 DEF History
<1>10. ASSUME NEW k \in 1..(n + 2), NEW w \in Ways PROVE ms2[k][w].refs \subseteq Nodes
  <2>1. CASE k \in 1..(n + 1)
    BY <1>1, <1>5, <2>1 DEF History
  <2>2. CASE k = n + 2
    <3>1. ms[n + 1][w].refs \subseteq Nodes
      BY <1>1 DEF History
    <3>2. Shapes[w] \subseteq SUBSET Nodes /\ w \in Ids
      BY ElementsAssumption DEF Ids
    <3>3. m[w] = ms[n + 1][w] \/ m[w].refs = ms[n + 1][w].refs \/ m[w].refs \in Shapes[w]
      BY <1>1, <1>2, <3>2 DEF Raises
    <3> QED
      BY <1>5, <2>2, <3>1, <3>2, <3>3
  <2> QED
    BY <2>1, <2>2
<1>11. ASSUME NEW r \in 1..(n + 1)
       PROVE  /\ Says(rs2[r], ms2[r], ms2[r + 1])
              /\ \E i \in Ids : Raises(ms2[r], ms2[r + 1], i)
              /\ rs2[r].atomic \in Nat \ {0}
  <2>1. CASE r \in 1..n
    <3>1. r \in 1..(n + 1) /\ r + 1 \in 1..(n + 1)
      BY <1>1, <2>1
    <3>2. rs2[r] = rs[r] /\ ms2[r] = ms[r] /\ ms2[r + 1] = ms[r + 1]
      BY <1>5, <1>6, <2>1, <3>1
    <3>3. /\ Says(rs[r], ms[r], ms[r + 1])
          /\ \E i \in Ids : Raises(ms[r], ms[r + 1], i)
          /\ rs[r].atomic \in Nat \ {0}
      BY <2>1 DEF History
    <3> QED
      BY <3>2, <3>3
  <2>2. CASE r = n + 1
    <3>1. Says(new, ms[n + 1], m)
      BY <1>1, <1>4
    <3> QED
      BY <1>1, <1>2, <1>4, <1>5, <1>6, <2>2, <3>1
  <2> QED
    BY <2>1, <2>2
<1>12. ASSUME NEW k \in 1..(n + 1), NEW l \in 1..(n + 1), k <= l
       PROVE  rs2[k].atomic <= rs2[l].atomic
  <2>1. CASE l \in 1..n
    <3>1. k \in 1..n
      BY <1>12, <2>1
    <3>2. rs[k].atomic <= rs[l].atomic
      BY <1>12, <2>1, <3>1 DEF History
    <3> QED
      BY <1>6, <2>1, <3>1, <3>2
  <2>2. CASE l = n + 1
    BY <1>4, <1>6, <1>12, <2>2
  <2> QED
    BY <2>1, <2>2
<1> QED
  BY <1>5, <1>6, <1>7, <1>8, <1>9, <1>10, <1>11, <1>12 DEF History, ms2, rs2, new

(***************************************************************************)
(* What is selected.                                                       *)
(***************************************************************************)

\* What an extract with these copies holds by them: the nodes inside, the ways
\* that have one, and the nodes of those.
Held(copies, x) ==
    \/ \E c \in copies : c.id = x /\ c.id \in Nodes /\ c.at = "in"
    \/ \E w, c \in copies :
          /\ w.id \in Ways /\ c.id \in Nodes /\ c.at = "in" /\ c.id \in w.refs
          /\ x = w.id \/ x \in w.refs

\* What is selected is what belongs to the rectangle, and the relations that hold any of it.
LEMMA SelectIsHeld ==
    ASSUME NEW copies
    PROVE  Select(copies) =
               {c \in copies : \/ Held(copies, c.id)
                               \/ c.id \in Relations /\ \E x \in c.refs : Held(copies, x)}
<1> DEFINE inside == Named({c \in copies : c.id \in Nodes /\ c.at = "in"})
           ways == {c \in copies : c.id \in Ways /\ c.refs \cap inside # {}}
           ids == inside \cup Named(ways) \cup UNION {w.refs : w \in ways}
<1>1. \A x : x \in inside <=> \E c \in copies : c.id = x /\ c.id \in Nodes /\ c.at = "in"
  BY DEF Named
<1> HIDE DEF inside
<1>2. \A w : w \in ways <=> /\ w \in copies /\ w.id \in Ways
                            /\ \E c \in copies : c.id \in Nodes /\ c.at = "in" /\ c.id \in w.refs
  BY <1>1
<1> HIDE DEF ways
<1>3. \A x : x \in ids <=> \/ x \in inside
                           \/ \E w \in ways : x = w.id \/ x \in w.refs
  BY DEF Named
<1>4. \A x : x \in ids <=> Held(copies, x)
  BY <1>1, <1>2, <1>3 DEF Held
<1>5. Select(copies) = {c \in copies : c.id \in ids \/ (c.id \in Relations /\ c.refs \cap ids # {})}
  BY DEF Select, ids, ways, inside
<1> HIDE DEF ids
<1> QED
  BY <1>4, <1>5

\* Whoever has all that belongs to a map, and nothing but the map's, selects the same.
LEMMA SelectsTheSame ==
    ASSUME NEW all, NEW some, some \subseteq all, Select(all) \subseteq some
    PROVE  Select(some) = Select(all)
<1>1. ASSUME NEW x, Held(all, x) PROVE Held(some, x)
  <2>1. ASSUME NEW c \in all, c.id \in Nodes, c.at = "in" PROVE c \in some
    <3>1. Held(all, c.id)
      BY <2>1 DEF Held
    <3> QED
      BY <3>1, SelectIsHeld
  <2>2. ASSUME NEW w \in all, NEW c \in all, w.id \in Ways, c.id \in Nodes, c.at = "in", c.id \in w.refs
        PROVE  w \in some
    <3>1. Held(all, w.id)
      BY <2>2 DEF Held
    <3> QED
      BY <3>1, SelectIsHeld
  <2> QED
    BY <1>1, <2>1, <2>2 DEF Held
<1>2. ASSUME NEW x, Held(some, x) PROVE Held(all, x)
  BY <1>2 DEF Held
<1>3. \A c \in all :
          (Held(all, c.id) \/ (c.id \in Relations /\ \E x \in c.refs : Held(all, x)))
          <=> (Held(some, c.id) \/ (c.id \in Relations /\ \E x \in c.refs : Held(some, x)))
  BY <1>1, <1>2
<1> QED
  BY <1>3, SelectIsHeld

\* A node of the map in the rectangle.
In(m, n) == n \in Nodes /\ m[n].live /\ m[n].at = "in"

\* A way of the map with a node in the rectangle.
Crosses(m, w) == w \in Ways /\ m[w].live /\ \E n \in m[w].refs : In(m, n)

\* What belongs to an extract of the map, but for relations.
Belongs(m, x) == In(m, x) \/ Crosses(m, x) \/ \E w \in Ways : Crosses(m, w) /\ x \in m[w].refs

\* What belongs to the rectangle by all the copies of a map belongs to it by the map.
LEMMA HeldOfMap ==
    ASSUME NEW m \in [Ids -> Element], NEW x
    PROVE  Held(Copies(m, Ids), x) <=> Belongs(m, x)
<1> DEFINE all == Copies(m, Ids)
<1>1. \A c : c \in all <=> \E i \in Ids : m[i].live /\ c = CopyOf(m, i)
  BY DEF Copies
<1>2. \A i \in Ids : CopyOf(m, i).id = i /\ CopyOf(m, i).at = m[i].at /\ CopyOf(m, i).refs = m[i].refs
  BY DEF CopyOf
<1>3. \A i : i \in Nodes \/ i \in Ways => i \in Ids
  BY DEF Ids
<1> HIDE DEF all
<1>4. ASSUME Held(all, x) PROVE Belongs(m, x)
  BY <1>1, <1>2, <1>4 DEF Held, Belongs, In, Crosses
<1>5. ASSUME Belongs(m, x) PROVE Held(all, x)
  <2>1. CASE In(m, x)
    BY <1>1, <1>2, <1>3, <2>1 DEF Held, In
  <2>2. ASSUME NEW w \in Ways, Crosses(m, w), x = w \/ x \in m[w].refs PROVE Held(all, x)
    <3>1. PICK n \in m[w].refs : In(m, n)
      BY <2>2 DEF Crosses
    <3>2. CopyOf(m, w) \in all /\ CopyOf(m, n) \in all
      BY <1>1, <1>3, <2>2, <3>1 DEF Crosses, In
    <3>3. /\ CopyOf(m, w).id = w /\ CopyOf(m, w).refs = m[w].refs
          /\ CopyOf(m, n).id = n /\ CopyOf(m, n).at = "in" /\ n \in Nodes
      BY <1>2, <1>3, <3>1 DEF In
    <3> QED
      BY <2>2, <3>1, <3>2, <3>3 DEF Held
  <2> QED
    BY <1>5, <2>1, <2>2 DEF Belongs, Crosses
<1> QED
  BY <1>4, <1>5 DEF all

\* Of a map is selected what belongs to the rectangle, and relations that hold any of it.
LEMMA SelectedOfMap ==
    ASSUME NEW m \in [Ids -> Element], NEW i \in Ids
    PROVE  CopyOf(m, i) \in Select(Copies(m, Ids)) <=>
               /\ m[i].live
               /\ Belongs(m, i) \/ (i \in Relations /\ \E x \in m[i].refs : Belongs(m, x))
<1> DEFINE all == Copies(m, Ids)
           c == CopyOf(m, i)
<1>1. c \in all <=> m[i].live
  <2>1. \A j \in Ids : CopyOf(m, j).id = j
    BY DEF CopyOf
  <2>2. c \in all <=> \E j \in Ids : m[j].live /\ c = CopyOf(m, j)
    BY DEF Copies
  <2> HIDE DEF all
  <2> QED
    BY <2>1, <2>2
<1>2. c.id = i /\ c.refs = m[i].refs
  BY DEF CopyOf
<1>3. \A x : Held(all, x) <=> Belongs(m, x)
  BY HeldOfMap
<1> HIDE DEF all, c
<1>4. c \in Select(all) <=> c \in all /\ (Held(all, c.id) \/ (c.id \in Relations /\ \E x \in c.refs : Held(all, x)))
  BY SelectIsHeld
<1> QED
  BY <1>1, <1>2, <1>3, <1>4 DEF all, c

\* What is selected of a map are copies of its live elements.
LEMMA SelectedAreCopies ==
    ASSUME NEW m, NEW c \in Select(Copies(m, Ids))
    PROVE  c.id \in Ids /\ m[c.id].live /\ c = CopyOf(m, c.id)
<1>1. c \in Copies(m, Ids)
  BY SelectIsHeld
<1>2. PICK i \in Ids : m[i].live /\ c = CopyOf(m, i)
  BY <1>1 DEF Copies
<1>3. c.id = i
  BY <1>2 DEF CopyOf
<1> QED
  BY <1>2, <1>3

(***************************************************************************)
(* What a record says.                                                     *)
(***************************************************************************)

\* A record of an edit of one element.
EditIs(r, before, after, i) ==
    Says(r, before, after) /\ i \in Ids /\ Edited(before, after) = {i}

\* Unless the element is deleted, it is sent.
LEMMA SendsElement ==
    ASSUME NEW before, NEW after, NEW r, NEW i, EditIs(r, before, after, i), after[i].live
    PROVE  CopyOf(after, i) \in Sent(r)
<1>1. ~r.deletes /\ CopyOf(after, i) \in r.updated
  BY DEF EditIs, Says
<1> QED
  BY <1>1 DEF Sent

\* So are those around it,
LEMMA SendsSurroundings ==
    ASSUME NEW before, NEW after, NEW r, NEW i, EditIs(r, before, after, i),
           NEW q \in Surroundings(before, after), after[q].live
    PROVE  CopyOf(after, q) \in Sent(r)
<1>1. CopyOf(after, q) \in r.affectedparents
  BY DEF EditIs, Says, Copies
<1> QED
  BY <1>1 DEF Sent

\* What refers to a changed element is around it.
LEMMA HolderIsAround ==
    ASSUME NEW before, NEW after, NEW r, NEW i, EditIs(r, before, after, i),
           NEW q \in Ids, after[q].live, i \in after[q].refs
    PROVE  q \in Surroundings(before, after)
<1>1. q \in Parents(after, Edited(before, after))
  BY DEF EditIs, Parents
<1> QED
  BY <1>1 DEF Surroundings

\* which are what holds it
LEMMA SendsHolder ==
    ASSUME NEW before, NEW after, NEW r, NEW i, EditIs(r, before, after, i),
           NEW q \in Ids, after[q].live, i \in after[q].refs
    PROVE  CopyOf(after, q) \in Sent(r)
BY HolderIsAround, SendsSurroundings

\* and what holds that,
LEMMA SendsHolderOfHolder ==
    ASSUME NEW before, NEW after, NEW r, NEW i, EditIs(r, before, after, i),
           NEW q \in Ids, after[q].live, i \in after[q].refs,
           NEW z \in Ids, after[z].live, q \in after[z].refs
    PROVE  CopyOf(after, z) \in Sent(r)
<1>1. q \in Parents(after, Edited(before, after))
  BY DEF EditIs, Parents
<1>2. z \in Surroundings(before, after)
  BY <1>1 DEF Surroundings, Parents
<1> QED
  BY <1>2, SendsSurroundings

\* the nodes of ways among all these,
LEMMA NodeIsAround ==
    ASSUME NEW before, NEW after, NEW r, NEW i, EditIs(r, before, after, i),
           NEW w \in Ways, w = i \/ (after[w].live /\ i \in after[w].refs),
           NEW x \in Nodes, x \in after[w].refs
    PROVE  x \in NodesAround(before, after)
<1>1. w \in Ids
  BY DEF Ids
<1>2. w \in Edited(before, after) \cup Surroundings(before, after)
  <2>1. CASE w = i
    BY <2>1 DEF EditIs
  <2>2. CASE after[w].live /\ i \in after[w].refs
    BY <1>1, <2>2, HolderIsAround
  <2> QED
    BY <2>1, <2>2
<1> QED
  BY <1>2 DEF NodesAround

\* A record sends the nodes of the ways that it changed or that are around.
LEMMA SendsNode ==
    ASSUME NEW before, NEW after, NEW r, NEW i, EditIs(r, before, after, i),
           NEW w \in Ways, w = i \/ (after[w].live /\ i \in after[w].refs),
           NEW x \in Nodes, x \in after[w].refs, after[x].live
    PROVE  CopyOf(after, x) \in Sent(r)
<1>1. x \in NodesAround(before, after)
  BY NodeIsAround
<1>2. CopyOf(after, x) \in r.related
  BY <1>1 DEF EditIs, Says, Copies
<1> QED
  BY <1>2 DEF Sent

\* and, in a record that has them, the relations that hold those.
LEMMA SendsHolderOfNode ==
    ASSUME NEW before, NEW after, NEW r, NEW i, EditIs(r, before, after, i), r.recorded,
           NEW w \in Ways, w = i \/ (after[w].live /\ i \in after[w].refs),
           NEW x \in Nodes, x \in after[w].refs,
           NEW z \in Relations, after[z].live, x \in after[z].refs
    PROVE  CopyOf(after, z) \in Sent(r)
<1>1. x \in NodesAround(before, after)
  BY NodeIsAround
<1>2. z \in Relations \cap Parents(after, NodesAround(before, after))
  BY <1>1 DEF Parents, Ids
<1>3. CopyOf(after, z) \in r.relatedparents
  BY <1>2 DEF EditIs, Says, Copies
<1> QED
  BY <1>3 DEF Sent

\* What a record sends are copies of what there is after its edit.
LEMMA RecordSendsCopies ==
    ASSUME NEW before, NEW after, NEW r, Says(r, before, after), NEW c \in Sent(r)
    PROVE  c.id \in Ids /\ after[c.id].live /\ c = CopyOf(after, c.id)
<1>1. ASSUME NEW ids \in SUBSET Ids, c \in Copies(after, ids)
      PROVE  c.id \in Ids /\ after[c.id].live /\ c = CopyOf(after, c.id)
  <2>1. PICK j \in ids : after[j].live /\ c = CopyOf(after, j)
    BY <1>1 DEF Copies
  <2>2. c.id = j
    BY <2>1 DEF CopyOf
  <2> QED
    BY <2>1, <2>2
<1>2. /\ Surroundings(before, after) \in SUBSET Ids
      /\ NodesAround(before, after) \in SUBSET Ids
      /\ Relations \cap Parents(after, NodesAround(before, after)) \in SUBSET Ids
  BY DEF Surroundings, NodesAround, Parents, Ids
<1>3. CASE c \in r.updated /\ ~r.deletes
  <2>1. PICK j \in Edited(before, after) : c = CopyOf(after, j)
    BY <1>3 DEF Says
  <2>2. after[j].live /\ j \in Ids
    BY <1>3 DEF Says, Edited
  <2>3. c.id = j
    BY <2>1 DEF CopyOf
  <2> QED
    BY <2>1, <2>2, <2>3
<1>4. \/ c \in r.updated /\ ~r.deletes
      \/ c \in r.affectedparents
      \/ c \in r.related
      \/ c \in r.relatedparents
  BY DEF Sent
<1>5. /\ r.affectedparents = Copies(after, Surroundings(before, after))
      /\ r.related = Copies(after, NodesAround(before, after))
      /\ \/ r.relatedparents = Copies(after, Relations \cap Parents(after, NodesAround(before, after)))
         \/ r.relatedparents = {}
  BY DEF Says
<1> QED
  BY <1>1, <1>2, <1>3, <1>4, <1>5

\* A deletion removes what it deletes, and no other record removes anything.
LEMMA RemovesElement ==
    ASSUME NEW before, NEW after, NEW r, NEW i, EditIs(r, before, after, i), ~after[i].live
    PROVE  CopyOf(after, i) \in Removed(r)
<1>1. r.deletes /\ CopyOf(after, i) \in r.updated
  BY DEF EditIs, Says
<1> QED
  BY <1>1 DEF Removed

\* A record removes the element that it is of, if that was deleted, and no other.
LEMMA RemovesNoOther ==
    ASSUME NEW before, NEW after, NEW r, NEW i, EditIs(r, before, after, i),
           after[i].version = before[i].version + 1, NEW d \in Removed(r)
    PROVE  d.id = i /\ ~after[i].live /\ d.version = after[i].version
<1>1. /\ r.existing = Copies(before, {i})
      /\ r.updated = {CopyOf(after, i)}
      /\ r.deletes <=> ~after[i].live
  BY DEF EditIs, Says
<1>2. CopyOf(after, i).id = i /\ CopyOf(after, i).version = after[i].version
  BY DEF CopyOf
<1>3. ASSUME NEW c \in r.existing
      PROVE  [c EXCEPT !.version = @ + 1].id = i /\ [c EXCEPT !.version = @ + 1].version = after[i].version
  <2>1. c = CopyOf(before, i)
    BY <1>1, <1>3 DEF Copies
  <2>2. [c EXCEPT !.version = @ + 1] =
            [id |-> i, version |-> before[i].version + 1, at |-> before[i].at, refs |-> before[i].refs]
    BY <2>1 DEF CopyOf
  <2> QED
    BY <2>2
<1>4. r.deletes
  BY DEF Removed
<1>5. d \in {[c EXCEPT !.version = @ + 1] : c \in r.existing} \/ d \in r.updated
  BY <1>4 DEF Removed
<1>6. CASE d \in r.updated
  BY <1>1, <1>2, <1>4, <1>6
<1>7. CASE \E c \in r.existing : d = [c EXCEPT !.version = @ + 1]
  BY <1>1, <1>3, <1>4, <1>7
<1> QED
  BY <1>5, <1>6, <1>7

\* What moves in the rectangle, into it or out of it reaches it.
LEMMA NodeReaches ==
    ASSUME NEW before, NEW after, NEW r, NEW i, EditIs(r, before, after, i),
           In(before, i) \/ In(after, i)
    PROVE  r.reaches
<1> DEFINE ids == Edited(before, after) \cup Surroundings(before, after)
<1>1. r.reaches <=> Reach(before, ids) \/ Reach(after, ids)
  BY DEF EditIs, Says
<1>2. i \in ids
  BY DEF EditIs
<1> HIDE DEF ids
<1>3. \A m : In(m, i) => Reach(m, ids)
  BY <1>2 DEF In, Reach
<1> QED
  BY <1>1, <1>3

\* So does whatever is about a way with a node inside.
LEMMA WayReaches ==
    ASSUME NEW before, NEW after, NEW r, NEW i, EditIs(r, before, after, i),
           NEW w \in Ways, w = i \/ (after[w].live /\ i \in after[w].refs),
           NEW n \in after[w].refs, In(after, n)
    PROVE  r.reaches
<1> DEFINE ids == Edited(before, after) \cup Surroundings(before, after)
<1>1. r.reaches <=> Reach(before, ids) \/ Reach(after, ids)
  BY DEF EditIs, Says
<1>2. w \in ids
  <2>1. CASE w = i
    BY <2>1 DEF EditIs
  <2>2. CASE after[w].live /\ i \in after[w].refs
    <3>1. w \in Ids
      BY DEF Ids
    <3>2. w \in Surroundings(before, after)
      BY <2>2, <3>1, HolderIsAround
    <3> QED
      BY <3>2
  <2> QED
    BY <2>1, <2>2
<1> HIDE DEF ids
<1> DEFINE ways == Ways \cap (ids \cup UNION {after[z].refs : z \in Relations \cap ids})
           nodes == Nodes \cap (ids \cup UNION {after[j].refs : j \in ways \cup (Relations \cap ids)})
<1>3. w \in ways
  BY <1>2
<1>4. n \in nodes
  BY <1>3 DEF In
<1>5. Reach(after, ids)
  BY <1>4 DEF Reach, In
<1> QED
  BY <1>1, <1>5

(***************************************************************************)
(* What a patch makes of an extract.                                       *)
(***************************************************************************)

\* Copies of what was there once, up to one of the maps.
Historic(content, ms, k) ==
    \A c \in content : \E l \in 1..k : c.id \in Ids /\ ms[l][c.id].live /\ c = CopyOf(ms[l], c.id)

\* What is selected of a map.
Whole(m) == Select(Copies(m, Ids))

\* To have of a map the nodes in the rectangle, no other ones there, and all else but relations.
Keeps(content, m) ==
    /\ Inside(content) = Inside(Whole(m))
    /\ {c \in Whole(m) : c.id \notin Relations} \subseteq content

\* An extract that is as the source was at a record, a later record, and records in between:
\* all that reach the rectangle at the least.
Patching(ms, rs, a, b, content, rows) ==
    /\ History(ms, rs)
    /\ a \in Nat /\ b \in Nat /\ a <= b /\ b <= Len(rs)
    /\ Historic(content, ms, a + 1)
    /\ Keeps(content, ms[a + 1])
    /\ rows \subseteq (a + 1)..b
    /\ \A t \in (a + 1)..b : rs[t].reaches => t \in rows

\* A patch with some of the records.
Patch(rs, content, rows) == Patched(content, {rs[t] : t \in rows})

\* Each record is of an edit of one element, whose version it raises.
LEMMA EditOf ==
    ASSUME NEW ms, NEW rs, History(ms, rs), NEW t \in 1..Len(rs)
    PROVE  \E i \in Ids : /\ EditIs(rs[t], ms[t], ms[t + 1], i)
                          /\ Raises(ms[t], ms[t + 1], i)
<1>1. PICK i \in Ids : Raises(ms[t], ms[t + 1], i)
  BY DEF History
<1>2. Says(rs[t], ms[t], ms[t + 1])
  BY DEF History
<1>3. ms \in Seq([Ids -> Element]) /\ Len(ms) = Len(rs) + 1 /\ Len(rs) \in Nat
  BY DEF History
<1>4. t \in 1..Len(ms) /\ t + 1 \in 1..Len(ms)
  BY <1>3
<1>5. ms[t] \in [Ids -> Element]
  BY <1>3, <1>4
<1>6. ms[t][i].version \in Nat
  BY <1>5 DEF Element
<1>7. ms[t + 1][i].version # ms[t][i].version
  BY <1>1, <1>6 DEF Raises
<1>8. ms[t][i] # ms[t + 1][i]
  BY <1>7
<1>9. Edited(ms[t], ms[t + 1]) = {i}
  BY <1>1, <1>8 DEF Edited, Raises
<1> QED
  BY <1>1, <1>2, <1>9 DEF EditIs

\* An element that a record changed is the one that it is of.
LEMMA EditWas ==
    ASSUME NEW ms, NEW rs, History(ms, rs), NEW t \in 1..Len(rs), NEW j \in Ids,
           ms[t][j] # ms[t + 1][j]
    PROVE  EditIs(rs[t], ms[t], ms[t + 1], j) /\ Raises(ms[t], ms[t + 1], j)
<1>1. PICK i \in Ids : EditIs(rs[t], ms[t], ms[t + 1], i) /\ Raises(ms[t], ms[t + 1], i)
  BY EditOf
<1>2. i = j
  BY <1>1 DEF Raises
<1> QED
  BY <1>1, <1>2

\* All that a patch knows was there once, by its last record.
LEMMA KnownIsHistoric ==
    ASSUME NEW ms, NEW rs, NEW a, NEW b, NEW content, NEW rows,
           Patching(ms, rs, a, b, content, rows),
           NEW c \in content \cup UNION {Sent(r) : r \in {rs[t] : t \in rows}}
    PROVE  \E l \in 1..(b + 1) : c.id \in Ids /\ ms[l][c.id].live /\ c = CopyOf(ms[l], c.id)
<1>1. CASE c \in content
  <2>1. PICK l \in 1..(a + 1) : c.id \in Ids /\ ms[l][c.id].live /\ c = CopyOf(ms[l], c.id)
    BY <1>1 DEF Patching, Historic
  <2>2. l \in 1..(b + 1)
    BY DEF Patching
  <2> QED
    BY <2>1, <2>2
<1>2. CASE \E t \in rows : c \in Sent(rs[t])
  <2>1. PICK t \in rows : c \in Sent(rs[t])
    BY <1>2
  <2>2. t \in 1..Len(rs) /\ t + 1 \in 1..(b + 1)
    <3>1. Len(rs) \in Nat
      BY DEF Patching, History
    <3> QED
      BY <3>1 DEF Patching
  <2>3. Says(rs[t], ms[t], ms[t + 1])
    BY <2>2 DEF Patching, History
  <2>4. c.id \in Ids /\ ms[t + 1][c.id].live /\ c = CopyOf(ms[t + 1], c.id)
    BY <2>1, <2>3, RecordSendsCopies
  <2> QED
    BY <2>2, <2>4
<1> QED
  BY <1>1, <1>2

\* What a patch knows of an element as it is, is what it keeps.
LEMMA CurrentIsKept ==
    ASSUME NEW ms, NEW rs, NEW a, NEW b, NEW content, NEW rows,
           Patching(ms, rs, a, b, content, rows),
           NEW i \in Ids, ms[b + 1][i].live,
           \/ CopyOf(ms[b + 1], i) \in content
           \/ \E t \in rows : CopyOf(ms[b + 1], i) \in Sent(rs[t])
    PROVE  CopyOf(ms[b + 1], i) \in Patch(rs, content, rows)
<1> DEFINE known == content \cup UNION {Sent(r) : r \in {rs[t] : t \in rows}}
           gone == UNION {Removed(r) : r \in {rs[t] : t \in rows}}
           c == CopyOf(ms[b + 1], i)
<1>1. c \in known
  OBVIOUS
<1>2. c.id = i /\ c.version = ms[b + 1][i].version
  BY DEF CopyOf
<1>3. /\ History(ms, rs) /\ a \in Nat /\ b \in Nat /\ a <= b /\ b <= Len(rs) /\ Len(rs) \in Nat
      /\ Len(ms) = Len(rs) + 1 /\ ms \in Seq([Ids -> Element])
  BY DEF Patching, History
<1>4. \A l \in 1..(b + 1) : /\ ms[l][i].version <= ms[b + 1][i].version
                            /\ ms[l][i].version = ms[b + 1][i].version => ms[l][i] = ms[b + 1][i]
  <2>1. VersionsTell(ms)
    BY <1>3 DEF History
  <2>2. \A l \in 1..(b + 1) : l \in 1..Len(ms) /\ b + 1 \in 1..Len(ms) /\ l <= b + 1
    BY <1>3
  <2> QED
    BY <2>1, <2>2 DEF VersionsTell
<1>5. \A l \in 1..(b + 1) : ms[l][i].version \in Nat
  <2>1. \A l \in 1..(b + 1) : ms[l] \in [Ids -> Element]
    BY <1>3
  <2> QED
    BY <2>1 DEF Element
<1>6. ASSUME NEW d \in known, d.id = c.id PROVE d.version <= c.version
  <2>1. PICK l \in 1..(b + 1) : ms[l][d.id].live /\ d = CopyOf(ms[l], d.id)
    BY <1>6, KnownIsHistoric
  <2>2. d.version = ms[l][i].version
    BY <1>2, <1>6, <2>1 DEF CopyOf
  <2> HIDE DEF c
  <2> QED
    BY <1>2, <1>4, <2>1, <2>2
<1>7. ASSUME NEW d \in gone, d.id = c.id PROVE d.version < c.version
  <2>1. PICK t \in rows : d \in Removed(rs[t])
    OBVIOUS
  <2>2. t \in 1..Len(rs) /\ t + 1 \in 1..(b + 1)
    BY <1>3 DEF Patching
  <2>3. PICK j \in Ids : EditIs(rs[t], ms[t], ms[t + 1], j) /\ Raises(ms[t], ms[t + 1], j)
    BY <1>3, <2>2, EditOf
  <2>5. d.id = j /\ ~ms[t + 1][j].live /\ d.version = ms[t + 1][j].version
    BY <2>1, <2>3, RemovesNoOther DEF Raises
  <2>6. j = i
    BY <1>2, <1>7, <2>5
  <2>7. ms[t + 1][i].version <= ms[b + 1][i].version /\ ms[t + 1][i].version # ms[b + 1][i].version
    BY <1>4, <2>2, <2>5, <2>6
  <2>8. ms[t + 1][i].version \in Nat /\ ms[b + 1][i].version \in Nat
    BY <1>3, <1>5, <2>2
  <2> HIDE DEF c
  <2> QED
    BY <1>2, <2>5, <2>6, <2>7, <2>8
<1> HIDE DEF known, gone, c
<1>8. c \in Patched(content, {rs[t] : t \in rows})
  BY <1>1, <1>6, <1>7 DEF Patched, known, gone
<1> QED
  BY <1>8 DEF Patch, c

\* What a patch keeps is no older than any of its records.
LEMMA KeptIsNew ==
    ASSUME NEW ms, NEW rs, NEW a, NEW b, NEW content, NEW rows,
           Patching(ms, rs, a, b, content, rows),
           NEW c \in Patch(rs, content, rows), NEW t \in rows, c.id \in Ids,
           ms[t][c.id] # ms[t + 1][c.id]
    PROVE  ~ (c.version <= ms[t][c.id].version)
<1> DEFINE known == content \cup UNION {Sent(r) : r \in {rs[s] : s \in rows}}
           gone == UNION {Removed(r) : r \in {rs[s] : s \in rows}}
           i == c.id
           d == CopyOf(ms[t + 1], i)
<1>1. /\ c \in known
      /\ \A e \in known : e.id = c.id => e.version <= c.version
      /\ \A e \in gone : e.id = c.id => e.version < c.version
  BY DEF Patch, Patched
<1>2. History(ms, rs) /\ t \in 1..Len(rs)
  <2>1. Len(rs) \in Nat
    BY DEF Patching, History
  <2> QED
    BY <2>1 DEF Patching
<1>3. EditIs(rs[t], ms[t], ms[t + 1], i) /\ Raises(ms[t], ms[t + 1], i)
  BY <1>2, EditWas
<1>4. d.id = i /\ d.version = ms[t + 1][i].version
  BY DEF CopyOf
<1>5. ms[t + 1][i].live => d \in known
  <2>1. ms[t + 1][i].live => d \in Sent(rs[t])
    BY <1>3, SendsElement
  <2> QED
    BY <2>1
<1>6. ~ms[t + 1][i].live => d \in gone
  <2>1. ~ms[t + 1][i].live => d \in Removed(rs[t])
    BY <1>3, RemovesElement
  <2> QED
    BY <2>1
<1>7. c.version \in Nat
  <2>1. PICK l \in 1..(b + 1) : ms[l][c.id].live /\ c = CopyOf(ms[l], c.id)
    BY <1>1, KnownIsHistoric
  <2>2. c.version = ms[l][i].version
    BY <2>1 DEF CopyOf
  <2>3. l \in 1..Len(ms)
    BY DEF Patching, History
  <2>4. ms[l] \in [Ids -> Element]
    BY <1>2, <2>3 DEF History
  <2>5. ms[l][i] \in Element
    BY <2>4
  <2> QED
    BY <2>2, <2>5 DEF Element
<1> HIDE DEF known, gone, i, d
<1>8. d.version <= c.version \/ d.version < c.version
  BY <1>1, <1>4, <1>5, <1>6 DEF i
<1>9. ms[t][i].version \in Nat /\ ms[t + 1][i].version = ms[t][i].version + 1
  <2>1. t \in 1..Len(ms)
    BY <1>2 DEF History
  <2>2. ms[t] \in [Ids -> Element]
    BY <1>2, <2>1 DEF History
  <2> QED
    BY <1>3, <2>2 DEF Element, Raises, i
<1> QED
  BY <1>4, <1>7, <1>8, <1>9 DEF i

\* What it is to patch, part by part.
LEMMA PatchingOf ==
    ASSUME NEW ms, NEW rs, NEW a, NEW b, NEW content, NEW rows,
           Patching(ms, rs, a, b, content, rows)
    PROVE  /\ History(ms, rs)
           /\ a \in Nat /\ b \in Nat /\ a <= b /\ b <= Len(rs) /\ Len(rs) \in Nat
           /\ Len(ms) = Len(rs) + 1 /\ ms \in Seq([Ids -> Element])
           /\ rows \subseteq (a + 1)..b
           /\ ms[a + 1] \in [Ids -> Element] /\ ms[b + 1] \in [Ids -> Element]
<1>1. /\ History(ms, rs)
      /\ a \in Nat /\ b \in Nat /\ a <= b /\ b <= Len(rs)
      /\ rows \subseteq (a + 1)..b
  BY DEF Patching
<1>2. rs \in Seq(RecordType) /\ Len(ms) = Len(rs) + 1 /\ ms \in Seq([Ids -> Element])
  BY <1>1 DEF History
<1>3. Len(rs) \in Nat
  BY <1>2
<1>4. a + 1 \in 1..Len(ms) /\ b + 1 \in 1..Len(ms)
  BY <1>1, <1>2, <1>3
<1> QED
  BY <1>1, <1>2, <1>3, <1>4

\* Of some elements, either none was changed or one was changed last.
LEMMA LastEdit ==
    ASSUME NEW ms, NEW rs, NEW a, NEW b, NEW content, NEW rows,
           Patching(ms, rs, a, b, content, rows), NEW X \in SUBSET Ids
    PROVE  \/ \A i \in X : ms[a + 1][i] = ms[b + 1][i]
           \/ \E t \in (a + 1)..b : /\ t \in 1..Len(rs)
                                    /\ \E j \in X : ms[t][j] # ms[t + 1][j]
                                    /\ \A i \in X : ms[t + 1][i] = ms[b + 1][i]
<1>1. /\ LastChanges(ms) /\ a \in Nat /\ b \in Nat /\ a <= b /\ b <= Len(rs) /\ Len(rs) \in Nat
      /\ Len(ms) = Len(rs) + 1
  BY DEF Patching, History
<1>2. a + 1 \in 1..Len(ms) /\ b + 1 \in 1..Len(ms) /\ a + 1 <= b + 1
  BY <1>1
<1>3. (\E i \in X : ms[a + 1][i] # ms[b + 1][i]) =>
          \E t \in (a + 1)..((b + 1) - 1) :
              /\ \E j \in X : ms[t][j] # ms[t + 1][j]
              /\ \A i \in X : ms[t + 1][i] = ms[b + 1][i]
  BY <1>1, <1>2 DEF LastChanges
<1>4. (a + 1)..((b + 1) - 1) = (a + 1)..b /\ \A t \in (a + 1)..b : t \in 1..Len(rs)
  BY <1>1
<1> QED
  BY <1>3, <1>4

\* What keeps to a map has what belongs to the rectangle.
LEMMA KeptBefore ==
    ASSUME NEW m \in [Ids -> Element], NEW content, Keeps(content, m),
           NEW i \in Ids, i \notin Relations, Belongs(m, i), m[i].live
    PROVE  CopyOf(m, i) \in content
<1>1. CopyOf(m, i) \in Whole(m)
  BY SelectedOfMap DEF Whole
<1>2. CopyOf(m, i).id = i
  BY DEF CopyOf
<1> QED
  BY <1>1, <1>2 DEF Keeps

\* The nodes in the rectangle are kept.
LEMMA NodesAreKept ==
    ASSUME NEW ms, NEW rs, NEW a, NEW b, NEW content, NEW rows,
           Patching(ms, rs, a, b, content, rows), NEW n, In(ms[b + 1], n)
    PROVE  CopyOf(ms[b + 1], n) \in Patch(rs, content, rows)
<1>1. n \in Ids /\ n \notin Relations /\ ms[b + 1][n].live
  BY ElementsAssumption DEF In, Ids
<1>2. ms[a + 1] \in [Ids -> Element] /\ History(ms, rs)
  BY PatchingOf
<1>3. \/ \A i \in {n} : ms[a + 1][i] = ms[b + 1][i]
      \/ \E t \in (a + 1)..b : /\ t \in 1..Len(rs)
                               /\ \E j \in {n} : ms[t][j] # ms[t + 1][j]
                               /\ \A i \in {n} : ms[t + 1][i] = ms[b + 1][i]
  <2> DEFINE X == {n}
  <2>1. X \in SUBSET Ids
    BY <1>1
  <2> HIDE DEF X
  <2>2. \/ \A i \in X : ms[a + 1][i] = ms[b + 1][i]
        \/ \E t \in (a + 1)..b : /\ t \in 1..Len(rs)
                                 /\ \E j \in X : ms[t][j] # ms[t + 1][j]
                                 /\ \A i \in X : ms[t + 1][i] = ms[b + 1][i]
    BY <2>1, LastEdit
  <2> QED
    BY <2>2 DEF X
<1>4. CASE ms[a + 1][n] = ms[b + 1][n]
  <2>1. In(ms[a + 1], n) /\ CopyOf(ms[a + 1], n) = CopyOf(ms[b + 1], n) /\ ms[a + 1][n].live
    BY <1>4 DEF In, CopyOf
  <2>2. Belongs(ms[a + 1], n) /\ Keeps(content, ms[a + 1])
    BY <2>1 DEF Belongs, Patching
  <2>3. CopyOf(ms[a + 1], n) \in content
    BY <1>1, <1>2, <2>1, <2>2, KeptBefore
  <2> QED
    BY <1>1, <2>1, <2>3, CurrentIsKept
<1>5. ASSUME NEW t \in (a + 1)..b, t \in 1..Len(rs), ms[t][n] # ms[t + 1][n], ms[t + 1][n] = ms[b + 1][n]
      PROVE  CopyOf(ms[b + 1], n) \in Patch(rs, content, rows)
  <2>1. EditIs(rs[t], ms[t], ms[t + 1], n)
    BY <1>1, <1>2, <1>5, EditWas
  <2>2. In(ms[t + 1], n) /\ CopyOf(ms[t + 1], n) = CopyOf(ms[b + 1], n) /\ ms[t + 1][n].live
    BY <1>5 DEF In, CopyOf
  <2>3. rs[t].reaches
    BY <2>1, <2>2, NodeReaches
  <2>4. t \in rows
    BY <1>5, <2>3 DEF Patching
  <2>5. CopyOf(ms[b + 1], n) \in Sent(rs[t])
    BY <2>1, <2>2, SendsElement
  <2> QED
    BY <1>1, <2>4, <2>5, CurrentIsKept
<1> QED
  BY <1>3, <1>4, <1>5

\* So are the ways that have one, and the nodes of those.
LEMMA WaysAreKept ==
    ASSUME NEW ms, NEW rs, NEW a, NEW b, NEW content, NEW rows,
           Patching(ms, rs, a, b, content, rows),
           NEW w \in Ways, ms[b + 1][w].live, NEW n \in ms[b + 1][w].refs, In(ms[b + 1], n),
           NEW y, y = w \/ y \in ms[b + 1][w].refs, ms[b + 1][y].live
    PROVE  CopyOf(ms[b + 1], y) \in Patch(rs, content, rows)
<1>1. ms[a + 1] \in [Ids -> Element] /\ History(ms, rs) /\ Keeps(content, ms[a + 1])
  BY DEF Patching, History
<1>2. w \in Ids /\ n \in Ids /\ y \in Ids /\ y \notin Relations /\ n \in Nodes
      /\ (y = w \/ y \in Nodes)
  <2>1. ms[b + 1][w].refs \subseteq Nodes
    <3>1. b + 1 \in 1..Len(ms)
      BY DEF Patching, History
    <3> QED
      BY <1>1, <3>1 DEF History
  <2> QED
    BY <2>1, ElementsAssumption DEF Ids
<1> DEFINE X == {w, n, y}
<1>3. \/ \A i \in X : ms[a + 1][i] = ms[b + 1][i]
      \/ \E t \in (a + 1)..b : /\ t \in 1..Len(rs)
                               /\ \E j \in X : ms[t][j] # ms[t + 1][j]
                               /\ \A i \in X : ms[t + 1][i] = ms[b + 1][i]
  <2>1. X \in SUBSET Ids
    BY <1>2
  <2> HIDE DEF X
  <2> QED
    BY <2>1, LastEdit
<1>4. ASSUME NEW m, m[w] = ms[b + 1][w], m[n] = ms[b + 1][n], m[y] = ms[b + 1][y]
      PROVE  /\ m[w].live /\ n \in m[w].refs /\ In(m, n) /\ m[y].live
             /\ y = w \/ y \in m[w].refs
             /\ CopyOf(m, y) = CopyOf(ms[b + 1], y)
  BY <1>4 DEF In, CopyOf
<1>5. CASE \A i \in X : ms[a + 1][i] = ms[b + 1][i]
  <2>1. /\ ms[a + 1][w].live /\ n \in ms[a + 1][w].refs /\ In(ms[a + 1], n) /\ ms[a + 1][y].live
        /\ y = w \/ y \in ms[a + 1][w].refs
        /\ CopyOf(ms[a + 1], y) = CopyOf(ms[b + 1], y)
    BY <1>4, <1>5
  <2>2. Crosses(ms[a + 1], w)
    BY <2>1 DEF Crosses
  <2>3. Belongs(ms[a + 1], y)
    BY <2>1, <2>2 DEF Belongs
  <2>4. CopyOf(ms[a + 1], y) \in content
    BY <1>1, <1>2, <2>1, <2>3, KeptBefore
  <2> QED
    BY <1>2, <2>1, <2>4, CurrentIsKept
<1>6. ASSUME NEW t \in (a + 1)..b, t \in 1..Len(rs), NEW j \in X, ms[t][j] # ms[t + 1][j],
             \A i \in X : ms[t + 1][i] = ms[b + 1][i]
      PROVE  CopyOf(ms[b + 1], y) \in Patch(rs, content, rows)
  <2>1. EditIs(rs[t], ms[t], ms[t + 1], j)
    <3>1. History(ms, rs) /\ j \in Ids
      BY <1>1, <1>2
    <3> QED
      BY <1>6, <3>1, EditWas
  <2>2. /\ ms[t + 1][w].live /\ n \in ms[t + 1][w].refs /\ In(ms[t + 1], n) /\ ms[t + 1][y].live
        /\ y = w \/ y \in ms[t + 1][w].refs
        /\ CopyOf(ms[t + 1], y) = CopyOf(ms[b + 1], y)
    BY <1>4, <1>6
  <2>3. w = j \/ (ms[t + 1][w].live /\ j \in ms[t + 1][w].refs)
    BY <2>2
  <2>4. rs[t].reaches
    BY <2>1, <2>2, <2>3, WayReaches
  <2>5. t \in rows
    BY <1>6, <2>4 DEF Patching
  <2>6. CASE y = w
    <3>1. CASE j = w
      <4>1. CopyOf(ms[t + 1], w) \in Sent(rs[t])
        BY <2>1, <2>2, <3>1, SendsElement
      <4> QED
        BY <1>2, <2>2, <2>5, <2>6, <4>1, CurrentIsKept
    <3>2. CASE j # w
      <4>1. CopyOf(ms[t + 1], w) \in Sent(rs[t])
        BY <1>2, <2>1, <2>2, <2>3, <3>2, SendsHolder
      <4> QED
        BY <1>2, <2>2, <2>5, <2>6, <4>1, CurrentIsKept
    <3> QED
      BY <3>1, <3>2
  <2>7. CASE y \in ms[t + 1][w].refs /\ y # w
    <3>1. y \in Nodes
      BY <1>2, <2>7
    <3>2. CopyOf(ms[t + 1], y) \in Sent(rs[t])
      BY <2>1, <2>2, <2>3, <2>7, <3>1, SendsNode
    <3> QED
      BY <1>2, <2>2, <2>5, <3>2, CurrentIsKept
  <2> QED
    BY <2>2, <2>6, <2>7
<1> QED
  BY <1>3, <1>5, <1>6

\* An element known as it was at a record, that no later record applied is of, and that
\* has left the rectangle or changed in it, would have been in one.
LEMMA FirstEdit ==
    ASSUME NEW ms, NEW rs, History(ms, rs), NEW k \in 1..Len(ms), NEW l \in 1..Len(ms), k <= l,
           NEW i \in Ids, ms[k][i] # ms[l][i]
    PROVE  \E t \in k..(l - 1) : /\ t \in 1..Len(rs)
                                 /\ ms[t][i] # ms[t + 1][i] /\ ms[t][i] = ms[k][i]
                                 /\ In(ms[k], i) => rs[t].reaches
<1>1. PICK t \in k..(l - 1) : ms[t][i] # ms[t + 1][i] /\ ms[t][i] = ms[k][i]
  BY DEF History, FirstChanges
<1>2. t \in 1..Len(rs)
  <2>1. Len(ms) = Len(rs) + 1 /\ Len(rs) \in Nat
    BY DEF History
  <2> QED
    BY <2>1
<1>3. EditIs(rs[t], ms[t], ms[t + 1], i)
  BY <1>1, <1>2, EditWas
<1>4. In(ms[k], i) => In(ms[t], i)
  BY <1>1 DEF In
<1>5. In(ms[t], i) => rs[t].reaches
  BY <1>3, NodeReaches
<1> QED
  BY <1>1, <1>2, <1>4, <1>5

\* What a patch keeps is what the last map has, where records tell of every change.
LEMMA KeptIsCurrent ==
    ASSUME NEW ms, NEW rs, NEW a, NEW b, NEW content, NEW rows,
           Patching(ms, rs, a, b, content, rows),
           NEW c \in Patch(rs, content, rows), NEW k \in (a + 1)..(b + 1), c.id \in Ids,
           c = CopyOf(ms[k], c.id),
           In(ms[k], c.id) \/ rows = (a + 1)..b
    PROVE  ms[k][c.id] = ms[b + 1][c.id]
<1> SUFFICES ASSUME ms[k][c.id] # ms[b + 1][c.id] PROVE FALSE
  OBVIOUS
<1>1. /\ History(ms, rs) /\ a \in Nat /\ b \in Nat /\ a <= b /\ b <= Len(rs) /\ Len(rs) \in Nat
      /\ Len(ms) = Len(rs) + 1 /\ ms \in Seq([Ids -> Element])
  BY PatchingOf
<1>2. k \in 1..Len(ms) /\ b + 1 \in 1..Len(ms) /\ k <= b + 1
  BY <1>1
<1>3. PICK t \in k..((b + 1) - 1) :
          /\ t \in 1..Len(rs)
          /\ ms[t][c.id] # ms[t + 1][c.id] /\ ms[t][c.id] = ms[k][c.id]
          /\ In(ms[k], c.id) => rs[t].reaches
  <2> DEFINE i == c.id
             l == b + 1
  <2>1. /\ History(ms, rs) /\ k \in 1..Len(ms) /\ l \in 1..Len(ms) /\ k <= l
        /\ i \in Ids /\ ms[k][i] # ms[l][i]
    BY <1>1, <1>2
  <2> HIDE DEF i, l
  <2>2. \E t \in k..(l - 1) :
            /\ t \in 1..Len(rs)
            /\ ms[t][i] # ms[t + 1][i] /\ ms[t][i] = ms[k][i]
            /\ In(ms[k], i) => rs[t].reaches
    BY <2>1, FirstEdit
  <2> QED
    BY <2>2 DEF i, l
<1>4. t \in (a + 1)..b
  BY <1>1, <1>2
<1>5. t \in rows
  BY <1>3, <1>4 DEF Patching
<1>6. ~ (c.version <= ms[t][c.id].version)
  BY <1>3, <1>5, KeptIsNew
<1>7. c.version = ms[k][c.id].version
  BY DEF CopyOf
<1>8. ms[k][c.id].version \in Nat
  <2>1. ms[k] \in [Ids -> Element]
    BY <1>1, <1>2
  <2> QED
    BY <2>1 DEF Element
<1> QED
  BY <1>3, <1>6, <1>7, <1>8

\* What a patch has that was not there before was a copy of one of the maps since.
LEMMA KeptWasSent ==
    ASSUME NEW ms, NEW rs, NEW a, NEW b, NEW content, NEW rows,
           Patching(ms, rs, a, b, content, rows),
           NEW c \in Patch(rs, content, rows), c \notin content
    PROVE  \E k \in (a + 1)..(b + 1) : c.id \in Ids /\ ms[k][c.id].live /\ c = CopyOf(ms[k], c.id)
<1>1. PICK t \in rows : c \in Sent(rs[t])
  BY DEF Patch, Patched
<1>2. /\ History(ms, rs) /\ a \in Nat /\ b \in Nat /\ a <= b /\ b <= Len(rs) /\ Len(rs) \in Nat
      /\ rows \subseteq (a + 1)..b
  BY PatchingOf
<1>3. t \in 1..Len(rs) /\ t + 1 \in (a + 1)..(b + 1)
  BY <1>2
<1>4. Says(rs[t], ms[t], ms[t + 1])
  BY <1>2, <1>3 DEF History
<1>5. c.id \in Ids /\ ms[t + 1][c.id].live /\ c = CopyOf(ms[t + 1], c.id)
  BY <1>1, <1>4, RecordSendsCopies
<1> QED
  BY <1>3, <1>5

\* The nodes that a map has in the rectangle.
LEMMA InsideAre ==
    ASSUME NEW m, NEW c
    PROVE  c \in Inside(Whole(m)) <=> c.id \in Ids /\ c = CopyOf(m, c.id) /\ In(m, c.id)
<1>1. ASSUME c \in Inside(Whole(m)) PROVE c.id \in Ids /\ c = CopyOf(m, c.id) /\ In(m, c.id)
  <2>1. c \in Whole(m) /\ c.id \in Nodes /\ c.at = "in"
    BY <1>1 DEF Inside
  <2>2. c.id \in Ids /\ m[c.id].live /\ c = CopyOf(m, c.id)
    BY <2>1, SelectedAreCopies DEF Whole
  <2>3. c.at = m[c.id].at
    BY <2>2 DEF CopyOf
  <2> QED
    BY <2>1, <2>2, <2>3 DEF In
<1>2. ASSUME c.id \in Ids, c = CopyOf(m, c.id), In(m, c.id) PROVE c \in Inside(Whole(m))
  <2>1. c \in Copies(m, Ids) /\ c.id \in Nodes /\ c.at = "in"
    BY <1>2 DEF Copies, CopyOf, In
  <2>2. Held(Copies(m, Ids), c.id)
    BY <2>1 DEF Held
  <2>3. c \in Whole(m)
    BY <2>1, <2>2, SelectIsHeld DEF Whole
  <2> QED
    BY <2>1, <2>3 DEF Inside
<1> QED
  BY <1>1, <1>2

\* A node that a patch has in the rectangle is as it last was, and there.
LEMMA InsideIsCurrent ==
    ASSUME NEW ms, NEW rs, NEW a, NEW b, NEW content, NEW rows,
           Patching(ms, rs, a, b, content, rows),
           NEW c \in Patch(rs, content, rows), c.id \in Nodes, c.at = "in"
    PROVE  c.id \in Ids /\ c = CopyOf(ms[b + 1], c.id) /\ In(ms[b + 1], c.id)
<1>1. a + 1 \in (a + 1)..(b + 1)
  BY DEF Patching
<1>2. PICK k \in (a + 1)..(b + 1) : c.id \in Ids /\ c = CopyOf(ms[k], c.id) /\ In(ms[k], c.id)
  <2>1. CASE c \in content
    <3>1. c \in Inside(content) /\ Keeps(content, ms[a + 1])
      BY <2>1 DEF Inside, Patching
    <3>2. c \in Inside(Whole(ms[a + 1]))
      BY <3>1 DEF Keeps
    <3>3. c.id \in Ids /\ c = CopyOf(ms[a + 1], c.id) /\ In(ms[a + 1], c.id)
      BY <3>2, InsideAre
    <3> QED
      BY <1>1, <3>3
  <2>2. CASE c \notin content
    <3>1. PICK k \in (a + 1)..(b + 1) :
              c.id \in Ids /\ ms[k][c.id].live /\ c = CopyOf(ms[k], c.id)
      BY <2>2, KeptWasSent
    <3>2. c.at = ms[k][c.id].at
      BY <3>1 DEF CopyOf
    <3> QED
      BY <3>1, <3>2 DEF In
  <2> QED
    BY <2>1, <2>2
<1>3. ms[k][c.id] = ms[b + 1][c.id]
  BY <1>2, KeptIsCurrent
<1> QED
  BY <1>2, <1>3 DEF CopyOf, In

\* What belongs to the rectangle after a patch is known to it, and is selected.
LEMMA BelongingIsKept ==
    ASSUME NEW ms, NEW rs, NEW a, NEW b, NEW content, NEW rows,
           Patching(ms, rs, a, b, content, rows), NEW x, Belongs(ms[b + 1], x)
    PROVE  /\ Held(Patch(rs, content, rows), x)
           /\ ms[b + 1][x].live => CopyOf(ms[b + 1], x) \in Patch(rs, content, rows)
<1> DEFINE m == ms[b + 1]
           P == Patch(rs, content, rows)
<1>0. \A i : CopyOf(m, i).id = i /\ CopyOf(m, i).at = m[i].at /\ CopyOf(m, i).refs = m[i].refs
  BY DEF CopyOf
<1>1. CASE In(m, x)
  <2>1. CopyOf(m, x) \in P
    BY <1>1, NodesAreKept
  <2> HIDE DEF P
  <2>2. Held(P, x)
    BY <1>0, <1>1, <2>1 DEF Held, In
  <2> QED
    BY <2>1, <2>2 DEF P
<1>2. ASSUME NEW w \in Ways, Crosses(m, w), x = w \/ x \in m[w].refs
      PROVE  Held(P, x) /\ (m[x].live => CopyOf(m, x) \in P)
  <2>1. PICK n \in m[w].refs : In(m, n)
    BY <1>2 DEF Crosses
  <2>2. m[w].live
    BY <1>2 DEF Crosses
  <2>3. CopyOf(m, w) \in P
    BY <2>1, <2>2, WaysAreKept
  <2>4. CopyOf(m, n) \in P
    BY <2>1, NodesAreKept
  <2>5. m[x].live => CopyOf(m, x) \in P
    BY <1>2, <2>1, <2>2, WaysAreKept
  <2>6. n \in Nodes /\ m[n].at = "in"
    BY <2>1 DEF In
  <2> HIDE DEF P, m
  <2>7. /\ CopyOf(m, w).id = w /\ CopyOf(m, w).refs = m[w].refs
        /\ CopyOf(m, n).id = n /\ CopyOf(m, n).at = m[n].at
    BY <1>0
  <2>8. Held(P, x)
    BY <1>2, <2>1, <2>3, <2>4, <2>6, <2>7 DEF Held
  <2> QED
    BY <2>5, <2>8
<1>3. CASE Crosses(m, x)
  <2>1. x \in Ways
    BY <1>3 DEF Crosses
  <2> QED
    BY <1>2, <1>3, <2>1
<1> QED
  BY <1>1, <1>2, <1>3 DEF Belongs

\* A patch of an extract that had what belongs to it, with all records that reach the
\* rectangle, has what belongs to it after them.
LEMMA PatchKeeps ==
    ASSUME NEW ms, NEW rs, NEW a, NEW b, NEW content, NEW rows,
           Patching(ms, rs, a, b, content, rows)
    PROVE  /\ Historic(Select(Patch(rs, content, rows)), ms, b + 1)
           /\ Keeps(Select(Patch(rs, content, rows)), ms[b + 1])
<1> DEFINE m == ms[b + 1]
           P == Patch(rs, content, rows)
<1>1. Historic(Select(P), ms, b + 1)
  <2>1. ASSUME NEW c \in P
        PROVE  \E l \in 1..(b + 1) : c.id \in Ids /\ ms[l][c.id].live /\ c = CopyOf(ms[l], c.id)
    <3>1. c \in content \cup UNION {Sent(r) : r \in {rs[t] : t \in rows}}
      BY DEF Patch, Patched
    <3> QED
      BY <3>1, KnownIsHistoric
  <2>2. Select(P) \subseteq P
    BY SelectIsHeld
  <2> HIDE DEF P
  <2> QED
    BY <2>1, <2>2 DEF Historic
<1>2. m \in [Ids -> Element]
  BY PatchingOf
<1>3. ASSUME NEW c \in Whole(m), c.id \notin Relations PROVE c \in Select(P)
  <2>1. c.id \in Ids /\ m[c.id].live /\ c = CopyOf(m, c.id)
    BY SelectedAreCopies DEF Whole
  <2>2. Belongs(m, c.id)
    <3>1. CopyOf(m, c.id) \in Select(Copies(m, Ids))
      BY <2>1 DEF Whole
    <3> QED
      BY <1>2, <1>3, <2>1, <3>1, SelectedOfMap
  <2>3. Held(P, c.id) /\ CopyOf(m, c.id) \in P
    BY <2>1, <2>2, BelongingIsKept
  <2> HIDE DEF P
  <2> QED
    BY <2>1, <2>3, SelectIsHeld
<1>4. ASSUME NEW c \in Inside(Select(P)) PROVE c \in Inside(Whole(m))
  <2>1. c \in P /\ c.id \in Nodes /\ c.at = "in"
    BY SelectIsHeld DEF Inside
  <2>2. c.id \in Ids /\ c = CopyOf(m, c.id) /\ In(m, c.id)
    BY <2>1, InsideIsCurrent
  <2> QED
    BY <2>2, InsideAre
<1>5. ASSUME NEW c \in Inside(Whole(m)) PROVE c \in Inside(Select(P))
  <2>1. c \in Whole(m) /\ c.id \in Nodes /\ c.at = "in"
    BY DEF Inside
  <2>2. c.id \notin Relations
    BY <2>1, ElementsAssumption
  <2>3. c \in Select(P)
    BY <1>3, <2>1, <2>2
  <2> HIDE DEF P
  <2> QED
    BY <2>1, <2>3 DEF Inside
<1> HIDE DEF P, m
<1>6. Keeps(Select(P), m)
  BY <1>3, <1>4, <1>5 DEF Keeps
<1> QED
  BY <1>1, <1>6 DEF P, m

\* It has what it had, if no record reached it.
LEMMA UnpatchedKeeps ==
    ASSUME NEW ms, NEW rs, NEW a, NEW b, NEW content,
           Patching(ms, rs, a, b, content, {})
    PROVE  Keeps(content, ms[b + 1])
<1> DEFINE m == ms[b + 1]
           P == Patch(rs, content, {})
<1>1. P \subseteq content
  BY DEF Patch, Patched
<1>2. Select(P) \subseteq content
  BY <1>1, SelectIsHeld
<1>3. Keeps(Select(P), m)
  BY PatchKeeps
<1>4. ASSUME NEW c \in Inside(content) PROVE c \in Inside(Whole(m))
  <2>1. c \in Inside(Whole(ms[a + 1]))
    BY DEF Patching, Keeps
  <2>2. c.id \in Ids /\ c = CopyOf(ms[a + 1], c.id) /\ In(ms[a + 1], c.id)
    BY <2>1, InsideAre
  <2>3. CASE ms[a + 1][c.id] = m[c.id]
    <3>1. c = CopyOf(m, c.id) /\ In(m, c.id)
      BY <2>2, <2>3 DEF CopyOf, In
    <3> QED
      BY <2>2, <3>1, InsideAre
  <2>4. CASE ms[a + 1][c.id] # m[c.id]
    <3>1. /\ History(ms, rs) /\ a \in Nat /\ b \in Nat /\ a <= b /\ b <= Len(rs) /\ Len(rs) \in Nat
          /\ Len(ms) = Len(rs) + 1
      BY PatchingOf
    <3>2. a + 1 \in 1..Len(ms) /\ b + 1 \in 1..Len(ms) /\ a + 1 <= b + 1
      BY <3>1
    <3>3. PICK t \in (a + 1)..((b + 1) - 1) : In(ms[a + 1], c.id) => rs[t].reaches
      BY <2>2, <2>4, <3>1, <3>2, FirstEdit
    <3>4. t \in (a + 1)..b
      BY <3>1
    <3> QED
      BY <2>2, <3>3, <3>4 DEF Patching
  <2> QED
    BY <2>3, <2>4
<1> HIDE DEF P, m
<1>5. Inside(Select(P)) \subseteq Inside(content)
  BY <1>2 DEF Inside
<1>6. Keeps(content, m)
  BY <1>2, <1>3, <1>4, <1>5 DEF Keeps
<1> QED
  BY <1>6 DEF m

\* Without the filter, a patch of what is selected from the source is what is selected from
\* it later, if the records tell of relations too.
PatchingAll(ms, rs, a, b, content, rows) ==
    /\ Patching(ms, rs, a, b, content, rows)
    /\ content = Whole(ms[a + 1])
    /\ rows = (a + 1)..b
    /\ \A t \in rows : rs[t].recorded

\* A patch with all the records since is the selection of the map as it last was.
LEMMA PatchIsWhole ==
    ASSUME NEW ms, NEW rs, NEW a, NEW b, NEW content, NEW rows,
           PatchingAll(ms, rs, a, b, content, rows)
    PROVE  Select(Patch(rs, content, rows)) = Whole(ms[b + 1])
<1> DEFINE m == ms[b + 1]
           P == Patch(rs, content, rows)
<1> USE DEF PatchingAll
<1>0. /\ History(ms, rs) /\ a \in Nat /\ b \in Nat /\ a <= b /\ b <= Len(rs) /\ Len(rs) \in Nat
      /\ Len(ms) = Len(rs) + 1 /\ ms[a + 1] \in [Ids -> Element] /\ m \in [Ids -> Element]
  BY PatchingOf
<1>1. ASSUME NEW c \in P PROVE c \in Copies(m, Ids)
  <2>1. PICK k \in (a + 1)..(b + 1) : c.id \in Ids /\ ms[k][c.id].live /\ c = CopyOf(ms[k], c.id)
    <3>1. CASE c \in content
      <4>1. a + 1 \in (a + 1)..(b + 1)
        BY <1>0
      <4>2. c.id \in Ids /\ ms[a + 1][c.id].live /\ c = CopyOf(ms[a + 1], c.id)
        BY <3>1, SelectedAreCopies DEF Whole
      <4> QED
        BY <4>1, <4>2
    <3>2. CASE c \notin content
      BY <3>2, KeptWasSent
    <3> QED
      BY <3>1, <3>2
  <2>2. ms[k][c.id] = m[c.id]
    BY <2>1, KeptIsCurrent
  <2> QED
    BY <2>1, <2>2 DEF Copies, CopyOf
<1>2. ASSUME NEW z \in Relations, m[z].live, NEW x \in m[z].refs, Belongs(m, x)
      PROVE  CopyOf(m, z) \in P
  <2>1. z \in Ids /\ x \in Ids
    <3>1. z \in Ids
      BY DEF Ids
    <3> QED
      BY <1>0, <3>1 DEF Element
  <2>2. ASSUME NEW w \in Ids, NEW n \in Ids,
               \/ w = x /\ n = x /\ In(m, x)
               \/ /\ Crosses(m, w) /\ n \in m[w].refs /\ In(m, n)
                  /\ x = w \/ x \in m[w].refs
        PROVE  CopyOf(m, z) \in P
    <3> DEFINE X == {z, x, w, n}
    <3>1. \/ \A i \in X : ms[a + 1][i] = ms[b + 1][i]
          \/ \E t \in (a + 1)..b : /\ t \in 1..Len(rs)
                                   /\ \E j \in X : ms[t][j] # ms[t + 1][j]
                                   /\ \A i \in X : ms[t + 1][i] = ms[b + 1][i]
      <4>1. X \in SUBSET Ids
        BY <2>1
      <4> HIDE DEF X
      <4> QED
        BY <4>1, LastEdit
    <3>2. ASSUME NEW o, o[z] = m[z], o[x] = m[x], o[w] = m[w], o[n] = m[n]
          PROVE  /\ o[z].live /\ x \in o[z].refs /\ CopyOf(o, z) = CopyOf(m, z)
                 /\ \/ w = x /\ n = x /\ In(o, x)
                    \/ /\ Crosses(o, w) /\ n \in o[w].refs /\ In(o, n)
                       /\ x = w \/ x \in o[w].refs
      BY <1>2, <2>2, <3>2 DEF In, Crosses, CopyOf
    <3>3. CASE \A i \in X : ms[a + 1][i] = ms[b + 1][i]
      <4> DEFINE o == ms[a + 1]
      <4>1. /\ o[z].live /\ x \in o[z].refs /\ CopyOf(o, z) = CopyOf(m, z)
            /\ \/ w = x /\ n = x /\ In(o, x)
               \/ /\ Crosses(o, w) /\ n \in o[w].refs /\ In(o, n)
                  /\ x = w \/ x \in o[w].refs
        BY <3>2, <3>3
      <4>2. Belongs(o, x)
        BY <4>1 DEF Belongs, Crosses
      <4>3. CopyOf(o, z) \in Select(Copies(o, Ids))
        BY <1>0, <2>1, <4>1, <4>2, SelectedOfMap
      <4>4. CopyOf(m, z) \in content
        BY <4>1, <4>3 DEF Whole
      <4> QED
        BY <1>2, <2>1, <4>4, CurrentIsKept
    <3>4. ASSUME NEW t \in (a + 1)..b, t \in 1..Len(rs), NEW j \in X, ms[t][j] # ms[t + 1][j],
                 \A i \in X : ms[t + 1][i] = ms[b + 1][i]
          PROVE  CopyOf(m, z) \in P
      <4> DEFINE o == ms[t + 1]
      <4>1. /\ o[z].live /\ x \in o[z].refs /\ CopyOf(o, z) = CopyOf(m, z)
            /\ \/ w = x /\ n = x /\ In(o, x)
               \/ /\ Crosses(o, w) /\ n \in o[w].refs /\ In(o, n)
                  /\ x = w \/ x \in o[w].refs
        BY <3>2, <3>4
      <4>2. EditIs(rs[t], ms[t], o, j)
        <5>1. j \in Ids
          BY <2>1
        <5> QED
          BY <1>0, <3>4, <5>1, EditWas
      <4>3. t \in rows /\ rs[t].recorded
        BY <3>4
      <4> HIDE DEF P, m
      <4>4. CopyOf(o, z) \in Sent(rs[t])
        <5> HIDE DEF o
        <5>1. CASE j = z
          BY <4>1, <4>2, <5>1, SendsElement
        <5>2. CASE j = x
          BY <2>1, <4>1, <4>2, <5>2, SendsHolder
        <5>3. CASE Crosses(o, w) /\ n \in o[w].refs /\ x = w /\ j = n
          <6>1. o[w].live
            BY <5>3 DEF Crosses
          <6> QED
            BY <2>1, <4>1, <4>2, <5>3, <6>1, SendsHolderOfHolder
        <5>4. CASE Crosses(o, w) /\ n \in o[w].refs /\ x \in o[w].refs /\ (j = w \/ j = n)
          <6>1. w \in Ways /\ (w = j \/ (o[w].live /\ j \in o[w].refs))
            BY <5>4 DEF Crosses
          <6>2. x \in Nodes
            <7>1. t + 1 \in 1..Len(ms)
              BY <1>0, <3>4
            <7>2. o[w].refs \subseteq Nodes
              BY <1>0, <6>1, <7>1 DEF History, o
            <7> QED
              BY <5>4, <7>2
          <6> QED
            BY <4>1, <4>2, <4>3, <5>4, <6>1, <6>2, SendsHolderOfNode
        <5> QED
          BY <4>1, <5>1, <5>2, <5>3, <5>4
      <4> HIDE DEF o
      <4>5. CopyOf(m, z) \in Sent(rs[t])
        BY <4>1, <4>4
      <4> QED
        BY <1>2, <2>1, <4>3, <4>5, CurrentIsKept DEF P, m
    <3> QED
      BY <3>1, <3>3, <3>4
  <2>3. CASE In(m, x)
    BY <2>1, <2>2, <2>3
  <2>4. ASSUME NEW w \in Ways, Crosses(m, w), x = w \/ x \in m[w].refs PROVE CopyOf(m, z) \in P
    <3>1. PICK n \in m[w].refs : In(m, n)
      BY <2>4 DEF Crosses
    <3>2. w \in Ids /\ n \in Ids
      BY <3>1 DEF In, Ids
    <3> QED
      BY <2>2, <2>4, <3>1, <3>2
  <2>5. CASE Crosses(m, x)
    <3>1. x \in Ways
      BY <2>5 DEF Crosses
    <3> QED
      BY <2>4, <2>5, <3>1
  <2> QED
    BY <1>2, <2>3, <2>4, <2>5 DEF Belongs
<1>3. ASSUME NEW c \in Whole(m) PROVE c \in P
  <2>1. c.id \in Ids /\ m[c.id].live /\ c = CopyOf(m, c.id)
    BY SelectedAreCopies DEF Whole
  <2>2. Belongs(m, c.id) \/ (c.id \in Relations /\ \E x \in m[c.id].refs : Belongs(m, x))
    <3>1. CopyOf(m, c.id) \in Select(Copies(m, Ids))
      BY <2>1 DEF Whole
    <3> QED
      BY <1>0, <2>1, <3>1, SelectedOfMap
  <2>3. CASE Belongs(m, c.id)
    <3>1. CopyOf(m, c.id) \in P
      BY <2>1, <2>3, BelongingIsKept
    <3> QED
      BY <2>1, <3>1
  <2>4. CASE c.id \in Relations /\ \E x \in m[c.id].refs : Belongs(m, x)
    <3>1. CopyOf(m, c.id) \in P
      BY <1>2, <2>1, <2>4
    <3> QED
      BY <2>1, <3>1
  <2> QED
    BY <2>2, <2>3, <2>4
<1> HIDE DEF P, m
<1>4. Select(P) = Select(Copies(m, Ids))
  BY <1>1, <1>3, SelectsTheSame DEF Whole
<1> QED
  BY <1>4 DEF P, m, Whole

=============================================================================
