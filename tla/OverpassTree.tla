---------------------------- MODULE OverpassTree ----------------------------
(***************************************************************************)
(* The statements of an Overpass query as a tree of records, which the     *)
(* parser makes and the evaluator runs.  What may be left out of one is    *)
(* an empty sequence, or of names, None.  Positions are integers and a box *)
(* is an interval, of two numbers for the four of the code; dates are      *)
(* numbers.                                                                *)
(***************************************************************************)
EXTENDS Integers, Sequences, FiniteSets

CONSTANTS
    Words, Numbers, Quoted,  \* the tokens of a text: a name is a word, a role a word or quoted
    Lowest, Highest          \* the coordinates there are

ASSUME TreeAssumption == Lowest \in Int /\ Highest \in Int

DefaultSet == "_"
None == "none"

Types == {"node", "way", "relation"}
Coordinates == Lowest..Highest
Boxes == {b \in Coordinates \X Coordinates : b[1] <= b[2]}
TextValues == Words \cup Numbers \cup Quoted
SetNames == Words \cup {DefaultSet}

HasKvs ==
    [is : {"has"}, mode : {"exists", "not_exists", "equals", "not_equals", "matches", "not_matches"},
     key : TextValues, value : TextValues \cup {None}, ignoreCase : BOOLEAN]
BboxQueries == [is : {"bbox"}, box : Boxes]
IdQueries == [is : {"id"}, ids : Seq(Nat)]
ItemFilters == [is : {"item"}, set : SetNames]
RecurseFilters ==
    [is : {"recurse"}, type : {"w", "r", "bn", "bw", "br"}, set : SetNames, role : Words \cup Quoted \cup {None}]
Arounds == [is : {"around"}, radius : Nat, set : SetNames \cup {None}, at : {<<>>} \cup {<<p>> : p \in Coordinates}]
Users == [is : {"user"}, uids : Seq(Nat), names : Seq(TextValues)]
Newers == [is : {"newer"}, than : Nat]
Changeds == [is : {"changed"}, since : Nat, until : Seq(Nat)]

Filters ==
    HasKvs \cup BboxQueries \cup IdQueries \cup ItemFilters \cup RecurseFilters \cup Arounds \cup Users
        \cup Newers \cup Changeds

Queries == [is : {"query"}, types : SUBSET Types, filters : Seq(Filters), into : SetNames]
Items == [is : {"set"}, set : SetNames, into : SetNames \cup {None}]
Recurses ==
    [is : {"down"}, type : {"down", "down-rel", "up", "up-rel"}, from : SetNames, into : SetNames]
Prints ==
    [is : {"print"}, from : SetNames, mode : {"ids", "skel", "body", "tags", "meta", "count"},
     geometry : {None, "geom", "bb", "center"}, order : {"asc", "qt"}, limit : Seq(Nat)]
=============================================================================
