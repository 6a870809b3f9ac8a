----------------------------- MODULE MCOverpass -----------------------------
(***************************************************************************)
(* Small instances of OverpassEvaluator for TLC: queries that use every    *)
(* statement and filter over maps of three nodes, two ways and three       *)
(* relations that may hold each other, and the same texts with one token   *)
(* put in, left out or replaced, for the parser.                           *)
(***************************************************************************)
EXTENDS OverpassEvaluator

MCWords ==
    {"node", "way", "rel", "nwr", "nw", "nr", "wr", "out", "geom", "ids", "bb", "meta", "skel",
     "tags", "center", "body", "asc", "qt", "id", "around", "user", "newer", "uid", "changed",
     "w", "r", "bn", "bw", "br", "a", "x", "k", "i", "csv", "count", "nodes", "false", "timeout",
     "bbox", "json", "xml", "maxsize", "_", "foreach", "is_in"}

MCNumbers == {"0", "1", "2", "3", "4", "5", "6", "7", "8"}
MCValue ==
    ("0" :> 0) @@ ("1" :> 1) @@ ("2" :> 2) @@ ("3" :> 3) @@ ("4" :> 4)
        @@ ("5" :> 5) @@ ("6" :> 6) @@ ("7" :> 7) @@ ("8" :> 8)

\* Element 5 was edited before the account "a" got that name.
MCAccounts == ("a" :> 1) @@ ("x" :> 2)

Texts ==
    { <<"node", "[", "k", "]", "(", "0", ",", "1", ")", ";", "out", "geom", ";">>,
      <<"nwr", "(", "0", ",", "1", ")", "-", ">", ".", "a", ";", ".", "a", "out", "ids", ";", ".", "a",
          "out", "count", ";">>,
      <<"way", "[", "k", "]", "(", "0", ",", "0", ")", "-", ">", ".", "a", ";", "rel", "(", "around", ":",
          "1", ",", "1", ")", "(", "0", ",", "0", ")", "[", "k", "=", "'v'", "]", ";", "out", "bb", "2",
          ";">>,
      <<"wr", "[", "k", "]", "(", "around", ":", "0", ",", "1", ")", ";", "wr", "[", "k", "]", "(",
          "around", ":", "0", ",", "2", ")", "-", ">", ".", "a", ";", ".", "a", "out", "geom", ";">>,
      <<"(", "rel", "(", "6", ")", ";", ">", ">", ";", ")", ";", "out", ";">>,
      <<"rel", "(", "id", ":", "6", ",", "7", ")", ";", "<", "<", ";", "out", "meta", ";", ".", "_", ">",
          "-", ">", ".", "a", ";", ".", "a", "out", "center", ";">>,
      <<"(", "way", "[", "!", "k", "]", "(", "0", ",", "2", ")", ";", "-", "way", "(", "w", ")", "(", "1",
          ")", ";", ")", "-", ">", ".", "a", ";", "(", ".", "a", ";", ".", "a", ">", ";", ")", ";", "out",
          "skel", "qt", ";">>,
      <<"node", "(", "1", ")", ";", "(", ".", "_", ";", "<", ";", ")", "-", ">", ".", "a", ";", "rel", "(",
          "bn", ".", "a", ":", "x", ")", ";", "out", "tags", ";">>,
      <<"rel", "(", "7", ")", "-", ">", ".", "a", ";", "nwr", "(", "r", ".", "a", ":", "x", ")", "-", ">",
          ".", "a", ";", "node", ".", "a", "(", "0", ",", "2", ")", ";", "out", ";">>,
      <<"way", "(", "4", ")", "-", ">", ".", "a", ";", "node", "(", "w", ".", "a", ")", "(", "around", ".",
          "a", ":", "1", ")", ";", "out", ";">>,
      <<"rel", "(", "6", ")", "-", ">", ".", "a", ";", "nwr", "(", "around", ".", "a", ":", "0", ")", "[",
          "k", "~", "'v'", ",", "i", "]", ";", "out", ";">>,
      <<"[", "bbox", "]", "[", "out", ":", "json", "]", "[", "timeout", ":", "5", "]", ";", "wr", ";",
          "out", "1", "geom", ";">>,
      <<"[", "bbox", ":", "0", ",", "1", "]", ";", "nwr", "(", "user", ":", "x", ")", "(", "newer", ":",
          "0", ")", "[", "k", "]", ";", "out", ";">>,
      <<"node", "(", "3", ")", ";", "way", "(", "bn", ")", ";", "rel", "(", "bw", ")", ";", "rel", "(",
          "br", ")", ";", "out", ";">>,
      <<"node", "(", "user", ":", "x", ")", "(", "user", ":", "a", ")", "[", "k", "]", ";", "out", ";">>,
      <<"way", "[", "k", "!", "=", "'v'", "]", ";", "out", ";">>,
      <<"node", "(", "0", ",", "2", ")", "-", ">", ".", "a", ";", "way", "(", "around", ".", "a", ":", "1",
          ")", ";", "out", ";">>,
      <<"[", "out", ":", "csv", "(", ":", ":", "id", ",", "k", ",", ":", ":", "count", ":", "nodes", ";",
          "false", ";", "'v'", ")", "]", ";", "nr", "[", "k", "]", "(", "changed", ":", "1", ")", ";",
          "out", ";">>,
      <<"wr", "(", "uid", ":", "1", ",", "2", ")", "(", "changed", ":", "0", ",", "0", ")", "[", "k", "]",
          ";", "out", ";">>,
      <<"nwr", "(", "user", ":", "a", ")", "[", "k", "]", ";", "out", ";">>,
      <<"rel", "(", "6", ")", "-", ">", ".", "a", ";", "node", "(", "around", ".", "a", ":", "1", ",",
          "1", ")", ";", "out", ";">> }

Punctuation == {"(", ")", "[", "]", ";", ".", ",", ":", "-", ">", "<", "!", "=", "~"}

Tokens == Punctuation \cup {"node", "out", "ids", "count", "i", "a", "0"}

\* A text with one token too many, too few or another.
Edited ==
    UNION {{InsertAt(t, i, token) : i \in 1..Len(t), token \in Tokens}
           \cup {RemoveAt(t, i) : i \in 1..Len(t)}
           \cup {[t EXCEPT ![i] = token] : i \in 1..Len(t), token \in Tokens} : t \in Texts}

Members(refs) == {[ref |-> r, role |-> IF r \in {1, 6} THEN "x" ELSE "a"] : r \in refs}

\* Two relations that may hold each other, and one that holds one of them.
Maps ==
    {[there |-> there,
      place |-> [n \in Nodes |-> IF n = 1 THEN first ELSE IF n = 2 THEN 1 ELSE 2],
      tagged |-> tagged,
      user |-> [e \in All |-> IF e % 2 = 0 THEN "x" ELSE IF e = 5 THEN "y" ELSE "a"],
      uid |-> [e \in All |-> IF e % 2 = 0 THEN 2 ELSE 1],
      time |-> [e \in All |-> IF e < 6 THEN 1 ELSE 0],
      refs |-> [w \in Ways |-> IF w = 4 THEN {1, 3} ELSE {2, 3}],
      members |-> [r \in Relations |-> Members(IF r = 6 THEN six ELSE IF r = 7 THEN seven ELSE {6})]] :
        there \in {All, All \ {3}, All \ {5}},
        first \in {0, 1},
        tagged \in {All, {2, 4, 6}, {2, 4, 8}},
        six \in {{7}, {2, 7}, {4, 6}},
        seven \in {{1, 6}, {5}, {4, 5}}}

Settings(maximum, area_, tagFirst, regionFirst, boxes) ==
    [maximum |-> maximum, area |-> area_, tagFirst |-> tagFirst, regionFirst |-> regionFirst,
     boxes |-> boxes, factor |-> 2, positions |-> 2]

\* Searches of every kind, and limits that are met and that are not.
Limits ==
    {Settings(8, 2, 2, 0, FALSE), Settings(8, 2, 1, 0, FALSE), Settings(8, 0, 7, 2, FALSE),
     Settings(8, 2, 2, 2, TRUE), Settings(8, 2, 0, 2, FALSE), Settings(2, 2, 1, 1, FALSE),
     Settings(3, 1, 2, 1, TRUE)}

MCWorlds(asked) ==
    IF asked.edited
    THEN {[map |-> CHOOSE m \in Maps : TRUE, limits |-> Settings(8, 2, 1, 1, FALSE)]}
    ELSE {[map |-> m, limits |-> l] : m \in Maps, l \in Limits}

MCRequests ==
    {[by |-> "interpreter", text |-> t, bbox |-> <<0, 1>>, edited |-> FALSE] : t \in Texts}
        \cup {[by |-> "interpreter", text |-> t, bbox |-> <<>>, edited |-> TRUE] : t \in Edited}
        \cup {[by |-> "xapi", text |-> <<>>, types |-> types, filters |-> filters, edited |-> FALSE] :
                  types \in {{"node", "way", "relation"}, {"relation"}},
                  filters \in {<<>>, <<HasKv("exists", "k", None, FALSE)>>,
                               <<[is |-> "bbox", box |-> <<0, 0>>], HasKv("equals", "k", "'v'", FALSE)>>}}

\* Once for every text, before it is run.
NothingElseIgnoredAtFirst == at = 0 => NothingElseIgnored
=============================================================================
