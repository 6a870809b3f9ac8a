----------------------------- MODULE OverpassQL -----------------------------
(***************************************************************************)
(* The parser of the subset of Overpass QL that the server understands.    *)
(*                                                                         *)
(* A text is a sequence of tokens: words, numbers, quoted strings, and     *)
(* single characters of punctuation, as the parser tells symbols such as   *)
(* "<<" and "->" apart by where it stands.  A word or number is taken to   *)
(* be followed by a space, a character of punctuation not to be.  What is  *)
(* refused is refused alike, so that what the server knows that it does    *)
(* not support needs no case, nor have its messages.                       *)
(***************************************************************************)
EXTENDS OverpassTree

CONSTANT Value  \* the value of a number's token, which is its decimal digits

VARIABLE text

ASSUME QLAssumption == Value \in [Numbers -> Nat]

TypeSpecifiers ==
    [node |-> {"node"}, way |-> {"way"}, rel |-> {"relation"}, relation |-> {"relation"},
     nwr |-> {"node", "way", "relation"}, nw |-> {"node", "way"}, nr |-> {"node", "relation"},
     wr |-> {"way", "relation"}]

(***************************************************************************)
(* A parser stands at a place of the text and gives what it got there, and *)
(* the place after it; 0 if it raised an error.                            *)
(***************************************************************************)
Tok(i) == IF i \in 1..Len(text) THEN text[i] ELSE "end"
Got(i, tree) == [at |-> i, got |-> tree]
Error == Got(0, <<>>)

\* What one parser got, made into something, and what follows it.
Make(p, F(_)) == IF p.at = 0 THEN Error ELSE Got(p.at, F(p.got))
Then(p, Q(_, _)) == IF p.at = 0 THEN Error ELSE Q(p.at, p.got)
Expect(p, symbol) == IF p.at # 0 /\ Tok(p.at) = symbol THEN Got(p.at + 1, p.got) ELSE Error

Peek(i, symbols) == \A n \in 1..Len(symbols) : Tok(i + n - 1) = symbols[n]
Match(i, set) == IF Tok(i) \in set THEN Got(i + 1, Tok(i)) ELSE Error

text_value(i) == Match(i, TextValues)
set_name(i) == Match(i, Words)
object_id(i) == Make(Match(i, Numbers), LAMBDA n : Value[n])

number(i) ==
    IF Tok(i) = "-"
    THEN Make(Match(i + 1, Numbers), LAMBDA n : -Value[n])
    ELSE object_id(i)

\* An optional redirection into a set.
into(i, default) ==
    IF Peek(i, <<"-", ">">>) THEN Then(Expect(Got(i + 2, <<>>), "."), LAMBDA j, got : set_name(j))
    ELSE Got(i, default)

\* One or more, with commas between them.
RECURSIVE Several(_, _)
Several(One(_), i) ==
    Then(One(i), LAMBDA j, first :
        IF Tok(j) = "," THEN Make(Several(One, j + 1), LAMBDA rest : <<first>> \o rest)
        ELSE Got(j, <<first>>))

bbox(p) ==
    Then(p, LAMBDA i, box :
        IF box \in Boxes
        THEN Got(i, box) ELSE Error)

(***************************************************************************)
(* Filters.                                                                *)
(***************************************************************************)
HasKv(mode, key, value, ignoreCase) ==
    [is |-> "has", mode |-> mode, key |-> key, value |-> value, ignoreCase |-> ignoreCase]

Operators ==
    << [symbols |-> <<"!", "=">>, mode |-> "not_equals"], [symbols |-> <<"!", "~">>, mode |-> "not_matches"],
       [symbols |-> <<"~">>, mode |-> "matches"], [symbols |-> <<"=", "=">>, mode |-> "equals"],
       [symbols |-> <<"=">>, mode |-> "equals"] >>

tag_value(i, key) ==
    LET fit == {n \in DOMAIN Operators : Peek(i, Operators[n].symbols)}
        first == CHOOSE n \in fit : \A other \in fit : n <= other
        op == Operators[first]
    IN IF fit = {} THEN Error
       ELSE Then(text_value(i + Len(op.symbols)), LAMBDA j, value :
                IF op.mode \in {"matches", "not_matches"} /\ Tok(j) = ","
                THEN Expect(Make(Match(j + 1, {"i"}), LAMBDA w : HasKv(op.mode, key, value, TRUE)), "]")
                ELSE Expect(Got(j, HasKv(op.mode, key, value, FALSE)), "]"))

tag_filter(i) ==
    IF Tok(i) = "!"
    THEN Expect(Make(text_value(i + 1), LAMBDA key : HasKv("not_exists", key, None, FALSE)), "]")
    ELSE Then(text_value(i), LAMBDA j, key :
             IF Tok(j) = "]" THEN Got(j + 1, HasKv("exists", key, None, FALSE)) ELSE tag_value(j, key))

\* An optional set directly after a filter's keyword.
filter_set(i) == IF Tok(i) = "." THEN set_name(i + 1) ELSE Got(i, DefaultSet)

recurse_filter(i, kind) ==
    LET Filter(set, role) == [is |-> "recurse", type |-> kind, set |-> set, role |-> role]
    IN Expect(Then(filter_set(i), LAMBDA j, set :
                  IF Tok(j) # ":" THEN Got(j, Filter(set, None))
                  ELSE Make(Match(j + 1, Words \cup Quoted), LAMBDA role : Filter(set, role))), ")")

around_filter(i) ==
    Then(Expect(filter_set(i), ":"), LAMBDA j, set :
        Then(number(j), LAMBDA k, radius :
            IF radius < 0 THEN Error
            ELSE IF Tok(k) = ")"
            THEN Got(k + 1, [is |-> "around", radius |-> radius, set |-> set, at |-> <<>>])
            ELSE Then(Expect(Then(Expect(Got(k, <<>>), ","), LAMBDA n, got : number(n)), ")"), LAMBDA n, at :
                     IF at \notin Coordinates THEN Error
                     ELSE Got(n, [is |-> "around", radius |-> radius, set |-> None, at |-> <<at>>]))))

User(uids, names) == [is |-> "user", uids |-> uids, names |-> names]
Changed(since, until) == [is |-> "changed", since |-> since, until |-> until]

MetaFilters == {"user", "uid", "newer", "changed"}

meta_filter(i, kind) ==
    LET Until(j, since) ==
            IF Tok(j) = "," THEN Make(object_id(j + 1), LAMBDA until : Changed(since, <<until>>))
            ELSE Got(j, Changed(since, <<>>))
        Filter(j, got) ==
            CASE kind = "uid" -> Make(Several(object_id, j), LAMBDA uids : User(uids, <<>>))
              [] kind = "user" -> Make(Several(text_value, j), LAMBDA names : User(<<>>, names))
              [] kind = "newer" -> Make(object_id(j), LAMBDA than : [is |-> "newer", than |-> than])
              [] kind = "changed" -> Then(object_id(j), Until)
    IN Expect(Then(Expect(Got(i, <<>>), ":"), Filter), ")")

round_filter(i) ==
    CASE Tok(i) = "id" ->
            Expect(Then(Expect(Got(i + 1, <<>>), ":"), LAMBDA j, got :
                Make(Several(object_id, j), LAMBDA ids : [is |-> "id", ids |-> ids])), ")")
      [] Tok(i) \in {"w", "r", "bn", "bw", "br"} -> recurse_filter(i + 1, Tok(i))
      [] Tok(i) = "around" -> around_filter(i + 1)
      [] Tok(i) \in MetaFilters -> meta_filter(i + 1, Tok(i))
      [] Tok(i) \in Words \ ({"id", "w", "r", "bn", "bw", "br", "around"} \cup MetaFilters) -> Error
      [] OTHER ->
            LET values == Several(number, i)
            IN IF values.at # 0 /\ Len(values.got) = 1
               THEN Expect(Make(object_id(i), LAMBDA id : [is |-> "id", ids |-> <<id>>]), ")")
               ELSE Make(bbox(Expect(values, ")")), LAMBDA box : [is |-> "bbox", box |-> box])

(***************************************************************************)
(* Statements.                                                             *)
(***************************************************************************)
RECURSIVE query(_, _, _)
query(i, types, filters) ==
    LET More(p) == Then(p, LAMBDA j, filter : query(j, types, Append(filters, filter)))
    IN CASE Tok(i) = "[" -> More(tag_filter(i + 1))
         [] Tok(i) = "(" -> More(round_filter(i + 1))
         [] Tok(i) = "." -> More(Make(set_name(i + 1), LAMBDA set : [is |-> "item", set |-> set]))
         [] OTHER -> Expect(Make(into(i, DefaultSet), LAMBDA name :
                         [is |-> "query", types |-> types, filters |-> filters, into |-> name]), ";")

Modes == {"ids", "skel", "body", "tags", "meta", "count"}
Geometries == {"geom", "bb", "center"}

\* (Mutant: an option of a kind that was given replaces it.)
ChooseAgain(given, group) == TRUE

\* Of each kind of option, one.
choose(given, group) == group \notin given

RECURSIVE print_statement(_, _, _)
print_statement(i, tree, given) ==
    LET Option(group, value) ==
            IF ~choose(given, group) THEN Error
            ELSE print_statement(i + 1, [tree EXCEPT ![group] = value], given \cup {group})
    IN CASE Tok(i) = ";" ->
                IF tree.mode = "count" /\ (tree.geometry # None \/ tree.limit # <<>>) THEN Error
                ELSE Got(i + 1, tree)
         [] Tok(i) \in Numbers -> Option("limit", <<Value[Tok(i)]>>)
         [] Tok(i) \in Modes -> Option("mode", Tok(i))
         [] Tok(i) \in Geometries -> Option("geometry", Tok(i))
         [] Tok(i) \in {"asc", "qt"} -> Option("order", Tok(i))
         [] OTHER -> Error

Symbols ==
    << [symbols |-> <<"<", "<">>, type |-> "up-rel"], [symbols |-> <<">", ">">>, type |-> "down-rel"],
       [symbols |-> <<"<">>, type |-> "up"], [symbols |-> <<">">>, type |-> "down"] >>

RECURSIVE statement(_, _), union(_, _, _)

\* What may follow an optional set.
of_set(i, from, inUnion) ==
    LET fit == {n \in DOMAIN Symbols : Peek(i, Symbols[n].symbols)}
        found == Symbols[CHOOSE n \in fit : \A other \in fit : n <= other]
        set == IF from = None THEN DefaultSet ELSE from
    IN CASE fit # {} ->
                Expect(Make(into(i + Len(found.symbols), DefaultSet), LAMBDA name :
                    [is |-> "down", type |-> found.type, from |-> set, into |-> name]), ";")
         [] Tok(i) = "out" ->
                IF inUnion THEN Error
                ELSE print_statement(i + 1, [is |-> "print", from |-> set, mode |-> "body",
                         geometry |-> None, order |-> "asc", limit |-> <<>>], {})
         [] fit = {} /\ Tok(i) # "out" /\ from # None ->
                Expect(Make(into(i, None), LAMBDA name : [is |-> "set", set |-> from, into |-> name]), ";")
         [] from = None /\ Tok(i) \in DOMAIN TypeSpecifiers -> query(i + 1, TypeSpecifiers[Tok(i)], <<>>)
         [] OTHER -> Error

statement(i, inUnion) ==
    CASE Tok(i) = "(" -> union(i + 1, <<>>, FALSE)
      [] Tok(i) = "." -> Then(set_name(i + 1), LAMBDA j, name : of_set(j, name, inUnion))
      [] OTHER -> of_set(i, None, inUnion)

union(i, parts, difference) ==
    LET Next(j, minus) == Then(statement(j, TRUE), LAMBDA k, part : union(k, Append(parts, part), minus))
    IN CASE Tok(i) = ")" ->
                IF parts = <<>> \/ (difference /\ Len(parts) # 2) THEN Error
                ELSE Expect(Make(into(i + 1, DefaultSet), LAMBDA name :
                         [is |-> IF difference THEN "difference" ELSE "union",
                          parts |-> parts, into |-> name]), ";")
         [] Tok(i) = "-" -> IF Len(parts) # 1 \/ difference THEN Error ELSE Next(i + 1, TRUE)
         [] OTHER -> IF difference /\ Len(parts) = 2 THEN Error ELSE Next(i, difference)

(***************************************************************************)
(* Settings, and a whole query.                                            *)
(***************************************************************************)
SpecialFields ==
    {<<f>> : f \in {"id", "type", "otype", "lat", "lon", "version", "timestamp", "changeset", "uid", "user", "count"}}
        \cup {<<"count", kind>> : kind \in {"nodes", "ways", "relations", "areas"}}

\* A column: a tag's key, or after "::" the words of a special field.
csv_field(i) ==
    LET Special(p) == Then(p, LAMBDA j, words :
                          IF words \in SpecialFields THEN Got(j, [special |-> TRUE, name |-> words]) ELSE Error)
        word == Match(i + 2, Words)
    IN CASE ~Peek(i, <<":", ":">>) -> Make(text_value(i), LAMBDA key : [special |-> FALSE, name |-> <<key>>])
         [] Peek(i, <<":", ":", "count", ":">>) /\ ~Peek(i + 3, <<":", ":">>) ->
                Special(Make(Match(i + 4, Words), LAMBDA kind : <<"count", kind>>))
         [] OTHER -> Special(Make(word, LAMBDA name : <<name>>))

csv_format(i) ==
    LET Columns == Then(Expect(Got(i, <<>>), "("), LAMBDA j, got : Several(csv_field, j))
        Separator(j, csv) ==
            IF Tok(j) # ";" THEN Got(j, csv)
            ELSE Make(Match(j + 1, Quoted), LAMBDA value : [csv EXCEPT !.separator = value])
        Header(j, csv) ==
            IF Tok(j) # ";" THEN Got(j, csv)
            ELSE Then(Match(j + 1, {"true", "false"}), LAMBDA k, word :
                     Separator(k, [csv EXCEPT !.header = (word = "true")]))
        Plain(list) == [columns |-> list, header |-> TRUE, separator |-> "tab"]
    IN Expect(Then(Make(Columns, Plain), Header), ")")

setting(i, name, script) ==
    LET Of(p, field) == Expect(Make(p, LAMBDA value : [script EXCEPT ![field] = value]), "]")
        Csv(p) == Expect(Make(p, LAMBDA csv : [script EXCEPT !.output = "csv", !.csv = <<csv>>]), "]")
        Colon == Expect(Got(i, <<>>), ":")
    IN IF name = "bbox" /\ Tok(i) = "]" THEN Got(i + 1, [script EXCEPT !.fromUrl = TRUE])
       ELSE Then(Colon, LAMBDA j, got :
                CASE name = "out" /\ Tok(j) = "csv" -> Csv(csv_format(j + 1))
                  [] name = "out" /\ Tok(j) # "csv" -> Of(Match(j, {"xml", "json"}), "output")
                  [] name \in {"timeout", "maxsize"} -> Of(Make(object_id(j), LAMBDA n : <<n>>), name)
                  [] name = "bbox" -> Of(bbox(Several(number, j)), "bbox")
                  [] OTHER -> Error)

RECURSIVE settings(_, _, _)
settings(i, script, seen) ==
    IF Tok(i) # "[" THEN Expect(Got(i, script), ";")
    ELSE Then(Match(i + 1, Words \ seen), LAMBDA j, name :
             Then(setting(j, name, script), LAMBDA k, new : settings(k, new, seen \cup {name})))

RECURSIVE statements(_, _)
statements(i, script) ==
    IF Tok(i) = "end" THEN (IF script.statements = <<>> THEN Error ELSE Got(i, script))
    ELSE Then(statement(i, FALSE), LAMBDA j, tree :
             statements(j, [script EXCEPT !.statements = Append(@, tree)]))

Script(list) ==
    [statements |-> list, output |-> "xml", csv |-> <<>>, timeout |-> <<>>, maxsize |-> <<>>, bbox |-> <<>>,
     fromUrl |-> FALSE]

parse ==
    Then(IF Tok(1) = "[" THEN settings(1, Script(<<>>), {}) ELSE Got(1, Script(<<>>)), statements)

(***************************************************************************)
(* What a tree says, token by token, but for what may be left out: the     *)
(* punctuation that holds it together, and names of defaults.              *)
(***************************************************************************)
Implied == {"id", "body", "asc", "xml", "true", "_"}
Telling == (TextValues \ Implied) \cup {"!", "~", "<"}

\* How a number was written.
Digits(n) == CHOOSE token \in Numbers : Value[token] = IF n < 0 THEN -n ELSE n
DigitsOf(list) == [i \in DOMAIN list |-> Digits(list[i])]
Named(name) == IF name = None THEN <<>> ELSE <<name>>

SaysFilter(f) ==
    CASE f.is = "has" ->
            Named(f.key) \o Named(f.value) \o (IF f.ignoreCase THEN <<"i">> ELSE <<>>)
                \o (IF f.mode \in {"not_exists", "not_equals", "not_matches"} THEN <<"!">> ELSE <<>>)
                \o (IF f.mode \in {"matches", "not_matches"} THEN <<"~">> ELSE <<>>)
      [] f.is = "id" -> DigitsOf(f.ids)
      [] f.is = "bbox" -> DigitsOf(f.box)
      [] f.is = "item" -> <<f.set>>
      [] f.is = "recurse" -> <<f.type, f.set>> \o Named(f.role)
      [] f.is = "around" ->
            <<"around", Digits(f.radius)>> \o Named(f.set) \o DigitsOf(f.at)
      [] f.is = "user" ->
            (IF f.names = <<>> THEN <<"uid">> ELSE <<"user">>) \o f.names \o DigitsOf(f.uids)
      [] f.is = "changed" -> <<"changed", Digits(f.since)>> \o DigitsOf(f.until)
      [] f.is = "newer" -> <<"newer", Digits(f.than)>>

RECURSIVE Flat(_)
Flat(lists) == IF lists = <<>> THEN <<>> ELSE Head(lists) \o Flat(Tail(lists))

\* Of the words for relations, one is in the texts.
TypeWord(types) == CHOOSE word \in DOMAIN TypeSpecifiers \cap Words : TypeSpecifiers[word] = types

RECURSIVE Says(_)
Says(s) ==
    CASE s.is = "query" ->
            <<TypeWord(s.types)>> \o Flat([i \in DOMAIN s.filters |-> SaysFilter(s.filters[i])]) \o Named(s.into)
      [] s.is \in {"union", "difference"} -> Flat([i \in DOMAIN s.parts |-> Says(s.parts[i])]) \o Named(s.into)
      [] s.is = "set" -> Named(s.set) \o Named(s.into)
      [] s.is = "down" ->
            Named(s.from) \o Named(s.into)
                \o (IF s.type = "up" THEN <<"<">> ELSE IF s.type = "up-rel" THEN <<"<", "<">> ELSE <<>>)
      [] s.is = "print" ->
            Named(s.from) \o <<"out", s.mode, s.order>> \o Named(s.geometry) \o DigitsOf(s.limit)

SaysCsv(csv) ==
    <<"csv">> \o Flat([i \in DOMAIN csv.columns |-> csv.columns[i].name])
        \o (IF csv.header THEN <<>> ELSE <<"false">>)
        \o (IF csv.separator = "tab" THEN <<>> ELSE <<csv.separator>>)

SaysScript(script) ==
    Flat([i \in DOMAIN script.statements |-> Says(script.statements[i])])
        \o (IF script.output = "json" THEN <<"json">> ELSE <<>>)
        \o Flat([i \in DOMAIN script.csv |-> SaysCsv(script.csv[i])])
        \o DigitsOf(script.timeout) \o DigitsOf(script.maxsize) \o DigitsOf(script.bbox)

\* Words that name a setting are said by the setting being made.
SettingWords == {"timeout", "maxsize", "bbox"}

Times(token, list) == Cardinality({i \in DOMAIN list : list[i] = token})

Heading == IF Tok(1) = "[" THEN CHOOSE i \in 1..Len(text) : Tok(i) = ";" /\ \A j \in 1..(i - 1) : Tok(j) # ";" ELSE 0
OutSetting == IF \E i \in 1..Heading : Tok(i) = "out" THEN 1 ELSE 0

\* Names of sets in around filters that give a position, "(around.a:1,1)": the
\* parser reads them and makes a filter without (overpass/ql.py:670, 686).
PassedOver ==
    {i \in DOMAIN text :
        Peek(i - 3, <<"(", "around", ".">>)
        /\ LET filter == around_filter(i - 1) IN filter.at # 0 /\ filter.got.at # <<>>}

\* But for those names, a query is run as it was written or refused (overpass/ql.py:7-8):
\* whatever of it tells what to search for or what to show is in the tree, as
\* often as it was written.
NothingElseIgnored ==
    parse.at # 0 =>
        \A token \in Telling \ SettingWords :
            Times(token, text) - Cardinality({i \in PassedOver : text[i] = token})
                = Times(token, SaysScript(parse.got)) + (IF token = "out" THEN OutSetting ELSE 0)
=============================================================================
