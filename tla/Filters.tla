------------------------------- MODULE Filters --------------------------------
(***************************************************************************)
(* Filters of a search or of a document deletion                           *)
(* (milli/src/search/facet/filter.rs): a filter typed fragment by          *)
(* fragment, or given as an array of strings, is parsed and evaluated over *)
(* the facet databases of an index, which still hold documents that are    *)
(* only soft deleted.                                                      *)
(***************************************************************************)
EXTENDS FilterParser, ClientRequest, FiniteSets

CONSTANTS
    MaxDepth,           \* MAX_FILTER_DEPTH of milli, 2000 in the code
    DocumentsIds,       \* the documents of the index
    SoftDeleted,        \* documents deleted but still in the facet databases
    FilterableFields,   \* the setting; "_geo" covers "_geo.lat" and "_geo.lng"
    FieldsIdsMap,       \* the fields some document had
    Numbers,            \* field |-> doc |-> the numbers facet_id_f64_docids holds
    Strings,            \* field |-> doc |-> the strings facet_id_string_docids holds
    Null, Empty, Exists,\* field |-> documents
    NumberOf,           \* word |-> the number it reads as; its domain the numeric words
    GeoPoints,          \* documents with a _geo |-> <<latitude, longitude>>
    Distance(_, _),     \* distance_between_two_points
    Fragments,          \* what may be typed, each a sequence of tokens
    FreeFragments,      \* how many fragments are typed in any order
    MaxFragments,       \* how many are typed at most, the later ones in a fitting order
    Fits(_, _),         \* may this fragment follow that one in a long filter?
    ArrayTexts,         \* the filters used in arrays
    MaxQuoted           \* the longest quoted value, in characters

\* Every document the databases know.
AllKnown == DocumentsIds \cup SoftDeleted

Answer(docs) == [res |-> "ok", docs |-> docs]
Refused(kind) == [res |-> kind, docs |-> {}]

\* is_faceted: the field or one of its parents is filterable.
is_faceted(fid) ==
    \/ fid \in FilterableFields
    \/ fid \in {"_geo.lat", "_geo.lng"} /\ "_geo" \in FilterableFields

IsNumber(word) == word \in DOMAIN NumberOf

\* explore_facet_number_levels: the range search, exact by the Facets run.
InRange(fid, lo, loIn, hi, hiIn) ==
    IF lo > hi \/ (lo = hi /\ ~(loIn /\ hiIn)) THEN {}
    ELSE {d \in AllKnown : \E n \in Numbers[fid][d] :
            /\ n > lo \/ (loIn /\ n = lo)
            /\ n < hi \/ (hiIn /\ n = hi)}

F64Min == -1000
F64Max == 1000

\* Condition::Equal: the strings, and the numbers when the value reads as one.
Equal(fid, value) ==
    {d \in AllKnown : \/ value \in Strings[fid][d]
                      \/ IsNumber(value) /\ NumberOf[value] \in Numbers[fid][d]}

\* evaluate_operator: op on a field some document had.
evaluate_operator(fid, op, values) ==
    LET n(k) == NumberOf[values[k]]
        bounded == op \in {">", ">=", "<", "<=", "between"}
    IN  IF bounded /\ \E k \in 1..Len(values) : ~IsNumber(values[k]) THEN Refused("BadNumber")
        ELSE Answer(
          CASE op = ">" -> InRange(fid, n(1), FALSE, F64Max, TRUE)
            [] op = ">=" -> InRange(fid, n(1), TRUE, F64Max, TRUE)
            [] op = "<" -> InRange(fid, F64Min, TRUE, n(1), FALSE)
            [] op = "<=" -> InRange(fid, F64Min, TRUE, n(1), TRUE)
            [] op = "between" -> InRange(fid, n(1), TRUE, n(2), TRUE)
            [] op = "null" -> Null[fid]
            [] op = "empty" -> Empty[fid]
            [] op = "exists" -> Exists[fid]
            [] op = "=" -> Equal(fid, values[1])
            [] op = "!=" -> DocumentsIds \ Equal(fid, values[1])
            [] op = "in" -> UNION {Equal(fid, values[k]) : k \in 1..Len(values)})

\* inner_evaluate of Condition and In.
EvaluateCondition(fid, op, values) ==
    IF ~is_faceted(fid) THEN Refused("NotFilterable")
    ELSE IF fid \notin FieldsIdsMap THEN Answer({})
    ELSE evaluate_operator(fid, op, values)

BadLatitude(v) == v < -90 \/ v > 90
BadLongitude(v) == v < -180 \/ v > 180

\* GeoLowerThan: [latitude, longitude, radius].
EvaluateGeoRadius(args) ==
    IF "_geo" \notin FilterableFields THEN Refused("NotFilterable")
    ELSE IF BadLatitude(args[1]) \/ BadLongitude(args[2]) THEN Refused("BadGeo")
    ELSE Answer({d \in DOMAIN GeoPoints :
                   Distance(<<args[1], args[2]>>, GeoPoints[d]) <= args[3]})

LatLng(fid, lo, hi) ==
    IF fid \in FieldsIdsMap THEN InRange(fid, lo, TRUE, hi, TRUE) ELSE {}

\* GeoBoundingBox: the top right then the bottom left corner.  A box whose right side is
\* west of its left side wraps around the antimeridian.
EvaluateGeoBox(args) ==
    LET top == args[1]
        right == args[2]
        bottom == args[3]
        left == args[4]
        lng == IF right < left
               THEN LatLng("_geo.lng", left, 180) \cup LatLng("_geo.lng", -180, right)
               ELSE LatLng("_geo.lng", left, right)
    IN  IF "_geo" \notin FilterableFields THEN Refused("NotFilterable")
        ELSE IF BadLatitude(top) \/ BadLongitude(right) \/ BadLatitude(bottom)
                \/ BadLongitude(left) \/ top < bottom THEN Refused("BadGeo")
        ELSE Answer(LatLng("_geo.lat", bottom, top) \cap lng)

RECURSIVE inner_evaluate(_), EvaluateOr(_, _), EvaluateAnd(_, _)

EvaluateOr(subs, docs) ==
    IF subs = <<>> THEN Answer(docs)
    ELSE LET r == inner_evaluate(Head(subs))
         IN  IF r.res = "ok" THEN EvaluateOr(Tail(subs), docs \cup r.docs) ELSE r

\* The rest of a conjunction is not evaluated once nothing is left.
EvaluateAnd(subs, docs) ==
    IF subs = <<>> \/ docs = {} THEN Answer(docs)
    ELSE LET r == inner_evaluate(Head(subs))
         IN  IF r.res = "ok" THEN EvaluateAnd(Tail(subs), docs \cap r.docs) ELSE r

inner_evaluate(tree) ==
    CASE tree.op = "not" ->
           LET r == inner_evaluate(tree.subs[1])
           IN  IF r.res = "ok" THEN Answer(DocumentsIds \ r.docs) ELSE r
      [] tree.op = "or" -> EvaluateOr(tree.subs, {})
      [] tree.op = "and" ->
           LET r == inner_evaluate(tree.subs[1])
           IN  IF r.res = "ok" THEN EvaluateAnd(Tail(tree.subs), r.docs) ELSE r
      [] tree.op = "geoRadius" -> EvaluateGeoRadius(tree.values)
      [] tree.op = "geoBox" -> EvaluateGeoBox(tree.values)
      [] OTHER -> EvaluateCondition(tree.fid, tree.op, tree.values)

\* Mutant: the soft deleted documents are not removed.
KeepsSoftDeleted(tree) == IF tree.op = "none" THEN Answer(DocumentsIds) ELSE inner_evaluate(tree)

\* evaluate: the soft deleted documents are removed once, at the very end.
evaluate(tree) ==
    IF tree.op = "none" THEN Answer(DocumentsIds)
    ELSE LET r == inner_evaluate(tree)
         IN  IF r.res = "ok" THEN Answer(r.docs \ SoftDeleted) ELSE r

\* Filter::from_str: the parse, refused when the tree is too deep.
from_str(s) ==
    LET r == parse(s)
    IN  IF r.res = "ok" /\ token_at_depth(r.tree, MaxDepth) THEN Err("TooDeep") ELSE r

\* Filter::from_array: a conjunction of disjunctions; blanks are left out, singletons are
\* not wrapped, the first refused string refuses the whole.
Collapse(op, trees) ==
    CASE trees = <<>> -> NoFilter
      [] Len(trees) = 1 -> trees[1]
      [] OTHER -> Node(op, trees)

Trees(results) ==
    LET trees(kept) == [k \in 1..Len(kept) |-> kept[k].tree]
    IN  trees(SelectSeq(results, LAMBDA r : r.tree.op # "none"))

\* Mutant: refused strings are left out like blank ones.
SkipsRefused(array) ==
    LET ors == [k \in 1..Len(array) |->
                  Ok(1, Collapse("or", Trees([j \in 1..Len(array[k]) |-> from_str(array[k][j])])))]
    IN  Ok(1, Collapse("and", Trees(ors)))

from_array(array) ==
    LET limited(tree) == IF token_at_depth(tree, MaxDepth) THEN Err("TooDeep") ELSE Ok(1, tree)
        joined(parsed) ==
          IF \E k \in DOMAIN parsed : \E j \in DOMAIN parsed[k] : parsed[k][j].res # "ok"
          THEN Err("InvalidFilter")
          ELSE limited(Collapse("and", Trees([k \in 1..Len(parsed) |->
                                                 Ok(1, Collapse("or", Trees(parsed[k])))])))
    IN  joined([k \in 1..Len(array) |-> [j \in 1..Len(array[k]) |-> from_str(array[k][j])]])

\* A filter in the JSON of a request or of a tenant token: absent, a string, or an array
\* whose elements are strings (arrays of one) and arrays of strings.
Absent == [json |-> "absent", array |-> <<>>]
JsonString(s) == [json |-> "string", array |-> <<<<s>>>>]
JsonArray(array) == [json |-> "array", array |-> array]

\* parse_filter.
parse_filter(v) ==
    CASE v.json = "absent" -> Ok(1, NoFilter)
      [] v.json = "string" -> from_str(v.array[1][1])
      [] v.json = "array" -> from_array(v.array)

\* Mutant: the rules only stand in for a filter.
RulesByDefault(filter, rules) == IF filter.json = "absent" THEN rules ELSE filter

\* add_search_rules: the filter of the tenant token comes after the filter of the query, a
\* string counting as an array of one.
add_search_rules(filter, rules) ==
    CASE filter.json = "absent" -> rules
      [] filter.json # "absent" /\ rules.json = "absent" -> filter
      [] OTHER -> JsonArray(filter.array \o rules.array)

-------------------------------------------------------------------------------
\* The client starts to type: a text, an array of texts, or a quoted value.
FilterInit == request \in {[kind |-> k, typed |-> <<>>] : k \in {"text", "array", "quote"}}

TypeFragment ==
    /\ request.kind = "text"
    /\ Len(request.typed) < MaxFragments
    /\ \E f \in Fragments :
         /\ \/ Len(request.typed) < FreeFragments
            \/ \A k \in 1..Len(request.typed) :
                 Fits(request.typed[k],
                      IF k < Len(request.typed) THEN request.typed[k + 1] ELSE f)
         /\ request' = [request EXCEPT !.typed = Append(@, f)]

AddToArray ==
    /\ request.kind = "array"
    /\ Len(request.typed) < 2
    /\ \E n \in 1..2 : \E ors \in [1..n -> ArrayTexts] :
         request' = [request EXCEPT !.typed = Append(@, ors)]

TypeQuoted ==
    /\ request.kind = "quote"
    /\ Len(request.typed) < MaxQuoted
    /\ \E c \in {"q", "b", "x"} : request' = [request EXCEPT !.typed = Append(@, c)]

FilterNext == TypeFragment \/ AddToArray \/ TypeQuoted

-------------------------------------------------------------------------------
(***************************************************************************)
(* What a filter means, read off its text by splitting it at its           *)
(* outermost OR, then AND, then NOT, then parentheses: no parser.          *)
(***************************************************************************)

RECURSIVE Flatten(_)
Flatten(parts) == IF parts = <<>> THEN <<>> ELSE Head(parts) \o Flatten(Tail(parts))

Text == Flatten(request.typed)

\* The first place where a keyword stands outside of all parentheses, 0 if nowhere.
Nesting(s, i) == Cardinality({k \in 1..i : s[k] = "("}) - Cardinality({k \in 1..i : s[k] = ")"})

Outermost(s, keyword) ==
    LET at == {i \in 1..Len(s) : s[i] = keyword /\ Nesting(s, i) = 0}
    IN  IF at = {} THEN 0 ELSE CHOOSE i \in at : \A j \in at : i <= j

IsWord(t) ==
    t \notin Keywords \cup Operators \cup Punctuation \cup DOMAIN GeoRadius
             \cup DOMAIN GeoBoundingBox \cup ReservedGeo \cup {OpenQuote}

TextOf(t) == IF t \in DOMAIN Quoted THEN Quoted[t] ELSE t

Malformed == [wf |-> FALSE, none |-> {}, all |-> {}, depth |-> 0, doubt |-> FALSE]

\* The meaning of an atom nested under d levels: none and all are its documents when what
\* cannot be evaluated is taken to select nothing, and everything.
Means(r, d) == [wf |-> TRUE, none |-> r.docs \cap DocumentsIds, depth |-> d,
                all |-> IF r.res = "ok" THEN r.docs \cap DocumentsIds ELSE DocumentsIds,
                doubt |-> r.res # "ok"]

MeansNot(m) == [m EXCEPT !.none = DocumentsIds \ m.all, !.all = DocumentsIds \ m.none]

Listed(s) ==   \* the values of "[" v "," v ... "]", closed by an optional comma
    {TextOf(s[k]) : k \in {k \in 4..Len(s) - 1 : k % 2 = 0}}

WellListed(s) ==
    /\ Len(s) >= 4 /\ s[2] = "IN" /\ s[3] = "[" /\ s[Len(s)] = "]"
    /\ \A k \in 4..Len(s) - 1 : IF k % 2 = 0 THEN IsWord(s[k]) ELSE s[k] = ","

\* The meaning of one value or operator on a field, document by document.
Holds(fid, op, values, d) ==
    LET n(k) == NumberOf[values[k]]
        some(P(_)) == \E x \in Numbers[fid][d] : P(x)
    IN  CASE op = "=" -> Equal(fid, values[1]) \cap {d} # {}
          [] op = "!=" -> Equal(fid, values[1]) \cap {d} = {}
          [] op = ">" -> some(LAMBDA x : x > n(1))
          [] op = ">=" -> some(LAMBDA x : x >= n(1))
          [] op = "<" -> some(LAMBDA x : x < n(1))
          [] op = "<=" -> some(LAMBDA x : x <= n(1))
          [] op = "between" -> some(LAMBDA x : n(1) <= x /\ x <= n(2))
          [] op = "exists" -> d \in Exists[fid]
          [] op = "null" -> d \in Null[fid]
          [] op = "empty" -> d \in Empty[fid]

MeansOn(fid, op, values, d) ==
    LET numeric == op \in {">", ">=", "<", "<=", "between"}
    IN  Means(CASE ~is_faceted(fid) -> Refused("NotFilterable")
                [] fid \notin FieldsIdsMap -> Answer({})
                [] numeric /\ \E k \in 1..Len(values) : ~IsNumber(values[k]) -> Refused("BadNumber")
                [] OTHER -> Answer({x \in DocumentsIds : Holds(fid, op, values, x)}), d)

\* East of left and west of right, going round the earth.
InBox(p, a) ==
    /\ a[3] <= p[1] /\ p[1] <= a[1]
    /\ IF a[4] <= a[2] THEN a[4] <= p[2] /\ p[2] <= a[2] ELSE p[2] >= a[4] \/ p[2] <= a[2]

GeoSound(a, k) == a[k] >= -90 /\ a[k] <= 90 /\ a[k + 1] >= -180 /\ a[k + 1] <= 180

MeansGeo(sound, docs, d) ==
    Means(IF "_geo" \in FilterableFields /\ sound THEN Answer(docs) ELSE Refused("Geo"), d)

AtomMeaning(s, d) ==
    LET words(W) == \A k \in W : IsWord(s[k])
        t(k) == TextOf(s[k])
        n == Len(s)
        corners == GeoBoundingBox[s[1]]
        box == Flatten(corners)
        circle == GeoRadius[s[1]]
    IN  CASE n = 3 /\ words({1, 3}) /\ s[2] \in Operators -> MeansOn(t(1), s[2], <<t(3)>>, d)
          [] n = 4 /\ words({1, 2, 4}) /\ s[3] = "TO" -> MeansOn(t(1), "between", <<t(2), t(4)>>, d)
          [] n = 2 /\ words({1}) /\ s[2] = "EXISTS" -> MeansOn(t(1), "exists", <<>>, d)
          [] n = 3 /\ words({1}) /\ Tail(s) = <<"NOT", "EXISTS">> ->
                MeansNot(MeansOn(t(1), "exists", <<>>, d))
          [] n = 3 /\ words({1}) /\ Tail(s) = <<"IS", "NULL">> -> MeansOn(t(1), "null", <<>>, d)
          [] n = 4 /\ words({1}) /\ Tail(s) = <<"IS", "NOT", "NULL">> ->
                MeansNot(MeansOn(t(1), "null", <<>>, d))
          [] n = 3 /\ words({1}) /\ Tail(s) = <<"IS", "EMPTY">> -> MeansOn(t(1), "empty", <<>>, d)
          [] n = 4 /\ words({1}) /\ Tail(s) = <<"IS", "NOT", "EMPTY">> ->
                MeansNot(MeansOn(t(1), "empty", <<>>, d))
          [] n >= 2 /\ words({1}) /\ WellListed(s) ->
                Means(IF ~is_faceted(t(1)) THEN Refused("NotFilterable")
                      ELSE IF t(1) \notin FieldsIdsMap THEN Answer({})
                      ELSE Answer(UNION {Equal(t(1), v) : v \in Listed(s)}), d)
          [] n >= 3 /\ words({1}) /\ s[2] = "NOT" /\ WellListed(<<s[1]>> \o Tail(Tail(s))) ->
                MeansNot(Means(IF ~is_faceted(t(1)) THEN Refused("NotFilterable")
                      ELSE IF t(1) \notin FieldsIdsMap THEN Answer({})
                      ELSE Answer(UNION {Equal(t(1), v) : v \in Listed(<<s[1]>> \o Tail(Tail(s)))}), d))
          [] n = 1 /\ s[1] \in DOMAIN GeoRadius /\ Len(circle) = 3 ->
                MeansGeo(GeoSound(circle, 1),
                         {x \in DOMAIN GeoPoints :
                            Distance(<<circle[1], circle[2]>>, GeoPoints[x]) <= circle[3]}, d)
          [] n = 1 /\ s[1] \in DOMAIN GeoBoundingBox /\ Len(corners) = 2
               /\ Len(corners[1]) = 2 /\ Len(corners[2]) = 2 ->
                MeansGeo(GeoSound(box, 1) /\ GeoSound(box, 3) /\ box[3] <= box[1],
                         {x \in DOMAIN GeoPoints : InBox(GeoPoints[x], box)}, d)
          [] OTHER -> Malformed

Both(l, r, conj) ==
    IF ~l.wf \/ ~r.wf THEN Malformed
    ELSE [wf |-> TRUE,
          none |-> IF conj THEN l.none \cap r.none ELSE l.none \cup r.none,
          all |-> IF conj THEN l.all \cap r.all ELSE l.all \cup r.all,
          depth |-> IF l.depth > r.depth THEN l.depth ELSE r.depth,
          doubt |-> l.doubt \/ r.doubt]

\* d counts the calls of the parser down to here: four for a parenthesis, one for a NOT.
RECURSIVE Meaning(_, _)
Meaning(s, d) ==
    LET cut(i, conj) == Both(Meaning(SubSeq(s, 1, i - 1), d),
                             Meaning(SubSeq(s, i + 1, Len(s)), d), conj)
        or == Outermost(s, "OR")
        and == Outermost(s, "AND")
    IN  CASE s = <<>> -> Malformed
          [] s # <<>> /\ or > 0 -> cut(or, FALSE)
          [] s # <<>> /\ or = 0 /\ and > 0 -> cut(and, TRUE)
          [] s # <<>> /\ or = 0 /\ and = 0 /\ s[1] = "NOT" ->
                LET m == Meaning(Tail(s), d + 1) IN IF m.wf THEN MeansNot(m) ELSE m
          [] s # <<>> /\ or = 0 /\ and = 0 /\ s[1] = "(" /\ s[Len(s)] = ")" /\ Len(s) > 2 ->
                Meaning(SubSeq(s, 2, Len(s) - 1), d + 4)
          [] OTHER -> AtomMeaning(s, d + 3)

(***************************************************************************)
(* Properties.                                                             *)
(***************************************************************************)

\* parse accepts exactly the well-formed filters that are not nested too deep (filter-
\* parser/src/lib.rs): precedence, parentheses, NOT, the order of the alternatives and the
\* places where an error becomes a failure agree with the grammar.
ParseExact ==
    request.kind = "text" /\ request.typed # <<>> =>
        \A m \in {Meaning(Text, 0)} :
           (parse(Text).res = "ok") <=> (m.wf /\ m.depth <= MAX_FILTER_DEPTH)

\* evaluate returns the documents the filter describes, none of them deleted
\* (filter.rs:225-590): double negations, negated lists, ranges, boxes across the
\* antimeridian and the early exit of a conjunction change nothing.  When it answers
\* although some condition cannot be evaluated, that condition could not matter; it refuses
\* only if there is one.
EvaluationExact ==
    request.kind = "text" /\ request.typed # <<>> =>
        \A r \in {from_str(Text)}, m \in {Meaning(Text, 0)} :
           r.res = "ok" =>
              \A e \in {evaluate(r.tree)} :
                 IF e.res = "ok" THEN e.docs = m.none /\ e.docs = m.all ELSE m.doubt

\* The strings of an inner array that are not blank.
Said(ors) == {s \in {ors[k] : k \in 1..Len(ors)} : s # <<>>}

\* An array of filters is the conjunction of its elements, an inner array the disjunction
\* of its own, blank strings standing for no condition (filter.rs:154-222).
ArrayExact ==
    request.kind = "array" =>
        \A r \in {from_array(request.typed)},
           m \in {[k \in DOMAIN request.typed |-> {Meaning(s, 0) : s \in Said(request.typed[k])}]} :
          /\ (r.res = "ok") <=> \A k \in DOMAIN m : \A x \in m[k] : x.wf
          /\ r.res = "ok" =>
               \A e \in {evaluate(r.tree)} :
                  e.res = "ok" =>
                    e.docs = {d \in DocumentsIds :
                                \A k \in DOMAIN m : m[k] = {} \/ \E x \in m[k] : d \in x.none}

JsonForms(array) ==
    {JsonArray(array)}
    \cup (IF Len(array) = 1 /\ Len(array[1]) = 1 THEN {JsonString(array[1][1])} ELSE {})
    \cup (IF array = <<>> THEN {Absent} ELSE {})

Selected(v) ==
    LET documents(r) == IF r.res = "ok" THEN evaluate(r.tree) ELSE Refused(r.kind)
    IN  documents(parse_filter(v))

\* A tenant sees the documents of its token's rules that its own filter selects, however
\* the two are written (search.rs:312-332): an inner array of the query never swallows the
\* rules, a blank query filter never lifts them, and broken rules let nothing through.
TenantFilterRestricts ==
    request.kind = "array" =>
        \A n \in 0..Len(request.typed) :
          \A filter \in JsonForms(SubSeq(request.typed, 1, n)),
             rules \in JsonForms(SubSeq(request.typed, n + 1, Len(request.typed))) :
            \A both \in {Selected(add_search_rules(filter, rules))},
               own \in {Selected(filter)}, allowed \in {Selected(rules)} :
              CASE both.res # "ok" -> own.res # "ok" \/ allowed.res # "ok"
                [] both.res = "ok" /\ own.res = "ok" /\ allowed.res = "ok" ->
                     both.docs = own.docs \cap allowed.docs
                [] OTHER -> both.docs = {}

RECURSIVE Escape(_)
Escape(chars) ==
    IF chars = <<>> THEN <<>>
    ELSE (IF Head(chars) = "q" THEN <<"b", "q">> ELSE <<Head(chars)>>) \o Escape(Tail(chars))

\* A value in quotes reads back as the text that was quoted, each quote of it escaped
\* (value.rs:16-51), as long as no backslash stands before a quote or at the end.
QuotesRoundTrip ==
    request.kind = "quote" =>
        LET text == request.typed
            clear == \A k \in 1..Len(text) :
                        text[k] = "b" => k < Len(text) /\ text[k + 1] = "x"
            read == quoted_by(Escape(text) \o <<"q", "x">>)
        IN  clear => read = [closed |-> TRUE, text |-> text, left |-> 1]

\* A filter selects the documents it describes from its text to its evaluation: the parser
\* accepts the grammar, arrays and quotes mean what they say, evaluate returns the meaning
\* of the formula (filter-parser, filter.rs).
FiltersExact == ParseExact /\ EvaluationExact /\ ArrayExact /\ QuotesRoundTrip
===============================================================================
