----------------------------- MODULE FilterParser -----------------------------
(***************************************************************************)
(* The filter parser (filter-parser/src).  An input is a sequence of       *)
(* fragments separated by blanks: words, quoted values, keywords,          *)
(* operators, punctuation and whole geo calls.  A parser takes the input   *)
(* and a position and answers like a nom parser: "ok" with the position    *)
(* reached, "error" (another alternative may be tried) or "failure" (the   *)
(* parse is over).  The characters inside a fragment only matter for       *)
(* quoted values, whose escapes are parsed by quoted_by below.             *)
(***************************************************************************)
EXTENDS Integers, Sequences

CONSTANTS
    MAX_FILTER_DEPTH,   \* 200 in the code
    Quoted,             \* fragments in quotes |-> the text they hold
    GeoRadius,          \* _geoRadius(...) fragments |-> the numbers between the
                        \* parentheses, the empty sequence when malformed
    GeoBoundingBox,     \* _geoBoundingBox(...) fragments |-> their points
    ReservedGeo         \* _geo(...), _geoPoint(...), _geoDistance(...)

ASSUME DepthAssumption == MAX_FILTER_DEPTH \in Nat

Keywords == {"AND", "OR", "IN", "NOT", "TO", "EXISTS", "IS", "NULL", "EMPTY"}

Operators == {"<=", ">=", "!=", "<", ">", "="}

Punctuation == {"(", ")", "[", "]", ","}

\* A quote that is never closed: it swallows the rest of the input.
OpenQuote == "'"

\* FilterCondition.  op names the variant (or, for Condition, the operator), values its
\* tokens after fid, subs its sub-filters.
Leaf(op, fid, values) == [op |-> op, fid |-> fid, values |-> values, subs |-> <<>>]

Node(op, subs) == [op |-> op, fid |-> "", values |-> <<>>, subs |-> subs]

NoFilter == Leaf("none", "", <<>>)

Ok(at, tree) == [res |-> "ok", at |-> at, tree |-> tree, kind |-> ""]
Err(kind)    == [res |-> "error", at |-> 0, tree |-> NoFilter, kind |-> kind]
Failure(kind) == [res |-> "failure", at |-> 0, tree |-> NoFilter, kind |-> kind]

\* nom's cut: an error becomes a failure.
Cut(r) == IF r.res = "error" THEN Failure(r.kind) ELSE r

Is(s, i, fragment) == i <= Len(s) /\ s[i] = fragment

-------------------------------------------------------------------------------
\* Mutant: the backslashes stay.
KeepsEscapes(chars) == chars

\* unescape: every escaped quote loses its backslash.  Characters are "q" (the quote),
\* "b" (the backslash) and "x" (any other).
RECURSIVE unescape(_)
unescape(chars) ==
    IF Len(chars) < 2 THEN chars
    ELSE IF chars[1] = "b" /\ chars[2] = "q" THEN <<"q">> \o unescape(Tail(Tail(chars)))
    ELSE <<chars[1]>> \o unescape(Tail(chars))

\* quoted_by: the length of the value up to its closing quote, Len(chars) when none closes
\* it, -1 when the input ends in the middle of an escape.
RECURSIVE ScanQuoted(_, _)
ScanQuoted(chars, i) ==
    IF i > Len(chars) THEN Len(chars)
    ELSE IF chars[i] = "q" THEN i - 1
    ELSE IF chars[i] = "b" THEN IF i = Len(chars) THEN -1 ELSE ScanQuoted(chars, i + 2)
    ELSE ScanQuoted(chars, i + 1)

\* The value between quotes at the start of chars (what follows the opening quote): its
\* text and how many characters the caller has left, or a refusal.
quoted_by(chars) ==
    LET n == ScanQuoted(chars, 1)
        raw == SubSeq(chars, 1, n)
    IN  IF n = -1 \/ n = Len(chars)   \* malformed, or cut(char(quote)) finds no quote
        THEN [closed |-> FALSE, text |-> <<>>, left |-> 0]
        ELSE [closed |-> TRUE, text |-> unescape(raw), left |-> Len(chars) - n - 1]

-------------------------------------------------------------------------------
\* parse_value: a word that is no keyword, or a quoted value.  A geo call here is misused.
parse_value(s, i) ==
    IF i > Len(s) THEN Err("ExpectedValue")
    ELSE CASE s[i] \in ReservedGeo -> Failure("ReservedGeo")
           [] s[i] \in DOMAIN GeoRadius -> Failure("MisusedGeoRadius")
           [] s[i] \in DOMAIN GeoBoundingBox -> Failure("MisusedGeoBoundingBox")
           [] s[i] = OpenQuote -> Failure("MissingClosingDelimiter")
           [] s[i] \in DOMAIN Quoted -> Ok(i + 1, Leaf("value", Quoted[s[i]], <<>>))
           [] s[i] \in Keywords -> Err("ReservedKeyword")
           [] s[i] \in Operators \cup Punctuation -> Err("ExpectedValue")
           [] OTHER -> Ok(i + 1, Leaf("value", s[i], <<>>))

\* parse_condition: value operator value; what follows the operator must be a value.
parse_condition(s, i) ==
    LET condition(fid, op, v) == IF v.res = "ok" THEN Ok(v.at, Leaf(op, fid, <<v.tree.fid>>)) ELSE v
        rest(v) ==
          IF v.res # "ok" THEN v
          ELSE IF v.at <= Len(s) /\ s[v.at] \in Operators
          THEN condition(v.tree.fid, s[v.at], Cut(parse_value(s, v.at + 1)))
          ELSE Err("Tag")
    IN  rest(parse_value(s, i))

\* parse_is_null, parse_is_empty, parse_exists and their negations: value then fixed words.
parse_words(s, i, words, op, negated) ==
    LET rest(v) ==
          IF v.res # "ok" THEN v
          ELSE IF v.at + Len(words) - 1 <= Len(s) /\ SubSeq(s, v.at, v.at + Len(words) - 1) = words
          THEN Ok(v.at + Len(words),
                  IF negated THEN Node("not", <<Leaf(op, v.tree.fid, <<>>)>>)
                  ELSE Leaf(op, v.tree.fid, <<>>))
          ELSE Err("Tag")
    IN  rest(parse_value(s, i))

\* parse_to: value value TO value.
parse_to(s, i) ==
    LET between(fid, from, to) ==
          IF to.res = "ok" THEN Ok(to.at, Leaf("between", fid, <<from, to.tree.fid>>)) ELSE to
        upper(fid, from) ==
          IF from.res # "ok" THEN from
          ELSE IF ~Is(s, from.at, "TO") THEN Err("Tag")
          ELSE between(fid, from.tree.fid, Cut(parse_value(s, from.at + 1)))
        rest(v) == IF v.res # "ok" THEN v ELSE upper(v.tree.fid, parse_value(s, v.at))
    IN  rest(parse_value(s, i))

\* The values after the first of a list: each preceded by a comma.  A comma that no value
\* follows is not consumed here.
RECURSIVE MoreValues(_, _, _)
MoreValues(s, i, values) ==
    LET more(v) ==
          CASE v.res = "ok" -> MoreValues(s, v.at, Append(values, v.tree.fid))
            [] v.res = "failure" -> v
            [] OTHER -> Ok(IF Is(s, i, ",") THEN i + 1 ELSE i, Leaf("list", "", values))
    IN  more(IF Is(s, i, ",") THEN parse_value(s, i + 1) ELSE Err("Tag"))

\* parse_value_list: (value ("," value)* ","?)?
parse_value_list(s, i) ==
    LET list(v) ==
          CASE v.res = "ok" -> MoreValues(s, v.at, <<v.tree.fid>>)
            [] v.res = "error" -> Ok(i, Leaf("list", "", <<>>))
            [] OTHER -> v
    IN  list(parse_value(s, i))

\* parse_in_body: IN "[" list "]"; after IN everything is due.
parse_in_body(s, i) ==
    LET closed(list) ==
          IF list.res # "ok" THEN list
          ELSE IF ~Is(s, list.at, "]") THEN Failure("InClosingBracket")
          ELSE Ok(list.at + 1, list.tree)
    IN  IF ~Is(s, i, "IN") THEN Err("Tag")
        ELSE IF ~Is(s, i + 1, "[") THEN Failure("InOpeningBracket")
        ELSE closed(Cut(parse_value_list(s, i + 2)))

\* parse_in and parse_not_in.
parse_in(s, i) ==
    LET in(fid, body) ==
          IF body.res = "ok" THEN Ok(body.at, Leaf("in", fid, body.tree.values)) ELSE body
        rest(v) == IF v.res # "ok" THEN v ELSE in(v.tree.fid, parse_in_body(s, v.at))
    IN  rest(parse_value(s, i))

parse_not_in(s, i) ==
    LET notIn(fid, body) ==
          IF body.res = "ok" THEN Ok(body.at, Node("not", <<Leaf("in", fid, body.tree.values)>>))
          ELSE body
        rest(v) ==
          IF v.res # "ok" THEN v
          ELSE IF ~Is(s, v.at, "NOT") THEN Err("Tag")
          ELSE notIn(v.tree.fid, parse_in_body(s, v.at + 1))
    IN  rest(parse_value(s, i))

\* parse_geo_radius and parse_geo_bounding_box: once the name is read the rest is due, with
\* the right number of arguments.
parse_geo_radius(s, i) ==
    IF i > Len(s) \/ s[i] \notin DOMAIN GeoRadius THEN Err("GeoRadius")
    ELSE IF Len(GeoRadius[s[i]]) # 3 THEN Failure("GeoRadius")
    ELSE Ok(i + 1, Leaf("geoRadius", "_geo", GeoRadius[s[i]]))

parse_geo_bounding_box(s, i) ==
    IF i > Len(s) \/ s[i] \notin DOMAIN GeoBoundingBox THEN Err("GeoBoundingBox")
    ELSE LET args == GeoBoundingBox[s[i]]
         IN  IF Len(args) # 2 \/ Len(args[1]) # 2 \/ Len(args[2]) # 2
             THEN Failure("GeoBoundingBox")
             ELSE Ok(i + 1, Leaf("geoBox", "_geo", args[1] \o args[2]))

\* parse_error_reserved_keyword: a keyword where a value is due ends the parse.
parse_error_reserved_keyword(s, i) ==
    LET reserved(r) ==
          CASE r.res = "ok" -> r
            [] r.kind = "ReservedKeyword" -> Failure(r.kind)
            [] OTHER -> Err(r.kind)
    IN  reserved(parse_condition(s, i))

-------------------------------------------------------------------------------
RECURSIVE parse_or(_, _, _), parse_and(_, _, _), parse_not(_, _, _), parse_primary(_, _, _)
RECURSIVE Alternative(_, _, _, _), Alternatives(_, _, _, _), Operands(_, _, _, _, _)

\* many0(preceded(keyword, cut(operand))): the operands gathered after the first.
Operands(s, i, d, keyword, subs) ==
    LET gather(r) ==
          IF r.res # "ok" THEN r ELSE Operands(s, r.at, d, keyword, Append(subs, r.tree))
    IN  IF ~Is(s, i, keyword) THEN Ok(i, Node("", subs))
        ELSE gather(Cut(IF keyword = "OR" THEN parse_and(s, i + 1, d) ELSE parse_not(s, i + 1, d)))

\* A first operand and the others: no node is made for a single one.
Chain(s, first, d, keyword, op) ==
    LET chained(all) ==
          IF all.res # "ok" THEN all
          ELSE Ok(all.at, IF Len(all.tree.subs) = 1 THEN first.tree ELSE Node(op, all.tree.subs))
    IN  IF first.res # "ok" THEN first
        ELSE chained(Operands(s, first.at, d, keyword, <<first.tree>>))

parse_or(s, i, d) ==
    IF d > MAX_FILTER_DEPTH THEN Err("DepthLimitReached")
    ELSE Chain(s, parse_and(s, i, d + 1), d + 1, "OR", "or")

parse_and(s, i, d) ==
    IF d > MAX_FILTER_DEPTH THEN Err("DepthLimitReached")
    ELSE Chain(s, parse_not(s, i, d + 1), d + 1, "AND", "and")

\* The negation of a parsed filter: two negations cancel.
Negate(e) == IF e.op = "not" THEN e.subs[1] ELSE Node("not", <<e>>)

parse_not(s, i, d) ==
    LET negated(r) == IF r.res = "ok" THEN Ok(r.at, Negate(r.tree)) ELSE r
    IN  IF d > MAX_FILTER_DEPTH THEN Err("DepthLimitReached")
        ELSE IF Is(s, i, "NOT") THEN negated(Cut(parse_not(s, i + 1, d + 1)))
        ELSE parse_primary(s, i, d + 1)

\* The alternatives of parse_primary, in the order they are tried.
Alternative(s, i, d, k) ==
    LET closed(inner) ==
          IF inner.res # "ok" THEN inner
          ELSE IF Is(s, inner.at, ")") THEN Ok(inner.at + 1, inner.tree)
          ELSE Failure("MissingClosingDelimiter")
    IN  CASE k = 1 -> IF Is(s, i, "(") THEN closed(Cut(parse_or(s, i + 1, d + 1))) ELSE Err("Char")
          [] k = 2 -> parse_geo_radius(s, i)
          [] k = 3 -> parse_geo_bounding_box(s, i)
          [] k = 4 -> parse_in(s, i)
          [] k = 5 -> parse_not_in(s, i)
          [] k = 6 -> parse_condition(s, i)
          [] k = 7 -> parse_words(s, i, <<"IS", "NULL">>, "null", FALSE)
          [] k = 8 -> parse_words(s, i, <<"IS", "NOT", "NULL">>, "null", TRUE)
          [] k = 9 -> parse_words(s, i, <<"IS", "EMPTY">>, "empty", FALSE)
          [] k = 10 -> parse_words(s, i, <<"IS", "NOT", "EMPTY">>, "empty", TRUE)
          [] k = 11 -> parse_words(s, i, <<"EXISTS">>, "exists", FALSE)
          [] k = 12 -> parse_words(s, i, <<"NOT", "EXISTS">>, "exists", TRUE)
          [] k = 13 -> parse_to(s, i)
          [] k = 14 -> IF i <= Len(s) /\ s[i] \in ReservedGeo
                       THEN Failure("ReservedGeo") ELSE Err("ReservedGeo")
          [] k = 15 -> parse_error_reserved_keyword(s, i)

\* The first of them, from the k-th, that is no error.
Alternatives(s, i, d, k) ==
    LET first(r) ==
          IF r.res # "error" THEN r
          ELSE IF k = 15 THEN Err("InvalidPrimary")
          ELSE Alternatives(s, i, d, k + 1)
    IN  first(Alternative(s, i, d, k))

parse_primary(s, i, d) ==
    IF d > MAX_FILTER_DEPTH THEN Err("DepthLimitReached") ELSE Alternatives(s, i, d, 1)

\* Mutant: what follows the filter is ignored.
IgnoresTheRest(s) == IF s = <<>> THEN Ok(1, NoFilter) ELSE parse_or(s, 1, 0)

\* parse_filter and FilterCondition::parse: the whole input must be used; a blank one is no
\* filter at all.
parse(s) ==
    LET whole(r) == IF r.res = "ok" /\ r.at <= Len(s) THEN Err("Eof") ELSE r
    IN  IF s = <<>> THEN Ok(1, NoFilter) ELSE whole(parse_or(s, 1, 0))

\* token_at_depth: is there a condition that many levels of AND and OR down?  It does not
\* look under NOT, IN and bounding boxes.
RECURSIVE token_at_depth(_, _)
token_at_depth(tree, depth) ==
    CASE tree.op \in {"or", "and"} ->
            \E n \in 1..Len(tree.subs) :
               token_at_depth(tree.subs[n], IF depth = 0 THEN 0 ELSE depth - 1)
      [] tree.op \in {"not", "in", "geoBox", "none"} -> FALSE
      [] OTHER -> depth = 0
===============================================================================
