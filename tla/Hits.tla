--------------------------------- MODULE Hits ---------------------------------
(***************************************************************************)
(* The fields of a hit (meilisearch/src/search.rs): which attributes of a  *)
(* document are shown, and which are highlighted or cropped in its         *)
(* _formatted copy, with the selection of nested values by dotted names    *)
(* (permissive-json-pointer).  A name is its sequence of segments; a       *)
(* document is a tree of objects, lists and leaves, and a leaf remembers   *)
(* how it was formatted.                                                   *)
(***************************************************************************)
EXTENDS Integers, Sequences, FiniteSets, ClientRequest

CONSTANTS
    Document,          \* the stored document: an object
    FieldNames,        \* the names of fields_ids_map, in the order of their ids
    DisplayedChoices,  \* the displayed attributes: sets of names
    AskedChoices       \* attributes asked in a request: sets of names

Star == <<"*">>
NoFormat == [highlight |-> FALSE, crop |-> FALSE, touched |-> FALSE]

LeafNode == [type |-> "leaf", format |-> NoFormat]
List(items) == [type |-> "list", items |-> items]
Object(fields) == [type |-> "object", fields |-> fields]

Names == {FieldNames[k] : k \in 1..Len(FieldNames)}

\* contained_in: key is the name or one of its parents.
contained_in(selector, key) ==
    Len(key) <= Len(selector) /\ SubSeq(selector, 1, Len(key)) = key

Related(n, m) == contained_in(n, m) \/ contained_in(m, n)

is_simple(key) == Len(key) = 1

\* create_value and create_array: what the selectors keep of an object or of a list.
RECURSIVE create_value(_, _), create_array(_, _)

create_array(items, selectors) ==
    LET kept(item) ==
          CASE item.type = "list" -> List(create_array(item.items, selectors))
            [] item.type = "object" -> Object(create_value(item.fields, selectors))
            [] OTHER -> List(<<>>)
        nonEmpty(item) == IF item.type = "list" THEN item.items # <<>> ELSE DOMAIN item.fields # {}
    IN  SelectSeq([k \in 1..Len(items) |-> kept(items[k])], nonEmpty)

\* Mutant: an object is kept whole when something below it is selected.
KeepsParents(fields, selectors) ==
    [key \in {k \in DOMAIN fields : \E s \in selectors : contained_in(s, k)} |-> fields[key]]

create_value(fields, selectors) ==
    LET below(key) == {SubSeq(s, Len(key) + 1, Len(s)) :
                         s \in {s \in selectors : contained_in(s, key) /\ s # key}}
        part(key) ==
          IF below(key) = {} \/ fields[key].type = "leaf" THEN LeafNode
          ELSE IF fields[key].type = "list" THEN List(create_array(fields[key].items, below(key)))
          ELSE Object(create_value(fields[key].fields, below(key)))
        partial(key) ==
          LET p == part(key)
          IN  CASE p.type = "leaf" -> FALSE
                [] p.type = "list" -> p.items # <<>>
                [] OTHER -> DOMAIN p.fields # {}
        whole(key) == key \in selectors /\ (is_simple(key) \/ ~partial(key))
    IN  [key \in {k \in DOMAIN fields : k \in selectors \/ partial(k)} |->
           IF whole(key) THEN fields[key] ELSE part(key)]

select_values(fields, selectors) == create_value(fields, selectors)

\* The mapper of format_fields: a leaf is formatted by all the options that concern it.
Formatted(leaf, name, options) ==
    LET on == {options[n] : n \in {n \in DOMAIN options : Related(n, name)}}
    IN  [leaf EXCEPT !.format = [highlight |-> \E o \in on : o.highlight,
                                 crop |-> \E o \in on : o.crop, touched |-> on # {}]]

\* map_leaf_values: the mapper on every leaf whose name is related to a selector.
RECURSIVE map_leaf_values(_, _, _, _), MapItems(_, _, _, _)

MapItems(node, selectors, base, options) ==
    CASE node.type = "leaf" -> Formatted(node, base, options)
      [] node.type = "list" ->
           List([k \in 1..Len(node.items) |-> MapItems(node.items[k], selectors, base, options)])
      [] OTHER -> Object(map_leaf_values(node.fields, selectors, base, options))

map_leaf_values(fields, selectors, base, options) ==
    [key \in DOMAIN fields |->
        IF \E s \in selectors : Related(s, base \o key)
        THEN MapItems(fields[key], selectors, base \o key, options)
        ELSE fields[key]]

-------------------------------------------------------------------------------
\* perform_search: the displayed fields, all of them when the setting is absent, and those
\* to retrieve, by name.
fids(attrs, displayed) == IF Star \in attrs THEN displayed ELSE attrs \cap Names

ToRetrieve(r) == fids(r.retrieve, r.displayed) \cap r.displayed

\* compute_formatted_options: name |-> what is asked of it.
add_highlight_to_formatted_options(r) ==
    IF Star \in r.highlight THEN r.displayed ELSE r.highlight \cap Names \cap r.displayed

add_crop_to_formatted_options(r) ==
    (IF Star \in r.crop THEN r.displayed ELSE {}) \cup (r.crop \cap Names \cap r.displayed)

\* Mutant: the retrieved attributes are missing from _formatted.
OnlyFormatted(r) ==
    LET high == add_highlight_to_formatted_options(r)
        crop == add_crop_to_formatted_options(r)
    IN  [n \in high \cup crop |-> [highlight |-> n \in high, crop |-> n \in crop, touched |-> TRUE]]

compute_formatted_options(r) ==
    LET high == add_highlight_to_formatted_options(r)
        crop == add_crop_to_formatted_options(r)
        asked == high \cup crop
        all == IF asked = {} THEN {} ELSE asked \cup ToRetrieve(r)
    IN  [n \in all |-> [highlight |-> n \in high, crop |-> n \in crop, touched |-> TRUE]]

\* make_document: the displayed part of the stored document.
make_document(r) == select_values(Document, r.displayed)

\* format_fields: the displayed leaves are formatted, then the attributes that have an
\* option are selected.
format_fields(fields, options, displayed) ==
    select_values(map_leaf_values(fields, displayed, <<>>, options), DOMAIN options)

\* A hit: the document and its _formatted copy.
Hit(r) ==
    LET shown == make_document(r)
    IN  [document |-> select_values(shown, ToRetrieve(r)),
         formatted |-> format_fields(shown, compute_formatted_options(r), r.displayed)]

-------------------------------------------------------------------------------
HitInit == request = [kind |-> "hit", displayed |-> Names, retrieve |-> {Star},
                      highlight |-> {}, crop |-> {}]

SetDisplayed ==
    /\ request.kind = "hit" /\ request.displayed = Names
    /\ \E d \in DisplayedChoices : request' = [request EXCEPT !.displayed = d]

Ask ==
    /\ request.kind = "hit"
    /\ \E attrs \in AskedChoices :
         \/ request.retrieve = {Star} /\ request' = [request EXCEPT !.retrieve = attrs]
         \/ request.highlight = {} /\ request' = [request EXCEPT !.highlight = attrs]
         \/ request.crop = {} /\ request' = [request EXCEPT !.crop = attrs]

HitNext == SetDisplayed \/ Ask

-------------------------------------------------------------------------------
(***************************************************************************)
(* Properties.  The leaves of a tree are <<name, format>> pairs.           *)
(***************************************************************************)

RECURSIVE LeavesOf(_, _)
LeavesOf(node, name) ==
    CASE node.type = "leaf" -> {<<name, node.format>>}
      [] node.type = "list" -> UNION {LeavesOf(node.items[k], name) : k \in 1..Len(node.items)}
      [] OTHER -> UNION {LeavesOf(node.fields[k], name \o k) : k \in DOMAIN node.fields}

Leaves(fields) == LeavesOf(Object(fields), <<>>)

Covered(name, attrs) == \E a \in attrs : contained_in(name, a)

\* No value that is not under a displayed attribute is shown, in the document or in its
\* _formatted copy, whatever is asked to be retrieved, highlighted or cropped
\* (search.rs:459-530).
HiddenStaysHidden ==
    request.kind = "hit" =>
        LET hit == Hit(request)
        IN  \A leaf \in Leaves(hit.document) \cup Leaves(hit.formatted) :
               Covered(leaf[1], request.displayed)

\* _formatted holds every displayed value under an attribute asked to be highlighted or
\* cropped, or retrieved beside one, and nothing else; a value in it is highlighted, and
\* cropped, if and only if an attribute related to it was asked to be
\* (search.rs:676-836).
FormattedAsAsked ==
    request.kind = "hit" =>
        LET r == request
            valid(attrs) == fids(attrs, r.displayed) \cap r.displayed
            asked == valid(r.highlight) \cup valid(r.crop)
            due == IF asked = {} THEN {} ELSE asked \cup valid(r.retrieve)
            concerns(name, attrs) == \E a \in valid(attrs) : Related(a, name)
            leaves == Leaves(Hit(r).formatted)
        IN  /\ {leaf[1] : leaf \in leaves} =
                 {leaf[1] : leaf \in {l \in Leaves(Document) :
                                        Covered(l[1], due) /\ Covered(l[1], r.displayed)}}
            /\ \A leaf \in leaves :
                 /\ leaf[2].highlight <=> concerns(leaf[1], r.highlight)
                 /\ leaf[2].crop <=> concerns(leaf[1], r.crop)

\* The fields of a hit are the displayed ones that were asked for, in the document and in
\* its formatted copy, each formatted as asked (search.rs, permissive-json-pointer).
FieldsShown == HiddenStaysHidden /\ FormattedAsAsked
===============================================================================
