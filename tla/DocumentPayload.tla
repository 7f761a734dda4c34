---------------------------- MODULE DocumentPayload ----------------------------
(***************************************************************************)
(* What becomes of the documents of a POST or PUT /documents: the body is  *)
(* received chunk by chunk into a temporary file, read as JSON, NDJSON or  *)
(* CSV into a batch (meilisearch-types document_formats, milli             *)
(* documents/builder.rs), kept as an update file and registered as a task; *)
(* when the task is processed the batch is read again and the id of each   *)
(* document is found (enrich.rs).  A name is its sequence of segments      *)
(* around the dots; an option is a set of at most one element.             *)
(***************************************************************************)
EXTENDS Integers, Sequences, FiniteSets, SequencesExt, FiniteSetsExt, ClientRequest

CONSTANTS
    PayloadTexts,   \* what a body may hold, by format
    PayloadLimit,   \* http_payload_size_limit, in the unit of ChunkSizes
    ChunkSizes,     \* sizes of the chunks of a body, 0 being an empty chunk
    MaxChunks,      \* bound: chunks of one body
    MaxPayloadFaults,      \* bound: steps of one request that fail for another reason than the payload
    Trimmed,        \* a text of a CSV cell |-> str::trim of it
    ParseI64,       \* the texts that are integers |-> the JSON of the integer
    ParseF64,       \* the texts that are floats |-> the JSON of the float, NotFinite for NaN and inf
    NotFinite,
    ValidIds,       \* the strings made of letters, digits, - and _, not empty
    IdNames,        \* the names that end with "id", whatever their case
    IndexKeys       \* primary keys of the index when its batch is processed: options of a name

\* A JSON value: a scalar and its text, an array, an object; Broken stands for a place where the
\* text is not JSON or stops.
Scalar(type, text) == [type |-> type, text |-> text]
JsonNull == Scalar("null", "null")
JsonList(items) == [type |-> "array", items |-> items]
JsonObject(fields) == [type |-> "object", fields |-> fields]
Broken == [type |-> "broken"]

GeoName == <<"_geo">>
DefaultPrimaryKey == <<"id">>

-------------------------------------------------------------------------------
(***************************************************************************)
(* The batch: documents whose fields are numbered by a fields index, the   *)
(* number of a name being its place in the index.                          *)
(***************************************************************************)

NewBatch == [fields_index |-> <<>>, documents |-> <<>>]

\* DocumentsBatchIndex::id, an option.
FieldIdOf(index, name) == {k \in DOMAIN index : index[k] = name}

\* Mutant: every document numbers its fields from its own names.
InsertFirst(index, name) == <<name>> \o SelectSeq(index, LAMBDA n : n # name)

\* DocumentsBatchIndex::insert.
InsertField(index, name) == IF FieldIdOf(index, name) = {} THEN Append(index, name) ELSE index

\* append_json_object, and the end of a line of append_csv: the fields are inserted in the
\* index, then the document is written by the numbers of its fields.
append_json_object(builder, object) ==
    LET names == SetToSeq(DOMAIN object)
        index == FoldLeft(InsertField, builder.fields_index, names)
    IN  [fields_index |-> index,
         documents |-> Append(builder.documents,
                              [id \in UNION {FieldIdOf(index, n) : n \in DOMAIN object} |-> object[index[id]]])]

\* obkv_to_object.
obkv_to_object(document, index) ==
    [name \in {index[id] : id \in DOMAIN document} |->
        document[CHOOSE id \in DOMAIN document : index[id] = name]]

ObjectsOf(batch) ==
    [k \in 1..Len(batch.documents) |-> obkv_to_object(batch.documents[k], batch.fields_index)]

-------------------------------------------------------------------------------
(***************************************************************************)
(* The formats.  A text of JSON or NDJSON is the sequence of its top-level *)
(* values; a CSV one has rows and headers: the whole header, and what is   *)
(* before and after its last colon.                                        *)
(***************************************************************************)

MalformedPayload == [error |-> {"malformed_payload"}, builder |-> NewBatch]
IoError == [error |-> {"io"}, builder |-> NewBatch]
ReadInto(builder) == [error |-> {}, builder |-> builder]

AppendAll(builder, values) ==
    FoldLeft(LAMBDA b, v : append_json_object(b, v.fields), builder, values)

\* The place of the first value that is not an object, one more than the last when all are.
FirstOther(values) ==
    Min({Len(values) + 1} \cup {k \in DOMAIN values : values[k].type # "object"})

\* array_each: the objects of an array up to the first other value; "data" is serde_json's
\* Category::Data, a value of another type than expected.  What follows the array is not read.
array_each(values, builder) ==
    IF values = <<>> THEN [outcome |-> "eof", builder |-> builder]
    ELSE IF values[1].type = "broken" THEN [outcome |-> "syntax", builder |-> builder]
    ELSE IF values[1].type # "array" THEN [outcome |-> "data", builder |-> builder]
    ELSE LET items == values[1].items
             other == FirstOther(items)
         IN  [outcome |-> IF other > Len(items) THEN "done"
                          ELSE IF items[other].type = "broken" THEN "syntax" ELSE "data",
              builder |-> AppendAll(builder, SubSeq(items, 1, other - 1))]

\* Mutant: a payload that is not an array is read as the object it starts with.
ReadsFirstObject(values) ==
    LET each == array_each(values, NewBatch)
    IN  CASE each.outcome = "done" -> ReadInto(each.builder)
          [] each.outcome = "data" /\ values[1].type = "object" ->
               ReadInto(append_json_object(each.builder, values[1].fields))
          [] OTHER -> MalformedPayload

\* read_json: an array of objects or, when the text is of another type, one object and nothing else.
read_json(values) ==
    LET each == array_each(values, NewBatch)
    IN  CASE each.outcome = "done" -> ReadInto(each.builder)
          [] each.outcome = "data" /\ Len(values) = 1 /\ values[1].type = "object" ->
               ReadInto(append_json_object(each.builder, values[1].fields))
          [] OTHER -> MalformedPayload

\* read_ndjson: objects, to the end of the text.
read_ndjson(values) ==
    IF FirstOther(values) <= Len(values) THEN MalformedPayload ELSE ReadInto(AppendAll(NewBatch, values))

\* parse_csv_header: a type after the last colon, or the whole header and strings.
parse_csv_header(header) ==
    IF header.field_type \in {"string", "boolean", "number"}
    THEN [name |-> header.field_name, type |-> header.field_type]
    ELSE [name |-> header.whole, type |-> "string"]

\* The value of one cell, an option: none when it is not of the type of its column.
CellValue(type, cell) ==
    LET t == Trimmed[cell]
    IN  CASE type = "string" -> {IF cell = "" THEN JsonNull ELSE Scalar("string", cell)}
          [] t = "" -> {JsonNull}
          [] type = "boolean" -> IF t \in {"true", "false"} THEN {Scalar("boolean", t)} ELSE {}
          [] t \in DOMAIN ParseI64 -> {Scalar("integer", ParseI64[t])}
          [] t \in DOMAIN ParseF64 ->
               {IF ParseF64[t] = NotFinite THEN JsonNull ELSE Scalar("float", ParseF64[t])}
          [] OTHER -> {}

\* The fate of a row of append_csv: its cells are converted in the order of their field ids, and
\* the batch refuses to write the same field twice in a document.
RowFate(columns, index, row) ==
    LET first(ids) == Min({Len(index) + 1} \cup ids)
        field(k) == CHOOSE id \in FieldIdOf(index, columns[k].name) : TRUE
        unreadable == first({field(k) : k \in {k \in DOMAIN columns : CellValue(columns[k].type, row[k]) = {}}})
        twice == first({field(k) : k \in {k \in DOMAIN columns : \E l \in 1..(k - 1) : field(l) = field(k)}})
    IN  IF Len(row) # Len(columns) THEN "malformed"
        ELSE IF unreadable <= Min({twice, Len(index)}) THEN "malformed"
        ELSE IF twice <= Len(index) THEN "io" ELSE "read"

\* read_csv, append_csv.
read_csv(headers, rows) ==
    LET columns == [k \in DOMAIN headers |-> parse_csv_header(headers[k])]
        index == FoldLeft(LAMBDA ix, c : InsertField(ix, c.name), <<>>, columns)
        refused == {k \in DOMAIN rows : RowFate(columns, index, rows[k]) # "read"}
        document(row) ==
          [n \in {columns[k].name : k \in DOMAIN columns} |->
             LET k == CHOOSE k \in DOMAIN columns : columns[k].name = n
             IN  CHOOSE v \in CellValue(columns[k].type, row[k]) : TRUE]
    IN  IF refused = {}
        THEN ReadInto(FoldLeft(LAMBDA b, row : append_json_object(b, document(row)),
                               [NewBatch EXCEPT !.fields_index = index], rows))
        ELSE IF RowFate(columns, index, rows[Min(refused)]) = "io" THEN IoError ELSE MalformedPayload

ReadPayload(format, text) ==
    CASE format = "json" -> read_json(text.values)
      [] format = "ndjson" -> read_ndjson(text.values)
      [] OTHER -> read_csv(text.headers, text.rows)

-------------------------------------------------------------------------------
(***************************************************************************)
(* The ids of the documents of a batch (enrich.rs).  An id is found or     *)
(* generated; a refusal is an option of an error.                          *)
(***************************************************************************)

\* validate_document_id_value, an option.
validate_document_id_value(value) ==
    IF value.type = "integer" \/ (value.type = "string" /\ value.text \in ValidIds) THEN {value.text} ELSE {}

\* starts_with: key is the selector or one of its parents.
SelectorStartsWith(selector, key) == IsPrefix(key, selector)

\* fetch_matching_values_in_object: the values, not objects, found on the way to the selector.
\* Objects are followed as deep as the selector is long.
RECURSIVE fetch_matching_values_in_object(_, _, _)
fetch_matching_values_in_object(fields, selector, base) ==
    LET on == {key \in DOMAIN fields : SelectorStartsWith(selector, base \o key)}
        found(key) == IF fields[key].type = "object"
                      THEN fetch_matching_values_in_object(fields[key].fields, selector, base \o key)
                      ELSE <<fields[key]>>
    IN  FoldLeft(LAMBDA all, key : all \o found(key), <<>>, SetToSeq(on))

fetch_matching_values(value, selector) ==
    IF value.type = "object" THEN fetch_matching_values_in_object(value.fields, selector, <<>>) ELSE <<value>>

\* possible_level_names: the primary key split at one of its dots, or whole.
possible_level_names(key) == [k \in 1..Len(key) |-> [first |-> SubSeq(key, 1, k), right |-> SubSeq(key, k + 1, Len(key))]]

\* Mutant: the values below the first level of the key that is found are the only candidates.
StopsAtFirstLevel(object, key) ==
    LET levels == SelectSeq(possible_level_names(key), LAMBDA l : l.first \in DOMAIN object)
    IN  IF levels = <<>> THEN <<>> ELSE fetch_matching_values(object[levels[1].first], levels[1].right)

\* The values that may be the id of a document under a nested primary key.
MatchingIds(object, key) ==
    FoldLeft(LAMBDA all, l : IF l.first \in DOMAIN object THEN all \o fetch_matching_values(object[l.first], l.right) ELSE all,
             <<>>, possible_level_names(key))

FoundId(ids) ==
    IF ids = {} THEN [error |-> {"invalid_document_id"}]
    ELSE [error |-> {}, id |-> CHOOSE i \in ids : TRUE, generated |-> FALSE]
MissingDocumentId == [error |-> {"missing_document_id"}]

\* fetch_or_generate_document_id: a flat key is a field whatever dots its name has, a nested one
\* is a path.
fetch_or_generate_document_id(object, key, flat, autogenerate) ==
    IF flat
    THEN IF key \in DOMAIN object THEN FoundId(validate_document_id_value(object[key]))
         ELSE IF autogenerate THEN [error |-> {}, id |-> "uuid", generated |-> TRUE] ELSE MissingDocumentId
    ELSE LET matching == MatchingIds(object, key)
         IN  IF Len(matching) >= 2 THEN [error |-> {"too_many_document_ids"}]
             ELSE IF matching = <<>> THEN MissingDocumentId ELSE FoundId(validate_document_id_value(matching[1]))

\* extract_finite_float_from_value.
IsFiniteFloat(value) ==
    \/ value.type \in {"integer", "float"}
    \/ /\ value.type = "string" /\ value.text \in DOMAIN ParseF64
       /\ ParseF64[value.text] # NotFinite

\* validate_geo_from_json.
validate_geo_from_json(value) ==
    IF value.type = "null" THEN TRUE
    ELSE /\ value.type = "object" /\ DOMAIN value.fields = {<<"lat">>, <<"lng">>}
         /\ \A c \in DOMAIN value.fields : IsFiniteFloat(value.fields[c])

\* The primary key of the batch, an option, and why there is none: the one of the index, nested
\* when its name has a dot, or the only field whose name looks like an id, always flat.
BatchKey(index_key, fields_index, autogenerate) ==
    LET guesses == {n \in ToSet(fields_index) : n \in IdNames}
    IN  IF index_key # {}
        THEN LET key == CHOOSE k \in index_key : TRUE
             IN  IF Len(key) > 1 \/ key \in ToSet(fields_index) \/ autogenerate
                 THEN [error |-> {}, key |-> key, flat |-> Len(key) = 1] ELSE MissingDocumentId
        ELSE IF guesses = {}
        THEN IF autogenerate THEN [error |-> {}, key |-> DefaultPrimaryKey, flat |-> TRUE]
             ELSE [error |-> {"no_candidate"}]
        ELSE IF Cardinality(guesses) > 1 THEN [error |-> {"multiple_candidates"}]
        ELSE [error |-> {}, key |-> CHOOSE n \in guesses : TRUE, flat |-> TRUE]

\* enrich_documents_batch: the documents one after the other, the first refused one refusing them
\* all; geo is _geo being filterable or sortable.
enrich_documents_batch(batch, index_key, geo, autogenerate) ==
    LET key == BatchKey(index_key, batch.fields_index, autogenerate)
        objects == ObjectsOf(batch)
        found == [k \in DOMAIN objects |->
                    fetch_or_generate_document_id(objects[k], key.key, key.flat, autogenerate)]
        badGeo(k) == geo /\ GeoName \in DOMAIN objects[k] /\ ~validate_geo_from_json(objects[k][GeoName])
        refused == {k \in DOMAIN objects : found[k].error # {} \/ badGeo(k)}
        why(k) == IF found[k].error # {} THEN found[k].error ELSE {"invalid_geo"}
    IN  IF key.error # {} THEN [error |-> key.error]
        ELSE IF refused # {} THEN [error |-> why(Min(refused))]
        ELSE [error |-> {}, key |-> key.key, ids |-> found]

\* delete_documents_batch: the ids of a body, strings as they are and other values as JSON.
DeletionId(value) == IF value.type \in {"array", "object"} THEN "not an id" ELSE value.text

-------------------------------------------------------------------------------
(***************************************************************************)
(* The request.                                                            *)
(***************************************************************************)

\* extract_mime_type and the formats of document_addition, an option.
PayloadFormat(mime, delimiter) ==
    CASE mime = "application/json" /\ ~delimiter -> {"json"}
      [] mime = "application/x-ndjson" /\ ~delimiter -> {"ndjson"}
      [] mime = "text/csv" -> {"csv"}
      [] OTHER -> {}

NoText == [headers |-> <<>>, rows |-> <<>>, values |-> <<>>]

PayloadInit ==
    \E mime \in {"application/json", "application/x-ndjson", "text/csv", "another", "unreadable", "missing"},
       delimiter \in BOOLEAN :
         request = [kind |-> "payload", pc |-> "asked", mime |-> mime, delimiter |-> delimiter,
                    format |-> "none", chunks |-> <<>>, remaining |-> PayloadLimit, written |-> 0,
                    text |-> NoText, file |-> "none", batch |-> NewBatch, task |-> {}, faults |-> {},
                    answer |-> "none", index_key |-> {}, geo |-> FALSE, autogenerate |-> FALSE, enriched |-> {}]

AtStep(pc) == request.kind = "payload" /\ request.pc = pc

\* The request ends with an error, and its file that was not persisted is dropped.
RefusePayload(error) ==
    [request EXCEPT !.pc = "refused", !.answer = error, !.file = IF @ = "temporary" THEN "none" ELSE @]

\* The step in hand fails for a reason of its own.
PayloadFault(step) ==
    /\ Cardinality(request.faults) < MaxPayloadFaults
    /\ request' = [RefusePayload("internal") EXCEPT !.faults = @ \cup {step}]

OpenPayload ==
    /\ AtStep("asked")
    /\ LET format == PayloadFormat(request.mime, request.delimiter)
       IN  \/ /\ format = {}
              /\ request' = RefusePayload(CASE request.mime = "missing" -> "missing_content_type"
                                     [] request.mime \in {"another", "unreadable"} -> "invalid_content_type"
                                     [] OTHER -> "csv_delimiter_with_wrong_content_type")
           \/ /\ format # {}
              /\ \/ request' = [request EXCEPT !.pc = "receiving", !.file = "temporary",
                                               !.format = CHOOSE f \in format : TRUE]
                 \/ PayloadFault("open")

\* Payload::poll_next and one turn of the loop of document_addition.
ReceiveChunk(size) ==
    /\ AtStep("receiving") /\ Len(request.chunks) < MaxChunks
    /\ LET received == [request EXCEPT !.chunks = Append(@, size)]
       IN  request' = IF size > request.remaining
                      THEN [RefusePayload("payload_too_large") EXCEPT !.chunks = received.chunks]
                      ELSE IF size = 0 /\ request.written = 0
                      THEN [RefusePayload("missing_payload") EXCEPT !.chunks = received.chunks]
                      ELSE [received EXCEPT !.remaining = @ - size, !.written = @ + 1]

LoseConnection == AtStep("receiving") /\ PayloadFault("receive")

\* The body has ended: what it holds can be read.
EndOfBody ==
    /\ AtStep("receiving")
    /\ \/ request.written = 0 /\ request' = RefusePayload("missing_payload")
       \/ /\ request.written > 0
          /\ \E text \in PayloadTexts[request.format] :
               request' = [request EXCEPT !.pc = "received", !.text = text]
       \/ request.written > 0 /\ PayloadFault("flush")

\* The blocking task that reads the body and persists the update file.
ReadAndPersist ==
    /\ AtStep("received")
    /\ LET read == ReadPayload(request.format, request.text)
       IN  \/ read.error # {} /\ request' = RefusePayload(CHOOSE e \in read.error : TRUE)
           \/ /\ read.error = {}
              /\ \/ request' = [request EXCEPT !.pc = "persisted", !.file = "persisted", !.batch = read.builder]
                 \/ PayloadFault("persist")

\* The task panics, its file persisted or not: the file is deleted, and not finding it is no error.
ReadPanics == AtStep("received") /\ PayloadFault("read panics")

RegisterAddition ==
    /\ AtStep("persisted")
    /\ request' = [request EXCEPT !.pc = "accepted", !.answer = "accepted",
                                  !.task = {Len(request.batch.documents)}]

\* register fails: its file is deleted.
RegisterFails ==
    /\ AtStep("persisted") /\ Cardinality(request.faults) < MaxPayloadFaults
    /\ request' = [request EXCEPT !.pc = "refused", !.answer = "internal", !.file = "none",
                                  !.faults = @ \cup {"register"}]

\* register panics, the task being in the queue or not: nothing is deleted.
RegisterPanics ==
    /\ AtStep("persisted") /\ Cardinality(request.faults) < MaxPayloadFaults
    /\ \E task \in {{}, {Len(request.batch.documents)}} :
         request' = [request EXCEPT !.pc = "refused", !.answer = "internal", !.task = task,
                                    !.faults = @ \cup {"register panics"}]

\* IndexDocuments::add_documents, on an index in any state; an empty batch is not looked at.
ProcessAddition(index_key, geo, autogenerate) ==
    /\ AtStep("accepted")
    /\ request' = [request EXCEPT !.pc = "processed", !.index_key = index_key, !.geo = geo,
                                  !.autogenerate = autogenerate,
                                  !.enriched = IF request.batch.documents = <<>> THEN {}
                                               ELSE {enrich_documents_batch(request.batch, index_key, geo, autogenerate)}]

PayloadNext ==
    \/ OpenPayload \/ LoseConnection \/ EndOfBody \/ ReadAndPersist \/ ReadPanics
    \/ RegisterAddition \/ RegisterFails \/ RegisterPanics
    \/ \E size \in ChunkSizes : ReceiveChunk(size)
    \/ \E index_key \in IndexKeys, geo, autogenerate \in BOOLEAN : ProcessAddition(index_key, geo, autogenerate)
-------------------------------------------------------------------------------
(***************************************************************************)
(* Properties.                                                             *)
(***************************************************************************)

Objects(values) == [k \in DOMAIN values |-> values[k].fields]
AllObjects(values) == \A k \in DOMAIN values : values[k].type = "object"

\* The documents a text holds, an option: none when it is not what its format allows.
TextDocuments(format, text) ==
    LET v == text.values
        columns == [k \in DOMAIN text.headers |-> parse_csv_header(text.headers[k])]
        cell(k, n) == CellValue(columns[n].type, text.rows[k][n])
    IN  CASE format = "json" ->
               IF v # <<>> /\ v[1].type = "array" THEN IF AllObjects(v[1].items) THEN {Objects(v[1].items)} ELSE {}
               ELSE IF Len(v) = 1 /\ AllObjects(v) THEN {Objects(v)} ELSE {}
          [] format = "ndjson" -> IF AllObjects(v) THEN {Objects(v)} ELSE {}
          [] OTHER ->
               IF /\ \A k \in DOMAIN text.rows : /\ Len(text.rows[k]) = Len(columns)
                                                 /\ \A n \in DOMAIN columns : cell(k, n) # {}
                  /\ text.rows # <<>> => \A m, n \in DOMAIN columns : columns[m].name = columns[n].name => m = n
               THEN {[k \in DOMAIN text.rows |->
                        [name \in {columns[n].name : n \in DOMAIN columns} |->
                           CHOOSE x \in UNION {cell(k, n) : n \in {n \in DOMAIN columns : columns[n].name = name}} : TRUE]]}
               ELSE {}

Bytes(chunks) == FoldLeft(+, 0, chunks)

\* Of a request that is over, the update file is on the disk exactly when a task names it, whatever
\* step failed on the way, a panic of register excepted (document_addition); without a fault it is
\* accepted exactly when its size is allowed, its first chunk is not empty and its format is right.
FilesSettled ==
    request.kind = "payload" /\ request.pc \in {"refused", "accepted", "processed"} =>
       LET c == request.chunks
           format == PayloadFormat(request.mime, request.delimiter)
       IN  /\ "register panics" \notin request.faults => (request.file = "persisted") = (request.task # {})
           /\ request.faults = {} =>
                (request.pc # "refused") =
                   /\ format # {} /\ c # <<>> /\ c[1] # 0 /\ Bytes(c) <= PayloadLimit
                   /\ TextDocuments(request.format, request.text) # {}

\* The batch of an accepted task holds the documents of the payload, all of them and in their
\* order, under the names they had, and its count is the count of the task (read_json, read_csv,
\* read_ndjson, DocumentsBatchBuilder).
BatchFaithful ==
    request.kind = "payload" =>
       \A count \in request.task :
          /\ TextDocuments(request.format, request.text) = {ObjectsOf(request.batch)}
          /\ count = Len(request.batch.documents)

\* Every way to walk from the root of an object to a value that is not an object, as the name
\* the walk spells and the value.
RECURSIVE Walks(_, _)
Walks(fields, base) ==
    UNION {IF fields[key].type = "object" THEN Walks(fields[key].fields, Append(base, key))
           ELSE {[path |-> Append(base, key), value |-> fields[key]]} : key \in DOMAIN fields}

\* An addition succeeds when each of its documents has one value on the way to the primary key,
\* that value is an id, and its _geo is right when the index uses it; the id is then that value,
\* and the same value in a delete-batch names the same document (enrich_documents_batch,
\* delete_documents_batch).
IdsFollowKey ==
    request.kind = "payload" =>
       \A e \in request.enriched :
          LET objects == ObjectsOf(request.batch)
              names == UNION {DOMAIN objects[k] : k \in DOMAIN objects}
              guessed == IF request.autogenerate /\ names \cap IdNames = {} THEN {DefaultPrimaryKey} ELSE names \cap IdNames
              keys == IF request.index_key # {} THEN request.index_key ELSE guessed
              nested(key) == request.index_key # {} /\ Len(key) > 1
              spelled(w) == FlattenSeq(w.path)
              onTheWay(k, key) == {w \in Walks(objects[k], <<>>) : IsPrefix(spelled(w), key)}
              named(k, key) ==
                LET values == IF nested(key) THEN {w.value : w \in onTheWay(k, key)}
                              ELSE IF key \in DOMAIN objects[k] THEN {objects[k][key]} ELSE {}
                IN  /\ nested(key) => Cardinality(onTheWay(k, key)) = 1
                    /\ \/ \E v \in values : validate_document_id_value(v) # {}
                       \/ values = {} /\ request.autogenerate /\ ~nested(key)
              located(k) == request.geo /\ GeoName \in DOMAIN objects[k] => validate_geo_from_json(objects[k][GeoName])
          IN  /\ (e.error = {}) = \E key \in keys : /\ keys = {key}
                                                    /\ \A k \in DOMAIN objects : named(k, key) /\ located(k)
              /\ e.error = {} =>
                   \A k \in DOMAIN objects :
                      ~e.ids[k].generated =>
                         \E w \in Walks(objects[k], <<>>) :
                            IsPrefix(spelled(w), e.key) /\ DeletionId(w.value) = e.ids[k].id

\* The documents of a payload are indexed under their ids or the payload is refused whole, and its
\* file ends with the request or the task.  Two exceptions are in the code: what follows a JSON
\* array is never read, and a register that panics leaves the file behind.
DocumentsReceived == FilesSettled /\ BatchFaithful /\ IdsFollowKey
===============================================================================
