---- MODULE DocumentIndex ----
(***************************************************************************)
(* One index as milli keeps it in LMDB, and the operations that change it: *)
(* a batch of document additions and deletions (IndexDocuments, through    *)
(* Transform), a deletion (DeleteDocuments), a clear (ClearDocuments) and a*)
(* change of settings (Settings::execute).  Each of them is one write      *)
(* transaction: an error leaves the index as it was.  The variable store is*)
(* what the index promises to hold: the documents by their own identifier, *)
(* changed one operation after the other.                                  *)
(***************************************************************************)
EXTENDS WordPostings, Functions

CONSTANTS ExternalIds,       \* the identifiers the user gives to documents
          FieldOrder,        \* the fields, in the order the documents hold them
          Contents,          \* the contents of documents: field name -> value
          SettingsChoices,   \* the settings the user may ask for
          MaxDocId,          \* u32::MAX: AvailableDocumentsIds
          Threshold,         \* 100: words_prefix_threshold
          MaxPrefixLength,   \* 4: max_prefix_length
          MaxOperations,     \* bound: the operations of one batch
          RefusedBatches     \* bound: may a batch add no document at all?

ASSUME IndexBounds ==
    /\ MaxDocId \in Nat
    /\ Threshold \in Nat \ {0}
    /\ MaxPrefixLength \in Nat \ {0}

(* A document has fields of FieldOrder, and words in them.                 *)
ASSUME ContentsAssumption ==
    /\ FieldOrder \in Seq(Range(FieldOrder))
    /\ \A c \in Contents :
        /\ c = [f \in DOMAIN c |-> c[f]] /\ DOMAIN c \subseteq Range(FieldOrder)
        /\ \A f \in DOMAIN c : c[f] \in Seq(Seq(Nat))

(* A list of searchable fields has no field twice (update_searchable).     *)
ASSUME SettingsAssumption ==
    \A s \in SettingsChoices :
        /\ s = [searchable |-> s.searchable, exact_attributes |-> s.exact_attributes,
                stop_words |-> s.stop_words, faceted |-> s.faceted]
        /\ s.searchable \in Seq(Range(s.searchable))
        /\ \A i, j \in DOMAIN s.searchable : s.searchable[i] = s.searchable[j] => i = j

VARIABLES index, store

vars == <<index, store>>

None == -1

(* Two functions, of which the first counts where both are defined; one    *)
(* entry.                                                                  *)
Over(f, g) == [x \in DOMAIN f \cup DOMAIN g |-> IF x \in DOMAIN f THEN f[x] ELSE g[x]]
Entry(x, value) == [y \in {x} |-> value]

--------------------------------------------------------------------------
(* ExternalDocumentsIds: the map from the user's identifiers to document   *)
(* ids is kept in two parts; the recent one hides the other.               *)
ToFst(ix) == Over(ix.soft, ix.hard)

get(ix, id) ==
    LET ids == ToFst(ix)
    IN  IF id \in DOMAIN ids /\ ids[id] \notin ix.soft_deleted THEN ids[id] ELSE None

delete_soft_deleted_documents_ids_from_fsts(ix) ==
    [ix EXCEPT !.hard = Restrict(ToFst(ix), {id \in DOMAIN ToFst(ix) :
                                                ToFst(ix)[id] \notin ix.soft_deleted}),
               !.soft = <<>>]

insert_ids(ix, new) ==
    LET soft == Over(new, ix.soft)
    IN  IF Cardinality(DOMAIN soft) >= Cardinality(DOMAIN ix.hard) \div 2
        THEN [ix EXCEPT !.hard = Over(soft, ix.hard), !.soft = <<>>]
        ELSE [ix EXCEPT !.soft = soft]

--------------------------------------------------------------------------
(* FieldsIdsMap: the names by their id; insert gives a new name the next.  *)
InsertField(names, name) ==
    IF name \in Range(names) THEN names ELSE Append(names, name)

(* The names of a list that are wanted, inserted in its order.             *)
InsertFields(names, list, wanted) ==
    LET after[i \in 0..Len(list)] ==
            IF i = 0 THEN names
            ELSE LET before == after[i - 1]
                 IN  IF list[i] \in wanted THEN InsertField(before, list[i]) ELSE before
    IN  after[Len(list)]

IdOf(names, name) == CHOOSE i \in 1..Len(names) : names[i] = name

(* A document under the ids, and under the names, of its fields.           *)
Encode(names, content) ==
    [fid \in {IdOf(names, f) : f \in DOMAIN content} |-> content[names[fid]]]

Decode(names, obkv) ==
    [f \in {names[fid] : fid \in DOMAIN obkv} |-> obkv[IdOf(names, f)]]

(* put_field_distribution: the fields with the number of their documents.  *)
Distribution(count) == Restrict(count, {f \in DOMAIN count : count[f] > 0})

Count(distribution, f) == IF f \in DOMAIN distribution THEN distribution[f] ELSE 0

CountedIn(documents, docids, names, f) ==
    Cardinality({d \in docids : \E fid \in DOMAIN documents[d] : names[fid] = f})

--------------------------------------------------------------------------
EmptyRelations(kinds) == [kind \in kinds |-> {}]

PrefixKinds == WordKinds \cup
    {"word_prefix_pair_proximity_docids", "prefix_word_pair_proximity_docids"}

Init ==
    /\ index = [fields_ids_map |-> <<>>, documents |-> <<>>, documents_ids |-> {},
                soft_deleted |-> {}, hard |-> <<>>, soft |-> <<>>, distribution |-> <<>>,
                db |-> EmptyRelations(PostingKinds), words_fst |-> {},
                prefixes_fst |-> {}, prefix_db |-> EmptyRelations(PrefixKinds),
                settings |-> [searchable |-> <<>>, exact_attributes |-> {},
                              stop_words |-> {}, faceted |-> {}]]
    /\ store = <<>>

(* ClearDocuments::execute: everything but the settings and the map of the *)
(* fields.                                                                 *)
Cleared(ix) ==
    [ix EXCEPT !.documents = <<>>, !.documents_ids = {}, !.soft_deleted = {},
               !.hard = <<>>, !.soft = <<>>, !.distribution = <<>>,
               !.db = EmptyRelations(PostingKinds), !.words_fst = {},
               !.prefixes_fst = {}, !.prefix_db = EmptyRelations(PrefixKinds)]

--------------------------------------------------------------------------
(* Deletion.  The words of a relation are the first part of its keys.      *)
WordsOf(relation) == {kd[1][1] : kd \in relation}
Without(relation, docids) == {kd \in relation : kd[2] \notin docids}

(* Bugs: the documents stay in the documents database; the dictionary is   *)
(* left alone.                                                             *)
HardDeleteKeepsDocuments(ix) ==
    [delete_soft_deleted_documents_ids_from_fsts(ix) EXCEPT !.soft_deleted = {}]

HardDeleteKeepsWords(ix) ==
    [delete_soft_deleted_documents_ids_from_fsts(ix) EXCEPT
        !.documents = Restrict(ix.documents, DOMAIN ix.documents \ ix.soft_deleted),
        !.db = [kind \in PostingKinds |-> Without(ix.db[kind], ix.soft_deleted)],
        !.prefix_db = [kind \in PrefixKinds |-> Without(ix.prefix_db[kind], ix.soft_deleted)],
        !.soft_deleted = {}]

Purged(relations, docids) ==
    [kind \in DOMAIN relations |-> Without(relations[kind], docids)]

(* DeleteDocuments::execute_inner once the deletion is a hard one: every   *)
(* soft-deleted document leaves every database.  A prefix that loses its   *)
(* last document in either of the prefix databases leaves the prefix FST.  *)
HardDelete(ix) ==
    LET docids    == ix.soft_deleted
        purged    == delete_soft_deleted_documents_ids_from_fsts(ix)
        db        == Purged(ix.db, docids)
        prefix_db == Purged(ix.prefix_db, docids)
        emptied(before, after) == WordsOf(before) \ WordsOf(after)
        words_to_keep   == WordsOf(db["word_docids"]) \cup WordsOf(db["exact_word_docids"])
        words_to_delete == emptied(ix.db["word_docids"], db["word_docids"])
                             \cup emptied(ix.db["exact_word_docids"], db["exact_word_docids"])
        prefixes_to_delete ==
            emptied(ix.prefix_db["word_docids"], prefix_db["word_docids"])
              \cup emptied(ix.prefix_db["exact_word_docids"], prefix_db["exact_word_docids"])
    IN  [purged EXCEPT !.documents = Restrict(ix.documents, DOMAIN ix.documents \ docids),
                       !.db = db, !.prefix_db = prefix_db,
                       !.words_fst = @ \ (words_to_delete \ words_to_keep),
                       !.prefixes_fst = @ \ prefixes_to_delete,
                       !.soft_deleted = {}]

(* DeletionStrategy::Dynamic: the documents stay, hidden, while fewer of   *)
(* them are deleted than live and they take little room (small).           *)
SoftDeletion(ix, small) ==
    Cardinality(ix.soft_deleted) < Cardinality(ix.documents_ids) /\ small

(* A bug: the strategy is chosen before the case of an empty index.        *)
DeletedSoftlyIfSmall(ix, to_delete, small) ==
    LET marked == [ix EXCEPT
                     !.documents_ids = @ \ to_delete,
                     !.soft_deleted = @ \cup to_delete,
                     !.distribution = Distribution(
                         [f \in DOMAIN @ |->
                            @[f] - CountedIn(ix.documents, to_delete, ix.fields_ids_map, f)])]
    IN  IF small THEN marked
        ELSE IF Cardinality(ix.documents_ids) = Cardinality(to_delete) THEN Cleared(ix)
        ELSE HardDelete(marked)

(* DeleteDocuments::execute_inner.                                         *)
Deleted(ix, to_delete, small) ==
    LET marked == [ix EXCEPT
                     !.documents_ids = @ \ to_delete,
                     !.soft_deleted = @ \cup to_delete,
                     !.distribution = Distribution(
                         [f \in DOMAIN @ |->
                            @[f] - CountedIn(ix.documents, to_delete, ix.fields_ids_map, f)])]
    IN  IF ix.documents_ids = {}
        THEN IF ix.soft_deleted = {} THEN ix ELSE Cleared(ix)
        ELSE IF Cardinality(ix.documents_ids) = Cardinality(to_delete) THEN Cleared(ix)
        ELSE IF SoftDeletion(marked, small) THEN marked
        ELSE HardDelete(marked)

--------------------------------------------------------------------------
(* The prefix databases.                                                   *)
PrefixesOf(word) == {SubSeq(word, 1, n) : n \in 1..(IF Len(word) < MaxPrefixLength
                                                   THEN Len(word) ELSE MaxPrefixLength)}

(* WordsPrefixesFst::execute: the prefixes of enough words.                *)
WordsPrefixesFst(words) ==
    {p \in UNION {PrefixesOf(w) : w \in words} :
        Cardinality({w \in words : StartsWith(w, p)}) >= Threshold}

Before(p, q) ==
    \E i \in 1..Len(q) :
        /\ \A j \in 1..(i - 1) : j <= Len(p) /\ p[j] = q[j]
        /\ i > Len(p) \/ p[i] < q[i]

(* The common prefixes come in groups that share their first character; a  *)
(* word is looked up in the group whose first prefix it starts with.       *)
GroupOf(word, common) ==
    LET group == {p \in common : p[1] = word[1]}
    IN  IF \E p \in group : StartsWith(word, p) /\ \A q \in group \ {p} : Before(p, q)
        THEN group ELSE {}

(* WordPrefixDocids::execute and WordPrefixIntegerDocids::execute: the     *)
(* words of this batch under the prefixes that stay, every word of the     *)
(* database under the new ones.                                            *)
AtPrefixes(relation, prefixes(_)) ==
    UNION {{<<<<p, kd[1][2]>>, kd[2]>> : p \in {q \in prefixes(kd[1][1]) : StartsWith(kd[1][1], q)}} :
           kd \in relation}

WithoutPrefixes(relation, prefixes) == {kd \in relation : kd[1][1] \notin prefixes}

(* A bug: the words of the batch are not added to the prefixes that stay.  *)
WordPrefixDocidsNewOnly(prefix_db, chunk, db, new, common, del) ==
    WithoutPrefixes(prefix_db, del) \cup AtPrefixes(db, LAMBDA w : new)

WordPrefixDocids(prefix_db, chunk, db, new, common, del) ==
    WithoutPrefixes(prefix_db, del)
      \cup AtPrefixes(chunk, LAMBDA w : GroupOf(w, common))
      \cup AtPrefixes(db, LAMBDA w : new)

(* The words with a position, or a field: the same over their entries.     *)
WordPrefixIntegerDocids(prefix_db, chunk, db, new, common, del) ==
    WordPrefixDocids(prefix_db, chunk, db, new, common, del)

(* index_word_prefix_database and index_prefix_word_database: the same for *)
(* the pairs that are close enough, found through a trie of the short      *)
(* prefixes.  The pairs are seen as the word that is abbreviated, and the  *)
(* rest of the key.  The walk over the pairs for a word and a prefix stops *)
(* after proximity 4; the loops for a prefix and a word run over           *)
(* 1..max_proximity, without its end, once 1 has been taken off: only the  *)
(* proximities 1 and 2 are there.                                          *)
MaxPairProximity == 4
MaxPrefixWordProximity == 2
MaxPairPrefixLength == 2

SecondAbbreviated(pairs) ==
    {<<<<kd[1][2], <<kd[1][3], kd[1][1]>>>>, kd[2]>> :
        kd \in {x \in pairs : x[1][3] <= MaxPairProximity}}
FirstAbbreviated(pairs) ==
    {<<<<kd[1][1], <<kd[1][3], kd[1][2]>>>>, kd[2]>> :
        kd \in {x \in pairs : x[1][3] <= MaxPrefixWordProximity}}

(* A bug: the new prefixes only get the pairs of the batch.                *)
PairPrefixDocidsOfBatch(prefix_db, chunk, db, new, common, del) ==
    LET short == {p \in common \cup new : Len(p) <= MaxPairPrefixLength}
    IN  WithoutPrefixes(prefix_db \cup AtPrefixes(chunk, LAMBDA w : short), del)

PairPrefixDocids(prefix_db, chunk, db, new, common, del) ==
    LET short(prefixes) == {p \in prefixes : Len(p) <= MaxPairPrefixLength}
        inserted == prefix_db \cup AtPrefixes(chunk, LAMBDA w : short(common))
        renewed  == AtPrefixes(db, LAMBDA w : short(new))
    IN  WithoutPrefixes({kd \in inserted : kd[1] \notin {r[1] : r \in renewed}} \cup renewed, del)

index_word_prefix_database(prefix_db, chunk, db, new, common, del) ==
    PairPrefixDocids(prefix_db, SecondAbbreviated(chunk), SecondAbbreviated(db), new, common, del)

index_prefix_word_database(prefix_db, chunk, db, new, common, del) ==
    PairPrefixDocids(prefix_db, FirstAbbreviated(chunk), FirstAbbreviated(db), new, common, del)

(* IndexDocuments::execute_prefix_databases.                               *)
PrefixDatabases(ix, chunk) ==
    LET previous == ix.prefixes_fst
        current  == WordsPrefixesFst(ix.words_fst)
        new == current \ previous
        common == current \cap previous
        del == previous \ current
        pairs == "word_pair_proximity_docids"
    IN  [ix EXCEPT
           !.prefixes_fst = current,
           !.prefix_db = [kind \in PrefixKinds |->
             CASE kind \in {"word_docids", "exact_word_docids"} ->
                    WordPrefixDocids(@[kind], chunk[kind], ix.db[kind], new, common, del)
               [] kind \in {"word_position_docids", "word_fid_docids"} ->
                    WordPrefixIntegerDocids(@[kind], chunk[kind], ix.db[kind], new, common, del)
               [] kind = "word_prefix_pair_proximity_docids" ->
                    index_word_prefix_database(@[kind], chunk[pairs], ix.db[pairs], new, common, del)
               [] OTHER ->
                    index_prefix_word_database(@[kind], chunk[pairs], ix.db[pairs], new, common, del)]]

--------------------------------------------------------------------------
(* write_typed_chunk_into_index: the documents, their keys, merged into    *)
(* the entries that are there, and the words of the dictionary.            *)
write_entries_into_database(relation, chunk) == relation \cup chunk

write_typed_chunk_into_index(ix, documents, chunk) ==
    [ix EXCEPT !.documents = Over(documents, @),
               !.db = [kind \in PostingKinds |->
                          write_entries_into_database(@[kind], chunk[kind])],
               !.words_fst = @ \cup WordsOf(chunk["word_docids"])
                               \cup WordsOf(chunk["exact_word_docids"])]

(* The end of execute_raw: the distribution and the identifiers.           *)
PutIdentifiers(ix, output) ==
    [insert_ids(ix, output.external_ids) EXCEPT
        !.distribution = output.distribution,
        !.documents_ids = @ \cup output.new_ids]

(* IndexDocuments::execute_raw: the replaced documents are deleted, the    *)
(* new ones are extracted and written, then the ids and the prefixes are   *)
(* brought up to date.                                                     *)
Raw(ix, output, small) ==
    LET mapped  == [ix EXCEPT !.fields_ids_map = output.fields_ids_map]
        base    == IF output.replaced = {} THEN mapped
                   ELSE Deleted(mapped, output.replaced, small)
        chunk   == Postings(output.documents, ix.settings, output.fields_ids_map)
        written == write_typed_chunk_into_index(base, output.documents, chunk)
    IN  PrefixDatabases(PutIdentifiers(written, output), chunk)

--------------------------------------------------------------------------
(* Transform.  The state of a batch while its operations are read; ids     *)
(* holds the ids that are available, the smallest first, and next the rank *)
(* of the next one.                                                        *)
AvailableIds(ix) == (0..MaxDocId) \ (ix.documents_ids \cup ix.soft_deleted)

NewTransform(ix) ==
    [names |-> ix.fields_ids_map, available |-> AvailableIds(ix), replaced |-> {},
     new_ids |-> {}, builder |-> <<>>, sorter |-> <<>>, added |-> 0, failed |-> FALSE]

Push(sorter, docid, operation) ==
    IF docid \in DOMAIN sorter THEN [sorter EXCEPT ![docid] = Append(@, operation)]
    ELSE Over(Entry(docid, <<operation>>), sorter)

Addition(obkv) == [deletion |-> FALSE, obkv |-> obkv]
Deletion == [deletion |-> TRUE, obkv |-> <<>>]

(* A bug: a document that the batch deleted before is taken as a base.     *)
ReadDocumentOverDeletion(ix, t, document) ==
    LET obkv     == Encode(t.names, document.content)
        occupied == document.id \in DOMAIN t.builder
        stored   == get(ix, document.id)
        fresh    == CHOOSE d \in t.available : \A e \in t.available : d <= e
        docid    == IF occupied THEN t.builder[document.id] ELSE fresh
        original == IF occupied THEN None ELSE stored
        base     == IF original = None THEN t.sorter
                    ELSE Push(t.sorter, docid, Addition(ix.documents[original]))
    IN  IF t.failed \/ (~occupied /\ t.available = {}) THEN [t EXCEPT !.failed = TRUE]
        ELSE [t EXCEPT !.available = @ \ {docid}, !.added = @ + 1,
                       !.replaced = IF original = None THEN @ ELSE @ \cup {original},
                       !.builder = Over(Entry(document.id, docid), @),
                       !.new_ids = @ \cup {docid},
                       !.sorter = Push(base, docid, Addition(obkv))]

(* read_documents, one document: an identifier met for the first time in   *)
(* the batch takes the next free id, and starts from the document it has   *)
(* in the database unless the batch deleted it; a document equal to the    *)
(* one in the database is left out.                                        *)
ReadDocument(ix, t, document) ==
    LET obkv     == Encode(t.names, document.content)
        occupied == document.id \in DOMAIN t.builder
        stored   == get(ix, document.id)
        fresh    == CHOOSE d \in t.available : \A e \in t.available : d <= e
        docid    == IF occupied THEN t.builder[document.id] ELSE fresh
        original == IF occupied \/ stored = None \/ stored \in t.replaced THEN None ELSE stored
        skip     == original # None /\ ix.documents[original] = obkv
        base     == IF original = None THEN t.sorter
                    ELSE Push(t.sorter, docid, Addition(ix.documents[original]))
    IN  IF t.failed \/ (~occupied /\ t.available = {}) THEN [t EXCEPT !.failed = TRUE]
        ELSE LET taken == [t EXCEPT !.available = @ \ {docid}, !.added = @ + 1]
             IN  IF skip THEN taken
                 ELSE [taken EXCEPT
                         !.replaced = IF original = None THEN @ ELSE @ \cup {original},
                         !.builder = Over(Entry(document.id, docid), @),
                         !.new_ids = @ \cup {docid},
                         !.sorter = Push(base, docid, Addition(obkv))]

(* create_fields_mapping: the fields of a payload are numbered first.      *)
FieldsOf(documents) == UNION {DOMAIN documents[i].content : i \in 1..Len(documents)}

read_documents(ix, t, documents) ==
    LET after[i \in 0..Len(documents)] ==
            IF i = 0 THEN [t EXCEPT !.names = InsertFields(@, FieldOrder, FieldsOf(documents))]
            ELSE LET before == after[i - 1] IN ReadDocument(ix, before, documents[i])
    IN  after[Len(documents)]

(* Transform::remove_documents: each identifier is independent of the      *)
(* others.                                                                 *)
remove_documents(ix, t, ids) ==
    LET occupied == ids \cap DOMAIN t.builder
        gone     == {t.builder[id] : id \in occupied}
    IN  [t EXCEPT
           !.sorter = [d \in DOMAIN @ |-> IF d \in gone THEN Append(@[d], Deletion) ELSE @[d]],
           !.new_ids = @ \ gone,
           !.builder = Restrict(@, DOMAIN @ \ ids),
           !.replaced = @ \cup ({get(ix, id) : id \in ids \ occupied} \ {None})]

(* keep_latest_obkv, and merge_obkvs_and_operations: what is left of the   *)
(* operations on one document.                                             *)
Last(operations) == operations[Len(operations)]

keep_latest_obkv(operations) == Last(operations)

merge_obkvs_and_operations(operations) ==
    LET merged[i \in 0..Len(operations)] ==
            IF i = 0 \/ operations[i].deletion THEN <<>>
            ELSE LET base == merged[i - 1] IN Over(operations[i].obkv, base)
    IN  IF Last(operations).deletion THEN Deletion ELSE Addition(merged[Len(operations)])

Merge(method, operations) ==
    IF method = "ReplaceDocuments" THEN keep_latest_obkv(operations)
    ELSE merge_obkvs_and_operations(operations)

(* A bug: the documents of the batch are counted, the replaced are not.    *)
output_counts_replaced(ix, t, method) ==
    LET merged == [d \in DOMAIN t.sorter |-> Merge(method, t.sorter[d])]
        kept   == {d \in DOMAIN merged : ~merged[d].deletion}
        documents == [d \in kept |-> merged[d].obkv]
    IN  [fields_ids_map |-> t.names, documents |-> documents, new_ids |-> t.new_ids,
         replaced |-> t.replaced, external_ids |-> t.builder,
         distribution |-> Distribution([f \in Range(t.names) |->
             Count(ix.distribution, f) + CountedIn(documents, kept, t.names, f)])]

(* Transform::output_from_sorter.                                          *)
output_from_sorter(ix, t, method) ==
    LET merged == [d \in DOMAIN t.sorter |-> Merge(method, t.sorter[d])]
        kept   == {d \in DOMAIN merged : ~merged[d].deletion}
        documents == [d \in kept |-> merged[d].obkv]
    IN  [fields_ids_map |-> t.names, documents |-> documents, new_ids |-> t.new_ids,
         replaced |-> t.replaced, external_ids |-> t.builder,
         distribution |-> Distribution([f \in Range(t.names) |->
             Count(ix.distribution, f) - CountedIn(ix.documents, t.replaced, ix.fields_ids_map, f)
               + CountedIn(documents, kept, t.names, f)])]

(* IndexDocuments::execute: nothing is done when no document was added.    *)
Executed(ix, t, method, small) ==
    IF t.failed \/ t.added = 0 THEN ix
    ELSE Raw(ix, output_from_sorter(ix, t, method), small)

--------------------------------------------------------------------------
(* Transform::prepare_for_documents_reindexing: the documents under the    *)
(* ids of the new map, in a cleared index.                                 *)
Reindexed(ix, names) ==
    LET purged    == delete_soft_deleted_documents_ids_from_fsts(ix)
        recode(d) == Encode(names, Decode(ix.fields_ids_map, ix.documents[d]))
        output    == [fields_ids_map |-> names,
                      documents |-> [d \in ix.documents_ids |-> recode(d)],
                      new_ids |-> ix.documents_ids, replaced |-> {},
                      external_ids |-> ToFst(purged),
                      distribution |-> ix.distribution]
    IN  Raw(Cleared(ix), output, TRUE)

(* update_searchable: the searchable fields get the first ids, in their    *)
(* order.  Resetting the list leaves the ids alone.                        *)
SearchableMap(names, searchable) ==
    IF searchable = <<>> THEN names ELSE InsertFields(searchable, names, Range(names))

(* A bug: a change of the stop words does not rebuild the index.           *)
WithSettingsKeepsStopWords(ix, settings) ==
    LET searchable_updated == settings.searchable # ix.settings.searchable
        names == IF searchable_updated
                 THEN SearchableMap(ix.fields_ids_map, settings.searchable)
                 ELSE ix.fields_ids_map
        set == [ix EXCEPT !.settings = settings]
    IN  IF /\ searchable_updated \/ settings.faceted # ix.settings.faceted
           /\ ix.documents_ids # {}
        THEN Reindexed(set, names)
        ELSE [set EXCEPT !.fields_ids_map = names]

(* Settings::execute: the index is built again when a setting that the     *)
(* postings depend on has changed, and holds documents.                    *)
WithSettings(ix, settings) ==
    LET searchable_updated == settings.searchable # ix.settings.searchable
        names == IF searchable_updated
                 THEN SearchableMap(ix.fields_ids_map, settings.searchable)
                 ELSE ix.fields_ids_map
        updated == \/ settings.stop_words # ix.settings.stop_words
                   \/ settings.faceted # ix.settings.faceted
                   \/ searchable_updated
                   \/ settings.exact_attributes # ix.settings.exact_attributes
        set == [ix EXCEPT !.settings = settings]
    IN  IF updated /\ ix.documents_ids # {} THEN Reindexed(set, names)
        ELSE [set EXCEPT !.fields_ids_map = names]

--------------------------------------------------------------------------
(* The promise: the operations of a batch applied one after the other to   *)
(* the documents.                                                          *)
StoreAdd(documents, document, method) ==
    LET id == document.id
    IN  IF method = "UpdateDocuments" /\ id \in DOMAIN documents
        THEN [documents EXCEPT ![id] = Over(document.content, @)]
        ELSE Over(Entry(id, document.content), documents)

StoreApply(documents, operation, method) ==
    LET added[i \in 0..Len(operation.documents)] ==
            IF i = 0 THEN documents
            ELSE LET before == added[i - 1] IN StoreAdd(before, operation.documents[i], method)
    IN  IF operation.type = "addition" THEN added[Len(operation.documents)]
        ELSE Restrict(documents, DOMAIN documents \ operation.ids)

--------------------------------------------------------------------------
Documents == [id : ExternalIds, content : Contents]

(* The operations of a batch: an addition of one or two documents, one     *)
(* that is empty or refused by enrich_documents_batch, or a deletion.      *)
Operations ==
    [type : {"addition"}, documents : {<<>>} \cup {<<d>> : d \in Documents}, ids : {{}}]
      \cup [type : {"deletion"}, documents : {<<>>}, ids : SUBSET ExternalIds \ {{}}]

Batches ==
    {b \in UNION {[1..n -> Operations] : n \in 1..MaxOperations} :
        \E i \in DOMAIN b : b[i].type = "addition" /\ (RefusedBatches \/ b[i].documents # <<>>)}

Methods == {"ReplaceDocuments", "UpdateDocuments"}

(* Batch::IndexOperation(DocumentOperation): Transform reads the           *)
(* operations in turn, then the batch is executed.                         *)
IndexDocuments(batch, method, small) ==
    LET after[i \in 0..Len(batch)] ==
            IF i = 0 THEN [t |-> NewTransform(index), store |-> store]
            ELSE LET before == after[i - 1]
                 IN  [t |-> IF batch[i].type = "addition"
                            THEN read_documents(index, before.t, batch[i].documents)
                            ELSE remove_documents(index, before.t, batch[i].ids),
                      store |-> StoreApply(before.store, batch[i], method)]
        done == after[Len(batch)]
    IN  /\ index' = Executed(index, done.t, method, small)
        /\ store' = IF done.t.failed THEN store ELSE done.store

(* Batch::IndexOperation(DocumentDeletion).                                *)
DeleteDocuments(ids, small) ==
    /\ index' = Deleted(index, {get(index, id) : id \in ids} \ {None}, small)
    /\ store' = Restrict(store, DOMAIN store \ ids)

(* Batch::IndexOperation(DocumentClear).                                   *)
ClearDocuments ==
    /\ index' = Cleared(index)
    /\ store' = <<>>

(* Batch::IndexOperation(Settings).                                        *)
UpdateSettings(settings) ==
    /\ settings # index.settings
    /\ index' = WithSettings(index, settings)
    /\ UNCHANGED store

Next ==
    \/ \E batch \in Batches, method \in Methods, small \in BOOLEAN :
            IndexDocuments(batch, method, small)
    \/ \E ids \in SUBSET ExternalIds \ {{}}, small \in BOOLEAN : DeleteDocuments(ids, small)
    \/ ClearDocuments
    \/ \E settings \in SettingsChoices : UpdateSettings(settings)

Spec == Init /\ [][Next]_vars

--------------------------------------------------------------------------
(* The index is well formed: the documents that are kept are the live and  *)
(* the soft-deleted ones, no id is both, and the ids stay within bounds.   *)
TypeOK ==
    /\ index.documents_ids \cup index.soft_deleted = DOMAIN index.documents
    /\ index.documents_ids \cap index.soft_deleted = {}
    /\ DOMAIN index.documents \subseteq 0..MaxDocId
    /\ DOMAIN store \subseteq ExternalIds

(* Whatever the mixture of additions, replacements, partial updates and    *)
(* deletions in a batch, the identifiers lead to exactly the documents the *)
(* operations ask for, taken in their order; and every live document has   *)
(* one identifier (Transform, ExternalDocumentsIds).                       *)
ViewIsStore ==
    LET live == {id \in ExternalIds : get(index, id) # None}
    IN  /\ store = [id \in live |-> Decode(index.fields_ids_map, index.documents[get(index, id)])]
        /\ index.documents_ids = {get(index, id) : id \in live}
        /\ \A x, y \in live : get(index, x) = get(index, y) => x = y

(* The chunks of a batch are appended, without a merge, to the databases   *)
(* of an index that holds no document (append_entries_into_database): they *)
(* must then be empty.                                                     *)
EmptyIndexIsClean ==
    index.documents_ids = {} =>
        /\ index.soft_deleted = {}
        /\ \A kind \in PostingKinds : index.db[kind] = {}
        /\ index.words_fst = {} /\ index.prefixes_fst = {}
        /\ \A kind \in PrefixKinds : index.prefix_db[kind] = {}

(* The field distribution counts the live documents, although it is kept   *)
(* up to date by two different computations.                               *)
DistributionExact ==
    index.distribution =
        Distribution([f \in Range(index.fields_ids_map) |->
            CountedIn(index.documents, index.documents_ids, index.fields_ids_map, f)])

(* Every posting database files exactly the documents that are kept, under *)
(* the settings and the field ids of now: no change of settings is         *)
(* forgotten, nothing of a deleted document is left.                       *)
PostingsExact ==
    index.db = Postings(index.documents, index.settings, index.fields_ids_map)

(* The words of the dictionary are those of the documents.                 *)
WordsFstExact ==
    index.words_fst = WordsOf(index.db["word_docids"]) \cup WordsOf(index.db["exact_word_docids"])

(* What a search for a prefix finds (partially_initialized_term_from_word  *)
(* and compute_query_term_subset_docids): the prefix databases when they   *)
(* know the prefix, all the words of the dictionary otherwise.             *)
DocidsAt(relation, words) == {kd[2] : kd \in {x \in relation : x[1][1] \in words}}

PrefixSearch(prefix) ==
    LET stored == DocidsAt(index.prefix_db["word_docids"], {prefix})
                    \cup DocidsAt(index.prefix_db["exact_word_docids"], {prefix})
        words  == {w \in index.words_fst : StartsWith(w, prefix)}
    IN  IF stored # {} THEN stored
        ELSE DocidsAt(index.db["word_docids"], words)
               \cup DocidsAt(index.db["exact_word_docids"], words)

PrefixDocuments(prefix) ==
    {d \in index.documents_ids :
        \E o \in Occurrences(index.documents[d], index.settings, index.fields_ids_map) :
            StartsWith(o.word, prefix)}

(* A search for the beginning of a word finds every live document with     *)
(* such a word and no other, whether the prefix is one of the precomputed  *)
(* ones or not.                                                            *)
PrefixSearchComplete ==
    \A prefix \in UNION {PrefixesOf(w) : w \in index.words_fst} :
        PrefixSearch(prefix) \cap index.documents_ids = PrefixDocuments(prefix)

(* It never finds another one.                                             *)
PrefixSearchSound ==
    \A prefix \in UNION {PrefixesOf(w) : w \in index.words_fst} :
        PrefixSearch(prefix) \cap index.documents_ids \subseteq PrefixDocuments(prefix)

(* A searchable field is exact: words may be in either word database, or   *)
(* in both when they come twice.                                           *)
HasExactField ==
    SearchableIds(index.settings, index.fields_ids_map)
      \cap IdsOf(index.settings.exact_attributes, index.fields_ids_map) # {}

(* The other prefix databases agree with the word databases they abridge:  *)
(* pairs of a word and a prefix up to proximity 4, pairs of a prefix and a *)
(* word up to proximity 2.                                                 *)
PrefixPostingsExact ==
    LET at(relation) == AtPrefixes(relation, LAMBDA w : index.prefixes_fst)
        short(relation) == {kd \in at(relation) : Len(kd[1][1]) <= MaxPairPrefixLength}
        pairs == index.db["word_pair_proximity_docids"]
        known(relation) == {kd \in relation : kd[1][1] \in index.prefixes_fst}
    IN  /\ \A kind \in WordKinds : known(index.prefix_db[kind]) = at(index.db[kind])
        /\ known(index.prefix_db["word_prefix_pair_proximity_docids"])
             = short(SecondAbbreviated(pairs))
        /\ known(index.prefix_db["prefix_word_pair_proximity_docids"])
             = short(FirstAbbreviated(pairs))

(* The databases derived from the documents file exactly what is kept,     *)
(* under the settings of now, whatever operations came before; an index    *)
(* without documents is clean (IndexDocuments, DeleteDocuments, Settings). *)
DatabasesExact == TypeOK /\ EmptyIndexIsClean /\ DistributionExact /\ PostingsExact /\ WordsFstExact

(* The precomputed prefixes give what their words give: a search for the   *)
(* beginning of a word finds nothing more, and misses nothing unless a     *)
(* searchable field is exact.  Then a purge takes a prefix out of the FST  *)
(* as soon as one of the two prefix databases has lost it, and what the    *)
(* other one keeps is no longer brought up to date (all_prefixes_to_delete *)
(* in delete_documents.rs is the union).  Pairs are precomputed for the    *)
(* proximities that word_prefix.rs and prefix_word.rs file, no others.     *)
PrefixesExact ==
    IF HasExactField THEN PrefixSearchSound ELSE PrefixSearchComplete /\ PrefixPostingsExact
====
