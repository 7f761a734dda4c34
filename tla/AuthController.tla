--------------------------- MODULE AuthController ---------------------------
(* The API keys of a running server: the start-up that opens or creates the *)
(* database or imports a dump, the authentication of requests, the routes   *)
(* that read and write keys and the ones the filter of a key restricts.     *)
(* Every read and write of the key store is a transaction of its own, so    *)
(* requests and handlers interleave between them.                           *)
(* Source: meilisearch/src/lib.rs, extractors/authentication, routes and    *)
(* meilisearch-auth.                                                        *)
EXTENDS ApiKeys

CONSTANTS
  Uids,           \* key uids
  GeneratedUids,  \* the ones Uuid::new_v4 draws: never one a client sends
  MasterKeys,     \* master keys the server may be started with, None included
  Options,        \* command lines: [import, ignoreIfDbExists, ignoreMissing]
  DumpKeys,       \* the dump on disk: None, or [uid -> key]
  Clients,        \* HTTP connections
  Calls,          \* what each client sends: [Clients -> set of calls]
  MaxTime,        \* bound on the clock
  MaxStarts       \* bound on the number of starts

ASSUME AuthAssumption ==
  /\ MaxTime \in Nat /\ MaxStarts \in Nat /\ GeneratedUids \subseteq Uids
  /\ \A o \in Options : DOMAIN o = {"import", "ignoreIfDbExists", "ignoreMissing"}

(* What Key::deserialize lets through: known actions, and patterns, which    *)
(* are an index name or a prefix of one before a star.                       *)
IsPattern(p) ==
  p # None /\ p = Pattern(p.text, p.star) /\ p.star \in BOOLEAN
  /\ p.text \in Seq({p.text[k] : k \in DOMAIN p.text})
IsKey(k) ==
  /\ k = [name |-> k.name, actions |-> k.actions, indexes |-> k.indexes, expires_at |-> k.expires_at]
  /\ k.actions \subseteq Action /\ \A p \in k.indexes : IsPattern(p)
IsToken(t) ==
  /\ t.type \in {"master", "key", "tenant"}
  /\ t.type = "tenant" =>
       /\ t.uid \in Uids /\ (t.exp # None => t.exp \in Int)
       /\ t.rules # None /\ \A p \in DOMAIN t.rules.rules : IsPattern(p)

(* A route checks one operation, never a group of them; the searches are the *)
(* only routes that check Search.                                            *)
IsCall(call) ==
  /\ call.action \in Action /\ call.action.op # "*"
  /\ call.index \in IndexUids \cup {None} /\ call.uids \subseteq IndexUids
  /\ IsToken(call.token)
  /\ call.action = Search => call.route = "multi_search"
  /\ call.route \in {"create", "update", "delete", "key"} => call.uid \in Uids
  /\ call.route \in {"create_index", "add_documents"} => call.uid \in IndexUids
  /\ call.route = "create" => IsKey(call.key)

ASSUME CallsAssumption ==
  /\ None \notin {AllIndexes, DefaultRules}
  /\ \A c \in Clients : \A call \in Calls[c] : IsCall(call)
  /\ DumpKeys # None => /\ DOMAIN DumpKeys \subseteq Uids
                        /\ \A u \in DOMAIN DumpKeys : IsKey(DumpKeys[u])

VARIABLES
  keys,      \* keys database: [Uids -> key or None]
  inverted,  \* action_keyid_index_expiration database: a set of entries
  disk,      \* the rest of the database directory
  server,    \* the start-up in progress or the running server
  used,      \* uids drawn by Uuid::new_v4
  now,       \* the wall clock
  clients    \* the request of each connection

vars == <<keys, inverted, disk, server, used, now, clients>>

----------------------------------------------------------------------------
(* State *)

NewKey(name, actions, indexes, exp) ==
  [name |-> name, actions |-> actions, indexes |-> indexes, expires_at |-> exp]

default_admin == NewKey("admin", {All}, {AllIndexes}, None)
default_search == NewKey("search", {Search}, {AllIndexes}, None)

NoClient == [pc |-> "idle"]
NoDisk == [exists |-> FALSE, version |-> FALSE, data |-> "none"]

Init ==
  /\ keys = [u \in Uids |-> None]
  /\ inverted = {}
  /\ disk = NoDisk
  /\ server = [phase |-> "down", master |-> None, options |-> None, import |-> FALSE,
               todo |-> {}, starts |-> 0]
  /\ used = {}
  /\ now = 0
  /\ clients = [c \in Clients |-> NoClient]

KeysThere == {u \in Uids : keys[u] # None}

\* Mutant: the entries are cleaned after they were refilled.
PutThenClean(uid, key) ==
  keys' = [keys EXCEPT ![uid] = key] /\ inverted' = {e \in inverted : e.uid # uid}

(* put_api_key: one transaction on both databases. *)
put_api_key(uid, key) ==
  /\ keys' = [keys EXCEPT ![uid] = key]
  /\ inverted' = {e \in inverted : e.uid # uid} \cup EntriesOf(uid, key)

\* Mutant: the keys of the new database are kept.
KeepAllKeys == UNCHANGED <<keys, inverted>>

\* Only the keys are cleared; the inverted database keeps its entries.
delete_all_keys ==
  keys' = [u \in Uids |-> None] /\ UNCHANGED inverted

\* A write invalidates what the requests under way have read.
Unsettled == [c \in Clients |-> IF clients[c].pc = "idle" THEN clients[c]
                                ELSE [clients[c] EXCEPT !.stable = FALSE]]

----------------------------------------------------------------------------
(* Start-up: setup_meilisearch, open_or_create_database and import_dump.    *)

empty_db == ~disk.exists

GoTo(phase) == server' = [server EXCEPT !.phase = phase]

\* Mutant: a database that is already there is opened in place of the dump.
StartIgnoresDatabase(o) ==
  CASE o.import /\ empty_db /\ DumpKeys # None -> "openAndImport"
    [] o.import /\ DumpKeys = None /\ ~o.ignoreMissing -> "exit"
    [] OTHER -> "open"

\* What a start with or without import_dump does, the other option import_snapshot
\* not being given.
StartChecks(o) ==
  IF ~o.import THEN "open"
  ELSE IF empty_db /\ DumpKeys # None THEN "openAndImport"
  ELSE IF ~empty_db /\ ~o.ignoreIfDbExists THEN "exit"
  ELSE IF DumpKeys = None /\ ~o.ignoreMissing THEN "exit"
  ELSE "open"

(* The path of the database does not exist until a start creates it.  A     *)
(* database opened outside an import must hold the file VERSION.            *)
Start(mk, o) ==
  LET choice == StartChecks(o)
  IN  /\ server.phase = "down" /\ server.starts < MaxStarts
      /\ choice # "exit"
      /\ choice = "open" /\ ~empty_db => disk.version
      /\ server' = [phase |-> "openAuth", master |-> mk, options |-> o,
                    import |-> choice = "openAndImport", todo |-> {},
                    starts |-> server.starts + 1]
      /\ UNCHANGED <<keys, inverted, disk, used, now, clients>>

(* HeedAuthStore::new creates the directory; an empty store is given the    *)
(* two default keys, one transaction each.                                  *)
OpenAuth ==
  /\ server.phase = "openAuth"
  /\ disk' = [disk EXCEPT !.exists = TRUE]
  /\ GoTo(IF KeysThere = {} THEN "admin" ELSE "openScheduler")
  /\ UNCHANGED <<keys, inverted, used, now, clients>>

GenerateDefaultKey(phase, key, next) ==
  /\ server.phase = phase
  /\ GeneratedUids \ used # {}
  /\ LET uid == CHOOSE u \in GeneratedUids \ used : TRUE
     IN  used' = used \cup {uid} /\ put_api_key(uid, key)
  /\ GoTo(next)
  /\ UNCHANGED <<disk, now, clients>>

generate_default_keys ==
  \/ GenerateDefaultKey("admin", default_admin, "search")
  \/ GenerateDefaultKey("search", default_search, "openScheduler")

(* The index scheduler is opened and the file VERSION written, then the     *)
(* dump is imported when the start decided so.                              *)
OpenScheduler ==
  /\ server.phase = "openScheduler"
  /\ disk' = [disk EXCEPT !.version = TRUE]
  /\ GoTo(IF server.import THEN "import" ELSE "up")
  /\ UNCHANGED <<keys, inverted, used, now, clients>>

RemoveDb == keys' = [u \in Uids |-> None] /\ inverted' = {} /\ disk' = NoDisk

(* Opening the keys or the scheduler, or writing VERSION, fails and the      *)
(* process ends.  All three are tried, whichever fails.  A start that was to *)
(* import removes the database (OnFailure::RemoveDb), any other leaves what  *)
(* is there (OnFailure::KeepDb).                                             *)
OpenFails ==
  /\ server.phase \in {"openAuth", "admin", "search", "openScheduler"}
  /\ IF server.import THEN RemoveDb
     ELSE /\ disk' \in {disk, [disk EXCEPT !.exists = TRUE],
                       [disk EXCEPT !.exists = TRUE, !.version = TRUE]}
          /\ UNCHANGED <<keys, inverted>>
  /\ GoTo("down")
  /\ UNCHANGED <<used, now, clients>>

import_dump_keys ==
  /\ server.phase = "import"
  /\ delete_all_keys
  /\ server' = [server EXCEPT !.phase = "insert", !.todo = DOMAIN DumpKeys]
  /\ disk' = [disk EXCEPT !.data = "part"]
  /\ UNCHANGED <<used, now, clients>>

raw_insert_key ==
  /\ server.phase = "insert"
  /\ \E uid \in server.todo :
       /\ put_api_key(uid, DumpKeys[uid])
       /\ server' = [server EXCEPT !.todo = @ \ {uid}]
  /\ UNCHANGED <<disk, used, now, clients>>

\* The features, the indexes and the tasks of the dump follow the keys, in many
\* transactions: before the last of them only a part of the dump is there, as after
\* the keys, and an error or a crash between two finds it so.
ImportRest ==
  /\ server.phase = "insert" /\ server.todo = {}
  /\ disk' = [disk EXCEPT !.data = "full"]
  /\ GoTo("up")
  /\ UNCHANGED <<keys, inverted, used, now, clients>>

\* An import that fails removes the database directory and the process ends.
ImportFails ==
  /\ server.phase \in {"import", "insert"}
  /\ RemoveDb
  /\ GoTo("down")
  /\ UNCHANGED <<used, now, clients>>

\* Mutant: a connection outlives the process.
CrashKeepsRequests ==
  /\ server.phase # "down"
  /\ GoTo("down")
  /\ UNCHANGED <<keys, inverted, disk, used, now, clients>>

(* The process may be killed at any time; what was committed stays. *)
Crash ==
  /\ server.phase # "down"
  /\ GoTo("down")
  /\ clients' = [c \in Clients |-> NoClient]
  /\ UNCHANGED <<keys, inverted, disk, used, now>>

----------------------------------------------------------------------------
(* Authentication: ActionPolicy::authenticate. *)

(* A bearer token is the master key, the key generated for a uid with a     *)
(* master key, or a tenant token signed with such a key.                    *)
generate_key(uid) ==
  IF server.master = None THEN None ELSE [uid |-> uid, master |-> server.master]

IsMasterKey(token, action) ==
  IF server.master = None THEN ~is_keys_action(action)
  ELSE token.type = "master" /\ token.master = server.master

authenticate_tenant_token(token, action) ==
  IF action # Search \/ token.type # "tenant" THEN "NotATenantToken"
  ELSE IF token.secret # generate_key(token.uid) \/ server.master = None THEN "Invalid"
  ELSE IF token.exp # None /\ now > token.exp THEN "Expired"
  ELSE "Valid"

Become(c, record) == clients' = [clients EXCEPT ![c] = record]
WithPc(r, pc) == [r EXCEPT !.pc = pc]

\* A request that was just received.
Received(call, pc, uid, rules, filter) ==
  [pc |-> pc, call |-> call, stable |-> TRUE, uid |-> uid, rules |-> rules, key |-> None,
   all |-> {}, creation |-> FALSE, filter |-> filter, write |-> None, reply |-> None]

Receive(c, call) ==
  LET outcome == authenticate_tenant_token(call.token, call.action)
  IN  /\ server.phase = "up" /\ clients[c].pc = "idle"
      /\ Become(c,
           IF IsMasterKey(call.token, call.action)
           THEN Received(call, "handler", None, None, DefaultFilter)
           ELSE IF outcome = "NotATenantToken" THEN Received(call, "lookup", None, None, None)
           ELSE IF outcome = "Valid"
           THEN Received(call, "get_key", call.token.uid, call.token.rules, None)
           ELSE Received(call, "refused", None, None, None))
      /\ UNCHANGED <<keys, inverted, disk, server, used, now>>

Reading(c, pc) ==
  /\ clients[c].pc = pc /\ server.phase = "up"
  /\ UNCHANGED <<keys, inverted, disk, server, used, now>>

get_optional_uid_from_encoded_key(c) ==
  LET token == clients[c].call.token
      matching == {u \in KeysThere : /\ token.type = "key"
                                     /\ token.secret = generate_key(u)
                                     /\ server.master # None}
  IN  /\ Reading(c, "lookup")
      /\ Become(c, IF matching = {} THEN WithPc(clients[c], "refused")
                   ELSE [clients[c] EXCEPT !.pc = "get_key",
                                           !.uid = CHOOSE u \in matching : TRUE])

get_key_filters(c) ==
  LET key == keys[clients[c].uid]
  IN  /\ Reading(c, "get_key")
      /\ Become(c, IF key = None THEN WithPc(clients[c], "refused")
                   ELSE [clients[c] EXCEPT !.pc = "creation_all", !.key = key])

(* is_key_authorized makes two lookups, each in its own transaction: it is  *)
(* called for IndexesAdd to build the filter, then for the action.          *)
ReadAll(c, pc, next, action) ==
  /\ Reading(c, pc)
  /\ Become(c, [clients[c] EXCEPT
                  !.pc = next,
                  !.all = get_expiration_date(inverted, clients[c].uid, action, None)])

Authorized(c, action, index) ==
  NotExpired(clients[c].all,
             IndexedExpiration(inverted, clients[c].uid, action, index), now)

CheckCreation(c) ==
  /\ Reading(c, "creation_indexed")
  /\ Become(c, [clients[c] EXCEPT !.pc = "action_all",
                                  !.creation = Authorized(c, IndexesAdd, None)])

Decide(c) ==
  LET r == clients[c]
      filter == AuthFilter(r.rules, SetRules(r.key.indexes), r.creation)
  IN  /\ Reading(c, "action_indexed")
      /\ Become(c, IF /\ Authorized(c, r.call.action, r.call.index)
                      /\ r.call.index # None => is_index_authorized(filter, r.call.index)
                   THEN [r EXCEPT !.pc = "handler", !.filter = filter, !.key = None, !.all = {}]
                   ELSE [r EXCEPT !.pc = "refused", !.key = None, !.all = {}])

Authenticate(c) ==
  \/ get_optional_uid_from_encoded_key(c)
  \/ get_key_filters(c)
  \/ ReadAll(c, "creation_all", "creation_indexed", IndexesAdd)
  \/ CheckCreation(c)
  \/ ReadAll(c, "action_all", "action_indexed", clients[c].call.action)
  \/ Decide(c)

----------------------------------------------------------------------------
(* Handlers *)

Answered(c, status, value) ==
  [clients[c] EXCEPT !.pc = "done", !.filter = None, !.reply = [status |-> status, value |-> value]]
Reply(c, status) == Answered(c, status, None)

(* create_key: parse_expiration_date refuses a date that has passed, then   *)
(* the uid is looked up; the key is put in another transaction.             *)
create_key(c) ==
  LET call == clients[c].call
  IN  /\ Reading(c, "handler") /\ call.route = "create"
      /\ Become(c, IF call.key.expires_at # None /\ call.key.expires_at <= now
                   THEN Reply(c, "bad request")
                   ELSE IF keys[call.uid] # None THEN Reply(c, "already exists")
                   ELSE [clients[c] EXCEPT !.pc = "put", !.write = call.key])

(* update_key patches the name of the key it read and puts it back.  A route *)
(* that is given the key itself and not its uid finds the uid in a           *)
(* transaction before: it changes nothing, and its "not found" is the answer *)
(* that the next transaction would have given at that moment.                *)
update_key(c) ==
  LET call == clients[c].call
      key == keys[call.uid]
  IN  /\ Reading(c, "handler") /\ call.route = "update"
      /\ Become(c, IF key = None THEN Reply(c, "not found")
                   ELSE [clients[c] EXCEPT !.pc = "put", !.write = [key EXCEPT !.name = call.name]])

Put(c) ==
  LET r == clients[c]
  IN  /\ r.pc = "put" /\ server.phase = "up"
      /\ put_api_key(r.call.uid, r.write)
      /\ clients' = [Unsettled EXCEPT ![c] = [Reply(c, "ok") EXCEPT !.stable = FALSE]]
      /\ UNCHANGED <<disk, server, used, now>>

delete_key(c) ==
  LET r == clients[c]
  IN  /\ r.pc = "handler" /\ r.call.route = "delete" /\ server.phase = "up"
      /\ keys' = [keys EXCEPT ![r.call.uid] = None]
      /\ inverted' = {e \in inverted : e.uid # r.call.uid}
      /\ clients' = [Unsettled EXCEPT
                       ![c] = [Reply(c, IF keys[r.call.uid] = None THEN "not found" ELSE "ok")
                               EXCEPT !.stable = FALSE]]
      /\ UNCHANGED <<disk, server, used, now>>

(* The routes whose answer depends on the filter: the ones that may create  *)
(* an index, a swap (all or nothing), a search and a multi-search (each      *)
(* search carries the rule of its index; one refused index refuses them all) *)
(* and the listing of the indexes.                                           *)
CreationAllowed(c) == allow_index_creation(clients[c].filter, clients[c].call.uid)

create_index(c) ==
  Reply(c, IF CreationAllowed(c) THEN "ok" ELSE "refused")

\* A task that creates its index when it is missing, if it was allowed to.
add_documents(c) == Answered(c, "ok", CreationAllowed(c))

AllAuthorized(c) ==
  \A i \in clients[c].call.uids : is_index_authorized(clients[c].filter, i)

swap_indexes(c) == Reply(c, IF AllAuthorized(c) THEN "ok" ELSE "refused")

multi_search_with_post(c) ==
  IF AllAuthorized(c)
  THEN Answered(c, "ok", [i \in clients[c].call.uids |->
                            get_index_search_rules(clients[c].filter, i)])
  ELSE Reply(c, "refused")

list_indexes(c) ==
  Answered(c, "ok", {i \in IndexUids : is_index_authorized(clients[c].filter, i)})

list_api_keys(c) == Answered(c, "ok", KeysThere)

get_api_key(c) ==
  LET key == keys[clients[c].call.uid]
  IN  IF key = None THEN Reply(c, "not found") ELSE Answered(c, "ok", key)

Answer(c) ==
  LET route == clients[c].call.route
  IN  /\ Reading(c, "handler")
      /\ \/ route = "create_index" /\ Become(c, create_index(c))
         \/ route = "add_documents" /\ Become(c, add_documents(c))
         \/ route = "swap" /\ Become(c, swap_indexes(c))
         \/ route = "multi_search" /\ Become(c, multi_search_with_post(c))
         \/ route = "list" /\ Become(c, list_indexes(c))
         \/ route = "keys" /\ Become(c, list_api_keys(c))
         \/ route = "key" /\ Become(c, get_api_key(c))

Finish(c) ==
  /\ clients[c].pc \in {"done", "refused"}
  /\ Become(c, NoClient)
  /\ UNCHANGED <<keys, inverted, disk, server, used, now>>

Tick ==
  /\ now < MaxTime
  /\ now' = now + 1
  /\ clients' = Unsettled
  /\ UNCHANGED <<keys, inverted, disk, server, used>>

----------------------------------------------------------------------------
StartUp ==
  \/ \E mk \in MasterKeys, o \in Options : Start(mk, o)
  \/ OpenAuth \/ generate_default_keys \/ OpenScheduler \/ OpenFails
  \/ import_dump_keys \/ raw_insert_key \/ ImportRest \/ ImportFails

Handle(c) ==
  \/ create_key(c) \/ update_key(c) \/ Put(c) \/ delete_key(c)
  \/ Answer(c) \/ Finish(c)

Next ==
  \/ StartUp \/ Crash \/ Tick
  \/ \E c \in Clients :
       \/ \E call \in Calls[c] : Receive(c, call)
       \/ Authenticate(c) \/ Handle(c)

Spec == Init /\ [][Next]_vars

----------------------------------------------------------------------------
(* Properties *)

Phases == {"down", "openAuth", "admin", "search", "openScheduler", "import", "insert", "up"}
Pcs == {"idle", "lookup", "get_key", "creation_all", "creation_indexed", "action_all",
        "action_indexed", "handler", "put", "done", "refused"}

(* The databases hold keys and entries of known uids, and every start-up and *)
(* request is in one of its phases.                                          *)
TypeOK ==
  /\ DOMAIN keys = Uids
  /\ \A e \in inverted : e.uid \in Uids /\ e.action \in Action
  /\ server.phase \in Phases /\ server.starts \in 0 .. MaxStarts
  /\ server.todo \subseteq Uids
  /\ disk.version => disk.exists
  /\ used \subseteq GeneratedUids /\ now \in 0 .. MaxTime
  /\ \A c \in Clients :
       /\ clients[c].pc \in Pcs
       /\ server.phase # "up" => clients[c].pc = "idle"

(* The rights of a key are read from the inverted database only: it holds,   *)
(* for every key there is, the entries of its current actions, indexes and   *)
(* expiration and no others (put_api_key and delete_api_key, store.rs).      *)
InvertedExact ==
  \A u \in KeysThere : {e \in inverted : e.uid = u} = EntriesOf(u, keys[u])

\* What a key allows, from the key itself: "g.*" covers every action of g.
Covers(key, action) ==
  \E a \in key.actions : a \in {All, action} \/ (a.op = "*" /\ a.group = action.group)

Allows(key, action, index) ==
  /\ Covers(key, action)
  /\ IF index = None THEN key.indexes # {} ELSE \E p \in key.indexes : matches_str(p, index)
  /\ key.expires_at # None => now < key.expires_at

Secret(uid) == [uid |-> uid, master |-> server.master]

Entitled(call) ==
  LET t == call.token
  IN  IF server.master = None THEN call.action.group # "keys"
      ELSE \/ t.type = "master" /\ t.master = server.master
           \/ /\ t.type = "key"
              /\ \E u \in KeysThere : t.secret = Secret(u) /\ Allows(keys[u], call.action, call.index)
           \/ /\ t.type = "tenant" /\ call.action = Search /\ t.secret = Secret(t.uid)
              /\ t.exp # None => now <= t.exp
              /\ keys[t.uid] # None /\ Allows(keys[t.uid], Search, call.index)
              /\ call.index # None => \E p \in DOMAIN t.rules.rules : matches_str(p, call.index)

(* Authentication decides what the keys say: when neither the store nor the  *)
(* clock moved while it ran, a request reaches its handler exactly when its  *)
(* token is the master key, or stands for a key that is there, has not       *)
(* expired and allows the action on the index, and the tenant token too      *)
(* (ActionPolicy::authenticate, its six transactions and the inverted        *)
(* database included).                                                       *)
DecisionExact ==
  \A c \in Clients :
    /\ clients[c].pc = "handler" /\ clients[c].stable => Entitled(clients[c].call)
    /\ clients[c].pc = "refused" /\ clients[c].stable => ~Entitled(clients[c].call)

\* The patterns a token gives access to, and the key behind it.
KeyBehind(call) ==
  IF server.master = None \/ call.token.type = "master" THEN default_admin
  ELSE IF call.token.type = "key" THEN keys[CHOOSE u \in Uids : call.token.secret = Secret(u)]
  ELSE keys[call.token.uid]

Visible(call, index) ==
  /\ \E p \in KeyBehind(call).indexes : matches_str(p, index)
  /\ server.master # None /\ call.token.type = "tenant" =>
       \E p \in DOMAIN call.token.rules.rules : matches_str(p, index)

MayCreate(call) ==
  Covers(KeyBehind(call), IndexesAdd) /\ Visible(call, call.uid)

AnswerTrue(r) ==
  LET call == r.call
      reply == r.reply
  IN  r.pc = "done" /\ r.stable =>
        /\ call.route = "create_index" => (reply.status = "ok" <=> MayCreate(call))
        /\ call.route = "add_documents" => (reply.value <=> MayCreate(call))
        /\ call.route \in {"swap", "multi_search"} =>
             (reply.status = "ok" <=> \A i \in call.uids : Visible(call, i))
        /\ call.route = "list" => reply.value = {i \in IndexUids : Visible(call, i)}

(* The handlers answer what the token allows: an index is created, by itself *)
(* or for a document addition, only with the right to create indexes and on  *)
(* an index of the token; a swap and a multi-search are refused as soon as   *)
(* one index is not; a listing shows the indexes of the token.               *)
AnswerExact == \A c \in Clients : AnswerTrue(clients[c])

Reach(p) == {i \in IndexUids : matches_str(p, i)}

NarrowTrue(r) ==
  r.pc = "done" /\ r.rules # None /\ r.reply.status = "ok" =>
    \A i \in r.call.uids :
      \E p \in DOMAIN r.rules.rules :
        /\ matches_str(p, i)
        /\ r.reply.value[i] = r.rules.rules[p]
        /\ \A q \in DOMAIN r.rules.rules : matches_str(q, i) => Reach(p) \subseteq Reach(q)

(* A search made with a tenant token carries the rule of the narrowest of    *)
(* the patterns of the token that match its index, the one whose indexes     *)
(* all the others cover (SearchRules::get_index_search_rules).               *)
NarrowestRule == \A c \in Clients : NarrowTrue(clients[c])

(* The keys of an imported dump replace the ones the new database was given: *)
(* when the last key is inserted the store holds the keys of the dump and no *)
(* others (import_dump, lib.rs).                                             *)
ImportExact ==
  server.phase = "insert" /\ server.todo = {} =>
    \A u \in Uids : keys[u] = IF u \in DOMAIN DumpKeys THEN DumpKeys[u] ELSE None

(* A server asked to import a dump, and not told to ignore it when there is  *)
(* a database, never runs on half of it, whatever crash interrupted an       *)
(* earlier import (setup_meilisearch).                                       *)
ImportAllOrNothing ==
  server.phase = "up" /\ server.options.import /\ ~server.options.ignoreIfDbExists
    /\ DumpKeys # None => disk.data = "full"

(* The two databases of the key store say the same after every transaction   *)
(* (put_api_key and delete_api_key, store.rs).                               *)
StoreSound == TypeOK /\ InvertedExact

(* A request is let through, and answered, as the keys say: by the extractor *)
(* for the action and the index of the route, by the handler for every index *)
(* that only the body names.                                                 *)
RequestsDecided == DecisionExact /\ AnswerExact

(* A server that imports a dump has its keys and no others, and never runs   *)
(* on half of a dump after a crash (setup_meilisearch, import_dump).         *)
ImportSound == ImportExact /\ ImportAllOrNothing
=============================================================================
