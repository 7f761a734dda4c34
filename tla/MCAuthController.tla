-------------------------- MODULE MCAuthController --------------------------
(* Instances of AuthController for TLC.                                     *)
EXTENDS AuthController, TLC

CONSTANTS u, v, g1, g2, g3, g4, m1, f1, f2, c1, c2

A == <<"a">>
AB == <<"a", "b">>
B == <<"b">>
ThreeIndexes == {A, AB, B}

AStar == Pattern(A, TRUE)
ABStar == Pattern(AB, TRUE)
Exactly(index) == Pattern(index, FALSE)

MCUids == {u, v, g1, g2, g3, g4}
Generated == {g1, g2, g3, g4}
Masters == {m1, None}
TwoClients == {c1, c2}

ManageKey == NewKey("n", {Op("indexes", "*"), Op("documents", "add")}, {AStar, Exactly(B)}, 1)
SearchKey == NewKey("n", {Search}, {AStar}, None)
DumpedKey == NewKey("d", {Op("documents", "*"), Search}, {Exactly(AB), Exactly(A)}, 1)
Dumped == [x \in {v} |-> DumpedKey]

MasterToken == [type |-> "master", master |-> m1]
KeyToken(uid) == [type |-> "key", secret |-> [uid |-> uid, master |-> m1]]
TenantToken(uid, rules, exp) ==
  [type |-> "tenant", uid |-> uid, secret |-> [uid |-> uid, master |-> m1],
   rules |-> rules, exp |-> exp]

SomeRules == MapRules([p \in {AllIndexes, AStar, Exactly(A), ABStar} |->
                        CASE p = AStar -> f1 [] p = ABStar -> f2 [] OTHER -> None])
NarrowRules == SetRules({Exactly(AB)})

Call(route, action, index, token) ==
  [route |-> route, action |-> action, index |-> index, token |-> token,
   uid |-> index, uids |-> {}]

AdminCalls ==
  {[Call("create", Op("keys", "create"), None, MasterToken) EXCEPT !.uid = u] @@ [key |-> k] :
     k \in {ManageKey, SearchKey}}
  \cup {[Call("update", Op("keys", "update"), None, MasterToken) EXCEPT !.uid = u] @@ [name |-> "m"],
        [Call("delete", Op("keys", "delete"), None, MasterToken) EXCEPT !.uid = u],
        [Call("key", Op("keys", "get"), None, MasterToken) EXCEPT !.uid = u],
        Call("keys", Op("keys", "get"), None, MasterToken)}

Tokens == {KeyToken(u), KeyToken(v), TenantToken(u, SomeRules, 1), TenantToken(v, NarrowRules, None)}

UserCalls ==
  {[Call("create_index", IndexesAdd, None, KeyToken(u)) EXCEPT !.uid = AB],
   Call("add_documents", Op("documents", "add"), AB, KeyToken(v)),
   [Call("swap", Op("indexes", "swap"), None, KeyToken(u)) EXCEPT !.uids = {A, B}],
   Call("list", Op("indexes", "get"), None, KeyToken(u))}
  \cup {[Call("multi_search", Search, None, t) EXCEPT !.uids = {A, AB}] :
          t \in {TenantToken(u, SomeRules, 0), TenantToken(v, NarrowRules, None)}}
  \cup {[Call("multi_search", Search, AB, t) EXCEPT !.uids = {AB}] :
          t \in {KeyToken(u), TenantToken(v, NarrowRules, None)}}

\* One client administers the keys, the other uses them.
AdminAndUser == [c \in TwoClients |-> IF c = c1 THEN AdminCalls ELSE UserCalls]

Opts == {[import |-> im, ignoreIfDbExists |-> ig, ignoreMissing |-> FALSE] :
           im \in BOOLEAN, ig \in BOOLEAN}
=============================================================================
