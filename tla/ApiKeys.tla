----------------------------- MODULE ApiKeys -----------------------------
(***************************************************************************)
(* API keys and their rotation: auth/api_keys.py (ApiKeyManager, in        *)
(* memory) driven by auth/secret_rotation.py (SecretRotationManager, with  *)
(* its counters on disk).                                                  *)
(*                                                                         *)
(* Every operation runs without yielding, so each is one action.  _keys is *)
(* kept in the dictionary's insertion order.                               *)
(***************************************************************************)
EXTENDS Integers, Sequences, FiniteSets

CONSTANTS Users,
          MAX_KEYS_PER_USER,
          MaxIssued,            \* bound: keys ever generated
          MaxRotations          \* bound: rotations ever started

VARIABLES keys,      \* _keys, oldest first; a key's id is its serial number
          index,     \* _key_to_user: the serials whose hash is known
          issued,    \* serial of the last key generated
          rotation,  \* counters, last error and history of the rotation manager
          disk,      \* rotation_state.json
          jwt        \* signing keys: what os.environ holds, what the process uses

vars == <<keys, index, issued, rotation, disk, jwt>>

\* ApiKey: expiry is "valid", "expired", or "old" (expired for more than 30 days).
ApiKey == [id: 1..MaxIssued, user: Users, active: BOOLEAN, expiry: {"valid", "expired", "old"}]
Counters == [total: 0..MaxRotations, failed: 0..MaxRotations, error: BOOLEAN]

TypeOK ==
    /\ \A k \in DOMAIN keys : keys[k] \in ApiKey
    /\ index \subseteq 1..issued
    /\ issued \in 0..MaxIssued
    /\ rotation \in [total: 0..MaxRotations, failed: 0..MaxRotations, error: BOOLEAN,
                     history: Seq({"completed", "failed"}), loaded: BOOLEAN]
    /\ disk \in Counters
    /\ jwt \in [env: 0..MaxRotations, used: 0..MaxRotations]

\* ApiKeyManager.__init__, SecretRotationManager.__init__
Init ==
    /\ keys = <<>> /\ index = {} /\ issued = 0
    /\ rotation = [total |-> 0, failed |-> 0, error |-> FALSE, history |-> <<>>, loaded |-> FALSE]
    /\ disk = [total |-> 0, failed |-> 0, error |-> FALSE]
    /\ jwt = [env |-> 0, used |-> 0]

-----------------------------------------------------------------------------
is_expired(k) == k.expiry # "valid"
listed(k) == k.active /\ ~is_expired(k)

\* list_keys(user_id): the user's active, unexpired keys.
list_keys(u) == {i \in DOMAIN keys : keys[i].user = u /\ listed(keys[i])}
at_limit(u) == Cardinality(list_keys(u)) >= MAX_KEYS_PER_USER

NewKey(id, u) == [id |-> id, user |-> u, active |-> TRUE, expiry |-> "valid"]

\* generate_key for each user of a sequence without duplicates, in its order.
Generate(us) ==
    /\ issued + Len(us) <= MaxIssued
    /\ keys' = keys \o [n \in 1..Len(us) |-> NewKey(issued + n, us[n])]
    /\ index' = index \cup (issued + 1)..(issued + Len(us))
    /\ issued' = issued + Len(us)

generate_key(u) ==
    /\ ~at_limit(u)
    /\ Generate(<<u>>)
    /\ UNCHANGED <<rotation, disk, jwt>>

\* rotate_key: the old key stays active; only its metadata, which nothing reads, says
\* that it was replaced.
rotate_key(i) ==
    /\ keys[i].active
    /\ ~at_limit(keys[i].user)
    /\ Generate(<<keys[i].user>>)
    /\ UNCHANGED <<rotation, disk, jwt>>

\* validate_key: the hash must be indexed and belong to an active, unexpired key.
validate_key(id) == /\ id \in index
                    /\ \E i \in DOMAIN keys : keys[i].id = id /\ listed(keys[i])

revoke_key(i) ==
    /\ keys' = [keys EXCEPT ![i].active = FALSE]
    /\ UNCHANGED <<index, issued, rotation, disk, jwt>>

expire_key(i) ==
    /\ keys' = [keys EXCEPT ![i].expiry = "expired"]
    /\ UNCHANGED <<index, issued, rotation, disk, jwt>>

\* The keys that are not removed, in their order.
Kept[n \in 0..Len(keys)] ==
    IF n = 0 THEN <<>>
    ELSE IF keys[n].expiry = "old" THEN Kept[n - 1] ELSE Append(Kept[n - 1], keys[n])

\* Variant: the hash index is cleaned by user.
cleanup_expired_keys_by_user ==
    LET gone == {i \in DOMAIN keys : keys[i].expiry = "old"} IN
    /\ gone # {}
    /\ index' = index \ {keys[i].id : i \in {j \in DOMAIN keys :
                                      \E g \in gone : keys[g].user = keys[j].user}}
    /\ keys' = Kept[Len(keys)]
    /\ UNCHANGED <<issued, rotation, disk, jwt>>

cleanup_expired_keys ==
    LET gone == {i \in DOMAIN keys : keys[i].expiry = "old"} IN
    /\ gone # {}
    /\ index' = index \ {keys[i].id : i \in gone}
    /\ keys' = Kept[Len(keys)]
    /\ UNCHANGED <<issued, rotation, disk, jwt>>

\* Time: a key's TTL runs out, then the thirty days of grace.
KeyAges(i) ==
    /\ keys[i].expiry # "old"
    /\ keys' = [keys EXCEPT ![i].expiry = IF @ = "valid" THEN "expired" ELSE "old"]
    /\ UNCHANGED <<index, issued, rotation, disk, jwt>>

-----------------------------------------------------------------------------
\* _ensure_initialized and _load_state: the counters come back from disk, once.
Loaded == IF rotation.loaded THEN rotation
          ELSE [rotation EXCEPT !.total = disk.total, !.failed = disk.failed,
                                !.error = disk.error, !.loaded = TRUE]

CanRotate == LET l == Loaded IN l.total + l.failed < MaxRotations

Completed(l) == [l EXCEPT !.total = @ + 1, !.history = Append(@, "completed")]
Failed(l) == [l EXCEPT !.failed = @ + 1, !.error = TRUE, !.history = Append(@, "failed")]

\* _persist_state: a failed write is only logged.
_persist_state(l) == \/ disk' = [total |-> l.total, failed |-> l.failed, error |-> l.error]
                     \/ UNCHANGED disk

\* rotate_jwt_keys: new pair, new environment.  The modules that sign and verify
\* imported JWT_SECRET when they were loaded, so the process keeps its key.
rotate_jwt_keys(fails) ==
    LET l == IF fails THEN Failed(Loaded) ELSE Completed(Loaded) IN
    /\ CanRotate
    /\ rotation' = l
    /\ jwt' = IF fails THEN jwt ELSE [jwt EXCEPT !.env = l.total]
    /\ _persist_state(l)
    /\ UNCHANGED <<keys, index, issued>>

\* The users rotate_api_keys may meet, each once (users_rotated): those of user_ids who have a
\* key listed, or without user_ids all such users, in the order of their first keys.
Orders == {us \in UNION {[1..n -> Users] : n \in 0..Cardinality(Users)} :
               /\ \A m, n \in DOMAIN us : us[m] = us[n] => m = n
               /\ \A n \in DOMAIN us : list_keys(us[n]) # {}}
\* How many of them are served before generate_key refuses one.
Served(us) == LET stop == {n \in DOMAIN us : at_limit(us[n])} IN
              IF stop = {} THEN Len(us) ELSE (CHOOSE n \in stop : \A m \in stop : n <= m) - 1

\* rotate_api_keys: one new key per user; a user at the limit fails the rotation and
\* the keys made before that stay.
rotate_api_keys(us) ==
    LET n == Served(us)
        l == IF n < Len(us) THEN Failed(Loaded) ELSE Completed(Loaded) IN
    /\ CanRotate
    /\ Generate(SubSeq(us, 1, n))
    /\ rotation' = l
    /\ _persist_state(l)
    /\ UNCHANGED jwt

\* get_rotation_status
get_rotation_status == IF rotation.failed > 0 /\ rotation.error THEN "degraded" ELSE "ok"

\* A restart of the proxy: the keys were only in memory, os.environ is the deployment's.
Restart ==
    /\ rotation.loaded
    /\ keys' = <<>> /\ index' = {}
    /\ rotation' = [total |-> 0, failed |-> 0, error |-> FALSE, history |-> <<>>, loaded |-> FALSE]
    /\ jwt' = [jwt EXCEPT !.env = jwt.used]
    /\ UNCHANGED <<issued, disk>>

Next ==
    \/ \E u \in Users : generate_key(u)
    \/ \E i \in DOMAIN keys : rotate_key(i) \/ revoke_key(i) \/ expire_key(i) \/ KeyAges(i)
    \/ cleanup_expired_keys \/ Restart
    \/ \E us \in Orders : rotate_api_keys(us)
    \/ \E fails \in BOOLEAN : rotate_jwt_keys(fails)

Spec == Init /\ [][Next]_vars

-----------------------------------------------------------------------------
(***************************************************************************)
(* Rotation, revocation, expiry and cleanup leave the two dictionaries in  *)
(* step: a key that list_keys reports is one that validate_key accepts,    *)
(* and no user ever has more of them than MAX_KEYS_PER_USER.               *)
(***************************************************************************)
KeysUsable ==
    /\ \A i \in DOMAIN keys : listed(keys[i]) => validate_key(keys[i].id)
    /\ \A u \in Users : Cardinality(list_keys(u)) <= MAX_KEYS_PER_USER
=============================================================================
