---------------------------- MODULE Sessions ----------------------------
(***************************************************************************)
(* Accounts, logins and token pairs of the proxy: auth_endpoints.py over   *)
(* auth/jwt.py, auth/user_db.py and auth/ldap.py.                          *)
(*                                                                         *)
(* The handlers are coroutines on one event loop; they yield at every      *)
(* database call.  A handler is one action per database write, and the     *)
(* values it read before an await travel in req[r]: two refreshes may both *)
(* have selected a row before either marks it.  Token pairs are numbered   *)
(* in the order they are stored: pair i is an access token (stateless,     *)
(* only its expiry matters) and a row of refresh_tokens.  exchanged is a   *)
(* history variable, which no action reads but to go on writing it.  The   *)
(* blacklist of logged out access tokens is left out: is_blacklisted has   *)
(* no caller, so the table decides nothing.                                *)
(***************************************************************************)
EXTENDS Integers, Sequences, FiniteSets

CONSTANTS Users, Requests,
          LOGIN_MAX_ATTEMPTS,        \* _LOGIN_MAX_ATTEMPTS
          LOGIN_WINDOW,              \* _LOGIN_WINDOW_SECONDS
          LOGIN_COOLDOWN,            \* _LOGIN_COOLDOWN_SECONDS
          AD_ENABLED,
          MaxPairs, MaxExpiries      \* bounds of the model

VARIABLES account,     \* table users: absent, active or soft-deleted
          pairs,       \* table refresh_tokens, with the access token of the same login
          exchanged,   \* of each pair: who carried its refresh token, and who bought with it
          attempts,    \* _LOGIN_ATTEMPTS: the count of each entry, 0 for none
          req          \* the requests in flight

vars == <<account, pairs, exchanged, attempts, req>>

NoUser == "nobody"
Idents == Users \cup {"register", "refresh"}
Idle == [pc |-> "idle", user |-> NoUser, tok |-> 0]

\* UserContext: what a verified token tells the handlers.
UserContext(u) == [user |-> u, authenticated |-> u # NoUser]

PairRecords == [user: Users, access: {"valid", "expired"}, row: BOOLEAN,
                revoked: BOOLEAN, expired: BOOLEAN]

\* The requests that had selected a row when the first of them marked it, and those that
\* stored a pair for it.
Exchange == [carriers: SUBSET Requests, buyers: SUBSET Requests]
NoExchange == [carriers |-> {}, buyers |-> {}]

TypeOK ==
    /\ account \in [Users -> {"none", "active", "inactive"}]
    /\ Len(pairs) <= MaxPairs
    /\ \A i \in 1..Len(pairs) : pairs[i] \in PairRecords
    /\ Len(exchanged) = Len(pairs)
    /\ \A i \in 1..Len(pairs) : exchanged[i] \in Exchange
    /\ attempts \in [Idents -> 0..LOGIN_MAX_ATTEMPTS]
    /\ \A r \in Requests : /\ req[r].pc \in {"idle", "ldap", "revoke", "store"}
                           /\ req[r].tok \in 0..Len(pairs)

\* _ensure_db and _migrate_legacy_users: the legacy users become accounts.
Init ==
    /\ account \in [Users -> {"none", "active"}]
    /\ pairs = <<>>
    /\ exchanged = <<>>
    /\ attempts = [i \in Idents |-> 0]
    /\ req = [r \in Requests |-> Idle]

-----------------------------------------------------------------------------
\* How long ago the first attempt of an entry was when it is read: just now, or its window is
\* over.
Ages == {0, LOGIN_WINDOW + 1}

\* _check_login_rate_limit, read: does it raise 429?  The window is tested first.
limited(i, age) ==
    /\ attempts[i] >= LOGIN_MAX_ATTEMPTS
    /\ age <= LOGIN_WINDOW
    /\ age < LOGIN_COOLDOWN

\* _check_login_rate_limit, write: the counter after an attempt that is let through.
_check_login_rate_limit(i, age) ==
    [attempts EXCEPT ![i] = IF @ = 0 \/ age > LOGIN_WINDOW \/ @ >= LOGIN_MAX_ATTEMPTS THEN 1 ELSE @ + 1]

get_user_by_username(u) == account[u] = "active"
get_user(u) == account[u] = "active"

\* UserDatabase.create_user: the UNIQUE constraint refuses a second row, active or not.
create_user(u) == account' = [account EXCEPT ![u] = "active"]

auth_register(u, age) ==
    /\ ~limited("register", age)
    /\ attempts' = _check_login_rate_limit("register", age)
    /\ IF account[u] = "none" THEN create_user(u) ELSE UNCHANGED account
    /\ UNCHANGED <<pairs, exchanged, req>>

\* verify_password: the local account decides when the password is the stored one.
verify_password(u, known) == known /\ get_user_by_username(u)

\* auth_login up to the first write: 429, 401, LDAP, or on to the token pair.
auth_login(r, u, known, bound, age) ==
    /\ req[r] = Idle
    /\ ~limited(u, age)
    /\ attempts' = _check_login_rate_limit(u, age)
    /\ req' = [req EXCEPT ![r] =
                  CASE verify_password(u, known) -> [Idle EXCEPT !.pc = "store", !.user = u]
                    [] ~verify_password(u, known) /\ AD_ENABLED /\ bound ->
                           [Idle EXCEPT !.pc = "ldap", !.user = u]
                    [] OTHER -> Idle]
    /\ UNCHANGED <<account, pairs, exchanged>>

\* authenticate_ldap and _sync_ldap_user: reuse or create the local row.  For a
\* soft-deleted row both fail, the user is {}, and create_token_pair raises KeyError.
_sync_ldap_user(r) ==
    LET u == req[r].user IN
    /\ req[r].pc = "ldap"
    /\ IF account[u] = "none" THEN create_user(u) ELSE UNCHANGED account
    /\ req' = [req EXCEPT ![r] = IF account[u] = "inactive" THEN Idle
                                 ELSE [@ EXCEPT !.pc = "store"]]
    /\ UNCHANGED <<pairs, exchanged, attempts>>

NewPair(u) == [user |-> u, access |-> "valid", row |-> TRUE, revoked |-> FALSE,
               expired |-> FALSE]

\* create_token_pair: sign an access token, store the refresh token, answer.
create_token_pair(r) ==
    /\ req[r].pc = "store"
    /\ Len(pairs) < MaxPairs
    /\ pairs' = Append(pairs, NewPair(req[r].user))
    /\ exchanged' = Append([i \in DOMAIN exchanged |->
                              IF i = req[r].tok THEN [exchanged[i] EXCEPT !.buyers = @ \cup {r}]
                              ELSE exchanged[i]], NoExchange)
    /\ req' = [req EXCEPT ![r] = Idle]
    /\ UNCHANGED <<account, attempts>>

\* consume_refresh_token's SELECT.
redeemable(i) == pairs[i].row /\ ~pairs[i].revoked /\ ~pairs[i].expired

\* verify_token: signature and expiry, never the database.
verify_token(i) == IF pairs[i].access = "valid" THEN UserContext(pairs[i].user)
                   ELSE UserContext(NoUser)

\* get_optional_auth_context: like verify_token, anonymous instead of an error.
get_optional_auth_context(i) == IF i = 0 THEN UserContext(NoUser) ELSE verify_token(i)

\* auth_refresh with a refresh token, up to the UPDATE.
auth_refresh(r, i, age) ==
    /\ req[r] = Idle
    /\ ~limited("refresh", age)
    /\ attempts' = _check_login_rate_limit("refresh", age)
    /\ req' = [req EXCEPT ![r] = IF redeemable(i)
                                 THEN [pc |-> "revoke", user |-> pairs[i].user, tok |-> i]
                                 ELSE Idle]
    /\ UNCHANGED <<account, pairs, exchanged>>

\* auth_refresh with an access token: verify_refresh_token finds no row, the claims do.
auth_refresh_access(r, i, age) ==
    /\ req[r] = Idle
    /\ ~limited("refresh", age)
    /\ attempts' = _check_login_rate_limit("refresh", age)
    /\ req' = [req EXCEPT ![r] = IF verify_token(i).authenticated
                                 THEN [Idle EXCEPT !.pc = "store", !.user = pairs[i].user]
                                 ELSE Idle]
    /\ UNCHANGED <<account, pairs, exchanged>>

\* The requests that carry refresh token i; the first that marks it counts them.
Carriers(i) == {r \in Requests : req[r].tok = i}
CountCarriers(i) ==
    exchanged' = IF exchanged[i].carriers = {} THEN [exchanged EXCEPT ![i].carriers = Carriers(i)] ELSE exchanged

\* Variant: the token is handed out again, its row is never marked.
consume_refresh_token_unmarked(r) ==
    /\ req[r].pc = "revoke"
    /\ CountCarriers(req[r].tok)
    /\ req' = [req EXCEPT ![r] = IF get_user(req[r].user) THEN [@ EXCEPT !.pc = "store"] ELSE Idle]
    /\ UNCHANGED <<account, pairs, attempts>>

\* consume_refresh_token: mark the row, whatever became of it since the SELECT, then load the
\* user (None if soft-deleted: 401).
consume_refresh_token(r) ==
    /\ req[r].pc = "revoke"
    /\ pairs' = [pairs EXCEPT ![req[r].tok].revoked = TRUE]
    /\ CountCarriers(req[r].tok)
    /\ req' = [req EXCEPT ![r] = IF get_user(req[r].user) THEN [@ EXCEPT !.pc = "store"] ELSE Idle]
    /\ UNCHANGED <<account, attempts>>

\* revoke_user_tokens
RevokedOf(u) == [i \in DOMAIN pairs |->
                    IF pairs[i].user = u THEN [pairs[i] EXCEPT !.revoked = TRUE] ELSE pairs[i]]

\* auth_logout: revoke the refresh token given (0: none, or one that cannot be redeemed), and with
\* all_sessions every one of the caller's (0: an anonymous caller, or not all_sessions).
auth_logout(i, caller) ==
    LET u == get_optional_auth_context(caller)
        ps == IF u.authenticated THEN RevokedOf(u.user) ELSE pairs IN
    /\ pairs' = [j \in DOMAIN ps |-> IF j = i /\ redeemable(i)
                                     THEN [ps[j] EXCEPT !.revoked = TRUE] ELSE ps[j]]
    /\ UNCHANGED <<account, exchanged, attempts, req>>

update_user(u) ==
    /\ account[u] = "inactive"
    /\ account' = [account EXCEPT ![u] = "active"]
    /\ UNCHANGED <<pairs, exchanged, attempts, req>>

delete_user(u) ==
    /\ account[u] = "active"
    /\ account' = [account EXCEPT ![u] = "inactive"]
    /\ UNCHANGED <<pairs, exchanged, attempts, req>>

\* UserDatabase.cleanup_expired
cleanup_expired ==
    /\ \E i \in DOMAIN pairs : pairs[i].row /\ pairs[i].expired
    /\ pairs' = [i \in DOMAIN pairs |-> [pairs[i] EXCEPT !.row = @ /\ ~pairs[i].expired]]
    /\ UNCHANGED <<account, exchanged, attempts, req>>

\* Time: an access token expires first, its refresh token later, older pairs before younger.
TokenExpires(i) ==
    /\ ~pairs[i].expired
    /\ Cardinality({j \in DOMAIN pairs : pairs[j].access = "expired"})
       + Cardinality({j \in DOMAIN pairs : pairs[j].expired}) < MaxExpiries
    /\ \A j \in 1..(i - 1) : IF pairs[i].access = "valid" THEN pairs[j].access = "expired" ELSE pairs[j].expired
    /\ pairs' = [pairs EXCEPT ![i] = IF @.access = "valid" THEN [@ EXCEPT !.access = "expired"]
                                     ELSE [@ EXCEPT !.expired = TRUE]]
    /\ UNCHANGED <<account, exchanged, attempts, req>>

Next ==
    \/ \E u \in Users : update_user(u) \/ delete_user(u)
    \/ \E age \in Ages :
         \/ \E u \in Users : auth_register(u, age)
         \/ \E r \in Requests, u \in Users, known, bound \in BOOLEAN : auth_login(r, u, known, bound, age)
         \/ \E r \in Requests, i \in DOMAIN pairs : auth_refresh(r, i, age) \/ auth_refresh_access(r, i, age)
    \/ \E r \in Requests : _sync_ldap_user(r) \/ create_token_pair(r) \/ consume_refresh_token(r)
    \/ \E i \in {0} \cup {j \in DOMAIN pairs : redeemable(j)},
          caller \in {0} \cup {j \in DOMAIN pairs : verify_token(j).authenticated} : auth_logout(i, caller)
    \/ \E i \in DOMAIN pairs : TokenExpires(i)
    \/ cleanup_expired

Spec == Init /\ [][Next]_vars

-----------------------------------------------------------------------------
(***************************************************************************)
(* A refresh token is one-time but for requests that overlap: all the      *)
(* requests it buys a pair for had selected its row together, before the   *)
(* first of them marked it; each of them buys at most one; and a token     *)
(* that bought a pair is revoked, so that no request that begins later     *)
(* redeems it: whatever refreshes, logouts, soft deletions and cleanups    *)
(* run between a SELECT, its UPDATE and the INSERT of the new pair         *)
(* (user_db.consume_refresh_token, jwt.create_token_pair).  Two refreshes  *)
(* that overlap do buy two pairs: the UPDATE does not test revoked again,  *)
(* so "one-time use" (user_db.py:335, jwt.py:587) holds only for requests  *)
(* that come one after the other.                                          *)
(***************************************************************************)
RefreshSpends ==
    \A i \in 1..Len(pairs) :
        /\ exchanged[i].buyers \subseteq exchanged[i].carriers
        /\ exchanged[i].carriers # {} => /\ pairs[i].revoked
                                        /\ Carriers(i) \subseteq exchanged[i].carriers \ exchanged[i].buyers
=============================================================================
