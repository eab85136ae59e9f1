------------------------------- MODULE Gateway -------------------------------
(***************************************************************************)
(* What stands between a client and an endpoint of the proxy: the          *)
(* middleware stack that main.py builds (shared/rate_limiter.py,           *)
(* shared/middleware.py, auth/jwt.py), the role check of auth/rbac.py, and *)
(* the file endpoints (api/files.py over shared/minio_client.py) as the    *)
(* endpoints behind it.                                                    *)
(*                                                                         *)
(* Requests are coroutines; they interleave where they await the next      *)
(* layer, and, in different worker processes, between two calls of the     *)
(* object store.  Time is counted in whole seconds, tokens in fractions of *)
(* one: a request costs COST of them and RATE come back per second.        *)
(* Credentials are names; live holds the ones that verify.                 *)
(***************************************************************************)
EXTENDS Integers, Sequences, FiniteSets

CONSTANTS Requests,             \* requests in flight
          Shapes,               \* what clients send
          Roles,                \* credential -> its roles
          AUTH_ENABLED, RBAC_ENABLED,
          TRUSTED_PROXY_COUNT,
          RATE, COST, BURST,    \* rate_per_second, one token, burst
          MAX_AGE,              \* max_age of cleanup_expired
          MAX_UPLOAD_SIZE,
          ALLOWED_CONTENT_TYPES,
          MaxRequests, MaxTime, MaxFiles   \* bounds of the model

VARIABLES now,       \* time.monotonic()
          buckets,   \* RateLimiter._buckets: key -> [tokens, last_refill]
          live,      \* credentials that verify: not expired, not revoked
          req,       \* the requests in flight
          files,     \* objects of the bucket: id -> who uploaded it
          uploads,   \* ids given out (uuid4)
          passed,    \* history: when the limiter let a key's requests pass
          promised   \* key -> when its last refusals said to come back

vars == <<now, buckets, live, req, files, uploads, passed, promised>>

Idle == [at |-> "idle"]
NoBody == [user |-> "anonymous", roles |-> {}]

Init ==
    /\ now = 0
    /\ buckets = <<>>
    /\ live = DOMAIN Roles
    /\ req = [r \in Requests |-> Idle]
    /\ files = <<>>
    /\ uploads = 0
    /\ passed = <<>>
    /\ promised = <<>>

-----------------------------------------------------------------------------
(* The stack: the layer that is added last is the outermost. *)

\* From the outside in; the file endpoints are below all of them.
setup_all_middleware ==
    <<"RateLimit", "InputSanitization", "Audit", "SecurityHeaders", "RequestLogging", "RequestId",
      "CorrelationId", "TraceContext", "Auth", "CORS">>

\* The headers a response gets on its way out: those of the layers around the one that made it.
AddedBy == [l \in {"SecurityHeaders", "RequestId", "CorrelationId"} |->
               CASE l = "SecurityHeaders" -> "X-Frame-Options"
                 [] l = "RequestId" -> "X-Request-ID"
                 [] l = "CorrelationId" -> "X-Correlation-ID"]
HeadersFrom(depth) ==
    {AddedBy[l] : l \in {setup_all_middleware[i] : i \in 1..(depth - 1)} \cap DOMAIN AddedBy}

Answer(r, status, depth) ==
    req' = [req EXCEPT ![r] = [at |-> "answered", status |-> status, headers |-> HeadersFrom(depth)]]
InEndpoint(r, status) == Answer(r, status, Len(setup_all_middleware) + 1)

-----------------------------------------------------------------------------
(* RateLimiter *)

smaller(a, b) == IF a < b THEN a ELSE b

\* The bearer token, verified or not; else the address, n-th from the right when proxies are trusted.
_extract_key(s) ==
    IF s.bearer # "none" THEN <<"apikey", s.bearer>>
    ELSE LET idx == Len(s.forwarded) - TRUSTED_PROXY_COUNT
         IN IF s.forwarded # <<>> /\ TRUSTED_PROXY_COUNT > 0 /\ idx >= 0
            THEN <<"ip", s.forwarded[idx + 1]>>
            ELSE <<"ip", s.host>>

\* A new bucket is full.
_get_bucket(k) ==
    IF k \in DOMAIN buckets THEN buckets[k] ELSE [tokens |-> BURST * COST, last_refill |-> now]

\* Variant: the idle time is not cut off at the bucket's size.
_refill_uncapped(b) ==
    [tokens |-> b.tokens + (now - b.last_refill) * RATE, last_refill |-> now]

_refill(b) ==
    [tokens |-> smaller(BURST * COST, b.tokens + (now - b.last_refill) * RATE), last_refill |-> now]

\* max(1, int(wait) + 1)
retry_seconds(b) == (COST - b.tokens) \div RATE + 1

With(f, k, x) == [j \in DOMAIN f \cup {k} |-> IF j = k THEN x ELSE f[j]]
Without(f, k) == [j \in DOMAIN f \ {k} |-> f[j]]
PassedOf(k) == IF k \in DOMAIN passed THEN passed[k] ELSE <<>>
Sent == Cardinality({e \in (DOMAIN passed) \X (1..MaxRequests) : e[2] <= Len(passed[e[1]])})

\* RateLimitMiddleware.dispatch: is_allowed runs without giving up the event loop.
dispatch(r, s) ==
    LET k == _extract_key(s)
        b == _refill(_get_bucket(k))
    IN /\ req[r].at = "idle"
       /\ \/ /\ b.tokens >= COST
             /\ Sent < MaxRequests
             /\ buckets' = With(buckets, k, [b EXCEPT !.tokens = @ - COST])
             /\ passed' = With(passed, k, Append(PassedOf(k), now))
             /\ promised' = Without(promised, k)
             /\ req' = [req EXCEPT ![r] = [at |-> "auth", shape |-> s, user |-> NoBody]]
          \/ /\ b.tokens < COST
             /\ buckets' = With(buckets, k, b)
             /\ promised' = IF k \in DOMAIN promised THEN promised
                            ELSE With(promised, k, now + retry_seconds(b))
             /\ Answer(r, 429, 1)
             /\ UNCHANGED passed
       /\ UNCHANGED <<now, live, files, uploads>>

cleanup_expired ==
    /\ buckets' = [k \in {j \in DOMAIN buckets : now - buckets[j].last_refill <= MAX_AGE} |-> buckets[k]]
    /\ buckets' # buckets
    /\ UNCHANGED <<now, live, req, files, uploads, passed, promised>>

-----------------------------------------------------------------------------
(* Authentication and roles *)

Token(s) == IF s.bearer # "none" THEN s.bearer ELSE s.xauth
get_user(c) == [user |-> c, roles |-> Roles[c]]

ROLE_RANK(role) ==
    CASE role = "admin" -> 4 [] role = "expert" -> 3 [] role = "user" -> 2 [] role = "read_only" -> 1

\* The highest role; a user without one may read.
get_user_role(user) ==
    LET known == user.roles \cap {"admin", "expert", "user", "read_only"}
    IN IF known = {} THEN "read_only" ELSE CHOOSE role \in known : \A o \in known : ROLE_RANK(role) >= ROLE_RANK(o)

\* Public paths and paths outside /v1/ go on as anonymous; the others need a token that verifies.
AuthMiddleware(r) ==
    LET s == req[r].shape IN
    /\ req[r].at = "auth"
    /\ IF ~ AUTH_ENABLED \/ s.path \in {"public", "other"}
       THEN IF s.path = "v1" THEN req' = [req EXCEPT ![r].at = "role"] ELSE InEndpoint(r, 200)
       ELSE IF Token(s) \in live
            THEN req' = [req EXCEPT ![r].at = "role", ![r].user = get_user(Token(s))]
            ELSE Answer(r, 401, Len(setup_all_middleware) - 1)
    /\ UNCHANGED <<now, buckets, live, files, uploads, passed, promised>>

\* The dependency verifies the same token once more: it may have expired since.
get_auth_context(s) == ~ AUTH_ENABLED \/ Token(s) \in live

Needed(op) == IF op = "delete" THEN "expert" ELSE "user"

require_role(r) ==
    LET s == req[r].shape
        user == IF AUTH_ENABLED /\ Token(s) \in live THEN get_user(Token(s)) ELSE NoBody
    IN /\ req[r].at = "role"
       /\ IF ~ get_auth_context(s) THEN InEndpoint(r, 401)
          ELSE IF RBAC_ENABLED /\ ROLE_RANK(get_user_role(user)) < ROLE_RANK(Needed(s.op))
          THEN InEndpoint(r, 403)
          ELSE req' = [req EXCEPT ![r].at = "endpoint", ![r].user = user]
       /\ UNCHANGED <<now, buckets, live, files, uploads, passed, promised>>

\* A token expires, or its key is revoked.
expire(c) ==
    /\ c \in live
    /\ live' = live \ {c}
    /\ UNCHANGED <<now, buckets, req, files, uploads, passed, promised>>

-----------------------------------------------------------------------------
(* api/files.py over MinioClient *)

\* The object is stored before the answer comes, so a failed call may have stored it.
minio_upload(r, id) ==
    \/ files' = With(files, id, req[r].user.user) /\ InEndpoint(r, 200)
    \/ UNCHANGED files /\ InEndpoint(r, 500)
    \/ files' = With(files, id, req[r].user.user) /\ InEndpoint(r, 500)

upload_file(r) ==
    LET s == req[r].shape IN
    /\ req[r].at = "endpoint" /\ s.op = "upload"
    /\ IF s.type \notin ALLOWED_CONTENT_TYPES THEN InEndpoint(r, 400) /\ UNCHANGED <<files, uploads>>
       ELSE IF s.size > MAX_UPLOAD_SIZE THEN InEndpoint(r, 413) /\ UNCHANGED <<files, uploads>>
       ELSE /\ uploads < MaxFiles
            /\ uploads' = uploads + 1
            /\ minio_upload(r, uploads')
    /\ UNCHANGED <<now, buckets, live, passed, promised>>

list_files(r) ==
    /\ req[r].at = "endpoint" /\ req[r].shape.op = "list"
    /\ \E status \in {200, 500} : InEndpoint(r, status)
    /\ UNCHANGED <<now, buckets, live, files, uploads, passed, promised>>

\* MinioClient: what a call on one object may answer.  A refused head counts as not found.
head_object(id) == {"error", IF id \in DOMAIN files THEN "found" ELSE "not_found"}
get_object(id) == {"error"} \cup (IF id \in DOMAIN files THEN {"bytes"} ELSE {})
generate_presigned_url == {"error", "url"}   \* signed without asking the store

\* The metadata come first: an object that is not there is a 404.
get_file_metadata(r) ==
    LET s == req[r].shape IN
    /\ req[r].at = "endpoint" /\ s.op \in {"metadata", "download", "presigned", "delete"}
    /\ \E answer \in head_object(s.file) :
          \/ answer = "error" /\ InEndpoint(r, 500)
          \/ answer = "not_found" /\ InEndpoint(r, 404)
          \/ answer = "found" /\ s.op = "metadata" /\ InEndpoint(r, 200)
          \/ answer = "found" /\ s.op # "metadata" /\ req' = [req EXCEPT ![r].at = "found"]
    /\ UNCHANGED <<now, buckets, live, files, uploads, passed, promised>>

\* The object may have gone since: then the download fails with a 500, not a 404.
download_file(r) ==
    /\ req[r].at = "found" /\ req[r].shape.op = "download"
    /\ \E answer \in get_object(req[r].shape.file) : InEndpoint(r, IF answer = "bytes" THEN 200 ELSE 500)
    /\ UNCHANGED <<now, buckets, live, files, uploads, passed, promised>>

get_presigned_url(r) ==
    /\ req[r].at = "found" /\ req[r].shape.op = "presigned"
    /\ \E answer \in generate_presigned_url : InEndpoint(r, IF answer = "url" THEN 200 ELSE 500)
    /\ UNCHANGED <<now, buckets, live, files, uploads, passed, promised>>

\* delete_object succeeds on an object that is gone; a failed call may have deleted it.
delete_file(r) ==
    LET id == req[r].shape.file IN
    /\ req[r].at = "found" /\ req[r].shape.op = "delete"
    /\ \/ files' = Without(files, id) /\ InEndpoint(r, 200)
       \/ files' \in {files, Without(files, id)} /\ InEndpoint(r, 500)
    /\ UNCHANGED <<now, buckets, live, uploads, passed, promised>>

-----------------------------------------------------------------------------
receive(r) ==
    /\ req[r].at = "answered"
    /\ req' = [req EXCEPT ![r] = Idle]
    /\ UNCHANGED <<now, buckets, live, files, uploads, passed, promised>>

Tick ==
    /\ now < MaxTime
    /\ now' = now + 1
    /\ UNCHANGED <<buckets, live, req, files, uploads, passed, promised>>

Next ==
    \/ \E r \in Requests :
          \/ \E s \in Shapes : dispatch(r, s)
          \/ AuthMiddleware(r) \/ require_role(r)
          \/ upload_file(r) \/ list_files(r) \/ get_file_metadata(r)
          \/ download_file(r) \/ get_presigned_url(r) \/ delete_file(r)
          \/ receive(r)
    \/ \E c \in DOMAIN Roles : expire(c)
    \/ cleanup_expired
    \/ Tick

Spec == Init /\ [][Next]_vars

-----------------------------------------------------------------------------
(* Properties *)

\* What the limiter promises to both sides (rate_limiter.py): over any stretch of time a key gets at
\* most its burst and what the rate adds meanwhile, whether its bucket was kept or cleaned up in
\* between; and a client told to wait finds a token if nobody took one of the key's since, that is,
\* Retry-After is never too short.
RateContract ==
    /\ \A k \in DOMAIN passed : \A i, j \in DOMAIN passed[k] :
          i <= j => (j - i + 1) * COST <= BURST * COST + RATE * (passed[k][j] - passed[k][i])
    /\ \A k \in DOMAIN promised :
          now >= promised[k] => _refill(_get_bucket(k)).tokens >= COST
==============================================================================
