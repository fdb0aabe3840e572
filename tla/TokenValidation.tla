--------------------------- MODULE TokenValidation ---------------------------
(***************************************************************************)
(* internal/auth: the middleware, the JWT validator, its cache of key sets *)
(* with a breaker (one issuer), the cache of used token ids, and the       *)
(* TokenReview fallback.                                                   *)
(*                                                                         *)
(* Time passes in ticks, and ages are kept instead of clock readings, up   *)
(* to the first one that no test tells from a larger one.  Computing takes *)
(* no time: only waiting for the issuer or the API server does.            *)
(***************************************************************************)
EXTENDS Breaker, Integers

CONSTANTS
  Reqs,             \* goroutines that handle requests
  Tokens,           \* the tokens that clients present
  Claims,           \* Claims[t]: what is fixed of token t, a member of TokenClaims
  Keys,             \* keys of the issuer, the first one initially published
  FirstKey,
  Life,             \* ticks from the issue of a token to its exp
  refreshInterval,  \* 5 minutes
  maxStaleness,     \* 1 hour
  FetchTimeout,     \* timeout of the HTTP client, 10 seconds
  ReplayTTL,        \* ttl of the replay cache, 10 minutes
  ReplayProtection, \* auth.enableReplayProtection
  K8sEnabled        \* a TokenReviewer is configured

\* key: the key that signed it.  exp: it has one.  nbf: ticks after its issue.
\* aud: it is meant for this service.  rules: it passes the CEL rules.
TokenClaims ==
  [key : Keys, exp : BOOLEAN, nbf : Nat, aud : BOOLEAN, jti : BOOLEAN, rules : BOOLEAN]

ASSUME TokenAssumption ==
  /\ IsFiniteSet(Reqs)
  /\ FirstKey \in Keys
  /\ Claims \in [Tokens -> TokenClaims]
  /\ Life \in Nat /\ refreshInterval \in Nat /\ maxStaleness \in Nat
  /\ FetchTimeout \in Nat /\ ReplayTTL \in Nat
  /\ refreshInterval <= maxStaleness
  /\ ReplayProtection \in BOOLEAN /\ K8sEnabled \in BOOLEAN

VARIABLES
  key,     \* key[k]: "future", "published" or "withdrawn"
  gone,    \* gone[k]: ticks since k was withdrawn
  up,      \* the issuer's endpoint answers, with a key set and in time
  life,    \* life[t]: ticks to the exp of token t, -1 when past
  cache,   \* entry of JWKSCache: keys and age of the entry
  breaker, \* breakers[issuer] of JWKSCache
  jtis,    \* ReplayCache: jtis[t] is the time to live of the entry of t
  req,     \* req[r]: the request that r handles
  used     \* history: used[t] counts how often t was accepted

authVars == <<key, gone, up, life, cache, breaker, jtis, req, used>>
issuer == <<key, gone, up, life>>

\* Ages are told apart up to these.
MaxAge == maxStaleness + 1
MaxGone == maxStaleness + FetchTimeout + 1
NoEntry == -2  \* no entry in jtis; -1 is an entry past its expiry

NoReq == [pc |-> "idle", keys |-> {}, age |-> 0]
NoKeys == [has |-> FALSE, keys |-> {}, age |-> 0]

Published == {k \in Keys : key[k] = "published"}
ReqAt(r, pc) == req[r].pc = pc
Go(r, pc) == req' = [req EXCEPT ![r].pc = pc]

\* What the middleware tells the client and the audit trail.
Answers ==
  {"accepted", "missing_header", "control_chars", "non_bearer", "malformed_token",
   "unknown_issuer", "validation_failed", "circuit_open", "missing_expiry", "token_expired",
   "not_yet_valid", "invalid_audience", "token_replayed", "cel_rule_failed"}

\* The request is answered, and with that over for this module.
Answer(r, res) ==
  /\ res \in Answers
  /\ req' = [req EXCEPT ![r] = NoReq]

Holding(r, keys) == req' = [req EXCEPT ![r] = [pc |-> "check", keys |-> keys, age |-> 0]]

-----------------------------------------------------------------------------
(* The middleware, and Validate up to the cached keys.                      *)

\* The header is missing, has control characters or another scheme.
BadHeader(r, reason) ==
  /\ ReqAt(r, "idle")
  /\ Answer(r, reason)
  /\ UNCHANGED <<key, gone, up, life, cache, breaker, jtis, used>>

\* TokenReviewer.Validate, which shares nothing with other requests.
TokenReview(r) ==
  \E answer \in {"authenticated", "denied", "error"} :
    Answer(r, CASE answer = "authenticated" -> "accepted"
                [] answer = "denied" -> "malformed_token"
                [] answer = "error" -> "validation_failed")

fallbackToTokenReview(r, err) == IF K8sEnabled THEN TokenReview(r) ELSE Answer(r, err)

\* GetKeys begins: under RLock, are the cached keys young enough?
Lookup(r) ==
  IF cache.has /\ cache.age < refreshInterval THEN Holding(r, cache.keys) ELSE Go(r, "gate")

\* The token itself matters only once there are keys: Check chooses it.
Receive(r, parse) ==
  /\ ReqAt(r, "idle")
  /\ CASE parse = "malformed" -> fallbackToTokenReview(r, "malformed_token")
       [] parse = "unreadable" -> Answer(r, "malformed_token")
       [] parse = "unknown" -> fallbackToTokenReview(r, "unknown_issuer")
       [] parse = "known" -> Lookup(r)
  /\ UNCHANGED <<key, gone, up, life, cache, breaker, jtis, used>>

-----------------------------------------------------------------------------
(* GetKeys, when the cached keys are not young.                             *)

\* Execute asks the breaker.
Gate(r) ==
  /\ ReqAt(r, "gate")
  /\ LET b == currentState(breaker)
     IN  /\ breaker' = IF Refuses(b) THEN b ELSE beforeRequest(b, r)
         /\ Go(r, IF Refuses(b) THEN "fallback" ELSE "fetch")
  /\ UNCHANGED <<key, gone, up, life, cache, jtis, used>>

\* The endpoint answers with the keys it then has; the answer is under way.
EndpointAnswers(r) ==
  /\ ReqAt(r, "fetch")
  /\ up
  /\ req' = [req EXCEPT ![r].pc = "transit", ![r].keys = Published]
  /\ UNCHANGED <<key, gone, up, life, cache, breaker, jtis, used>>

\* fetchJWKS returns, and Execute with it.
FetchReturns(r) ==
  /\ ReqAt(r, "transit")
  /\ breaker' = afterRequest(currentState(breaker), r, TRUE)
  /\ Go(r, "store")
  /\ UNCHANGED <<key, gone, up, life, cache, jtis, used>>

\* fetchJWKS returns an error, and Execute with it.
FetchError(r) ==
  /\ ReqAt(r, "fetch") \/ ReqAt(r, "transit")
  /\ breaker' = afterRequest(currentState(breaker), r, FALSE)
  /\ req' = [req EXCEPT ![r] = [pc |-> "fallback", keys |-> {}, age |-> 0]]
  /\ UNCHANGED <<key, gone, up, life, cache, jtis, used>>

\* Timeout, connection error, an answer other than 200, or no key set.
FetchFails(r) == ~up /\ FetchError(r)

\* The fetch has the context of the request: it ends when the client goes away,
\* and the breaker counts that as a failure of the endpoint.
ClientLeaves(r) == FetchError(r)

\* Under Lock.
Store(r) ==
  /\ ReqAt(r, "store")
  /\ cache' = [has |-> TRUE, keys |-> req[r].keys, age |-> 0]
  /\ Holding(r, req[r].keys)
  /\ UNCHANGED <<key, gone, up, life, breaker, jtis, used>>

\* Mutant: cached keys are used however old they are.
FallbackUncapped(r) ==
  /\ ReqAt(r, "fallback")
  /\ breaker' = IF cache.has THEN breaker ELSE currentState(breaker)
  /\ IF cache.has THEN Holding(r, cache.keys)
     ELSE Answer(r, IF breaker'.state = "open" THEN "circuit_open" ELSE "validation_failed")
  /\ UNCHANGED <<key, gone, up, life, cache, jtis, used>>

\* The cached keys, unless they are too old.
Fallback(r) ==
  /\ ReqAt(r, "fallback")
  /\ breaker' = IF cache.has THEN breaker ELSE currentState(breaker)
  /\ \/ cache.has /\ cache.age <= maxStaleness /\ Holding(r, cache.keys)
     \/ cache.has /\ cache.age > maxStaleness /\ Answer(r, "circuit_open")
     \/ ~cache.has /\ Answer(r, IF breaker'.state = "open" THEN "circuit_open" ELSE "validation_failed")
  /\ UNCHANGED <<key, gone, up, life, cache, jtis, used>>

-----------------------------------------------------------------------------
(* Validate with the keys.                                                  *)

verifySignature(r, t) == Claims[t].key \in req[r].keys
validateExpiry(t) == life[t] >= 0
validateNotBefore(t) == Life - life[t] >= Claims[t].nbf
validateAudience(t) == Claims[t].aud
evaluateCELRule(t) == Claims[t].rules

\* Seen and the insertion are one critical section.
Seen(t) == jtis[t] # NoEntry

\* The checks in their order, each with its error; the rules come after the
\* replay cache, which has recorded the id by then.
CheckResult(r, t) ==
  IF ~verifySignature(r, t) THEN "malformed_token"
  ELSE IF ~Claims[t].exp THEN "missing_expiry"
  ELSE IF ~validateExpiry(t) THEN "token_expired"
  ELSE IF ~validateNotBefore(t) THEN "not_yet_valid"
  ELSE IF ~validateAudience(t) THEN "invalid_audience"
  ELSE IF ReplayProtection /\ ~Claims[t].jti THEN "malformed_token"
  ELSE IF ReplayProtection /\ Seen(t) THEN "token_replayed"
  ELSE IF ~evaluateCELRule(t) THEN "cel_rule_failed"
  ELSE "accepted"

\* The checks read nothing that others write, except for the replay cache,
\* which is asked once.
Check(r, t) ==
  LET res == CheckResult(r, t)
  IN  /\ ReqAt(r, "check")
      /\ Answer(r, res)
      /\ jtis' = IF ReplayProtection /\ res \in {"accepted", "cel_rule_failed"}
                 THEN [jtis EXCEPT ![t] = ReplayTTL] ELSE jtis
      /\ used' = IF res = "accepted" THEN [used EXCEPT ![t] = @ + 1] ELSE used
      /\ UNCHANGED <<key, gone, up, life, cache, breaker>>

-----------------------------------------------------------------------------
(* Time, and what goes on beside the requests.                              *)

\* Mutant: entries are evicted at their expiry, not after it.
evictLoopEarly ==
  /\ jtis' = [t \in Tokens |-> IF jtis[t] <= 0 THEN NoEntry ELSE jtis[t]]
  /\ UNCHANGED <<key, gone, up, life, cache, breaker, req, used>>

\* The ticker of the replay cache.
evictLoop ==
  /\ jtis' = [t \in Tokens |-> IF jtis[t] = -1 THEN NoEntry ELSE jtis[t]]
  /\ UNCHANGED <<key, gone, up, life, cache, breaker, req, used>>

\* The probe of readiness reads the state of the breaker.
JWKSHealthy ==
  /\ breaker' = currentState(breaker)
  /\ UNCHANGED <<key, gone, up, life, cache, jtis, req, used>>

\* Timeout of the breaker passes (Interval is 0: a closed one has none).
BreakerExpires ==
  /\ breaker.state = "open" /\ ~breaker.due
  /\ breaker' = [breaker EXCEPT !.due = TRUE]
  /\ UNCHANGED <<key, gone, up, life, cache, jtis, req, used>>

Waiting(r) == req[r].pc \in {"idle", "fetch", "transit"}
UpTo(n, max) == IF n < max THEN n + 1 ELSE max
DownTo(n, min) == IF n > min THEN n - 1 ELSE min

\* A tick of the clock.  A fetch does not outlast its timeout.
Tick ==
  /\ \A r \in Reqs : Waiting(r) /\ (req[r].pc \in {"fetch", "transit"} => req[r].age < FetchTimeout)
  /\ gone' = [k \in Keys |-> IF key[k] = "withdrawn" THEN UpTo(gone[k], MaxGone) ELSE 0]
  /\ life' = [t \in Tokens |-> DownTo(life[t], -1)]
  /\ cache' = IF cache.has THEN [cache EXCEPT !.age = UpTo(@, MaxAge)] ELSE cache
  /\ jtis' = [t \in Tokens |-> IF jtis[t] = NoEntry THEN NoEntry ELSE DownTo(jtis[t], -1)]
  /\ req' = [r \in Reqs |-> IF req[r].pc \in {"fetch", "transit"}
                            THEN [req[r] EXCEPT !.age = @ + 1] ELSE req[r]]
  /\ UNCHANGED <<key, up, breaker, used>>

\* The issuer publishes a new key and then withdraws the first one; its
\* endpoint fails or recovers.
Publish(k) ==
  /\ key[k] = "future"
  /\ key' = [key EXCEPT ![k] = "published"]
  /\ UNCHANGED <<gone, up, life, cache, breaker, jtis, req, used>>

Withdraw(k) ==
  /\ k = FirstKey
  /\ key[k] = "published"
  /\ Published # {k}
  /\ key' = [key EXCEPT ![k] = "withdrawn"]
  /\ UNCHANGED <<gone, up, life, cache, breaker, jtis, req, used>>

Outage ==
  /\ up' = ~up
  /\ UNCHANGED <<key, gone, life, cache, breaker, jtis, req, used>>

AuthInit ==
  /\ key = [k \in Keys |-> IF k = FirstKey THEN "published" ELSE "future"]
  /\ gone = [k \in Keys |-> 0]
  /\ up \in BOOLEAN
  /\ life = [t \in Tokens |-> Life]
  /\ cache = NoKeys
  /\ breaker = Generation("closed")
  /\ jtis = [t \in Tokens |-> NoEntry]
  /\ req = [r \in Reqs |-> NoReq]
  /\ used = [t \in Tokens |-> 0]

ReqStep(r) ==
  \/ Gate(r)
  \/ EndpointAnswers(r) \/ FetchReturns(r) \/ FetchFails(r)
  \/ Store(r) \/ Fallback(r) \/ \E t \in Tokens : Check(r, t)

Arrive(r) ==
  \/ \E reason \in {"missing_header", "control_chars", "non_bearer"} : BadHeader(r, reason)
  \/ \E parse \in {"malformed", "unreadable", "unknown", "known"} : Receive(r, parse)

AuthNext ==
  \/ \E r \in Reqs : ReqStep(r) \/ ClientLeaves(r) \/ Arrive(r)
  \/ evictLoop \/ JWKSHealthy \/ BreakerExpires \/ Tick \/ Outage
  \/ \E k \in Keys : Publish(k) \/ Withdraw(k)

AuthSpec == AuthInit /\ [][AuthNext]_authVars

\* Goroutines run, the HTTP client and the API server end every request,
\* time does not stop, and the breaker's timer runs.
FairAuthSpec ==
  /\ AuthSpec
  /\ \A r \in Reqs : WF_authVars(ReqStep(r))
  /\ SF_authVars(Tick)
  /\ WF_authVars(BreakerExpires)

-----------------------------------------------------------------------------
(* Properties.                                                              *)

\* No token is checked against a key that the issuer withdrew longer ago
\* than maxStaleness and the timeout of a fetch: however outages, late
\* answers and concurrent stores of older answers follow each other.
WithdrawnKeysExpire ==
  \A r \in Reqs : ReqAt(r, "check") =>
    \A k \in req[r].keys : gone[k] <= maxStaleness + FetchTimeout

\* With replay protection a token is accepted once in its life, if the time
\* to live of the replay cache is no shorter than the life of a token.
AcceptedOnce ==
  ReplayProtection /\ ReplayTTL >= Life => \A t \in Tokens : used[t] <= 1

\* The breaker of the endpoint accounts for its one trial, so that it is
\* never half-open for good.
FetchesAccounted == Accounted(breaker, {r \in Reqs : ReqAt(r, "fetch") \/ ReqAt(r, "transit")})

\* When the endpoint stays up, clients no longer leave during a fetch, and requests
\* keep coming (but do not keep the processor busy without a break), a key that is
\* published and not withdrawn gets into the cache, and into it again and again,
\* whatever outages and clients that left before did to the breaker.
KeysRefreshed ==
  /\ <>[]up
  /\ <>[][\A r \in Reqs : ~ClientLeaves(r)]_authVars
  /\ []<>(\E r \in Reqs : ~ReqAt(r, "idle"))
  /\ []<>(\A r \in Reqs : Waiting(r))
  =>
    \A k \in Keys : []<>(key[k] # "published" \/ k \in cache.keys)
=============================================================================
