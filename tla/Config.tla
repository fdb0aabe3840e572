------------------------------- MODULE Config -------------------------------
(***************************************************************************)
(* The configuration file (internal/config/config.go): what Load and the   *)
(* validators make of its contents.  A field is named by its section and   *)
(* its key.  Strings are "" (not set), "ok" or "bad" (a URL without a      *)
(* scheme, a file that is not there, an unknown log level); durations are  *)
(* in seconds.  Fields that no validator looks at are left out.            *)
(***************************************************************************)
EXTENDS Integers

Dependencies == {"ka", "ds", "k8s"}

Texts ==
  ({"agent"} \X {"kaBaseURL", "kaMCPEndpoint", "dsBaseURL", "dsBearerTokenFile",
                 "kaTlsCaFile", "dsTlsCaFile"})
    \cup ({"auth"} \X {"issuerURL", "jwksURL"})
    \cup ({"severityTriage"} \X {"prometheusURL", "prometheusBearerTokenFile",
                                 "prometheusTlsCaFile"})
    \cup {<<"logging", "level">>, <<"session", "namespace">>}
Flags == {<<"server", "tls.required">>, <<"severityTriage", "enabled">>}
Lists == Dependencies \X {"retryableStatuses"}
Numbers ==
  (Dependencies \X {"connectTimeout", "requestTimeout", "cbFailureThreshold", "retryMax"})
    \cup ({"rateLimit"} \X {"ipRequestsPerSec", "userRequestsPerSec"})
    \cup ({"session"} \X {"disconnectTTL", "retentionTTL"})
    \cup {<<"server", "port">>, <<"shutdown", "drainSeconds">>,
          <<"severityTriage", "llmPercent">>}
Fields == Texts \cup Flags \cup Lists \cup Numbers

\* A Config before anything is decoded into it.
ZeroConfig ==
  [k \in Fields |-> CASE k \in Texts -> "" [] k \in Flags -> FALSE
                      [] k \in Lists -> {} [] OTHER -> 0]

DefaultNumber(k) ==
  CASE k = <<"server", "port">> -> 8443
    [] k = <<"rateLimit", "ipRequestsPerSec">> -> 100
    [] k = <<"rateLimit", "userRequestsPerSec">> -> 50
    [] k = <<"shutdown", "drainSeconds">> -> 15
    [] k = <<"ds", "connectTimeout">> -> 3
    [] k = <<"ds", "requestTimeout">> -> 10
    [] k = <<"ds", "cbFailureThreshold">> -> 3
    [] k = <<"ds", "retryMax">> -> 3
    [] k = <<"ka", "retryMax">> -> 2
    [] k \in {"ka", "k8s"} \X {"connectTimeout", "cbFailureThreshold"} -> 5
    [] k \in {"ka", "k8s"} \X {"requestTimeout"} -> 30
    [] OTHER -> 0

DefaultConfig ==
  [k \in Fields |->
     CASE k \in Numbers -> DefaultNumber(k)
       [] k \in {"agent"} \X {"kaBaseURL", "kaMCPEndpoint", "dsBaseURL"} -> "ok"
       [] k = <<"logging", "level">> -> "ok"
       [] k \in {"ka", "ds"} \X {"retryableStatuses"} -> {502, 503, 504}
       [] OTHER -> ZeroConfig[k]]

\* yaml.Unmarshal sets what the text sets, and leaves the other fields alone.
Decode(text, base) == [k \in Fields |-> IF k \in DOMAIN text THEN text[k] ELSE base[k]]

Load(text) == Decode(text, DefaultConfig)

-----------------------------------------------------------------------------
Optional(s) == s # "bad"

validateURL(s) == s = "ok"

validateSession(c) ==
  c[<<"session", "namespace">>] = "" =>
    c[<<"session", "disconnectTTL">>] <= 0 /\ c[<<"session", "retentionTTL">>] <= 0

validateAuth(c) ==
  IF c[<<"auth", "issuerURL">>] = ""
  THEN ~c[<<"server", "tls.required">>]
  ELSE validateURL(c[<<"auth", "issuerURL">>]) /\ Optional(c[<<"auth", "jwksURL">>])

validateLogging(c) == c[<<"logging", "level">>] = "ok"

validateRateLimit(c) ==
  c[<<"rateLimit", "ipRequestsPerSec">>] > 0 /\ c[<<"rateLimit", "userRequestsPerSec">>] > 0

validateShutdown(c) == c[<<"shutdown", "drainSeconds">>] > 0

validateDependencyConfig(c, d) ==
  LET connect == c[<<d, "connectTimeout">>]
      request == c[<<d, "requestTimeout">>]
      threshold == c[<<d, "cbFailureThreshold">>]
  IN  /\ connect >= 0 /\ request >= 0
      /\ connect > 0 /\ request > 0 => request >= connect
      /\ 0 < threshold /\ threshold <= 100
      /\ c[<<d, "retryMax">>] <= 10
      /\ \A code \in c[<<d, "retryableStatuses">>] : 400 <= code /\ code <= 599

validateResilience(c) == \A d \in Dependencies : validateDependencyConfig(c, d)

validateTLSPaths(c) ==
  /\ Optional(c[<<"agent", "kaTlsCaFile">>])
  /\ Optional(c[<<"agent", "dsTlsCaFile">>])
  /\ Optional(c[<<"severityTriage", "prometheusTlsCaFile">>])

validateSeverityTriage(c) ==
  c[<<"severityTriage", "enabled">>] =>
    /\ validateURL(c[<<"severityTriage", "prometheusURL">>])
    /\ 0 <= c[<<"severityTriage", "llmPercent">>] /\ c[<<"severityTriage", "llmPercent">>] <= 100
    /\ Optional(c[<<"severityTriage", "prometheusBearerTokenFile">>])

Validate(c) ==
  /\ 0 < c[<<"server", "port">>] /\ c[<<"server", "port">>] <= 65535
  /\ validateURL(c[<<"agent", "kaBaseURL">>])
  /\ validateURL(c[<<"agent", "kaMCPEndpoint">>])
  /\ validateURL(c[<<"agent", "dsBaseURL">>])
  /\ Optional(c[<<"agent", "dsBearerTokenFile">>])
  /\ validateAuth(c) /\ validateLogging(c) /\ validateRateLimit(c)
  /\ validateShutdown(c) /\ validateResilience(c) /\ validateTLSPaths(c)
  /\ validateSeverityTriage(c) /\ validateSession(c)
=============================================================================
