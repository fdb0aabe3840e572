---------------------------- MODULE ReloadProofs ----------------------------
(***************************************************************************)
(* Proofs about what the process reads again while it runs: the file of    *)
(* its configuration, for any set of contents, and the alerts and rules of *)
(* the severity triage, for any answers of Prometheus.                     *)
(***************************************************************************)
EXTENDS HotReload, Triage, WellFoundedInduction, TLAPS

\* First-order and set reasoning is Zenon's; a leaf with arithmetic, sequences or
\* the fields of records cites SMT.
USE ZenonT(30)

-----------------------------------------------------------------------------
(* What the watcher accepts and the start refuses.                          *)

\* A field that the text sets is the same in both; one that it does not set is
\* zero for the watcher, and has its default for the start.
LEMMA DecodedFields ==
  ASSUME NEW text, NEW k \in Fields
  PROVE  /\ k \in DOMAIN text => Decode(text, ZeroConfig)[k] = Load(text)[k]
         /\ k \notin DOMAIN text => /\ Decode(text, ZeroConfig)[k] = ZeroConfig[k]
                                    /\ Load(text)[k] = DefaultConfig[k]
  BY DEF Decode, Load

\* The fields whose default is their zero value are the same for both.
LEMMA UndefaultedFields ==
  ASSUME NEW text, NEW k \in Fields, DefaultConfig[k] = ZeroConfig[k]
  PROVE  Decode(text, ZeroConfig)[k] = Load(text)[k]
  BY DecodedFields

\* A field with a value other than zero is set by the text, and the same for both.
LEMMA SetFields ==
  ASSUME NEW text, NEW k \in Fields, Decode(text, ZeroConfig)[k] # ZeroConfig[k]
  PROVE  Decode(text, ZeroConfig)[k] = Load(text)[k]
  BY DecodedFields

\* No field is of two types.
LEMMA FieldTypes ==
  /\ Numbers \cap Texts = {} /\ Numbers \cap Flags = {} /\ Numbers \cap Lists = {}
  /\ Texts \cap Flags = {} /\ Texts \cap Lists = {} /\ Flags \cap Lists = {}
  /\ Fields = Texts \cup Flags \cup Lists \cup Numbers
<1>1. Numbers \cap Texts = {} /\ Numbers \cap Flags = {} /\ Numbers \cap Lists = {}
  BY SMT DEF Numbers, Texts, Flags, Lists, Dependencies
<1>2. Texts \cap Flags = {} /\ Texts \cap Lists = {} /\ Flags \cap Lists = {}
  BY SMT DEF Numbers, Texts, Flags, Lists, Dependencies
<1>3. QED
  BY <1>1, <1>2 DEF Fields

\* The zero values of the types.
LEMMA Zeros ==
  /\ \A k \in Numbers : ZeroConfig[k] = 0
  /\ \A k \in Texts : ZeroConfig[k] = ""
  /\ \A k \in Flags : ZeroConfig[k] = FALSE
  /\ \A k \in Lists : ZeroConfig[k] = {}
  BY FieldTypes DEF ZeroConfig

\* The timeouts, retries and statuses, for which a file may rely on the default.
Lenient == Dependencies \X {"connectTimeout", "requestTimeout", "retryMax", "retryableStatuses"}

\* The fields without which a file is refused by the watcher.
Required ==
  {<<"agent", "kaBaseURL">>, <<"agent", "kaMCPEndpoint">>, <<"agent", "dsBaseURL">>,
   <<"logging", "level">>, <<"server", "port">>, <<"shutdown", "drainSeconds">>,
   <<"rateLimit", "ipRequestsPerSec">>, <<"rateLimit", "userRequestsPerSec">>,
   <<"ka", "cbFailureThreshold">>, <<"ds", "cbFailureThreshold">>,
   <<"k8s", "cbFailureThreshold">>}

\* Every other field has the default zero.
LEMMA OtherDefaults ==
  \A k \in Fields \ (Lenient \cup Required) : DefaultConfig[k] = ZeroConfig[k]
<1> SUFFICES ASSUME NEW k \in Fields, k \notin Lenient, k \notin Required
             PROVE  DefaultConfig[k] = ZeroConfig[k]
  OBVIOUS
<1>1. /\ k \notin {"agent"} \X {"kaBaseURL", "kaMCPEndpoint", "dsBaseURL"}
      /\ k # <<"logging", "level">>
      /\ k \notin {"ka", "ds"} \X {"retryableStatuses"}
  BY SMT DEF Lenient, Required, Dependencies
<1>2. CASE k \in Numbers
  <2>1. DefaultNumber(k) = 0
    BY <1>2, SMT DEF DefaultNumber, Lenient, Required, Dependencies, Numbers
  <2>2. QED
    BY <1>1, <1>2, <2>1, Zeros DEF DefaultConfig
<1>3. CASE k \notin Numbers
  BY <1>1, <1>3 DEF DefaultConfig
<1>4. QED
  BY <1>2, <1>3

\* What Validate says of the required fields.
LEMMA RequiredFields ==
  ASSUME NEW c, Validate(c)
  PROVE  /\ c[<<"agent", "kaBaseURL">>] = "ok"
         /\ c[<<"agent", "kaMCPEndpoint">>] = "ok"
         /\ c[<<"agent", "dsBaseURL">>] = "ok"
         /\ c[<<"logging", "level">>] = "ok"
         /\ c[<<"server", "port">>] > 0
         /\ c[<<"shutdown", "drainSeconds">>] > 0
         /\ c[<<"rateLimit", "ipRequestsPerSec">>] > 0
         /\ c[<<"rateLimit", "userRequestsPerSec">>] > 0
         /\ \A d \in Dependencies : validateDependencyConfig(c, d)
  BY SMT DEF Validate, validateURL, validateLogging, validateRateLimit, validateShutdown, validateResilience

\* The watcher accepts no file that does not set the required fields.
LEMMA RequiredAreSet ==
  ASSUME NEW text, Validate(Decode(text, ZeroConfig)), NEW k \in Required
  PROVE  k \in Fields /\ Decode(text, ZeroConfig)[k] # ZeroConfig[k]
<1> DEFINE a == Decode(text, ZeroConfig)
           RequiredTexts == {<<"agent", "kaBaseURL">>, <<"agent", "kaMCPEndpoint">>,
                             <<"agent", "dsBaseURL">>, <<"logging", "level">>}
<1> HIDE DEF a
<1>0. Validate(a)
  BY DEF a
<1>1. CASE k \in RequiredTexts
  <2>1. k \in Texts
    BY <1>1, SMT DEF Texts
  <2>2. a[k] = "ok"
    BY <1>0, <1>1, RequiredFields
  <2>3. ZeroConfig[k] = "" /\ k \in Fields
    BY <2>1, Zeros, FieldTypes
  <2>4. QED
    BY <2>2, <2>3 DEF a
<1>2. CASE k \notin RequiredTexts
  <2>1. k \in Numbers
    BY <1>2, SMT DEF Numbers, Required, Dependencies
  <2>2. a[k] > 0
    BY <1>0, <1>2, RequiredFields, SMTT(30) DEF Required, Dependencies, validateDependencyConfig
  <2>3. ZeroConfig[k] = 0 /\ k \in Fields
    BY <2>1, Zeros, FieldTypes
  <2>4. QED
    BY <2>2, <2>3, SMT DEF a
<1>3. QED
  BY <1>1, <1>2

\* So the two readings of an accepted file differ in the lenient fields at most.
LEMMA SameFields ==
  ASSUME NEW text, Validate(Decode(text, ZeroConfig)), NEW k \in Fields, k \notin Lenient
  PROVE  Decode(text, ZeroConfig)[k] = Load(text)[k]
  BY OtherDefaults, RequiredAreSet, UndefaultedFields, SetFields

\* The defaults of the lenient fields of a dependency.
LenientOf(d) ==
  /\ DefaultConfig[<<d, "connectTimeout">>] \in {3, 5}
  /\ DefaultConfig[<<d, "requestTimeout">>] \in {10, 30}
  /\ DefaultConfig[<<d, "retryMax">>] \in {0, 2, 3}
  /\ DefaultConfig[<<d, "retryableStatuses">>] \in {{}, {502, 503, 504}}

\* They are what DefaultConfig gives every dependency.
LEMMA LenientDefaults ==
  ASSUME NEW d \in Dependencies
  PROVE  LenientOf(d)
<1>1. /\ {<<d, "connectTimeout">>, <<d, "requestTimeout">>, <<d, "retryMax">>} \subseteq Numbers
      /\ <<d, "retryableStatuses">> \in Lists
  BY SMT DEF Numbers, Lists
<1>2. \A k \in Numbers : k \in Fields /\ k # <<"logging", "level">>
        /\ k \notin {"agent"} \X {"kaBaseURL", "kaMCPEndpoint", "dsBaseURL"}
        /\ k \notin {"ka", "ds"} \X {"retryableStatuses"}
  BY FieldTypes, SMT DEF Texts, Lists, Dependencies
<1>3. \A k \in Numbers : DefaultConfig[k] = DefaultNumber(k)
  BY <1>2 DEF DefaultConfig
<1>4. /\ DefaultNumber(<<d, "connectTimeout">>) \in {3, 5}
      /\ DefaultNumber(<<d, "requestTimeout">>) \in {10, 30}
      /\ DefaultNumber(<<d, "retryMax">>) \in {0, 2, 3}
  BY SMT DEF DefaultNumber, Dependencies
<1>5. DefaultConfig[<<d, "retryableStatuses">>] \in {{}, {502, 503, 504}}
  <2> DEFINE k == <<d, "retryableStatuses">>
  <2>1. /\ k \in Fields /\ k \notin Numbers /\ k # <<"logging", "level">>
        /\ k \notin {"agent"} \X {"kaBaseURL", "kaMCPEndpoint", "dsBaseURL"}
    BY <1>1, FieldTypes
  <2>2. ZeroConfig[k] = {}
    BY <1>1, Zeros
  <2> HIDE DEF k
  <2>3. QED
    BY <2>1, <2>2, SMT DEF DefaultConfig, k
<1>6. QED
  BY <1>1, <1>3, <1>4, <1>5, SMT DEF LenientOf

\* The settings of one dependency, whose timeouts the file sets both or neither.
LEMMA SameDependency ==
  ASSUME NEW text, NEW d \in Dependencies, Validate(Decode(text, ZeroConfig)),
         <<d, "connectTimeout">> \in DOMAIN text <=> <<d, "requestTimeout">> \in DOMAIN text
  PROVE  validateDependencyConfig(Load(text), d)
<1>0. LenientOf(d)
  BY LenientDefaults
<1> DEFINE a == Decode(text, ZeroConfig)
           b == Load(text)
<1> HIDE DEF a, b
<1>1. validateDependencyConfig(a, d)
  BY RequiredFields DEF a
<1>2. /\ {<<d, "connectTimeout">>, <<d, "requestTimeout">>, <<d, "cbFailureThreshold">>,
          <<d, "retryMax">>} \subseteq Numbers
      /\ <<d, "retryableStatuses">> \in Lists
      /\ <<d, "cbFailureThreshold">> \notin Lenient
  BY SMT DEF Numbers, Lists, Lenient
<1>3. b[<<d, "cbFailureThreshold">>] = a[<<d, "cbFailureThreshold">>]
  BY <1>2, FieldTypes, SameFields DEF a, b
<1>d. \A k \in Numbers \cup Lists :
        /\ k \in DOMAIN text => b[k] = a[k]
        /\ k \notin DOMAIN text => b[k] = DefaultConfig[k]
  BY FieldTypes, DecodedFields DEF a, b
<1> DEFINE connect == <<d, "connectTimeout">>
           request == <<d, "requestTimeout">>
<1>4. b[connect] >= 0 /\ b[request] >= 0 /\ (b[connect] > 0 /\ b[request] > 0 => b[request] >= b[connect])
  <2>1. CASE connect \in DOMAIN text
    <3>1. b[connect] = a[connect] /\ b[request] = a[request]
      BY <1>2, <1>d, <2>1
    <3>2. QED
      BY <1>1, <3>1, SMT DEF validateDependencyConfig
  <2>2. CASE connect \notin DOMAIN text
    <3>1. b[connect] = DefaultConfig[connect] /\ b[request] = DefaultConfig[request]
      BY <1>2, <1>d, <2>2
    <3>2. QED
      BY <1>0, <3>1, SMT DEF LenientOf
  <2>3. QED
    BY <2>1, <2>2
<1>5. b[<<d, "retryMax">>] <= 10
  <2>1. b[<<d, "retryMax">>] = a[<<d, "retryMax">>] \/ b[<<d, "retryMax">>] = DefaultConfig[<<d, "retryMax">>]
    BY <1>2, <1>d
  <2>2. QED
    BY <1>0, <1>1, <2>1, SMT DEF LenientOf, validateDependencyConfig
<1>6. \A code \in b[<<d, "retryableStatuses">>] : 400 <= code /\ code <= 599
  <2>1. \/ b[<<d, "retryableStatuses">>] = a[<<d, "retryableStatuses">>]
        \/ b[<<d, "retryableStatuses">>] \in {{}, {502, 503, 504}}
    BY <1>0, <1>2, <1>d, SMT DEF LenientOf
  <2>2. QED
    BY <1>1, <2>1, SMT DEF validateDependencyConfig
<1>7. QED
  BY <1>1, <1>3, <1>4, <1>5, <1>6, SMT DEF validateDependencyConfig, b

\* A file that the watcher accepts starts a process, when it does not mix its own
\* timeouts of a dependency with default ones.
LEMMA AcceptedStarts ==
  ASSUME NEW text, TimeoutsPaired(text), Validate(Decode(text, ZeroConfig))
  PROVE  Validate(Load(text))
<1> DEFINE a == Decode(text, ZeroConfig)
           b == Load(text)
           U == Fields \ Lenient
<1> HIDE DEF a, b
<1>1. \A k \in U : b[k] = a[k]
  BY SameFields DEF a, b
<1>2. /\ Texts \subseteq U /\ Flags \subseteq U
      /\ {<<"server", "port">>, <<"shutdown", "drainSeconds">>, <<"rateLimit", "ipRequestsPerSec">>,
          <<"rateLimit", "userRequestsPerSec">>, <<"session", "disconnectTTL">>,
          <<"session", "retentionTTL">>, <<"severityTriage", "llmPercent">>} \subseteq U
  BY SMT DEF Fields, Texts, Flags, Numbers, Lenient, Dependencies
<1>3. validateResilience(b)
  BY SameDependency DEF validateResilience, TimeoutsPaired, b
<1>4. Validate(a)
  BY DEF a
<1>5. /\ {<<"agent", "kaBaseURL">>, <<"agent", "kaMCPEndpoint">>, <<"agent", "dsBaseURL">>,
          <<"agent", "dsBearerTokenFile">>, <<"agent", "kaTlsCaFile">>, <<"agent", "dsTlsCaFile">>,
          <<"severityTriage", "prometheusURL">>, <<"severityTriage", "prometheusBearerTokenFile">>,
          <<"severityTriage", "prometheusTlsCaFile">>, <<"auth", "issuerURL">>, <<"auth", "jwksURL">>,
          <<"logging", "level">>, <<"session", "namespace">>} \subseteq Texts
      /\ {<<"server", "tls.required">>, <<"severityTriage", "enabled">>} \subseteq Flags
  BY SMT DEF Texts, Flags
<1>6. /\ validateAuth(b) /\ validateLogging(b) /\ validateTLSPaths(b)
      /\ validateURL(b[<<"agent", "kaBaseURL">>])
      /\ validateURL(b[<<"agent", "kaMCPEndpoint">>])
      /\ validateURL(b[<<"agent", "dsBaseURL">>])
      /\ Optional(b[<<"agent", "dsBearerTokenFile">>])
  <2>1. /\ b[<<"agent", "kaBaseURL">>] = a[<<"agent", "kaBaseURL">>]
        /\ b[<<"agent", "kaMCPEndpoint">>] = a[<<"agent", "kaMCPEndpoint">>]
        /\ b[<<"agent", "dsBaseURL">>] = a[<<"agent", "dsBaseURL">>]
        /\ b[<<"agent", "dsBearerTokenFile">>] = a[<<"agent", "dsBearerTokenFile">>]
        /\ b[<<"agent", "kaTlsCaFile">>] = a[<<"agent", "kaTlsCaFile">>]
        /\ b[<<"agent", "dsTlsCaFile">>] = a[<<"agent", "dsTlsCaFile">>]
        /\ b[<<"auth", "issuerURL">>] = a[<<"auth", "issuerURL">>]
        /\ b[<<"auth", "jwksURL">>] = a[<<"auth", "jwksURL">>]
        /\ b[<<"logging", "level">>] = a[<<"logging", "level">>]
        /\ b[<<"server", "tls.required">>] = a[<<"server", "tls.required">>]
        /\ b[<<"severityTriage", "prometheusTlsCaFile">>] = a[<<"severityTriage", "prometheusTlsCaFile">>]
    BY <1>1, <1>2, <1>5
  <2>2. /\ validateAuth(a) /\ validateLogging(a) /\ validateTLSPaths(a)
        /\ validateURL(a[<<"agent", "kaBaseURL">>])
        /\ validateURL(a[<<"agent", "kaMCPEndpoint">>])
        /\ validateURL(a[<<"agent", "dsBaseURL">>])
        /\ Optional(a[<<"agent", "dsBearerTokenFile">>])
    BY <1>4, SMT DEF Validate
  <2>3. validateAuth(b)
    BY <2>1, <2>2 DEF validateAuth
  <2>4. validateLogging(b) /\ validateTLSPaths(b)
    BY <2>1, <2>2 DEF validateLogging, validateTLSPaths
  <2>5. QED
    BY <2>1, <2>2, <2>3, <2>4
<1>7. /\ 0 < b[<<"server", "port">>] /\ b[<<"server", "port">>] <= 65535
      /\ validateRateLimit(b) /\ validateShutdown(b)
  BY <1>1, <1>2, <1>4, SMT DEF Validate, validateRateLimit, validateShutdown
<1>8. validateSession(b) /\ validateSeverityTriage(b)
  <2>1. /\ b[<<"session", "namespace">>] = a[<<"session", "namespace">>]
        /\ b[<<"session", "disconnectTTL">>] = a[<<"session", "disconnectTTL">>]
        /\ b[<<"session", "retentionTTL">>] = a[<<"session", "retentionTTL">>]
        /\ b[<<"severityTriage", "enabled">>] = a[<<"severityTriage", "enabled">>]
        /\ b[<<"severityTriage", "prometheusURL">>] = a[<<"severityTriage", "prometheusURL">>]
        /\ b[<<"severityTriage", "llmPercent">>] = a[<<"severityTriage", "llmPercent">>]
        /\ b[<<"severityTriage", "prometheusBearerTokenFile">>] = a[<<"severityTriage", "prometheusBearerTokenFile">>]
    BY <1>1, <1>2, <1>5
  <2>2. validateSession(a) /\ validateSeverityTriage(a)
    BY <1>4, SMT DEF Validate
  <2>3. validateSession(b)
    BY <2>1, <2>2 DEF validateSession
  <2>4. validateSeverityTriage(b)
    BY <2>1, <2>2 DEF validateSeverityTriage
  <2>5. QED
    BY <2>3, <2>4
<1>9. QED
  BY <1>3, <1>6, <1>7, <1>8, SMT DEF Validate, b
-----------------------------------------------------------------------------
(* The watcher.                                                             *)

\* The types of all variables.
Typed ==
  /\ file \in Files /\ last \in Files \cup {None} /\ judged \in Files \cup {None}
  /\ main \in {"starting", "loaded", "adding", "watching", "unwatched", "stopping", "exited", "refused"}
  /\ loop \in {"off", "run", "done"}
  /\ audit \in [type : {"none", "reloaded", "rejected"}, content : Files \cup {None}]
  /\ event \in BOOLEAN /\ timer \in BOOLEAN /\ missed \in BOOLEAN

\* The inductive invariant.  The content held for current was accepted, so that a
\* file with the same hash needs no second judgement; between loadInitial and Add it
\* is the content of the file, or the change is missed.
HotInv ==
  /\ Typed
  /\ main = "watching" => loop # "off"
  /\ loop = "run" => main \in {"watching", "stopping"}
  /\ last # None => last \in Accepted /\ readFileLimited(last)
  /\ main = "adding" /\ ~missed => last = file
  /\ loop = "run" /\ ~event /\ ~timer /\ ~missed => Told(file)

\* It holds at the start.
LEMMA InitHotInv == HotInit => HotInv
<1> SUFFICES ASSUME HotInit PROVE HotInv
  OBVIOUS
<1>1. Typed
  BY DEF HotInit, Typed, NoEvent
<1>2. QED
  BY <1>1 DEF HotInit, HotInv

\* Steps of run() up to the watch on the directory.
LEMMA StartHotInv == HotInv /\ (loadConfig \/ loadInitial \/ AddWatch \/ AddFails) => HotInv'
<1> SUFFICES ASSUME HotInv, loadConfig \/ loadInitial \/ AddWatch \/ AddFails PROVE HotInv'
  OBVIOUS
<1> USE HotAssumption DEF HotInv, Typed
<1>1. CASE loadConfig
  BY <1>1 DEF loadConfig, Told
<1>2. CASE loadInitial
  BY <1>2 DEF loadInitial, Told, Accepted
<1>3. CASE AddWatch
  BY <1>3 DEF AddWatch, Told
<1>4. CASE AddFails
  BY <1>4 DEF AddFails, Told
<1>5. QED
  BY <1>1, <1>2, <1>3, <1>4

\* Steps of the loop.
LEMMA LoopHotInv == HotInv /\ (ReceiveEvent \/ Debounce \/ LoopExit \/ Overflow) => HotInv'
<1> SUFFICES ASSUME HotInv, ReceiveEvent \/ Debounce \/ LoopExit \/ Overflow PROVE HotInv'
  OBVIOUS
<1> USE HotAssumption DEF HotInv, Typed
<1>1. CASE ReceiveEvent
  BY <1>1 DEF ReceiveEvent, Told
<1>2. CASE Debounce
  <2>1. PICK read \in BOOLEAN : handleFileChange(read) /\ missed' = ~read
    BY <1>2 DEF Debounce
  <2>2. Typed'
    <3>1. audit' \in [type : {"none", "reloaded", "rejected"}, content : Files \cup {None}]
      <4>1. \/ audit' = audit
            \/ audit' = [type |-> "reloaded", content |-> file]
            \/ audit' = [type |-> "rejected", content |-> file]
        BY <2>1, Zenon DEF handleFileChange
      <4>2. QED
        BY <4>1, SMT
    <3>2. last' \in Files \cup {None} /\ judged' \in Files \cup {None}
      BY <2>1, Zenon DEF handleFileChange
    <3>3. missed' \in BOOLEAN
      BY <2>1
    <3>4. QED
      BY <1>2, <3>1, <3>2, <3>3 DEF Debounce
  <2>3. last' # None => last' \in Accepted /\ readFileLimited(last')
    BY <2>1 DEF handleFileChange
  <2>4. ASSUME ~missed' PROVE Told(file)'
    <3>1. handleFileChange(TRUE) /\ file' = file
      BY <1>2, <2>1, <2>4, Zenon DEF Debounce
    <3>2. QED
      BY <2>3, <3>1 DEF handleFileChange, Told
  <2>5. QED
    BY <1>2, <2>2, <2>3, <2>4 DEF Debounce
<1>3. CASE LoopExit
  BY <1>3 DEF LoopExit, Told
<1>4. CASE Overflow
  BY <1>4 DEF Overflow, Told
<1>5. QED
  BY <1>1, <1>2, <1>3, <1>4

\* Steps of the end of the process and of those who write the file.
LEMMA OtherHotInv ==
  HotInv /\ (Signal \/ Return \/ Stop \/ Restart \/ \E f \in Files : Write(f)) => HotInv'
<1> SUFFICES ASSUME HotInv, Signal \/ Return \/ Stop \/ Restart \/ \E f \in Files : Write(f)
             PROVE  HotInv'
  OBVIOUS
<1> USE HotAssumption DEF HotInv, Typed
<1>1. CASE Signal
  BY <1>1, SMT DEF Signal, Told
<1>2. CASE Return
  BY <1>2, SMT DEF Return, Told
<1>3. CASE Stop
  BY <1>3 DEF Stop, Told
<1>4. CASE Restart
  BY <1>4 DEF Restart, NoEvent
<1>5. CASE \E f \in Files : Write(f)
  BY <1>5 DEF Write, Told
<1>6. QED
  BY <1>1, <1>2, <1>3, <1>4, <1>5

\* HotInv is an invariant of the watcher.
THEOREM HotInvariant == HotSpec => []HotInv
<1>1. HotInv /\ [HotNext]_hotVars => HotInv'
  <2>1. HotInv /\ HotNext => HotInv'
    BY StartHotInv, LoopHotInv, OtherHotInv DEF HotNext
  <2>2. HotInv /\ UNCHANGED hotVars => HotInv'
    BY SMT DEF HotInv, Typed, Told, hotVars
  <2>3. QED
    BY <2>1, <2>2
<1>2. QED
  BY InitHotInv, <1>1, PTL DEF HotSpec

\* The watcher is type correct, and its loop runs once it has been started.
THEOREM HotTypeCorrect == HotSpec => []HotTypeOK
<1>1. HotInv => HotTypeOK
  BY DEF HotInv, Typed, HotTypeOK
<1>2. QED
  BY <1>1, HotInvariant, PTL

\* For any contents, written at any moments: when no event is on its way and none
\* was lost, the watcher has told what it makes of the file as it is.
THEOREM RestingWatcherHasTold == HotSpec => []RestIsTold
<1>1. HotInv => RestIsTold
  BY DEF HotInv, RestIsTold, Watching
<1>2. QED
  BY <1>1, HotInvariant, PTL

\* For any contents, whatever they set: from the content that the watcher holds for
\* current a process can be started again, when that content does not mix its own
\* timeouts of a dependency with default ones.
THEOREM CurrentContentStarts == HotSpec => []CurrentStarts
<1>1. HotInv => CurrentStarts
  <2> SUFFICES ASSUME HotInv, last # None, TimeoutsPaired(Content[last].text)
               PROVE  last \in Startable
    BY DEF CurrentStarts
  <2>1. last \in Files /\ Content[last].readable /\ Content[last].parses
        /\ Validate(Decode(Content[last].text, ZeroConfig))
    BY DEF HotInv, Accepted, callback, readFileLimited
  <2>2. Validate(Load(Content[last].text))
    BY <2>1, AcceptedStarts
  <2>3. QED
    BY <2>1, <2>2 DEF Startable, Starts
<1>2. QED
  BY <1>1, HotInvariant, PTL

-----------------------------------------------------------------------------
(* The loops of tiers 1 and 1.5.                                            *)

\* A set of naturals that is not empty has a least element.
LEMMA Least ==
  ASSUME NEW S, S \subseteq Nat, S # {}
  PROVE  \E x \in S : \A y \in S : x <= y
<1>1. PICK x \in S : \A y \in S : <<y, x>> \notin OpToRel(<, Nat)
  BY NatLessThanWellFounded, WFMin
<1>2. ASSUME NEW y \in S PROVE x <= y
  <2>1. x \in Nat /\ y \in Nat /\ <<y, x>> \in Nat \X Nat
    OBVIOUS
  <2>2. ~(y < x)
    BY <1>1, <2>1, Zenon DEF OpToRel
  <2> QED BY <2>1, <2>2, SMT
<1> QED BY <1>2

\* The first n turns of the loop, as a function.
Turn(f, items, these, i) ==
  IF i = 0 THEN NoSeverity
  ELSE IF i \in these THEN Better(f[i - 1], items[i].severity)
  ELSE f[i - 1]
Turns(f, items, these, n) == f = [i \in 0..n |-> Turn(f, items, these, i)]

\* The loop can be run for any number of turns.
LEMMA TurnsExist ==
  ASSUME NEW items, NEW these, NEW n \in Nat
  PROVE  \E f : Turns(f, items, these, n)
<1> DEFINE Bad == {k \in Nat : ~\E f : Turns(f, items, these, k)}
<1> SUFFICES ASSUME Bad # {} PROVE FALSE
  OBVIOUS
<1>0. Bad \subseteq Nat
  OBVIOUS
<1>1. PICK k \in Bad : \A j \in Bad : k <= j
  BY <1>0, Least
<1>2. CASE k = 0
  <2> DEFINE g == [i \in 0..0 |-> NoSeverity]
  <2>1. g = [i \in 0..0 |-> Turn(g, items, these, i)]
    BY SMT DEF Turn
  <2> HIDE DEF g
  <2> QED BY <1>2, <2>1 DEF Turns
<1>3. CASE k # 0
  <2>1. k \in Nat /\ k - 1 \in Nat /\ k - 1 \notin Bad
    BY <1>1, <1>3, SMT
  <2>2. PICK f : Turns(f, items, these, k - 1)
    BY <2>1
  <2> DEFINE g == [i \in 0..k |-> IF i = k THEN Turn(f, items, these, k) ELSE f[i]]
  <2>3. \A i \in 0..k - 1 : g[i] = f[i]
    BY <2>1, SMT
  <2>4. \A i \in 0..k - 1 : f[i] = Turn(f, items, these, i)
    BY <2>2 DEF Turns
  <2>5. \A i \in 0..k : Turn(g, items, these, i) = Turn(f, items, these, i)
    <3> SUFFICES ASSUME NEW i \in 0..k PROVE Turn(g, items, these, i) = Turn(f, items, these, i)
      OBVIOUS
    <3>1. i # 0 => i - 1 \in 0..k - 1
      BY <2>1, SMT
    <3>2. i # 0 => g[i - 1] = f[i - 1]
      BY <2>3, <3>1
    <3> HIDE DEF g
    <3> QED BY <3>2 DEF Turn
  <2>6. \A i \in 0..k : g[i] = Turn(g, items, these, i)
    BY <2>1, <2>4, <2>5, SMT
  <2>7. g = [i \in 0..k |-> g[i]]
    OBVIOUS
  <2> HIDE DEF g
  <2>8. Turns(g, items, these, k)
    BY <2>6, <2>7 DEF Turns
  <2> QED BY <2>8
<1> QED BY <1>2, <1>3

\* What Best returns is where such a run of the loop ends.
LEMMA BestTurns ==
  ASSUME NEW items, NEW these, Len(items) \in Nat
  PROVE  \E f : Turns(f, items, these, Len(items)) /\ Best(items, these) = f[Len(items)]
<1> DEFINE n == Len(items)
           best == CHOOSE f : f = [i \in 0..n |-> Turn(f, items, these, i)]
<1>1. Best(items, these) = best[n]
  BY DEF Best, Turn
<1>2. \E f : f = [i \in 0..n |-> Turn(f, items, these, i)]
  BY TurnsExist, SMT DEF Turns
<1>3. best = [i \in 0..n |-> Turn(best, items, these, i)]
  BY <1>2
<1> HIDE DEF best
<1>4. Turns(best, items, these, n)
  BY <1>3 DEF Turns
<1> QED BY <1>1, <1>4

\* severityRank is a number, and a label that is not there ranks lowest.
LEMMA Ranks == /\ \A s : severityRank(s) \in 0..5
               /\ severityRank(NoSeverity) = 0
BY SMT DEF severityRank, NoSeverity

\* For any list and any choice of items: the loop ends without a severity when
\* no chosen item has one, and otherwise with one that some chosen item has and
\* that no chosen item exceeds.
LEMMA BestIsHighest ==
  ASSUME NEW items, Len(items) \in Nat, DOMAIN items = 1..Len(items), NEW these, these \subseteq DOMAIN items
  PROVE  /\ Best(items, these) = NoSeverity => Severities(items, these) \subseteq {NoSeverity}
         /\ Best(items, these) # NoSeverity => MostSevere(Best(items, these), Severities(items, these))
<1> DEFINE n == Len(items)
           sev(i) == items[i].severity
<1>0. PICK f : Turns(f, items, these, n) /\ Best(items, these) = f[n]
  BY BestTurns
<1> DEFINE Good(i) == /\ f[i] = NoSeverity => \A j \in these : j <= i => sev(j) = NoSeverity
                      /\ f[i] # NoSeverity => /\ \E j \in these : sev(j) = f[i]
                                              /\ \A j \in these : j <= i => severityRank(sev(j)) <= severityRank(f[i])
           Bad == {i \in 0..n : ~Good(i)}
<1>1. \A i \in 0..n : f[i] = Turn(f, items, these, i)
  BY <1>0 DEF Turns
<1>2. Bad = {}
  <2> SUFFICES ASSUME Bad # {} PROVE FALSE
    OBVIOUS
  <2>0. Bad \subseteq Nat
    BY SMT
  <2>1. PICK i \in Bad : \A j \in Bad : i <= j
    BY <2>0, Least
  <2>2. i \in 0..n /\ ~Good(i)
    OBVIOUS
  <2>3. i # 0
    <3>1. 0 \in 0..n /\ f[0] = NoSeverity
      BY <1>1, SMT DEF Turn
    <3>2. Good(0)
      BY <3>1, SMT
    <3> QED BY <2>2, <3>2
  <2>4. i - 1 \in 0..n /\ i - 1 \notin Bad
    BY <2>1, <2>2, <2>3, SMT
  <2>5. Good(i - 1)
    BY <2>4
  <2>6. \A j \in these : j \in Nat /\ (j <= i <=> (j <= i - 1 \/ j = i))
    BY <2>2, SMT
  <2>7. f[i] = IF i \in these THEN Better(f[i - 1], sev(i)) ELSE f[i - 1]
    BY <1>1, <2>2, <2>3 DEF Turn
  <2>8. CASE i \notin these
    <3>1. f[i] = f[i - 1] /\ \A j \in these : j <= i <=> j <= i - 1
      BY <2>6, <2>7, <2>8
    <3> QED BY <2>2, <2>5, <3>1
  <2>9. CASE i \in these
    <3>1. f[i] = IF f[i - 1] = NoSeverity \/ severityRank(sev(i)) - severityRank(f[i - 1]) > 0 THEN sev(i) ELSE f[i - 1]
      BY <2>7, <2>9 DEF Better, CompareSeverity
    <3> HIDE DEF sev
    <3>2. CASE f[i - 1] = NoSeverity
      <4>1. f[i] = sev(i) /\ \A j \in these : j <= i - 1 => sev(j) = NoSeverity
        BY <2>5, <3>1, <3>2
      <4> QED BY <2>2, <2>6, <2>9, <4>1, Ranks, SMT
    <3>3. CASE f[i - 1] # NoSeverity
      <4>1. /\ \E j \in these : sev(j) = f[i - 1]
            /\ \A j \in these : j <= i - 1 => severityRank(sev(j)) <= severityRank(f[i - 1])
        BY <2>5, <3>3
      <4>2. f[i] # NoSeverity
        BY <3>1, <3>3, Ranks, SMT
      <4> QED BY <2>2, <2>6, <2>9, <3>1, <3>3, <4>1, <4>2, Ranks, SMTT(30)
    <3> QED BY <3>2, <3>3
  <2> QED BY <2>8, <2>9
<1>3. Good(n)
  <2>1. n \in 0..n
    BY SMT
  <2> QED BY <1>2, <2>1
<1>4. \A j \in these : j <= n
  BY SMT
<1> HIDE DEF n
<1> QED BY <1>0, <1>3, <1>4, Ranks, SMT DEF Severities, MostSevere, CompareSeverity

-----------------------------------------------------------------------------
(* The triage pipeline.                                                     *)

OrEmpty(answers) == answers \cup {<<>>}

\* The severities that can come up.
Listed == UNION {Severities(a, DOMAIN a) : a \in AlertAnswers \cup RuleAnswers}
Labels == Listed \cup {"critical", "high", "medium", "low", "info", NoSeverity}

RunRecords ==
  [pc : {"idle", "alerts", "rules", "fetch", "fetched", "tier2", "tier25", "tier3", "done"},
   alerts : OrEmpty(AlertAnswers), rules : OrEmpty(RuleAnswers), next : Nat \ {0}, matched : Nat,
   queries : Nat, age : Nat, waited : 0..Patience, severity : Labels,
   source : {"none", "firing_alert", "pending_alert", "rule_evaluation", "llm_rule_informed", "llm_triage"}]

Pending(rules) == Severities(rules, Matching(rules, "pending"))
Inactive(rules) == Severities(rules, Matching(rules, "inactive"))

\* What HighestWins says of a run that is done.
Decided(q) ==
  /\ q.source = "firing_alert" => MostSevere(q.severity, Severities(q.alerts, Firing(q.alerts)))
  /\ q.source = "pending_alert" => MostSevere(q.severity, Pending(q.rules))
  /\ q.source \notin {"firing_alert", "pending_alert"} => Pending(q.rules) \subseteq {NoSeverity}
  /\ q.source = "llm_rule_informed" => Inactive(q.rules) # {}
  /\ q.source = "rule_evaluation" => q.severity \in Inactive(q.rules)

\* Before tier 2.
Early == {"idle", "alerts", "rules", "fetch", "fetched"}

\* A run that has passed tier 1.5 has no pending rule with a severity; rules that
\* tier 2 has counted are there; an answer on its way is no older than the
\* request.
RunOK(q) ==
  /\ q \in RunRecords
  /\ q.pc \in Early => q.matched = 0
  /\ q.age <= TTL + Patience
  /\ q.pc = "fetched" => q.age <= q.waited
  /\ q.pc \in {"tier2", "tier25", "tier3"} => Pending(q.rules) \subseteq {NoSeverity}
  /\ q.pc \in {"tier2", "tier25"} /\ q.matched > 0 => Inactive(q.rules) # {}
  /\ q.pc = "tier25" => q.matched > 0
  /\ q.pc = "done" => Decided(q)

\* The content of a cache that has not expired is as old as the cache at most,
\* and as the request that fetched it.
CacheOK ==
  /\ cache \in [rules : OrEmpty(RuleAnswers), left : -1..TTL, age : Nat]
  /\ cache.left >= 0 => cache.age + cache.left <= TTL + Patience

TriageInv ==
  /\ CacheOK
  /\ run \in [Runs -> RunRecords]
  /\ \A r \in Runs : RunOK(run[r])

\* A list of alerts or rules is a sequence, and its severities are labels.
LEMMA AnswerLists ==
  /\ \A a \in OrEmpty(AlertAnswers) \cup OrEmpty(RuleAnswers) :
       Len(a) \in Nat /\ DOMAIN a = 1..Len(a) /\ \A i \in DOMAIN a : a[i].severity \in Labels
  /\ Severities(<<>>, Matching(<<>>, "pending")) = {}
<1>1. ASSUME NEW a \in AlertAnswers \cup RuleAnswers
      PROVE  Len(a) \in Nat /\ DOMAIN a = 1..Len(a) /\ \A i \in DOMAIN a : a[i].severity \in Labels
  <2> DEFINE S == {a[i] : i \in DOMAIN a}
  <2>1. a \in Seq(S)
    BY TriageAssumption
  <2> HIDE DEF S
  <2>2. Len(a) \in Nat /\ DOMAIN a = 1..Len(a)
    BY <2>1, SMT
  <2>3. Severities(a, DOMAIN a) \subseteq Listed
    BY Zenon DEF Listed
  <2>4. \A i \in DOMAIN a : a[i].severity \in Labels
    BY <2>3 DEF Labels, Severities
  <2> QED BY <2>2, <2>4
<1>2. Len(<<>>) \in Nat /\ DOMAIN <<>> = 1..Len(<<>>) /\ DOMAIN <<>> = {}
  BY SMT
<1>3. Severities(<<>>, Matching(<<>>, "pending")) = {}
  BY <1>2 DEF Severities, Matching
<1> QED BY <1>1, <1>2, <1>3 DEF OrEmpty

\* What Best returns for an answer is one of the labels.
LEMMA BestLabel ==
  ASSUME NEW a \in OrEmpty(AlertAnswers) \cup OrEmpty(RuleAnswers), NEW these, these \subseteq DOMAIN a
  PROVE  /\ Best(a, these) \in Labels
         /\ Best(a, these) = NoSeverity => Severities(a, these) \subseteq {NoSeverity}
         /\ Best(a, these) # NoSeverity => MostSevere(Best(a, these), Severities(a, these))
<1>1. Len(a) \in Nat /\ DOMAIN a = 1..Len(a) /\ \A i \in DOMAIN a : a[i].severity \in Labels
  BY AnswerLists
<1>2. /\ Best(a, these) = NoSeverity => Severities(a, these) \subseteq {NoSeverity}
      /\ Best(a, these) # NoSeverity => MostSevere(Best(a, these), Severities(a, these))
  BY <1>1, BestIsHighest
<1>3. Best(a, these) # NoSeverity => Best(a, these) \in Labels
  BY <1>1, <1>2 DEF MostSevere, Severities
<1>4. NoSeverity \in Labels
  BY DEF Labels
<1> QED BY <1>2, <1>3, <1>4

\* A run becomes one that is as it should be.
LEMMA RunKept ==
  ASSUME TriageInv, CacheOK', NEW r \in Runs, NEW q, RunOK(q), Become(r, q)
  PROVE  TriageInv'
<1>1. q \in RunRecords
  BY DEF RunOK
<1>2. run' \in [Runs -> RunRecords] /\ \A p \in Runs : run'[p] = IF p = r THEN q ELSE run[p]
  BY <1>1 DEF TriageInv, Become
<1> QED BY <1>2 DEF TriageInv

\* NoRun is as it should be.
LEMMA NoRunOK == RunOK(NoRun)
<1>1. NoRun \in RunRecords
  BY TriageAssumption, SMT DEF NoRun, RunRecords, OrEmpty, Labels
<1> QED BY <1>1, TriageAssumption, SMT DEF RunOK, NoRun, Early

\* A run that goes to another place, and one that is done.
LEMMA EnterOK ==
  ASSUME NEW q, RunOK(q), q.pc # "done",
         NEW pc \in {"alerts", "rules", "fetch", "tier25", "tier3"},
         pc \in {"alerts", "rules", "fetch"} => q.pc \in Early,
         pc = "tier3" => q.pc \in {"tier2", "tier25"},
         pc = "tier25" => q.pc = "tier2" /\ q.matched > 0
  PROVE  RunOK([q EXCEPT !.pc = pc])
<1> DEFINE p == [q EXCEPT !.pc = pc]
<1>1. q \in RunRecords
  BY DEF RunOK
<1>2. p \in RunRecords /\ p.pc = pc /\ p.age = q.age /\ p.rules = q.rules /\ p.matched = q.matched
  BY <1>1 DEF RunRecords
<1> HIDE DEF p
<1>3. RunOK(p)
  BY <1>2 DEF RunOK, Early
<1> QED BY <1>3 DEF p

\* A run that a later tier decides.
LEMMA FinishOK ==
  ASSUME NEW q, RunOK(q), q.pc \in {"tier2", "tier25", "tier3"}, NEW severity \in Labels,
         NEW source \in {"rule_evaluation", "llm_rule_informed", "llm_triage"},
         source = "llm_rule_informed" => q.pc = "tier25",
         source = "rule_evaluation" => severity \in Inactive(q.rules)
  PROVE  RunOK([q EXCEPT !.pc = "done", !.severity = severity, !.source = source])
<1> DEFINE p == [q EXCEPT !.pc = "done", !.severity = severity, !.source = source]
<1>1. q \in RunRecords
  BY DEF RunOK
<1>2. p \in RunRecords /\ p.pc = "done" /\ p.age = q.age /\ p.rules = q.rules /\ p.severity = severity /\ p.source = source
  BY <1>1 DEF RunRecords
<1> HIDE DEF p
<1>3. RunOK(p)
  BY <1>2 DEF RunOK, Decided, Early
<1> QED BY <1>3 DEF p

\* Beginning, the context that ends, and tier 1.
LEMMA Tier1Keeps ==
  ASSUME TriageInv, NEW r \in Runs, Begin(r) \/ Cancel(r) \/ runTier1(r) \/ AlertsFail(r)
  PROVE  TriageInv'
<1> DEFINE q == run[r]
<1>0. /\ RunOK(q) /\ q \in RunRecords /\ CacheOK'
  BY DEF TriageInv, CacheOK, Begin, Cancel, runTier1, AlertsFail
<1>1. CASE Begin(r)
  <2>1. Become(r, [q EXCEPT !.pc = "alerts"]) /\ q.pc # "done" /\ q.pc \in Early
    BY <1>1 DEF Begin, Enter, At, Early
  <2> HIDE DEF q
  <2> QED BY <1>0, <2>1, EnterOK, RunKept
<1>2. CASE Cancel(r)
  <2> DEFINE p == [q EXCEPT !.waited = Patience]
  <2>1. Become(r, p) /\ q.pc # "done"
    BY <1>2 DEF Cancel
  <2> HIDE DEF q
  <2>2. /\ p \in RunRecords /\ p.waited = Patience /\ p.pc = q.pc /\ p.rules = q.rules
        /\ p.age = q.age /\ p.matched = q.matched
    BY <1>0, TriageAssumption, SMTT(30) DEF RunRecords
  <2> HIDE DEF p
  <2>3. q.age \in Nat /\ q.waited \in 0..Patience
    BY <1>0 DEF RunRecords
  <2>4. RunOK(p)
    BY <1>0, <2>1, <2>2, <2>3, TriageAssumption, SMT DEF RunOK
  <2> QED BY <1>0, <2>1, <2>4, RunKept
<1>3. CASE runTier1(r)
  <2>1. PICK a \in AlertAnswers :
          IF Best(a, Firing(a)) # NoSeverity
          THEN Become(r, [q EXCEPT !.pc = "done", !.alerts = a, !.severity = Best(a, Firing(a)),
                                   !.source = "firing_alert"])
          ELSE Become(r, [q EXCEPT !.pc = "rules"])
    BY <1>3 DEF runTier1, Enter
  <2>2. q.pc = "alerts" /\ q.pc \in Early
    BY <1>3 DEF runTier1, At, Early
  <2> HIDE DEF q
  <2> DEFINE best == Best(a, Firing(a))
             p == [q EXCEPT !.pc = "done", !.alerts = a, !.severity = best, !.source = "firing_alert"]
  <2>3. best \in Labels /\ (best # NoSeverity => MostSevere(best, Severities(a, Firing(a))))
    BY BestLabel DEF OrEmpty, Firing
  <2> HIDE DEF best
  <2>4. CASE best # NoSeverity
    <3>1. /\ p \in RunRecords /\ p.pc = "done" /\ p.alerts = a /\ p.severity = best
          /\ p.source = "firing_alert" /\ p.age = q.age
      BY <1>0, <2>3 DEF RunRecords, OrEmpty
    <3>2. Become(r, p)
      BY <2>1, <2>4 DEF best
    <3> HIDE DEF p
    <3>3. RunOK(p)
      BY <1>0, <2>3, <2>4, <3>1 DEF RunOK, Decided, Early
    <3> QED BY <1>0, <3>2, <3>3, RunKept
  <2>5. CASE best = NoSeverity
    BY <1>0, <2>1, <2>2, <2>5, EnterOK, RunKept DEF best
  <2> QED BY <2>4, <2>5
<1>4. CASE AlertsFail(r)
  <2>1. q.pc = "alerts" /\ q.pc \in Early /\ (Become(r, NoRun) \/ Become(r, [q EXCEPT !.pc = "rules"]))
    BY <1>4 DEF AlertsFail, At, Fail, Enter, Early
  <2> HIDE DEF q
  <2> QED BY <1>0, <2>1, NoRunOK, EnterOK, RunKept
<1> QED BY <1>1, <1>2, <1>3, <1>4

\* Tier 1.5 is given rules that are young enough.
LEMMA Tier15Keeps ==
  ASSUME TriageInv, CacheOK', NEW r \in Runs, NEW rules \in OrEmpty(RuleAnswers),
         NEW age \in Nat, age <= TTL + Patience, run[r].pc \in Early, runTier15(r, rules, age)
  PROVE  TriageInv'
<1> DEFINE q == run[r]
           best == Best(rules, Matching(rules, "pending"))
           p == [q EXCEPT !.pc = "done", !.rules = rules, !.age = age,
                          !.severity = best, !.source = "pending_alert"]
           w == [q EXCEPT !.pc = "tier2", !.rules = rules, !.age = age]
<1>0. RunOK(q) /\ q \in RunRecords /\ q.matched = 0
  BY DEF TriageInv, RunOK
<1>1. (best # NoSeverity /\ Become(r, p)) \/ (best = NoSeverity /\ Become(r, w))
  BY DEF runTier15
<1>2. /\ best \in Labels /\ (best # NoSeverity => MostSevere(best, Pending(rules)))
      /\ best = NoSeverity => Pending(rules) \subseteq {NoSeverity}
  BY BestLabel DEF Pending, Matching
<1> HIDE DEF q, best
<1>3. /\ p \in RunRecords /\ p.pc = "done" /\ p.rules = rules /\ p.age = age
      /\ p.severity = best /\ p.source = "pending_alert"
  BY <1>0, <1>2 DEF RunRecords
<1>4. w \in RunRecords /\ w.pc = "tier2" /\ w.rules = rules /\ w.age = age /\ w.matched = 0
  BY <1>0 DEF RunRecords
<1> HIDE DEF p, w
<1>5. best # NoSeverity => RunOK(p)
  BY <1>2, <1>3 DEF RunOK, Decided, Early
<1>6. best = NoSeverity => RunOK(w)
  BY <1>2, <1>4, SMT DEF RunOK, Early
<1> QED BY <1>1, <1>5, <1>6, RunKept

\* The rules come from the cache or from Prometheus, and are stored.
LEMMA RulesKeep ==
  ASSUME TriageInv, NEW r \in Runs, fetchRules(r) \/ RulesAnswer(r) \/ RulesFail(r) \/ RulesArrive(r)
  PROVE  TriageInv'
<1> DEFINE q == run[r]
<1>0. /\ RunOK(q) /\ q \in RunRecords /\ CacheOK
      /\ cache.rules \in OrEmpty(RuleAnswers) /\ cache.age \in Nat /\ cache.left \in -1..TTL
  BY DEF TriageInv, CacheOK
<1>1. CASE fetchRules(r)
  <2>1. CacheOK' /\ q.pc = "rules" /\ q.pc \in Early
    BY <1>0, <1>1 DEF CacheOK, fetchRules, At, Early
  <2>2. CASE Get # <<>>
    <3>1. runTier15(r, cache.rules, cache.age) /\ cache.left >= 0
      BY <1>1, <2>2 DEF fetchRules, Get
    <3>2. cache.age <= TTL + Patience
      BY <1>0, <3>1, TriageAssumption, SMT DEF CacheOK
    <3> QED BY <1>0, <2>1, <3>1, <3>2, Tier15Keeps
  <2>3. CASE Get = <<>>
    <3>1. Become(r, [q EXCEPT !.pc = "fetch"])
      BY <1>1, <2>3 DEF fetchRules, Enter
    <3> HIDE DEF q
    <3> QED BY <1>0, <2>1, <3>1, EnterOK, RunKept
  <2> QED BY <2>2, <2>3
<1>2. CASE RulesAnswer(r)
  <2>1. CacheOK' /\ q.pc = "fetch"
    BY <1>0, <1>2 DEF CacheOK, RulesAnswer, At
  <2>2. PICK rules \in RuleAnswers : Become(r, [q EXCEPT !.pc = "fetched", !.rules = rules, !.age = 0])
    BY <1>2 DEF RulesAnswer
  <2> DEFINE p == [q EXCEPT !.pc = "fetched", !.rules = rules, !.age = 0]
  <2> HIDE DEF q
  <2>3. /\ p \in RunRecords /\ p.pc = "fetched" /\ p.rules = rules /\ p.age = 0
        /\ p.matched = q.matched /\ p.waited \in 0..Patience
    BY <1>0 DEF RunRecords, OrEmpty
  <2> HIDE DEF p
  <2>4. RunOK(p)
    BY <1>0, <2>1, <2>3, TriageAssumption, SMT DEF RunOK, Early
  <2> QED BY <2>1, <2>2, <2>4, RunKept DEF p
<1>3. CASE RulesFail(r)
  <2> DEFINE p == [q EXCEPT !.pc = "tier3", !.rules = <<>>, !.age = 0]
  <2>1. CacheOK' /\ Become(r, p)
    BY <1>0, <1>3 DEF CacheOK, RulesFail
  <2> HIDE DEF q
  <2>2. /\ p \in RunRecords /\ p.pc = "tier3" /\ p.rules = <<>> /\ p.age = 0
    BY <1>0 DEF RunRecords, OrEmpty
  <2>3. Pending(<<>>) = {}
    BY AnswerLists DEF Pending
  <2> HIDE DEF p
  <2>4. RunOK(p)
    BY <2>2, <2>3, TriageAssumption, SMT DEF RunOK, Early
  <2> QED BY <2>1, <2>4, RunKept
<1>4. CASE RulesArrive(r)
  <2>0. q.waited \in Nat
    BY <1>0, TriageAssumption, SMT DEF RunRecords
  <2>1. /\ q.pc = "fetched" /\ q.waited < Patience /\ runTier15(r, q.rules, q.age)
        /\ (cache' = cache \/ cache' = [rules |-> q.rules, left |-> TTL, age |-> q.age])
    BY <1>4, <2>0, TriageAssumption, SMT DEF RulesArrive, At, Expired, Set
  <2> HIDE DEF q
  <2>2. /\ q.rules \in OrEmpty(RuleAnswers) /\ q.age \in Nat /\ q.waited \in Nat /\ q.age <= q.waited
        /\ q.pc \in Early
    BY <1>0, <2>1, TriageAssumption, SMT DEF RunOK, RunRecords, Early
  <2>3. CacheOK'
    <3>1. CASE cache' = cache
      BY <1>0, <3>1 DEF CacheOK
    <3>2. CASE cache' = [rules |-> q.rules, left |-> TTL, age |-> q.age]
      <4>1. cache'.rules = q.rules /\ cache'.left = TTL /\ cache'.age = q.age
        BY <3>2
      <4>2. cache' \in [rules : OrEmpty(RuleAnswers), left : -1..TTL, age : Nat]
        BY <2>2, <3>2, TriageAssumption, SMT
      <4>3. q.age + TTL <= TTL + Patience
        BY <2>1, <2>2, TriageAssumption, SMT
      <4> QED BY <4>1, <4>2, <4>3 DEF CacheOK
    <3> QED BY <2>1, <3>1, <3>2
  <2>4. q.age <= TTL + Patience
    BY <2>1, <2>2, TriageAssumption, SMT
  <2>5. run[r].pc \in Early
    BY <2>2 DEF q
  <2> QED BY <2>1, <2>2, <2>3, <2>4, <2>5, Tier15Keeps
<1> QED BY <1>1, <1>2, <1>3, <1>4

\* The loop of tier 2.
LEMMA Tier2Keeps ==
  ASSUME TriageInv, NEW r \in Runs, SkipRule(r) \/ Query(r) \/ EndTier2(r)
  PROVE  TriageInv'
<1> DEFINE q == run[r]
           these == Matching(q.rules, "inactive")
<1>0. /\ RunOK(q) /\ q \in RunRecords /\ CacheOK' /\ q.pc = "tier2"
      /\ q.next \in Nat \ {0} /\ q.matched \in Nat /\ q.queries \in Nat /\ q.rules \in OrEmpty(RuleAnswers)
  BY DEF TriageInv, CacheOK, SkipRule, Query, EndTier2, At, RunRecords
<1>1. ASSUME NEW matched \in Nat, NEW queries \in Nat, Skip(r, matched, queries),
             matched = q.matched \/ q.next \in these
      PROVE  TriageInv'
  <2> DEFINE p == [q EXCEPT !.next = q.next + 1, !.matched = matched, !.queries = queries]
  <2>1. Become(r, p)
    BY <1>1 DEF Skip
  <2>2. q.next \in these => Inactive(q.rules) # {}
    BY DEF Inactive, Severities
  <2>3. matched = q.matched \/ Inactive(q.rules) # {}
    BY <1>1, <2>2
  <2>4. /\ p \in RunRecords /\ p.pc = q.pc /\ p.rules = q.rules /\ p.age = q.age /\ p.matched = matched
    <3> DEFINE n == q.next + 1
    <3>1. n \in Nat \ {0}
      BY <1>0, SMT
    <3> HIDE DEF q, n
    <3>2. LET w == [q EXCEPT !.next = n, !.matched = matched, !.queries = queries]
          IN  /\ w \in RunRecords /\ w.pc = q.pc /\ w.rules = q.rules /\ w.age = q.age /\ w.matched = matched
      BY <1>0, <1>1, <3>1 DEF RunRecords
    <3> QED BY <3>2 DEF n
  <2> HIDE DEF q, p
  <2>5. RunOK(p)
    BY <1>0, <2>3, <2>4 DEF RunOK, Early
  <2> QED BY <1>0, <2>1, <2>5, RunKept
<1>a. q.matched + 1 \in Nat /\ q.queries + 1 \in Nat
  BY <1>0, SMT
<1>2. CASE SkipRule(r)
  <2>1. \/ Skip(r, q.matched, q.queries)
        \/ q.next \in these /\ Skip(r, q.matched + 1, q.queries)
    BY <1>2 DEF SkipRule, Applies
  <2> HIDE DEF q, these
  <2> QED BY <1>0, <1>1, <1>a, <2>1
<1>3. CASE Query(r)
  <2>1. q.next \in these
    BY <1>3 DEF Query, Applies
  <2>2. CASE Skip(r, q.matched + 1, q.queries + 1)
    <3> HIDE DEF q, these
    <3> QED BY <1>1, <1>a, <2>1, <2>2
  <2>3. CASE Finish(r, Current(r).severity, "rule_evaluation")
    <3> DEFINE s == q.rules[q.next].severity
    <3>1. Become(r, [q EXCEPT !.pc = "done", !.severity = s, !.source = "rule_evaluation"])
      BY <2>3 DEF Finish, Current
    <3>2. s \in Inactive(q.rules)
      BY <2>1 DEF Inactive, Severities
    <3>3. s \in Labels
      BY <1>0, <2>1, AnswerLists DEF Matching
    <3> HIDE DEF q, s
    <3> QED BY <1>0, <3>1, <3>2, <3>3, FinishOK, RunKept
  <2> QED BY <1>3, <2>2, <2>3 DEF Query
<1>4. CASE EndTier2(r)
  <2>1. \/ q.matched > 0 /\ Become(r, [q EXCEPT !.pc = "tier25"])
        \/ Become(r, [q EXCEPT !.pc = "tier3"])
    BY <1>4 DEF EndTier2, Enter
  <2> HIDE DEF q
  <2> QED BY <1>0, <2>1, EnterOK, RunKept
<1> QED BY <1>2, <1>3, <1>4

\* The language model, and the end of a run.
LEMMA Tier3Keeps ==
  ASSUME TriageInv, NEW r \in Runs, runTier25(r) \/ runTier3(r) \/ Take(r)
  PROVE  TriageInv'
<1> DEFINE q == run[r]
<1>0. RunOK(q) /\ CacheOK'
  BY DEF TriageInv, CacheOK, runTier25, runTier3, Take
<1>1. ASSUME NEW source \in {"llm_rule_informed", "llm_triage"}, Ask(r, source),
             q.pc \in {"tier25", "tier3"}, source = "llm_rule_informed" => q.pc = "tier25"
      PROVE  TriageInv'
  <2>1. PICK s \in {"critical", "medium"} : Become(r, [q EXCEPT !.pc = "done", !.severity = s, !.source = source])
    BY <1>1, SMT DEF Ask, Replies, Finish, classify, NormalizeSeverity, ValidateSeverity, severityRank
  <2>2. s \in Labels
    BY DEF Labels
  <2> HIDE DEF q
  <2> QED BY <1>0, <1>1, <2>1, <2>2, FinishOK, RunKept
<1>2. CASE runTier25(r)
  <2>1. q.pc = "tier25" /\ (Ask(r, "llm_rule_informed") \/ Become(r, [q EXCEPT !.pc = "tier3"]))
    BY <1>2 DEF runTier25, At, Enter
  <2>2. CASE Become(r, [q EXCEPT !.pc = "tier3"])
    <3> HIDE DEF q
    <3> QED BY <1>0, <2>1, <2>2, EnterOK, RunKept
  <2> QED BY <1>1, <2>1, <2>2
<1>3. CASE runTier3(r)
  BY <1>0, <1>1, <1>3, NoRunOK, RunKept DEF runTier3, At, Fail
<1>4. CASE Take(r)
  BY <1>0, <1>4, NoRunOK, RunKept DEF Take, Fail
<1> QED BY <1>2, <1>3, <1>4

\* Time passes: the cache and the answers on their way grow older.
LEMMA TickKeeps == ASSUME TriageInv, Tick PROVE TriageInv'
<1> USE TriageAssumption
<1>0. CacheOK /\ run \in [Runs -> RunRecords]
  BY DEF TriageInv
<1>1. CacheOK'
  <2>1. CASE cache.rules = <<>>
    BY <1>0, <2>1 DEF Tick, CacheOK
  <2>2. CASE cache.rules # <<>>
    <3>1. cache' = [rules |-> cache.rules, age |-> Older(cache.age, MaxAge),
                    left |-> IF cache.left < 0 THEN cache.left ELSE cache.left - 1]
      BY <2>2 DEF Tick
    <3>2. /\ cache.rules \in OrEmpty(RuleAnswers) /\ cache.left \in -1..TTL /\ cache.age \in Nat
          /\ cache.left >= 0 => cache.age + cache.left <= TTL + Patience
      BY <1>0 DEF CacheOK
    <3>3. /\ cache'.rules = cache.rules
          /\ cache'.age \in Nat /\ cache'.age <= cache.age + 1
          /\ cache'.left \in -1..TTL /\ (cache'.left >= 0 => cache.left >= 0 /\ cache'.left = cache.left - 1)
      BY <3>1, <3>2, SMTT(30) DEF Older, MaxAge
    <3>4. cache' \in [rules : OrEmpty(RuleAnswers), left : -1..TTL, age : Nat]
      BY <3>1, <3>2, <3>3
    <3> QED BY <3>2, <3>3, <3>4, SMTT(30) DEF CacheOK
  <2> QED BY <2>1, <2>2
<1>2. ASSUME NEW r \in Runs
      PROVE  RunOK(run'[r])
  <2> DEFINE q == run[r]
  <2>1. RunOK(q) /\ q \in RunRecords /\ q.waited \in 0..Patience /\ q.age \in Nat
    BY DEF TriageInv, RunRecords
  <2>2. CASE q.pc = "idle"
    <3>1. run'[r] = q
      BY <2>2 DEF Tick, At
    <3> QED BY <2>1, <3>1
  <2>3. CASE q.pc # "idle"
    <3> DEFINE w == Older(q.waited, Patience)
               a == IF q.pc = "fetched" THEN Older(q.age, MaxAge) ELSE q.age
               p == [q EXCEPT !.waited = w, !.age = a]
    <3>1. run'[r] = p
      BY <2>3 DEF Tick, At
    <3>2. q.pc \in Asking /\ ~(q.waited >= Patience)
      BY <2>3 DEF Tick, At, Expired
    <3>3. q.pc # "done" /\ q.waited < Patience
      BY <2>1, <3>2, SMT DEF Asking
    <3>4. q.age <= TTL + Patience /\ (q.pc = "fetched" => q.age <= q.waited)
      BY <2>1 DEF RunOK
    <3>5. w = q.waited + 1 /\ w \in 0..Patience
      BY <2>1, <3>3, SMT DEF Older
    <3>6. a \in Nat /\ (q.pc = "fetched" => a <= w) /\ a <= TTL + Patience
      <4>1. CASE q.pc = "fetched"
        <5>1. q.age < MaxAge
          BY <2>1, <3>3, <3>4, <4>1, SMT DEF MaxAge
        <5>2. a = q.age + 1
          BY <4>1, <5>1 DEF Older
        <5> HIDE DEF q, a, w
        <5> QED BY <2>1, <3>3, <3>4, <3>5, <4>1, <5>2, SMTT(30)
      <4>2. CASE q.pc # "fetched"
        BY <2>1, <3>4, <4>2
      <4> QED BY <4>1, <4>2
    <3> HIDE DEF q, w, a
    <3>7. p \in RunRecords /\ p.waited = w /\ p.age = a /\ p.pc = q.pc /\ p.rules = q.rules /\ p.matched = q.matched
      BY <2>1, <3>5, <3>6 DEF RunRecords
    <3> HIDE DEF p
    <3>8. RunOK(p)
      BY <2>1, <3>6, <3>7, <3>3 DEF RunOK
    <3> QED BY <3>1, <3>8
  <2> QED BY <2>2, <2>3
<1>3. run' = [r \in Runs |-> run'[r]]
  BY DEF Tick
<1>4. \A r \in Runs : run'[r] \in RunRecords
  BY <1>2 DEF RunOK
<1>5. run' \in [Runs -> RunRecords]
  BY <1>3, <1>4
<1> QED BY <1>1, <1>2, <1>5 DEF TriageInv

\* TriageInv holds at first.
LEMMA TriageInitInv == TriageInit => TriageInv
<1> SUFFICES ASSUME TriageInit
             PROVE  TriageInv
  OBVIOUS
<1>1. CacheOK
  BY TriageAssumption, SMT DEF TriageInit, NoRules, CacheOK, OrEmpty
<1>2. NoRun \in RunRecords
  BY NoRunOK DEF RunOK
<1> QED BY <1>1, <1>2, NoRunOK DEF TriageInit, TriageInv

\* Every step keeps TriageInv.
LEMMA TriageNextInv == TriageInv /\ [TriageNext]_triageVars => TriageInv'
<1> SUFFICES ASSUME TriageInv, [TriageNext]_triageVars
             PROVE  TriageInv'
  OBVIOUS
<1>1. CASE \E r \in Runs : Call(r) \/ Step(r)
  BY <1>1, Tier1Keeps, RulesKeep, Tier2Keeps, Tier3Keeps DEF Call, Step
<1>2. CASE Tick
  BY <1>2, TickKeeps
<1>3. CASE UNCHANGED triageVars
  BY <1>3 DEF triageVars, TriageInv, CacheOK
<1> QED BY <1>1, <1>2, <1>3 DEF TriageNext

\* TriageInv is an invariant of the triage pipeline.
THEOREM TriageInvariance == TriageSpec => []TriageInv
<1>1. TriageSpec => TriageInit /\ [][TriageNext]_triageVars
  BY PTL DEF TriageSpec
<1> QED BY <1>1, TriageInitInv, TriageNextInv, PTL

\* For any lists of alerts and rules, in any order and with any labels, and any
\* number of concurrent runs: tiers 1 and 1.5 answer with a severity that none
\* of the alerts or rules for the resource exceeds, and no later tier decides
\* over a pending rule for the resource that has a severity.
THEOREM MostSevereWins == TriageSpec => []HighestWins
<1>1. TriageInv => HighestWins
  BY DEF TriageInv, RunOK, Decided, Pending, Inactive, HighestWins, At
<1> QED BY <1>1, TriageInvariance, PTL

\* For any life of the cache and any deadline: however the runs share the
\* cache, the rules of a run were listed no longer ago than both together.
THEOREM RulesAreFresh == TriageSpec => []RulesFresh
<1>1. TriageInv => RulesFresh
  BY DEF TriageInv, RunOK, RulesFresh
<1> QED BY <1>1, TriageInvariance, PTL

==============================================================================
