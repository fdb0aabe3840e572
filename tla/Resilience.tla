----------------------------- MODULE Resilience -----------------------------
(***************************************************************************)
(* internal/resilience: a retry transport inside a circuit breaker, as     *)
(* ka.NewClient and buildResilientTransport stack them, and the breaker    *)
(* around the dynamic Kubernetes client.  A breaker guards one dependency, *)
(* so a behaviour is about one dependency, chosen initially.               *)
(***************************************************************************)
EXTENDS Breaker

CONSTANTS
  Calls,        \* goroutines that call the dependency
  Deps,         \* dependencies to look at: some of "ka", "ds", "k8s"
  RetryMax,     \* retries after the first attempt
  RetryableStatuses

ASSUME ResilienceAssumption ==
  /\ IsFiniteSet(Calls)
  /\ Deps \subseteq {"ka", "ds", "k8s"}
  /\ RetryMax \in Nat
  /\ RetryableStatuses \subseteq {"notFound", "serverError", "unavailable"}

VARIABLES
  dep,   \* the dependency
  cb,    \* its breaker
  call,  \* call[p]: the HTTP request or API operation p is making
  ran    \* history: ran[p] counts how often the dependency executed it

resilienceVars == <<dep, cb, call, ran>>

-----------------------------------------------------------------------------
(* Answers of the dependency, and configuration of the transports.          *)

Statuses == {"ok", "notFound", "serverError", "unavailable"}
Errors == {"refused", "reset", "failed"}
Refusals == {"open", "tooMany"}
Results == Statuses \cup Errors \cup Refusals \cup {"exhausted", "ctx"}

\* A request: its method is idempotent or not, and its body can be sent
\* again (GetBody), only once, or there is none.
Requests == [idempotent : BOOLEAN, body : {"none", "replayable", "once"}]

KAConfig == [attempts |-> RetryMax + 1, idempotentOnly |-> TRUE]

DSConfig == [attempts |-> RetryMax + 1, idempotentOnly |-> FALSE]

\* No retry transport around the Kubernetes client.
K8sConfig == [attempts |-> 1, idempotentOnly |-> TRUE]

Config == CASE dep = "ka" -> KAConfig [] dep = "ds" -> DSConfig [] dep = "k8s" -> K8sConfig

isRetryableStatus(o) == dep # "k8s" /\ o \in RetryableStatuses

isRetryableError(o) == o \in {"refused", "reset"}

\* 502, 503 and 504.
isFailureStatus(o) == o = "unavailable"

\* What Execute's function returns an error for.
Failed(o) ==
  IF dep = "k8s" THEN o # "ok" ELSE o \notin Statuses \/ isFailureStatus(o)

\* Mutant: the method of the request is not looked at.
canReplayAnyMethod(r) == r.body # "once"

canReplay(r) ==
  /\ r.body # "once"
  /\ Config.idempotentOnly => r.idempotent

-----------------------------------------------------------------------------
(* One call.                                                                *)

NoCall == [pc |-> "idle", req |-> [idempotent |-> TRUE, body |-> "none"],
           attempt |-> 0, done |-> FALSE, out |-> "ok"]

At(p, pc) == call[p].pc = pc

\* The function that Execute runs returns o.
Ended(c, o) == [c EXCEPT !.pc = "after", !.attempt = 0, !.done = FALSE, !.out = o]

\* p calls RoundTrip, or an operation of the dynamic client.
Start(p, r) ==
  /\ At(p, "idle")
  /\ call' = [call EXCEPT ![p] = [NoCall EXCEPT !.pc = "gate", !.req = r]]
  /\ ran' = [ran EXCEPT ![p] = 0]
  /\ UNCHANGED <<dep, cb>>

\* The retry transport looks at the context before its first attempt.
Cancelled(p) == dep # "k8s" /\ call[p].done

\* beforeRequest lets the call through ...
Admit(p) ==
  /\ At(p, "gate")
  /\ LET b == currentState(cb) IN
       /\ ~Refuses(b)
       /\ cb' = beforeRequest(b, p)
  /\ call' = [call EXCEPT ![p] = IF Cancelled(p) THEN Ended(@, "ctx")
                                 ELSE [@ EXCEPT !.pc = "send", !.attempt = 1]]
  /\ UNCHANGED <<dep, ran>>

\* ... or refuses it with ErrOpenState or ErrTooManyRequests, and the call
\* returns.
Refuse(p) ==
  /\ At(p, "gate")
  /\ LET b == currentState(cb) IN
       /\ Refuses(b)
       /\ cb' = b
  /\ call' = [call EXCEPT ![p] = NoCall]
  /\ UNCHANGED <<dep, ran>>

\* One attempt and what RoundTrip makes of the answer o.  The dependency
\* executed the request (x) if it answered with success, and may have
\* executed it when the connection broke or it answered with an error.
Executed(o) ==
  CASE o = "ok" -> {TRUE} [] o = "refused" -> {FALSE} [] OTHER -> BOOLEAN

Attempt(p, o, x) ==
  /\ At(p, "send")
  /\ o \in Statuses \cup Errors
  /\ x \in Executed(o)
  /\ ran' = [ran EXCEPT ![p] = IF x /\ ~call[p].req.idempotent THEN @ + 1 ELSE @]
  /\ LET again == isRetryableStatus(o) \/ isRetryableError(o)
         last  == IF isRetryableStatus(o) THEN "exhausted" ELSE o
         retry == again /\ canReplay(call[p].req) /\ call[p].attempt < Config.attempts
     IN  call' = [call EXCEPT ![p] = IF retry THEN [@ EXCEPT !.pc = "backoff"] ELSE Ended(@, last)]
  /\ UNCHANGED <<dep, cb>>

\* sleepWithContext ends by the timer, and the next attempt starts, unless
\* GetBody fails ...
Retry(p, bodyOK) ==
  /\ At(p, "backoff")
  /\ ~bodyOK => call[p].req.body = "replayable"
  /\ call' = [call EXCEPT ![p] = IF bodyOK THEN [@ EXCEPT !.pc = "send", !.attempt = call[p].attempt + 1]
                                 ELSE Ended(@, "failed")]
  /\ UNCHANGED <<dep, cb, ran>>

\* ... or by the context.
StopRetrying(p) ==
  /\ At(p, "backoff")
  /\ call[p].done
  /\ call' = [call EXCEPT ![p] = Ended(@, "ctx")]
  /\ UNCHANGED <<dep, cb, ran>>

\* The breaker takes the result, and the call returns.
Record(p) ==
  /\ At(p, "after")
  /\ cb' = afterRequest(currentState(cb), p, ~Failed(call[p].out))
  /\ call' = [call EXCEPT ![p] = NoCall]
  /\ UNCHANGED <<dep, ran>>

Return(p) == Refuse(p) \/ Record(p)

\* What the caller of RoundTrip gets in that step.
Outcome(p) ==
  CASE At(p, "gate") -> IF currentState(cb).state = "open" THEN "open" ELSE "tooMany"
    [] At(p, "after") -> IF dep # "k8s" /\ isFailureStatus(call[p].out)
                         THEN "exhausted" ELSE call[p].out

\* The caller gives up, or http.Client.Timeout passes, while the call can
\* still notice it.
ContextDone(p) ==
  /\ call[p].pc \in {"gate", "send", "backoff"}
  /\ ~call[p].done
  /\ call' = [call EXCEPT ![p].done = TRUE]
  /\ UNCHANGED <<dep, cb, ran>>

\* Interval or Timeout of the breaker passes.
Expire ==
  /\ cb.state # "halfOpen"
  /\ ~cb.due
  /\ cb' = [cb EXCEPT !.due = TRUE]
  /\ UNCHANGED <<dep, call, ran>>

\* Mutant: the probe reads the state without looking at the clock.
HealthyPeek == UNCHANGED resilienceVars

\* Healthy, called by the readiness probe, which asks KA first, then the Data Store if
\* KA's breaker is not open, and never the client of Kubernetes.
Healthy ==
  /\ dep # "k8s"
  /\ cb' = currentState(cb)
  /\ UNCHANGED <<dep, call, ran>>

ResilienceInit ==
  /\ dep \in Deps
  /\ cb = Generation("closed")
  /\ call = [p \in Calls |-> NoCall]
  /\ ran = [p \in Calls |-> 0]

CallStep(p) ==
  \/ Admit(p)
  \/ Refuse(p)
  \/ \E o \in Statuses \cup Errors, x \in BOOLEAN : Attempt(p, o, x)
  \/ \E ok \in BOOLEAN : Retry(p, ok)
  \/ StopRetrying(p)
  \/ Record(p)

ResilienceNext ==
  \/ \E p \in Calls :
       \/ \E r \in Requests : Start(p, r)
       \/ CallStep(p)
       \/ ContextDone(p)
  \/ Expire
  \/ Healthy

ResilienceSpec == ResilienceInit /\ [][ResilienceNext]_resilienceVars

-----------------------------------------------------------------------------
(* Properties.                                                              *)

InFlight(p) == call[p].pc \in {"send", "backoff", "after"}

\* The breaker accounts for its trials.  So a half-open breaker never
\* refuses everybody while nobody is trying, however late the answers of
\* earlier generations come.
TrialsAccounted == Accounted(cb, {p \in Calls : InFlight(p)})

\* A request the agent's REST client may not repeat (POST) is executed by
\* the dependency at most once, whatever the retries, resets and timeouts.
NonIdempotentAtMostOnce ==
  \A p \in Calls : Config.idempotentOnly /\ ~call[p].req.idempotent => ran[p] <= 1

\* The breaker opens only in a step that records a failed call, and that
\* call was let through by the same generation that its failure ends.
OnlyFailuresOpen ==
  [][cb.state # "open" /\ cb'.state = "open" =>
       \E p \in Calls : /\ p \in cb.members
                        /\ ~cb.due
                        /\ At(p, "after")
                        /\ Failed(call[p].out)]_resilienceVars
=============================================================================
