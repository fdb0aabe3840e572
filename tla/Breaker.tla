------------------------------- MODULE Breaker -------------------------------
(***************************************************************************)
(* The circuit breaker of gobreaker, a library, as this repository uses    *)
(* it: around HTTP transports and the dynamic client (internal/resilience) *)
(* and around the fetches of key sets (internal/auth/jwks_cache.go).       *)
(*                                                                         *)
(* The library compares the generation of a request with the current one;  *)
(* here the requests of the current generation are kept as a set.  It      *)
(* reads Requests and ConsecutiveSuccesses only when half-open and         *)
(* ConsecutiveFailures only when closed, so they are counted only there.   *)
(***************************************************************************)
EXTENDS Naturals, FiniteSets

CONSTANTS
  MaxRequests,  \* trial requests of a half-open breaker
  FailureThreshold

ASSUME BreakerAssumption ==
  /\ MaxRequests \in Nat \ {0}
  /\ FailureThreshold \in Nat \ {0}

States == {"closed", "open", "halfOpen"}

Breakers(calls) ==
  [state : States, requests : 0..MaxRequests, succ : 0..MaxRequests,
   fail : 0..FailureThreshold, due : BOOLEAN, members : SUBSET calls]

\* setState and toNewGeneration clear the counts.
Generation(state) ==
  [state |-> state, requests |-> 0, succ |-> 0, fail |-> 0, due |-> FALSE, members |-> {}]

\* Mutant: an open breaker never lets a trial through.
currentStateStuck(b) == IF ~b.due \/ b.state = "open" THEN b ELSE Generation("closed")

\* due: Interval (closed) or Timeout (open) has passed.  The library acts
\* on it when it is next used.
currentState(b) ==
  IF ~b.due THEN b
  ELSE Generation(IF b.state = "open" THEN "halfOpen" ELSE "closed")

ReadyToTrip(b) == b.fail >= FailureThreshold

Full(b) == b.state = "halfOpen" /\ b.requests >= MaxRequests

\* beforeRequest refuses with ErrOpenState or ErrTooManyRequests, or counts
\* the request.
Refuses(b) == b.state = "open" \/ Full(b)

beforeRequest(b, p) ==
  [b EXCEPT !.members = @ \cup {p},
            !.requests = IF b.state = "halfOpen" THEN @ + 1 ELSE @]

onSuccess(b, p) ==
  LET c == [b EXCEPT !.members = @ \ {p}, !.fail = 0,
                     !.succ = IF b.state = "halfOpen" THEN @ + 1 ELSE @]
  IN  IF b.state = "halfOpen" /\ c.succ >= MaxRequests THEN Generation("closed") ELSE c

onFailure(b, p) ==
  LET c == [b EXCEPT !.members = @ \ {p}, !.fail = @ + 1]
  IN  IF b.state = "halfOpen" \/ ReadyToTrip(c) THEN Generation("open") ELSE c

\* Mutant: successes of earlier generations are counted.
afterRequestLateSuccess(b, p, ok) ==
  IF ok THEN onSuccess(b, p) ELSE IF p \in b.members THEN onFailure(b, p) ELSE b

\* Mutant: failures of earlier generations are counted.
afterRequestLateFailure(b, p, ok) ==
  IF ~ok THEN onFailure(b, p) ELSE IF p \in b.members THEN onSuccess(b, p) ELSE b

\* A result of an earlier generation is not counted.
afterRequest(b, p, ok) ==
  IF p \notin b.members THEN b
  ELSE IF ok THEN onSuccess(b, p) ELSE onFailure(b, p)

\* A half-open breaker accounts for each trial request it let through: it
\* has been counted as a success or is still being made by one of calls.
Accounted(b, calls) ==
  /\ b.members \subseteq calls
  /\ b.state = "halfOpen" =>
       /\ b.requests = b.succ + Cardinality(b.members)
       /\ b.succ < MaxRequests
==============================================================================
