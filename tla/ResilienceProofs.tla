--------------------------- MODULE ResilienceProofs ---------------------------
(* Proofs about the circuit breaker and the two parts that use it: the      *)
(* transports under the tools that talk to KA, the Data Store and the       *)
(* Kubernetes API, and the validation of tokens with the keys of an issuer. *)
(* They are for any number of goroutines, retries, trials, failures, tokens *)
(* and keys and any choice of the intervals.                                *)
EXTENDS Investigation, TokenValidation, FiniteSetTheorems, TLAPS

\* First-order and set reasoning is Zenon's; a leaf with arithmetic, sequences or
\* the fields of records cites SMT.
USE ZenonT(30)

-----------------------------------------------------------------------------
(* What the operations of a breaker preserve.                               *)

\* The breaker is typed, has not forgotten to trip, and accounts for the requests of
\* its generation, which are all made by calls.
BreakerOK(b, calls) ==
  /\ IsFiniteSet(calls)
  /\ b \in Breakers(calls)
  /\ b.fail < FailureThreshold
  /\ Accounted(b, calls)

\* A new generation accounts for nothing.
LEMMA NewGeneration ==
  ASSUME NEW calls, IsFiniteSet(calls), NEW state \in States
  PROVE  BreakerOK(Generation(state), calls)
<1>1. Cardinality({}) = 0
  BY FS_EmptySet
<1>2. Generation(state) \in Breakers(calls)
  BY BreakerAssumption, SMT DEF Generation, Breakers
<1>3. QED
  BY <1>1, <1>2, BreakerAssumption, SMT DEF BreakerOK, Generation, Accounted

\* Looking at the clock keeps the account.
LEMMA CurrentStateOK ==
  ASSUME NEW calls, NEW b, BreakerOK(b, calls)
  PROVE  BreakerOK(currentState(b), calls)
<1>1. IsFiniteSet(calls) /\ "closed" \in States /\ "halfOpen" \in States
  BY DEF BreakerOK, States
<1>2. QED
  BY <1>1, NewGeneration DEF currentState

\* Looking at the clock opens no breaker.
LEMMA ClockOpensNothing ==
  ASSUME NEW b, NEW calls, BreakerOK(b, calls), b.state # "open"
  PROVE  /\ currentState(b).state # "open"
         /\ \A p \in currentState(b).members : ~b.due /\ currentState(b) = b
<1>1. b.due \in BOOLEAN
  BY DEF BreakerOK, Breakers
<1>2. QED
  BY <1>1 DEF currentState, Generation

\* A request that is let through is one of the generation.
LEMMA BeforeRequestOK ==
  ASSUME NEW calls, NEW b, BreakerOK(b, calls), ~Refuses(b), NEW p, p \notin calls
  PROVE  BreakerOK(beforeRequest(b, p), calls \cup {p})
<1> DEFINE c == beforeRequest(b, p)
<1>1. b \in Breakers(calls) /\ b.members \subseteq calls
  BY DEF BreakerOK, Breakers
<1>2. /\ c.state = b.state /\ c.succ = b.succ /\ c.fail = b.fail /\ c.due = b.due
      /\ c.members = b.members \cup {p}
      /\ c.requests = IF b.state = "halfOpen" THEN b.requests + 1 ELSE b.requests
  BY <1>1 DEF beforeRequest, Breakers
<1>3. c.requests \in 0 .. MaxRequests
  BY <1>1, <1>2, BreakerAssumption, SMT DEF Refuses, Full, Breakers
<1>4. c \in Breakers(calls \cup {p})
  <2> DEFINE m == b.members \cup {p}
             n == IF b.state = "halfOpen" THEN b.requests + 1 ELSE b.requests
  <2>1. m \subseteq calls \cup {p} /\ n \in 0 .. MaxRequests
    BY <1>1, <1>2, <1>3
  <2>2. c = [b EXCEPT !.members = m, !.requests = n]
    BY DEF beforeRequest
  <2> HIDE DEF c, m, n
  <2>3. QED
    BY <1>1, <2>1, <2>2 DEF Breakers
<1> HIDE DEF c
<1>5. IsFiniteSet(b.members) /\ p \notin b.members /\ IsFiniteSet(calls \cup {p})
  BY <1>1, FS_Subset, FS_AddElement DEF BreakerOK
<1>6. Cardinality(c.members) = Cardinality(b.members) + 1 /\ Cardinality(b.members) \in Nat
  BY <1>2, <1>5, FS_AddElement, FS_CardinalityType
<1>7. Accounted(c, calls \cup {p})
  <2>1. c.members \subseteq calls \cup {p}
    BY <1>1, <1>2
  <2>2. ASSUME c.state = "halfOpen"
        PROVE  c.requests = c.succ + Cardinality(c.members) /\ c.succ < MaxRequests
    BY <1>1, <1>2, <1>6, <2>2, SMT DEF BreakerOK, Accounted, Breakers
  <2>3. QED
    BY <2>1, <2>2 DEF Accounted
<1>8. QED
  BY <1>2, <1>4, <1>5, <1>7 DEF BreakerOK, c

\* A success of the generation moves from the requests under way to the successes,
\* and the last one closes the breaker.
LEMMA OnSuccessOK ==
  ASSUME NEW calls, NEW b, BreakerOK(b, calls), NEW p \in b.members
  PROVE  /\ BreakerOK(onSuccess(b, p), calls \ {p})
         /\ onSuccess(b, p).state = "open" => b.state = "open"
<1> DEFINE m == b.members \ {p}
           s == IF b.state = "halfOpen" THEN b.succ + 1 ELSE b.succ
           c == [b EXCEPT !.members = m, !.fail = 0, !.succ = s]
<1>1. b \in Breakers(calls) /\ b.members \subseteq calls /\ IsFiniteSet(calls)
  BY DEF BreakerOK, Breakers
<1>2. IsFiniteSet(b.members) /\ IsFiniteSet(calls \ {p}) /\ m \subseteq calls \ {p}
  BY <1>1, FS_Subset, FS_RemoveElement
<1>3. Cardinality(m) = Cardinality(b.members) - 1 /\ Cardinality(b.members) \in Nat
  BY <1>2, FS_RemoveElement, FS_CardinalityType
<1>4. s \in 0 .. MaxRequests
  BY <1>1, BreakerAssumption, SMT DEF BreakerOK, Accounted, Breakers
<1>5. onSuccess(b, p) =
        IF b.state = "halfOpen" /\ s >= MaxRequests THEN Generation("closed") ELSE c
  BY <1>1 DEF onSuccess, Breakers
<1>6. b.state = "halfOpen" => s = b.succ + 1 /\ b.requests = b.succ + Cardinality(b.members)
  BY DEF BreakerOK, Accounted
<1> HIDE DEF m, s
<1>7. /\ c \in Breakers(calls \ {p}) /\ c.fail = 0 /\ c.state = b.state /\ c.succ = s
      /\ c.members = m /\ c.requests = b.requests
  <2>1. 0 \in 0 .. FailureThreshold
    BY BreakerAssumption, SMT
  <2>2. c \in Breakers(calls \ {p})
    BY <1>1, <1>2, <1>4, <2>1 DEF Breakers
  <2>3. QED
    BY <1>1, <2>2 DEF Breakers
<1>8. BreakerOK(Generation("closed"), calls \ {p}) /\ Generation("closed").state = "closed"
  BY <1>2, NewGeneration DEF States, Generation
<1> HIDE DEF c
<1>9. CASE b.state = "halfOpen" /\ s >= MaxRequests
  BY <1>5, <1>8, <1>9
<1>10. CASE ~(b.state = "halfOpen" /\ s >= MaxRequests)
  <2>1. Accounted(c, calls \ {p})
    BY <1>1, <1>2, <1>3, <1>4, <1>6, <1>7, <1>10, BreakerAssumption, SMT DEF Accounted, Breakers
  <2>2. QED
    BY <1>2, <1>5, <1>7, <1>10, <2>1, BreakerAssumption, SMT DEF BreakerOK
<1>11. QED
  BY <1>9, <1>10

\* A failure of the generation opens a half-open breaker, and a closed one that has
\* had enough of them.
LEMMA OnFailureOK ==
  ASSUME NEW calls, NEW b, BreakerOK(b, calls), NEW p \in b.members
  PROVE  BreakerOK(onFailure(b, p), calls \ {p})
<1> DEFINE m == b.members \ {p}
           c == [b EXCEPT !.members = m, !.fail = b.fail + 1]
<1>1. b \in Breakers(calls) /\ b.members \subseteq calls /\ IsFiniteSet(calls)
  BY DEF BreakerOK, Breakers
<1>2. IsFiniteSet(calls \ {p}) /\ m \subseteq calls \ {p}
  BY <1>1, FS_RemoveElement
<1>3. onFailure(b, p) = IF b.state = "halfOpen" \/ ReadyToTrip(c) THEN Generation("open") ELSE c
  BY <1>1 DEF onFailure, Breakers
<1>4. b.fail + 1 \in 0 .. FailureThreshold
  BY <1>1, BreakerAssumption, SMT DEF BreakerOK, Breakers
<1> HIDE DEF m
<1>5. /\ c \in Breakers(calls \ {p}) /\ c.fail = b.fail + 1 /\ c.state = b.state /\ c.members = m
  BY <1>1, <1>2, <1>4 DEF Breakers
<1>6. BreakerOK(Generation("open"), calls \ {p})
  BY <1>2, NewGeneration DEF States
<1> HIDE DEF c
<1>7. CASE b.state = "halfOpen" \/ ReadyToTrip(c)
  BY <1>3, <1>6, <1>7
<1>8. CASE ~(b.state = "halfOpen" \/ ReadyToTrip(c))
  <2>1. Accounted(c, calls \ {p})
    BY <1>2, <1>5, <1>8 DEF Accounted
  <2>2. c.fail < FailureThreshold
    BY <1>4, <1>5, <1>8, BreakerAssumption, SMT DEF ReadyToTrip
  <2>3. QED
    BY <1>2, <1>3, <1>5, <1>8, <2>1, <2>2 DEF BreakerOK
<1>9. QED
  BY <1>7, <1>8

\* The result of a request keeps the account: that of an earlier generation changes
\* nothing, and the request is over.
LEMMA AfterRequestOK ==
  ASSUME NEW calls, NEW b, BreakerOK(b, calls), NEW p, NEW ok \in BOOLEAN
  PROVE  BreakerOK(afterRequest(b, p, ok), calls \ {p})
<1>1. CASE p \in b.members
  BY <1>1, OnSuccessOK, OnFailureOK DEF afterRequest
<1>2. CASE p \notin b.members
  <2>1. b \in Breakers(calls) /\ b.members \subseteq calls \ {p} /\ IsFiniteSet(calls \ {p})
    BY <1>2, FS_RemoveElement DEF BreakerOK, Breakers
  <2>2. b \in Breakers(calls \ {p})
    BY <2>1 DEF Breakers
  <2>3. QED
    BY <1>2, <2>1, <2>2 DEF BreakerOK, Accounted, afterRequest
<1>3. QED
  BY <1>1, <1>2

-----------------------------------------------------------------------------
(* The transports.                                                          *)

CallRecords ==
  [pc : {"idle", "gate", "send", "backoff", "after"}, req : Requests, attempt : Nat,
   done : BOOLEAN, out : Results]

Flying == {p \in Calls : InFlight(p)}

\* A request that may not be repeated is not about to be, and it was not executed
\* before its only attempt.
SentOnce(c, n) ==
  Config.idempotentOnly /\ ~c.req.idempotent =>
    /\ c.pc # "backoff" /\ n <= 1
    /\ c.pc \in {"gate", "send"} => n = 0

\* The types of the calls.
CallTyped ==
  /\ dep \in {"ka", "ds", "k8s"}
  /\ call \in [Calls -> CallRecords]
  /\ ran \in [Calls -> Nat]

\* The inductive invariant of the transports.
TransportInv ==
  /\ CallTyped
  /\ BreakerOK(cb, Flying)
  /\ \A p \in Calls : SentOnce(call[p], ran[p])

\* It holds at the start.
LEMMA InitTransport == ResilienceInit => TransportInv
<1> SUFFICES ASSUME ResilienceInit PROVE TransportInv
  OBVIOUS
<1>1. CallTyped
  BY ResilienceAssumption DEF ResilienceInit, CallTyped, CallRecords, NoCall, Requests, Results, Statuses
<1>2. Flying = {}
  BY DEF ResilienceInit, Flying, InFlight, NoCall
<1>3. BreakerOK(cb, Flying)
  <2>1. IsFiniteSet(Flying) /\ "closed" \in States
    BY <1>2, FS_EmptySet DEF States
  <2>2. QED
    BY <2>1, NewGeneration DEF ResilienceInit
<1>4. \A p \in Calls : SentOnce(call[p], ran[p])
  BY DEF ResilienceInit, SentOnce, NoCall
<1>5. QED
  BY <1>1, <1>3, <1>4 DEF TransportInv

\* What changing one call does to the calls in flight.
LEMMA SetCall ==
  ASSUME CallTyped, NEW p \in Calls, NEW c \in CallRecords, call' = [call EXCEPT ![p] = c]
  PROVE  /\ call' \in [Calls -> CallRecords]
         /\ \A q \in Calls : call'[q] = IF q = p THEN c ELSE call[q]
         /\ Flying' = IF c.pc \in {"send", "backoff", "after"} THEN Flying \cup {p} ELSE Flying \ {p}
<1>1. /\ call' \in [Calls -> CallRecords]
      /\ \A q \in Calls : call'[q] = IF q = p THEN c ELSE call[q]
  BY DEF CallTyped
<1>2. \A q \in Calls : q \in Flying' <=> call'[q].pc \in {"send", "backoff", "after"}
  BY DEF Flying, InFlight
<1>3. \A q \in Calls : q \in Flying <=> call[q].pc \in {"send", "backoff", "after"}
  BY DEF Flying, InFlight
<1>4. Flying \subseteq Calls /\ Flying' \subseteq Calls
  BY DEF Flying
<1>5. QED
  BY <1>1, <1>2, <1>3, <1>4

\* A step of one call that leaves the breaker to account for the calls in flight.
LEMMA CallKeeps ==
  ASSUME TransportInv, NEW p \in Calls, NEW c \in CallRecords, NEW n \in Nat,
         call' = [call EXCEPT ![p] = c], ran' = [ran EXCEPT ![p] = n], UNCHANGED dep,
         SentOnce(c, n),
         BreakerOK(cb', IF c.pc \in {"send", "backoff", "after"} THEN Flying \cup {p} ELSE Flying \ {p})
  PROVE  TransportInv'
<1>1. CallTyped'
  BY DEF TransportInv, CallTyped
<1>2. BreakerOK(cb, Flying)'
  BY SetCall DEF TransportInv
<1>3. \A q \in Calls : call'[q] = (IF q = p THEN c ELSE call[q]) /\ ran'[q] = (IF q = p THEN n ELSE ran[q])
  BY DEF TransportInv, CallTyped
<1>4. Config' = Config
  BY DEF Config
<1>5. ASSUME NEW q \in Calls PROVE SentOnce(call[q], ran[q])'
  <2>1. SentOnce(call[q], ran[q])
    BY DEF TransportInv
  <2>2. QED
    BY <1>3, <1>4, <2>1, SMT DEF SentOnce
<1>6. QED
  BY <1>1, <1>2, <1>5 DEF TransportInv

\* Start: the call is new, and nothing of it was executed.
LEMMA StartKeeps ==
  ASSUME TransportInv, NEW p \in Calls, NEW r \in Requests, Start(p, r)
  PROVE  TransportInv'
<1> DEFINE c == [NoCall EXCEPT !.pc = "gate", !.req = r]
<1>1. call' = [call EXCEPT ![p] = c] /\ ran' = [ran EXCEPT ![p] = 0] /\ UNCHANGED <<dep, cb>>
  BY DEF Start
<1>2. c \in CallRecords /\ c.pc = "gate"
  BY DEF NoCall, CallRecords, Results, Statuses
<1>3. SentOnce(c, 0)
  BY <1>2, SMT DEF SentOnce
<1>4. Flying \ {p} = Flying
  BY DEF Start, At, Flying, InFlight
<1> HIDE DEF c
<1>5. QED
  BY <1>1, <1>2, <1>3, <1>4, CallKeeps DEF TransportInv

\* Admit: the call is counted as a request of the breaker's generation.
LEMMA AdmitKeeps ==
  ASSUME TransportInv, NEW p \in Calls, Admit(p)
  PROVE  TransportInv'
<1> DEFINE b == currentState(cb)
           k == call[p]
           c == IF Cancelled(p) THEN Ended(k, "ctx") ELSE [k EXCEPT !.pc = "send", !.attempt = 1]
<1>1. k \in CallRecords /\ k.pc = "gate" /\ ran[p] \in Nat /\ SentOnce(k, ran[p])
  BY DEF Admit, At, TransportInv, CallTyped
<1>2. BreakerOK(beforeRequest(b, p), Flying \cup {p})
  <2>1. p \notin Flying
    BY <1>1 DEF Flying, InFlight
  <2>2. BreakerOK(b, Flying) /\ ~Refuses(b)
    BY CurrentStateOK DEF TransportInv, Admit
  <2> HIDE DEF b
  <2>3. QED
    BY <2>1, <2>2, BeforeRequestOK
<1>3. /\ call' = [call EXCEPT ![p] = c] /\ ran' = [ran EXCEPT ![p] = ran[p]] /\ UNCHANGED dep
      /\ cb' = beforeRequest(b, p)
  BY DEF Admit, TransportInv, CallTyped
<1> HIDE DEF k
<1>4. c \in CallRecords /\ c.pc \in {"send", "after"} /\ c.req = k.req
  BY <1>1 DEF CallRecords, Ended, Results
<1> HIDE DEF b, c
<1>5. SentOnce(c, ran[p])
  BY <1>1, <1>4 DEF SentOnce
<1>6. QED
  BY <1>1, <1>2, <1>3, <1>4, <1>5, CallKeeps

\* Refuse: the breaker has looked at the clock.
LEMMA RefuseKeeps ==
  ASSUME TransportInv, NEW p \in Calls, Refuse(p)
  PROVE  TransportInv'
<1>1. /\ call' = [call EXCEPT ![p] = NoCall] /\ ran' = [ran EXCEPT ![p] = ran[p]] /\ UNCHANGED dep
      /\ cb' = currentState(cb) /\ ran[p] \in Nat
  BY DEF Refuse, TransportInv, CallTyped
<1>2. NoCall \in CallRecords /\ NoCall.pc = "idle" /\ NoCall.req.idempotent = TRUE
  BY DEF NoCall, CallRecords, Requests, Results, Statuses
<1>3. SentOnce(NoCall, ran[p])
  BY <1>2 DEF SentOnce
<1>4. Flying \ {p} = Flying
  BY DEF Refuse, At, Flying, InFlight
<1>5. BreakerOK(cb', Flying \ {p})
  BY <1>1, <1>4, CurrentStateOK DEF TransportInv
<1>6. QED
  BY <1>1, <1>2, <1>3, <1>5, CallKeeps

\* Record: the call is over, and the breaker has its result.
LEMMA RecordKeeps ==
  ASSUME TransportInv, NEW p \in Calls, Record(p)
  PROVE  TransportInv'
<1> DEFINE ok == ~Failed(call[p].out)
<1>1. /\ call' = [call EXCEPT ![p] = NoCall] /\ ran' = [ran EXCEPT ![p] = ran[p]] /\ UNCHANGED dep
      /\ cb' = afterRequest(currentState(cb), p, ok) /\ ran[p] \in Nat
  BY DEF Record, TransportInv, CallTyped
<1>2. NoCall \in CallRecords /\ NoCall.pc = "idle" /\ NoCall.req.idempotent = TRUE
  BY DEF NoCall, CallRecords, Requests, Results, Statuses
<1>3. SentOnce(NoCall, ran[p])
  BY <1>2 DEF SentOnce
<1>4. ok \in BOOLEAN
  OBVIOUS
<1> HIDE DEF ok
<1>5. BreakerOK(cb', Flying \ {p})
  BY <1>1, <1>4, CurrentStateOK, AfterRequestOK DEF TransportInv
<1>6. QED
  BY <1>1, <1>2, <1>3, <1>5, CallKeeps

\* Attempt: a request that may not be repeated ends with its first attempt.
LEMMA AttemptKeeps ==
  ASSUME TransportInv, NEW p \in Calls, NEW o \in Statuses \cup Errors, NEW x \in BOOLEAN,
         Attempt(p, o, x)
  PROVE  TransportInv'
<1> DEFINE k == call[p]
           again == isRetryableStatus(o) \/ isRetryableError(o)
           last == IF isRetryableStatus(o) THEN "exhausted" ELSE o
           retry == again /\ canReplay(k.req) /\ k.attempt < Config.attempts
           c == IF retry THEN [k EXCEPT !.pc = "backoff"] ELSE Ended(k, last)
           n == IF x /\ ~k.req.idempotent THEN ran[p] + 1 ELSE ran[p]
<1>1. k \in CallRecords /\ k.pc = "send" /\ ran[p] \in Nat /\ SentOnce(k, ran[p])
  BY DEF Attempt, At, TransportInv, CallTyped
<1>2. call' = [call EXCEPT ![p] = c] /\ ran' = [ran EXCEPT ![p] = n] /\ UNCHANGED <<dep, cb>>
  BY DEF Attempt
<1>3. last \in Results /\ n \in Nat
  BY <1>1, SMT DEF Results
<1>4. Config.idempotentOnly /\ ~k.req.idempotent => ~retry /\ n <= 1
  BY <1>1, SMT DEF canReplay, SentOnce
<1>5. Flying \cup {p} = Flying
  BY <1>1 DEF Flying, InFlight
<1> HIDE DEF k, last, retry, n
<1>6. c \in CallRecords /\ c.req = k.req /\ c.pc = IF retry THEN "backoff" ELSE "after"
  BY <1>1, <1>3 DEF CallRecords, Ended
<1> HIDE DEF c
<1>7. SentOnce(c, n)
  BY <1>4, <1>6 DEF SentOnce
<1>8. QED
  BY <1>2, <1>3, <1>5, <1>6, <1>7, CallKeeps DEF TransportInv

\* The end of a backoff: what is sent again may be.
LEMMA BackoffKeeps ==
  ASSUME TransportInv, NEW p \in Calls, (\E ok \in BOOLEAN : Retry(p, ok)) \/ StopRetrying(p)
  PROVE  TransportInv'
<1> DEFINE k == call[p]
<1>1. k \in CallRecords /\ k.pc = "backoff" /\ ran[p] \in Nat /\ SentOnce(k, ran[p])
  BY DEF Retry, StopRetrying, At, TransportInv, CallTyped
<1>2. ran' = [ran EXCEPT ![p] = ran[p]] /\ UNCHANGED <<dep, cb>>
  BY DEF Retry, StopRetrying, TransportInv, CallTyped
<1> DEFINE next == k.attempt + 1
           again == [k EXCEPT !.pc = "send", !.attempt = next]
<1>3. PICK c : call' = [call EXCEPT ![p] = c] /\ (c = again \/ c = Ended(k, "failed") \/ c = Ended(k, "ctx"))
  <2>1. CASE Retry(p, TRUE)
    <3>1. call' = [call EXCEPT ![p] = again]
      BY <2>1 DEF Retry
    <3> HIDE DEF again, k
    <3>2. QED
      BY <3>1
  <2>2. CASE Retry(p, FALSE)
    <3>1. call' = [call EXCEPT ![p] = Ended(k, "failed")]
      BY <2>2 DEF Retry
    <3> HIDE DEF again, k
    <3>2. QED
      BY <3>1
  <2>3. CASE StopRetrying(p)
    <3>1. call' = [call EXCEPT ![p] = Ended(k, "ctx")]
      BY <2>3 DEF StopRetrying
    <3> HIDE DEF again, k
    <3>2. QED
      BY <3>1
  <2>4. QED
    BY <2>1, <2>2, <2>3
<1>4. Flying \cup {p} = Flying
  BY <1>1 DEF Flying, InFlight
<1> HIDE DEF k
<1>5. c \in CallRecords /\ c.req = k.req /\ c.pc \in {"send", "after"}
  <2>1. "failed" \in Results /\ "ctx" \in Results
    BY DEF Results, Errors
  <2>2. CASE c = again
    <3>1. next \in Nat
      BY <1>1, SMT DEF CallRecords
    <3> HIDE DEF next
    <3>2. QED
      BY <1>1, <2>2, <3>1 DEF CallRecords
  <2>3. CASE c = Ended(k, "failed")
    BY <1>1, <2>1, <2>3 DEF CallRecords, Ended
  <2>4. CASE c = Ended(k, "ctx")
    BY <1>1, <2>1, <2>4 DEF CallRecords, Ended
  <2>5. QED
    BY <1>3, <2>2, <2>3, <2>4
<1>6. SentOnce(c, ran[p])
  BY <1>1, <1>5 DEF SentOnce
<1>7. QED
  BY <1>1, <1>2, <1>3, <1>4, <1>5, <1>6, CallKeeps DEF TransportInv

\* The context of a call ends.
LEMMA ContextKeeps ==
  ASSUME TransportInv, NEW p \in Calls, ContextDone(p)
  PROVE  TransportInv'
<1> DEFINE k == call[p]
           c == [k EXCEPT !.done = TRUE]
<1>1. k \in CallRecords /\ ran[p] \in Nat /\ SentOnce(k, ran[p])
  BY DEF TransportInv, CallTyped
<1>2. /\ call' = [call EXCEPT ![p] = c] /\ ran' = [ran EXCEPT ![p] = ran[p]]
      /\ UNCHANGED <<dep, cb>> /\ k.pc \in {"gate", "send", "backoff"}
  BY DEF ContextDone, TransportInv, CallTyped
<1>3. k.pc = "gate" => Flying \ {p} = Flying
  BY DEF Flying, InFlight
<1>4. k.pc # "gate" => Flying \cup {p} = Flying
  BY <1>2 DEF Flying, InFlight
<1> HIDE DEF k
<1>5. c \in CallRecords /\ c.req = k.req /\ c.pc = k.pc
  BY <1>1 DEF CallRecords
<1> HIDE DEF c
<1>6. SentOnce(c, ran[p])
  BY <1>1, <1>5 DEF SentOnce
<1>7. QED
  BY <1>1, <1>2, <1>3, <1>4, <1>5, <1>6, CallKeeps DEF TransportInv

\* The timers and the probes of the breaker.
LEMMA ClockKeeps ==
  ASSUME TransportInv, Expire \/ Healthy
  PROVE  TransportInv'
<1>1. UNCHANGED <<dep, call, ran>>
  BY DEF Expire, Healthy
<1>2. BreakerOK(cb', Flying)
  <2>1. CASE Healthy
    BY <2>1, CurrentStateOK DEF Healthy, TransportInv
  <2>2. CASE Expire
    <3>1. cb' = [cb EXCEPT !.due = TRUE] /\ cb.state # "halfOpen" /\ cb \in Breakers(Flying)
      BY <2>2 DEF Expire, TransportInv, BreakerOK
    <3>2. /\ cb' \in Breakers(Flying) /\ cb'.fail = cb.fail
          /\ cb'.members = cb.members /\ cb'.state = cb.state
      BY <3>1 DEF Breakers
    <3>3. QED
      BY <3>1, <3>2 DEF TransportInv, BreakerOK, Accounted
  <2>3. QED
    BY <2>1, <2>2
<1>3. Flying' = Flying
  BY <1>1 DEF Flying, InFlight
<1>4. QED
  BY <1>1, <1>2, <1>3 DEF TransportInv, CallTyped, SentOnce, Config

\* Every step of the transports keeps the invariant.
LEMMA StepKeeps == TransportInv /\ [ResilienceNext]_resilienceVars => TransportInv'
<1> SUFFICES ASSUME TransportInv, [ResilienceNext]_resilienceVars PROVE TransportInv'
  OBVIOUS
<1>1. ASSUME NEW p \in Calls, NEW r \in Requests, Start(p, r) PROVE TransportInv'
  BY <1>1, StartKeeps
<1>2. ASSUME NEW p \in Calls, CallStep(p) PROVE TransportInv'
  BY <1>2, AdmitKeeps, RefuseKeeps, AttemptKeeps, BackoffKeeps, RecordKeeps DEF CallStep
<1>3. ASSUME NEW p \in Calls, ContextDone(p) PROVE TransportInv'
  BY <1>3, ContextKeeps
<1>4. CASE UNCHANGED resilienceVars
  BY <1>4 DEF resilienceVars, TransportInv, CallTyped, Flying, InFlight, SentOnce, Config
<1>5. QED
  BY <1>1, <1>2, <1>3, <1>4, ClockKeeps DEF ResilienceNext

-----------------------------------------------------------------------------
(* The tools use the transports and nothing beside them.                    *)

\* A step of the tools is a step of the transports, or leaves them alone.
LEMMA ToolsStep == [InvestigationNext]_investigationVars => [ResilienceNext]_resilienceVars
<1> SUFFICES ASSUME InvestigationNext PROVE ResilienceNext \/ UNCHANGED resilienceVars
  BY DEF investigationVars, resilienceVars
<1>1. ASSUME NEW t \in Calls, NEW op, Invoke(t, op)
      PROVE  ResilienceNext \/ UNCHANGED resilienceVars
  <2>1. RequestOf(op) \in Requests
    BY DEF RequestOf, Requests
  <2>2. QED
    BY <1>1, <2>1 DEF Invoke, ResilienceNext
<1>2. ASSUME NEW t \in Calls, Return(t) PROVE ResilienceNext
  BY <1>2 DEF Return, ResilienceNext, CallStep
<1>3. ASSUME NEW t \in Calls, Start(t, RequestOf("poll")) PROVE ResilienceNext
  <2>1. RequestOf("poll") \in Requests
    BY DEF RequestOf, Requests
  <2>2. QED
    BY <1>3, <2>1 DEF ResilienceNext
<1>4. ASSUME NEW t \in Calls, Transport(t) \/ Exchanges(t) PROVE ResilienceNext
  BY <1>4 DEF Transport, Exchanges, Exchange, ResilienceNext, CallStep
<1>5. ASSUME NEW t \in Calls, ToolStep(t) \/ Reply(t)
      PROVE  ResilienceNext \/ UNCHANGED resilienceVars
  BY <1>2, <1>3, <1>4, <1>5
     DEF ToolStep, Reply, CancelAnswer, QueryAnswer, OperationAnswer, PollAnswer, PollAgain,
         PollCancelled, FetchResult, ResultAnswer, StartAnswer, SelectConnect, WatchAnswer, SelectCall
<1>6. ASSUME Environment PROVE ResilienceNext \/ UNCHANGED resilienceVars
  BY <1>6 DEF Environment, KAProgress, ResilienceNext
<1>7. QED
  BY <1>1, <1>5, <1>6 DEF InvestigationNext

\* The tools of ka_tools.go, ds_tools.go and crd_tools.go implement the specification
\* of the transports they call: none of them reaches a dependency, or touches a
\* breaker, but through a call of its transport.
THEOREM ToolsUseTransports == InvestigationSpec => ResilienceSpec
<1>1. InvestigationInit => ResilienceInit
  BY DEF InvestigationInit
<1>2. QED
  BY <1>1, ToolsStep, PTL DEF InvestigationSpec, ResilienceSpec

\* The invariant of the transports under the tools.
THEOREM TransportInvariant == InvestigationSpec => []TransportInv
<1>1. ResilienceSpec => []TransportInv
  BY InitTransport, StepKeeps, PTL DEF ResilienceSpec
<1>2. QED
  BY <1>1, ToolsUseTransports, PTL

\* A POST of the client of KA is executed at most once by KA, whatever the retries of
\* RoundTrip, resets of the connection and timeouts.
THEOREM PostAtMostOnce == InvestigationSpec => []NonIdempotentAtMostOnce
<1>1. TransportInv => NonIdempotentAtMostOnce
  BY DEF TransportInv, SentOnce, NonIdempotentAtMostOnce
<1>2. QED
  BY <1>1, TransportInvariant, PTL

\* A half-open breaker accounts for every trial it let through, however late the
\* results of earlier generations come.
THEOREM TrialsAreAccounted == InvestigationSpec => []TrialsAccounted
<1>1. TransportInv => TrialsAccounted
  BY DEF TransportInv, BreakerOK, TrialsAccounted, Flying
<1>2. QED
  BY <1>1, TransportInvariant, PTL

\* The breaker opens only when a call of its current generation has failed: neither
\* time, nor a probe, nor the late failure of an earlier generation opens it.
THEOREM OpenedByFailures == InvestigationSpec => OnlyFailuresOpen
<1> DEFINE Cause == \E p \in Calls : /\ p \in cb.members
                                     /\ ~cb.due
                                     /\ At(p, "after")
                                     /\ Failed(call[p].out)
           Opens == cb.state # "open" /\ cb'.state = "open"
<1>1. TransportInv /\ [ResilienceNext]_resilienceVars => [Opens => Cause]_resilienceVars
  <2> SUFFICES ASSUME TransportInv, ResilienceNext, Opens PROVE Cause
    OBVIOUS
  <2> DEFINE b == currentState(cb)
  <2>1. BreakerOK(b, Flying) /\ b.state # "open" /\ \A p \in b.members : ~cb.due /\ b = cb
    BY ClockOpensNothing, CurrentStateOK DEF TransportInv
  <2>2. cb' # b /\ cb' # cb
    BY <2>1
  <2>3. ASSUME NEW p \in Calls, Admit(p) PROVE FALSE
    <3>1. cb' = beforeRequest(b, p) /\ b \in Breakers(Flying)
      BY <2>1, <2>3 DEF Admit, BreakerOK
    <3> HIDE DEF b
    <3>2. cb'.state = b.state
      BY <3>1 DEF beforeRequest, Breakers
    <3>3. QED
      BY <2>1, <3>2
  <2>4. ASSUME NEW p \in Calls, Record(p) PROVE Cause
    <3> DEFINE ok == ~Failed(call[p].out)
    <3>1. cb' = afterRequest(b, p, ok) /\ At(p, "after")
      BY <2>4 DEF Record
    <3>2. p \in b.members
      BY <2>2, <3>1 DEF afterRequest
    <3>3. ~ok
      <4>1. SUFFICES ASSUME ok PROVE FALSE
        OBVIOUS
      <4>2. cb' = onSuccess(b, p)
        BY <3>1, <3>2, <4>1 DEF afterRequest
      <4> HIDE DEF b, ok
      <4>3. QED
        BY <2>1, <3>2, <4>2, OnSuccessOK
    <3>4. QED
      BY <2>1, <3>1, <3>2, <3>3
  <2>5. ASSUME Expire PROVE FALSE
    <3>1. cb' = [cb EXCEPT !.due = TRUE] /\ cb \in Breakers(Flying)
      BY <2>5 DEF Expire, TransportInv, BreakerOK
    <3>2. cb'.state = cb.state
      BY <3>1 DEF Breakers
    <3>3. QED
      BY <3>2
  <2> HIDE DEF b, Cause
  <2>6. QED
    BY <2>2, <2>3, <2>4, <2>5
       DEF ResilienceNext, CallStep, Start, Refuse, Attempt, Retry, StopRetrying, ContextDone, Healthy, b
<1>2. QED
  BY <1>1, TransportInvariant, ToolsUseTransports, PTL DEF OnlyFailuresOpen, ResilienceSpec

-----------------------------------------------------------------------------
(* What a poll says.                                                        *)

Phases == {"none", "running", "gone"} \cup Terminal

ToolRecords ==
  [op : {"none", "start", "poll", "cancel", "select", "query"} \cup K8sOps,
   stage : {"idle", "ask", "wait", "fetch", "result", "connect", "session", "done"},
   polls : Nat,
   body : Phases \cup {"number", "undecodable"},
   res : {"none", "started", "undecodable", "cancelSent", "answered", "selected", "agentError",
          "in_progress", "ctx", "temporarilyUnavailable", "notFound", "internalError",
          "serviceError"} \cup Terminal]

\* What holds of a tool call w, its request c and the values s of inv during it:
\* a request is under way only while the tool waits for it; the result is
\* fetched after the investigation was seen completed; a body that came with a
\* status is a status of the investigation during the poll, or that of an error
\* answer; and what PollTellsTheTruth says.
PollOK(w, c, s) ==
  /\ w.op = "none" => w.stage = "idle"
  /\ w.stage \notin {"ask", "result"} \/ w.op = "watch" => c.pc = "idle"
  /\ w.stage \in {"wait", "fetch", "result"} => w.op = "poll"
  /\ w.stage \in {"fetch", "result"} => "completed" \in s
  /\ w.op = "poll" /\ c.pc = "after" /\ c.out \in Statuses =>
       w.body \in {"number", "undecodable"} \cup s
  /\ w.op = "poll" /\ w.stage = "done" =>
       /\ w.res \in Terminal => w.res \in s
       /\ w.res = "in_progress" /\ w.body # "number" => ~(s \subseteq Terminal)

PollInv ==
  /\ inv \in Phases
  /\ tool \in [Calls -> ToolRecords]
  /\ seen \in [Calls -> SUBSET Phases]
  /\ \A t \in Calls : PollOK(tool[t], call[t], seen[t])

\* Seeing more does not make a poll lie.
LEMMA SeeingMore ==
  ASSUME NEW w, NEW c, NEW s, NEW z, PollOK(w, c, s), w.op = "poll" => s \subseteq z
  PROVE  PollOK(w, c, z)
BY DEF PollOK

\* A step of one tool call, or of none of them when w and c are what they were.
LEMMA ToolKeeps ==
  ASSUME CallTyped, PollInv, inv' \in Phases, NEW t \in Calls, NEW w \in ToolRecords, NEW c, NEW s \in SUBSET Phases,
         tool' = [tool EXCEPT ![t] = w], call' = [call EXCEPT ![t] = c],
         seen' \in [Calls -> SUBSET Phases], seen'[t] = s, PollOK(w, c, s),
         \A q \in Calls \ {t} : tool[q].op = "poll" => seen[q] \subseteq seen'[q]
  PROVE  PollInv'
<1>1. tool' \in [Calls -> ToolRecords]
  BY DEF PollInv
<1>2. ASSUME NEW q \in Calls PROVE PollOK(tool'[q], call'[q], seen'[q])
  <2>1. CASE q = t
    <3>1. tool'[q] = w /\ call'[q] = c /\ seen'[q] = s
      BY <2>1 DEF PollInv, CallTyped
    <3> QED BY <3>1
  <2>2. CASE q # t
    <3>1. tool'[q] = tool[q] /\ call'[q] = call[q]
      BY <2>2 DEF PollInv, CallTyped
    <3>2. PollOK(tool[q], call[q], seen[q]) /\ (tool[q].op = "poll" => seen[q] \subseteq seen'[q])
      BY <2>2 DEF PollInv
    <3> QED BY <3>1, <3>2, SeeingMore
  <2> QED BY <2>1, <2>2
<1> QED BY <1>1, <1>2 DEF PollInv

\* The calls of the transport that the tools do not see.
LEMMA TransportKeepsPolls ==
  ASSUME CallTyped, PollInv, NEW t \in Calls, Transport(t)
  PROVE  PollInv'
<1> DEFINE k == call[t]
           w == tool[t]
<1>1. /\ k \in CallRecords /\ w \in ToolRecords /\ PollOK(w, k, seen[t]) /\ k.pc \in {"gate", "send", "backoff"}
      /\ UNCHANGED <<inv, tool, seen>>
  BY DEF CallTyped, PollInv, Transport, Admit, Retry, StopRetrying, ContextDone, At, toolVars
<1>2. PICK c : /\ call' = [call EXCEPT ![t] = c]
               /\ \/ c = Ended(k, "ctx") \/ c = Ended(k, "failed")
                  \/ c = [k EXCEPT !.pc = "send", !.attempt = 1]
                  \/ c = [k EXCEPT !.pc = "send", !.attempt = k.attempt + 1]
                  \/ c = [k EXCEPT !.done = TRUE]
  <2>1. CASE Admit(t)
    BY <2>1 DEF Admit
  <2>2. CASE Retry(t, TRUE)
    BY <2>2 DEF Retry
  <2>3. CASE Retry(t, FALSE)
    BY <2>3 DEF Retry
  <2>4. CASE StopRetrying(t)
    BY <2>4 DEF StopRetrying
  <2>5. CASE ContextDone(t)
    BY <2>5 DEF ContextDone
  <2> QED BY <2>1, <2>2, <2>3, <2>4, <2>5 DEF Transport
<1> HIDE DEF k
<1>3. c.pc = "after" => c.out \notin Statuses
  BY <1>1, <1>2 DEF CallRecords, Ended, Statuses
<1>4. w.stage \in {"ask", "result"} /\ w.op # "watch"
  BY <1>1 DEF PollOK
<1>5. PollOK(w, c, seen[t])
  BY <1>1, <1>3, <1>4 DEF PollOK
<1>6. tool' = [tool EXCEPT ![t] = w] /\ seen' \in [Calls -> SUBSET Phases] /\ inv' \in Phases
  BY <1>1 DEF PollInv
<1> HIDE DEF w
<1> QED BY <1>1, <1>2, <1>5, <1>6, ToolKeeps, SMT DEF PollInv

\* An attempt, and what KA does with it.
LEMMA ExchangeKeeps ==
  ASSUME CallTyped, PollInv, NEW t \in Calls, Exchanges(t)
  PROVE  PollInv'
<1> DEFINE k == call[t]
           w == tool[t]
<1>1. PICK o \in Statuses \cup Errors, x \in BOOLEAN, b \in {"none", "number", "undecodable", inv} : Exchange(t, o, x, b)
  BY DEF Exchanges
<1>2. /\ k \in CallRecords /\ w \in ToolRecords /\ PollOK(w, k, seen[t]) /\ k.pc = "send" /\ inv \in Phases
  BY <1>1 DEF CallTyped, PollInv, Exchange, Attempt, At
<1>3. PICK c : /\ call' = [call EXCEPT ![t] = c]
               /\ c = [k EXCEPT !.pc = "backoff"] \/ c = Ended(k, "exhausted") \/ c = Ended(k, o)
  BY <1>1 DEF Exchange, Attempt
<1> DEFINE v == [w EXCEPT !.body = b]
           s == IF w.op = "poll" THEN seen[t] \cup {inv'} ELSE {}
<1>4. /\ tool' = [tool EXCEPT ![t] = v] /\ inv' \in Phases
      /\ w.op = "poll" => inv' = inv
  BY <1>1, <1>2 DEF Exchange, AfterRequest, Phases, Terminal
<1>5. /\ seen' \in [Calls -> SUBSET Phases] /\ seen'[t] = s /\ s \in SUBSET Phases
      /\ \A q \in Calls \ {t} : tool[q].op = "poll" => seen[q] \subseteq seen'[q]
  BY <1>1, <1>4 DEF Exchange, Observe, PollInv
<1>6. w.op = "poll" /\ o \in Statuses => b \in {"number", "undecodable"} \cup s
  <2>1. w.op = "poll" /\ o \in Statuses => b \in {inv, "number", "undecodable"}
    BY <1>1 DEF Exchange
  <2> QED BY <1>4, <2>1
<1> HIDE DEF k, s
<1>7. c.pc \in {"after", "backoff"} /\ (c.pc = "after" => c.out \in {o, "exhausted"})
  BY <1>2, <1>3 DEF CallRecords, Ended
<1>8. w.stage \in {"ask", "result"} /\ (w.stage = "result" => w.op = "poll" /\ "completed" \in seen[t])
      /\ (w.op = "none" => w.stage = "idle") /\ w.op # "watch"
  BY <1>2 DEF PollOK
<1>9. w.op = "poll" => seen[t] \subseteq s
  BY DEF s
<1> HIDE DEF w
<1>10. v \in ToolRecords /\ v.op = w.op /\ v.stage = w.stage /\ v.body = b
  BY <1>2 DEF ToolRecords, Phases
<1> HIDE DEF v
<1>11. PollOK(v, c, s)
  BY <1>6, <1>7, <1>8, <1>9, <1>10 DEF PollOK, Statuses
<1> QED BY <1>3, <1>4, <1>5, <1>10, <1>11, ToolKeeps

\* The transport returns; what it returns is a status only when the body is one
\* that the poll may believe.
LEMMA Returned ==
  ASSUME CallTyped, PollInv, NEW t \in Calls, Return(t)
  PROVE  /\ call' = [call EXCEPT ![t] = NoCall] /\ NoCall.pc = "idle"
         /\ tool[t].op = "poll" /\ Outcome(t) \in Statuses =>
              tool[t].body \in {"number", "undecodable"} \cup seen[t]
<1>1. call' = [call EXCEPT ![t] = NoCall] /\ NoCall.pc = "idle" /\ call[t].pc \in {"gate", "after"}
  BY DEF Return, Refuse, Record, NoCall, At
<1>2. Outcome(t) \in Statuses => call[t].pc = "after" /\ Outcome(t) = call[t].out
  BY <1>1 DEF Outcome, At, Statuses
<1>3. PollOK(tool[t], call[t], seen[t])
  BY DEF PollInv
<1> QED BY <1>1, <1>2, <1>3 DEF PollOK

\* A tool call goes on after its request, or without one.
LEMMA AnswerKeeps ==
  ASSUME CallTyped, PollInv, NEW t \in Calls, NEW v \in ToolRecords, NEW c,
         tool' = [tool EXCEPT ![t] = v], call' = [call EXCEPT ![t] = c], UNCHANGED <<inv, seen>>,
         PollOK(v, c, seen[t])
  PROVE  PollInv'
<1>1. /\ inv' \in Phases /\ seen' \in [Calls -> SUBSET Phases] /\ seen'[t] = seen[t]
      /\ seen[t] \in SUBSET Phases
      /\ \A q \in Calls \ {t} : tool[q].op = "poll" => seen[q] \subseteq seen'[q]
  BY DEF PollInv
<1> QED BY <1>1, ToolKeeps

\* A tool call ends with a result that says nothing of an investigation that is
\* over or in progress, or one that is true.
LEMMA FinishKeeps ==
  ASSUME CallTyped, PollInv, NEW t \in Calls, NEW c, c.pc = "idle", call' = [call EXCEPT ![t] = c],
         UNCHANGED <<inv, seen>>, tool[t].op # "none",
         NEW r \in {"started", "undecodable", "cancelSent", "answered", "selected", "agentError",
                    "in_progress", "ctx", "temporarilyUnavailable", "notFound", "internalError",
                    "serviceError"} \cup Terminal,
         Finish(t, r),
         tool[t].op = "poll" /\ r \in Terminal => r \in seen[t],
         tool[t].op = "poll" /\ r = "in_progress" /\ tool[t].body # "number" => ~(seen[t] \subseteq Terminal)
  PROVE  PollInv'
<1> DEFINE w == tool[t]
           v == [w EXCEPT !.stage = "done", !.res = r]
<1>1. w \in ToolRecords /\ tool' = [tool EXCEPT ![t] = v]
  BY DEF PollInv, Finish
<1>2. w.op = tool[t].op /\ w.body = tool[t].body
  OBVIOUS
<1> HIDE DEF w
<1>3. v \in ToolRecords /\ v.op = w.op /\ v.stage = "done" /\ v.res = r /\ v.body = w.body
  BY <1>1 DEF ToolRecords
<1> HIDE DEF v
<1>4. PollOK(v, c, seen[t])
  BY <1>2, <1>3 DEF PollOK
<1> QED BY <1>1, <1>3, <1>4, AnswerKeeps

Plain == {"started", "undecodable", "cancelSent", "answered", "selected", "agentError", "ctx",
          "temporarilyUnavailable", "notFound", "internalError", "serviceError"}

\* The errors that the caller reads.
LEMMA FriendlyErrors ==
  /\ \A r : kaToUserFriendlyError(r) \in Plain
  /\ \A t : AnswerError(t) \in Plain
BY DEF kaToUserFriendlyError, AnswerError, Plain

\* The answers of the tools other than the poll.
LEMMA OtherAnswersKeep ==
  ASSUME CallTyped, PollInv, NEW t \in Calls,
         \/ CancelAnswer(t) \/ QueryAnswer(t) \/ OperationAnswer(t)
         \/ \E ok \in BOOLEAN : StartAnswer(t, ok)
  PROVE  PollInv'
<1>1. Return(t) /\ UNCHANGED <<inv, seen>> /\ tool[t].op \notin {"none", "poll"}
  BY DEF CancelAnswer, QueryAnswer, OperationAnswer, StartAnswer
<1>2. PICK r \in Plain \cup {"failed"} : Finish(t, r)
  <2>1. kaToUserFriendlyError(Outcome(t)) \in Plain
    BY FriendlyErrors
  <2> QED BY <2>1 DEF CancelAnswer, QueryAnswer, OperationAnswer, StartAnswer, QueryResult, Plain
<1> QED BY <1>1, <1>2, Returned, FinishKeeps DEF Plain, Terminal

\* The MCP client and the watch need no transport.
LEMMA DirectAnswersKeep ==
  ASSUME CallTyped, PollInv, NEW t \in Calls,
         \/ PollCancelled(t)
         \/ \E ok \in BOOLEAN : SelectConnect(t, ok) \/ WatchAnswer(t, ok)
         \/ \E a \in {"callFailed", "isError", "notJSON", "object", "empty"} : SelectCall(t, a)
  PROVE  PollInv'
<1> DEFINE w == tool[t]
           v == [w EXCEPT !.stage = "session"]
<1>1. /\ UNCHANGED <<inv, seen>> /\ call' = [call EXCEPT ![t] = call[t]] /\ w \in ToolRecords
      /\ PollOK(w, call[t], seen[t])
      /\ (w.stage \in {"wait", "connect", "session"} \/ (w.op = "watch" /\ w.stage = "ask"))
  BY DEF PollCancelled, SelectConnect, WatchAnswer, SelectCall, resilienceVars, CallTyped, PollInv
<1>2. w.op # "none" /\ call[t].pc = "idle"
  BY <1>1 DEF PollOK
<1>3. ASSUME NEW r \in Plain \cup {"failed"}, Finish(t, r), r = "failed" => w.op # "poll"
      PROVE  PollInv'
  BY <1>1, <1>2, <1>3, FinishKeeps DEF Plain, Terminal
<1>4. CASE PollCancelled(t)
  BY <1>3, <1>4 DEF PollCancelled, Plain
<1>5. ASSUME NEW ok \in BOOLEAN, WatchAnswer(t, ok)
      PROVE  PollInv'
  BY <1>3, <1>5 DEF WatchAnswer, Plain
<1>6. ASSUME NEW ok \in BOOLEAN, SelectConnect(t, ok)
      PROVE  PollInv'
  <2>1. CASE ~ok
    BY <1>3, <1>6, <2>1, FriendlyErrors DEF SelectConnect, Plain
  <2>2. CASE ok
    <3>1. tool' = [tool EXCEPT ![t] = v] /\ w.stage = "connect"
      BY <1>6, <2>2 DEF SelectConnect
    <3> HIDE DEF w
    <3>2. v \in ToolRecords /\ v.op = w.op /\ v.stage = "session"
      BY <1>1 DEF ToolRecords
    <3> HIDE DEF v
    <3>3. PollOK(v, call[t], seen[t])
      BY <1>1, <1>2, <3>1, <3>2 DEF PollOK
    <3> QED BY <1>1, <3>1, <3>2, <3>3, AnswerKeeps
  <2> QED BY <2>1, <2>2
<1>7. ASSUME NEW a \in {"callFailed", "isError", "notJSON", "object", "empty"}, SelectCall(t, a)
      PROVE  PollInv'
  <2>1. PICK r \in {"serviceError", "agentError", "undecodable", "selected"} : Finish(t, r)
    BY <1>7 DEF SelectCall, ToolContent
  <2> QED BY <1>3, <2>1 DEF Plain
<1> QED BY <1>4, <1>5, <1>6, <1>7

\* A poll asks, asks again, and fetches the result.
LEMMA PollKeeps ==
  ASSUME CallTyped, PollInv, NEW t \in Calls,
         PollAnswer(t) \/ PollAgain(t) \/ FetchResult(t) \/ ResultAnswer(t)
  PROVE  PollInv'
<1> DEFINE w == tool[t]
<1>1. w \in ToolRecords /\ PollOK(w, call[t], seen[t]) /\ UNCHANGED <<inv, seen>> /\ call[t] \in CallRecords
  BY DEF PollAnswer, PollAgain, FetchResult, ResultAnswer, CallTyped, PollInv
<1>2. w.op = "poll"
  BY <1>1 DEF PollAnswer, PollAgain, FetchResult, ResultAnswer, PollOK
<1>3. CASE PollAgain(t) \/ FetchResult(t)
  <2> DEFINE c == [NoCall EXCEPT !.pc = "gate", !.req = RequestOf("poll")]
             n == w.polls + 1
  <2>1. call' = [call EXCEPT ![t] = c]
    BY <1>3 DEF PollAgain, FetchResult, Start
  <2>2. c.pc = "gate"
    BY DEF NoCall
  <2> HIDE DEF c
  <2>3. CASE PollAgain(t)
    <3> DEFINE v == [w EXCEPT !.stage = "ask", !.polls = n]
    <3>1. tool' = [tool EXCEPT ![t] = v]
      BY <2>3 DEF PollAgain
    <3>a. w.polls \in Nat
      BY <1>1 DEF ToolRecords
    <3> HIDE DEF w
    <3>2. n \in Nat
      BY <3>a, SMT
    <3> HIDE DEF n
    <3>3. v \in ToolRecords /\ v.op = w.op /\ v.stage = "ask"
      BY <1>1, <3>2 DEF ToolRecords
    <3> HIDE DEF v
    <3>4. PollOK(v, c, seen[t])
      BY <1>2, <2>2, <3>3 DEF PollOK
    <3> QED BY <1>1, <2>1, <3>1, <3>3, <3>4, AnswerKeeps
  <2>4. CASE FetchResult(t)
    <3> DEFINE v == [w EXCEPT !.stage = "result"]
    <3>1. tool' = [tool EXCEPT ![t] = v] /\ w.stage = "fetch"
      BY <2>4 DEF FetchResult
    <3> HIDE DEF w
    <3>2. v \in ToolRecords /\ v.op = w.op /\ v.stage = "result"
      BY <1>1 DEF ToolRecords
    <3> HIDE DEF v
    <3>3. PollOK(v, c, seen[t])
      BY <1>1, <1>2, <2>2, <3>1, <3>2 DEF PollOK
    <3> QED BY <1>1, <2>1, <3>1, <3>2, <3>3, AnswerKeeps
  <2> QED BY <1>3, <2>3, <2>4
<1>4. CASE PollAnswer(t) \/ ResultAnswer(t)
  <2>1. /\ call' = [call EXCEPT ![t] = NoCall] /\ NoCall.pc = "idle"
        /\ Outcome(t) \in Statuses => w.body \in {"number", "undecodable"} \cup seen[t]
    BY <1>2, <1>4, Returned DEF PollAnswer, ResultAnswer
  <2>2. Decoded(t) => w.body = "number" \/ w.body \in seen[t]
    BY <2>1 DEF Decoded
  <2>3. ASSUME NEW r \in Plain \cup {"in_progress"} \cup Terminal, Finish(t, r),
               r \in Terminal => r \in seen[t],
               r = "in_progress" /\ w.body # "number" => ~(seen[t] \subseteq Terminal)
        PROVE  PollInv'
    BY <1>1, <1>2, <2>1, <2>3, FinishKeeps DEF Plain
  <2>4. ASSUME NEW st \in {"fetch", "wait"}, tool' = [tool EXCEPT ![t].stage = st, ![t].body = "none"],
               st = "fetch" => "completed" \in seen[t]
        PROVE  PollInv'
    <3> DEFINE v == [w EXCEPT !.stage = st, !.body = "none"]
    <3>1. tool' = [tool EXCEPT ![t] = v]
      BY <2>4
    <3> HIDE DEF w
    <3>2. v \in ToolRecords /\ v.op = w.op /\ v.stage = st
      BY <1>1 DEF ToolRecords, Phases
    <3> HIDE DEF v
    <3>3. PollOK(v, NoCall, seen[t])
      BY <1>2, <2>1, <2>4, <3>2 DEF PollOK
    <3> QED BY <1>1, <2>1, <3>1, <3>2, <3>3, AnswerKeeps
  <2>5. AnswerError(t) \in Plain /\ Plain \cap (Terminal \cup {"in_progress"}) = {}
    BY FriendlyErrors DEF Plain, Terminal
  <2>6. CASE ResultAnswer(t)
    <3>1. "completed" \in seen[t]
      BY <1>1, <2>6 DEF ResultAnswer, PollOK
    <3>2. Finish(t, "completed") \/ Finish(t, AnswerError(t))
      BY <2>6 DEF ResultAnswer
    <3> QED BY <2>3, <2>5, <3>1, <3>2 DEF Terminal
  <2>7. CASE PollAnswer(t)
    <3>1. CASE ~Decoded(t) /\ Finish(t, AnswerError(t))
      BY <2>3, <2>5, <3>1
    <3>2. CASE Decoded(t) /\ SessionStatus(tool[t].body) = "completed"
               /\ tool' = [tool EXCEPT ![t].stage = "fetch", ![t].body = "none"]
      BY <2>2, <2>4, <3>2 DEF SessionStatus
    <3>3. CASE Decoded(t) /\ SessionStatus(tool[t].body) \in {"failed", "cancelled"} /\ Finish(t, tool[t].body)
      <4>1. w.body \in {"failed", "cancelled"} /\ w.body \in seen[t] /\ w.body \in Terminal /\ w.body # "in_progress"
        BY <2>2, <3>3 DEF SessionStatus, Terminal
      <4> QED BY <2>3, <3>3, <4>1
    <3>4. CASE /\ Decoded(t) /\ SessionStatus(tool[t].body) \notin Terminal
               /\ \/ tool' = [tool EXCEPT ![t].stage = "wait", ![t].body = "none"]
                  \/ Finish(t, "in_progress")
      <4>1. w.body # "number" => ~(seen[t] \subseteq Terminal)
        BY <2>2, <3>4 DEF SessionStatus
      <4>2. "in_progress" \notin Terminal
        BY DEF Terminal
      <4> QED BY <2>3, <2>4, <3>4, <4>1, <4>2
    <3> QED BY <2>7, <3>1, <3>2, <3>3, <3>4 DEF PollAnswer
  <2> QED BY <1>4, <2>6, <2>7
<1> QED BY <1>3, <1>4

\* A tool call begins, or its caller has the result.
LEMMA InvokeKeeps ==
  ASSUME CallTyped, PollInv, NEW t \in Calls, Reply(t) \/ \E op \in Ops(dep) : Invoke(t, op)
  PROVE  PollInv'
<1>0. PollOK(tool[t], call[t], seen[t]) /\ inv \in Phases /\ seen \in [Calls -> SUBSET Phases]
  BY DEF PollInv
<1>1. CASE Reply(t)
  <2>1. /\ tool' = [tool EXCEPT ![t] = NoTool] /\ seen' = [seen EXCEPT ![t] = {}] /\ UNCHANGED inv
        /\ call' = [call EXCEPT ![t] = call[t]] /\ call[t].pc = "idle"
    BY <1>0, <1>1 DEF Reply, resilienceVars, CallTyped, PollOK
  <2>2. NoTool \in ToolRecords /\ NoTool.op = "none" /\ NoTool.stage = "idle"
    BY DEF NoTool, ToolRecords, Phases
  <2>3. PollOK(NoTool, call[t], {})
    BY <2>1, <2>2 DEF PollOK
  <2>4. /\ seen' \in [Calls -> SUBSET Phases] /\ seen'[t] = {} /\ {} \in SUBSET Phases /\ inv' \in Phases
        /\ \A q \in Calls \ {t} : tool[q].op = "poll" => seen[q] \subseteq seen'[q]
    BY <1>0, <2>1
  <2> QED BY <2>1, <2>2, <2>3, <2>4, ToolKeeps
<1>2. ASSUME NEW op \in Ops(dep), Invoke(t, op)
      PROVE  PollInv'
  <2> DEFINE st == IF op = "select" THEN "connect" ELSE "ask"
             v == [NoTool EXCEPT !.op = op, !.polls = 1, !.stage = st]
             s == IF op = "poll" THEN {inv} ELSE {}
             c == [NoCall EXCEPT !.pc = "gate", !.req = RequestOf(op)]
  <2>1. tool' = [tool EXCEPT ![t] = v] /\ seen' = [seen EXCEPT ![t] = s] /\ UNCHANGED inv /\ tool[t].op = "none"
    BY <1>2 DEF Invoke
  <2>2. call[t].pc = "idle"
    BY <1>0, <2>1 DEF PollOK
  <2>3. op \in {"start", "poll", "cancel", "select", "query", "operation", "watch"}
    BY DEF Ops, K8sOps, CallTyped
  <2>4. /\ v \in ToolRecords /\ v.op = op /\ v.stage = st /\ v.op # "none"
    BY <2>3 DEF NoTool, ToolRecords, Phases, K8sOps
  <2>5. /\ seen' \in [Calls -> SUBSET Phases] /\ seen'[t] = s /\ s \in SUBSET Phases /\ inv' \in Phases
        /\ \A q \in Calls \ {t} : tool[q].op = "poll" => seen[q] \subseteq seen'[q]
    BY <1>0, <2>1
  <2>6. CASE op \in {"select", "watch"}
    <3>1. call' = [call EXCEPT ![t] = call[t]]
      BY <1>2, <2>6 DEF Invoke, resilienceVars, CallTyped
    <3> HIDE DEF v, s
    <3>2. PollOK(v, call[t], s)
      BY <2>2, <2>4, <2>6 DEF PollOK
    <3> QED BY <2>1, <2>4, <2>5, <3>1, <3>2, ToolKeeps
  <2>7. CASE op \notin {"select", "watch"}
    <3>1. call' = [call EXCEPT ![t] = c]
      BY <1>2, <2>7 DEF Invoke, Start
    <3>2. c.pc = "gate"
      BY DEF NoCall
    <3> HIDE DEF v, s, c
    <3>3. PollOK(v, c, s)
      BY <2>4, <2>7, <3>2 DEF PollOK
    <3> QED BY <2>1, <2>4, <2>5, <3>1, <3>3, ToolKeeps
  <2> QED BY <2>6, <2>7
<1> QED BY <1>1, <1>2

\* KA goes on with the investigation.
LEMMA ProgressKeeps ==
  ASSUME CallTyped, PollInv, NEW i \in Terminal \cup {"running", "gone"}, KAProgress(i)
  PROVE  PollInv'
<1>1. inv' \in Phases /\ UNCHANGED <<tool, call>> /\ i \in Phases
  BY DEF KAProgress, resilienceVars, Phases
<1>2. seen' = [t \in Calls |-> IF tool[t].op = "poll" THEN seen[t] \cup {i} ELSE {}]
  BY DEF KAProgress, Observe
<1>3. seen' \in [Calls -> SUBSET Phases]
  BY <1>1, <1>2 DEF PollInv
<1>4. ASSUME NEW t \in Calls PROVE PollOK(tool[t], call[t], seen'[t])
  <2>1. PollOK(tool[t], call[t], seen[t]) /\ (tool[t].op = "poll" => seen[t] \subseteq seen'[t])
    BY <1>2 DEF PollInv
  <2> QED BY <2>1, SeeingMore
<1> QED BY <1>1, <1>3, <1>4 DEF PollInv

\* Every step of the tools keeps PollInv.
LEMMA ToolsKeepPolls == CallTyped /\ PollInv /\ [InvestigationNext]_investigationVars => PollInv'
<1> SUFFICES ASSUME CallTyped, PollInv, [InvestigationNext]_investigationVars
             PROVE  PollInv'
  OBVIOUS
<1>1. ASSUME NEW t \in Calls, ToolStep(t)
      PROVE  PollInv'
  BY <1>1, TransportKeepsPolls, ExchangeKeeps, OtherAnswersKeep, DirectAnswersKeep, PollKeeps DEF ToolStep
<1>2. CASE UNCHANGED <<inv, tool, seen, call>>
  BY <1>2 DEF PollInv
<1>3. CASE Environment
  BY <1>2, <1>3, ProgressKeeps DEF Environment, Expire, Healthy, toolVars
<1>4. CASE UNCHANGED investigationVars
  BY <1>2, <1>4 DEF investigationVars
<1> QED BY <1>1, <1>3, <1>4, InvokeKeeps DEF InvestigationNext

\* PollInv holds at the start.
LEMMA InitPolls == InvestigationInit => PollInv
<1>1. NoTool \in ToolRecords /\ NoTool.op = "none" /\ NoTool.stage = "idle"
  BY DEF NoTool, ToolRecords, Phases
<1>2. NoCall.pc = "idle"
  BY DEF NoCall
<1>3. PollOK(NoTool, NoCall, {})
  BY <1>1, <1>2 DEF PollOK
<1> QED BY <1>1, <1>3 DEF InvestigationInit, ResilienceInit, PollInv, Phases

\* For any number of tools, polls, retries and trials: a poll calls an
\* investigation completed, failed or cancelled only when KA had it so at some time
\* during the call, and in progress only when it was not over at some time of it,
\* unless KA's status is no string.
THEOREM PollsTellTheTruth == InvestigationSpec => []PollTellsTheTruth
<1>1. TransportInv => CallTyped
  BY DEF TransportInv
<1>2. InvestigationSpec => []PollInv
  BY <1>1, InitPolls, ToolsKeepPolls, TransportInvariant, PTL DEF InvestigationSpec
<1>3. PollInv => PollTellsTheTruth
  BY DEF PollInv, PollOK, PollTellsTheTruth, ErrorRead
<1> QED BY <1>2, <1>3, PTL

-----------------------------------------------------------------------------
(* What is said of a POST.                                                  *)

Posts == {"start", "cancel"}

\* What holds of a tool call w that posts, its request c and how often KA executed it,
\* n: an answer on its way, and the result, tell whether n is 0 or 1.
ToldOK(d, w, c, n) == w.op \in Posts =>
  /\ d = "ka" /\ n <= 1
  /\ w.stage \in {"ask", "done"}
  /\ c.pc # "idle" => ~c.req.idempotent
  /\ c.pc = "after" /\ c.out = "ok" => n = 1
  /\ c.pc = "after" /\ c.out \in {"refused", "open"} => n = 0
  /\ w.stage = "done" /\ w.res \in {"started", "undecodable", "cancelSent"} => n = 1
  /\ w.stage = "done" /\ w.res = "temporarilyUnavailable" => n = 0

ToldInv == \A t \in Calls : ToldOK(dep, tool[t], call[t], ran[t])

\* Only t changes what it knows and what was done for it.
Alone(t) ==
  /\ UNCHANGED dep
  /\ \A q \in Calls \ {t} : tool'[q] = tool[q] /\ call'[q] = call[q] /\ ran'[q] = ran[q]

\* Then its part of the invariant is the one to look at.
LEMMA AloneKeeps ==
  ASSUME ToldInv, NEW t \in Calls, Alone(t), ToldOK(dep, tool'[t], call'[t], ran'[t])
  PROVE  ToldInv'
<1>1. ASSUME NEW q \in Calls PROVE ToldOK(dep', tool'[q], call'[q], ran'[q])
  <2>1. CASE q = t
    BY <2>1 DEF Alone
  <2>2. CASE q # t
    <3>1. ToldOK(dep, tool[q], call[q], ran[q])
      BY DEF ToldInv
    <3> QED BY <2>2, <3>1 DEF Alone
  <2> QED BY <2>1, <2>2
<1> QED BY <1>1 DEF ToldInv

\* What the transport does for t, it does for t alone.
LEMMA CallAlone ==
  ASSUME CallTyped, NEW t \in Calls, CallStep(t) \/ ContextDone(t) \/ \E r : Start(t, r)
  PROVE  UNCHANGED dep /\ \A q \in Calls \ {t} : call'[q] = call[q] /\ ran'[q] = ran[q]
<1>1. CASE Admit(t)
  BY <1>1 DEF Admit, CallTyped
<1>2. CASE Refuse(t) \/ Record(t) \/ StopRetrying(t) \/ ContextDone(t) \/ \E r : Start(t, r)
  BY <1>2 DEF Refuse, Record, StopRetrying, ContextDone, Start, CallTyped
<1>3. ASSUME NEW o, NEW x, Attempt(t, o, x)
      PROVE  UNCHANGED dep /\ \A q \in Calls \ {t} : call'[q] = call[q] /\ ran'[q] = ran[q]
  BY <1>3 DEF Attempt, CallTyped
<1>4. ASSUME NEW ok, Retry(t, ok)
      PROVE  UNCHANGED dep /\ \A q \in Calls \ {t} : call'[q] = call[q] /\ ran'[q] = ran[q]
  BY <1>4 DEF Retry, CallTyped
<1> QED BY <1>1, <1>2, <1>3, <1>4 DEF CallStep

\* A tool that does not post goes on, or a call begins that does not.
LEMMA SilentKeeps ==
  ASSUME CallTyped, PollInv, ToldInv, NEW t \in Calls,
         \/ UNCHANGED resilienceVars
         \/ CallStep(t) \/ ContextDone(t) \/ \E r : Start(t, r),
         NEW w, tool' = [tool EXCEPT ![t] = w], w.op \notin Posts
  PROVE  ToldInv'
<1>1. tool'[t] = w /\ \A q \in Calls \ {t} : tool'[q] = tool[q]
  BY DEF PollInv
<1>2. UNCHANGED dep /\ \A q \in Calls \ {t} : call'[q] = call[q] /\ ran'[q] = ran[q]
  BY CallAlone DEF resilienceVars
<1>3. ToldOK(dep, tool'[t], call'[t], ran'[t])
  BY <1>1 DEF ToldOK
<1> QED BY <1>1, <1>2, <1>3, AloneKeeps DEF Alone

\* The transport does not tell the tools before it returns.
LEMMA TransportKeepsTold ==
  ASSUME TransportInv, PollInv, ToldInv, NEW t \in Calls, Transport(t)
  PROVE  ToldInv'
<1>1. PICK k : k = call[t]
  OBVIOUS
<1>2. /\ k \in CallRecords /\ k.pc \in {"gate", "send", "backoff"} /\ UNCHANGED tool
      /\ SentOnce(k, ran[t]) /\ ToldOK(dep, tool[t], k, ran[t])
  BY <1>1 DEF CallTyped, TransportInv, ToldInv, Transport, Admit, Retry, StopRetrying, ContextDone, At, toolVars
<1>3. ran'[t] = ran[t] /\ Alone(t)
  <2>1. UNCHANGED <<ran, dep, tool>>
    BY DEF Transport, Admit, Retry, StopRetrying, ContextDone, toolVars
  <2>2. \A q \in Calls \ {t} : call'[q] = call[q]
    BY CallAlone DEF Transport, CallStep, TransportInv
  <2> QED BY <2>1, <2>2 DEF Alone
<1>4. PICK c : /\ call'[t] = c
               /\ \/ c = Ended(k, "ctx") \/ c = Ended(k, "failed")
                  \/ c = [k EXCEPT !.pc = "send", !.attempt = 1]
                  \/ c = [k EXCEPT !.pc = "send", !.attempt = k.attempt + 1]
                  \/ c = [k EXCEPT !.done = TRUE]
  <2>0. call \in [Calls -> CallRecords]
    BY DEF TransportInv, CallTyped
  <2>1. CASE Admit(t)
    BY <1>1, <2>0, <2>1 DEF Admit
  <2>2. CASE Retry(t, TRUE)
    BY <1>1, <2>0, <2>2 DEF Retry
  <2>3. CASE Retry(t, FALSE)
    BY <1>1, <2>0, <2>3 DEF Retry
  <2>4. CASE StopRetrying(t)
    BY <1>1, <2>0, <2>4 DEF StopRetrying
  <2>5. CASE ContextDone(t)
    BY <1>1, <2>0, <2>5 DEF ContextDone
  <2> QED BY <2>1, <2>2, <2>3, <2>4, <2>5 DEF Transport
<1>5. c.req = k.req /\ (c.pc = "after" => c.out \notin {"ok", "refused", "open"}) /\ k.pc # "idle"
  BY <1>2, <1>4 DEF CallRecords, Ended
<1>6. ToldOK(dep, tool[t], c, ran[t])
  BY <1>2, <1>5 DEF ToldOK
<1>7. ToldOK(dep, tool'[t], call'[t], ran'[t])
  BY <1>2, <1>3, <1>4, <1>6
<1> QED BY <1>3, <1>7, AloneKeeps

\* The answer to an attempt tells whether KA executed it, when it is a success or the
\* connection was refused; a POST has one attempt.
LEMMA ExchangeKeepsTold ==
  ASSUME TransportInv, PollInv, ToldInv, NEW t \in Calls, Exchanges(t)
  PROVE  ToldInv'
<1>1. PICK o \in Statuses \cup Errors, x \in BOOLEAN, b \in {"none", "number", "undecodable", inv} : Exchange(t, o, x, b)
  BY DEF Exchanges
<1>2. PICK k, w, n : k = call[t] /\ w = tool[t] /\ n = ran[t]
  OBVIOUS
<1>3. /\ k \in CallRecords /\ k.pc = "send" /\ n \in Nat /\ SentOnce(k, n)
      /\ w \in ToolRecords /\ ToldOK(dep, w, k, n)
  BY <1>1, <1>2 DEF CallTyped, TransportInv, PollInv, ToldInv, Exchange, Attempt, At
<1>4. tool'[t] = [w EXCEPT !.body = b] /\ Alone(t)
  <2>1. tool' = [tool EXCEPT ![t].body = b] /\ tool \in [Calls -> ToolRecords]
    BY <1>1 DEF Exchange, PollInv
  <2>2. UNCHANGED dep /\ \A q \in Calls \ {t} : call'[q] = call[q] /\ ran'[q] = ran[q]
    BY <1>1, CallAlone DEF Exchange, CallStep, TransportInv
  <2> QED BY <1>2, <2>1, <2>2 DEF Alone
<1>5. x \in Executed(o) /\ ran'[t] = IF x /\ ~k.req.idempotent THEN n + 1 ELSE n
  BY <1>1, <1>2 DEF Exchange, Attempt, TransportInv, CallTyped
<1>6. PICK c : /\ call'[t] = c
               /\ \/ c = [k EXCEPT !.pc = "backoff"]
                  \/ c = Ended(k, IF isRetryableStatus(o) THEN "exhausted" ELSE o)
  BY <1>1, <1>2 DEF Exchange, Attempt, TransportInv, CallTyped
<1>7. /\ c.req = k.req
      /\ c.pc = "after" /\ c.out = "ok" => o = "ok"
      /\ c.pc = "after" /\ c.out \in {"refused", "open"} => o = "refused"
  BY <1>3, <1>6 DEF CallRecords, Ended, Statuses, Errors
<1>8. (o = "ok" => x) /\ (o = "refused" => ~x)
  BY <1>5 DEF Executed
<1>9. PICK v : v = tool'[t] /\ v.op = w.op /\ v.stage = w.stage /\ v.res = w.res
  BY <1>3, <1>4 DEF ToolRecords
<1>10. w.op \in Posts => dep = "ka" /\ ~k.req.idempotent /\ w.stage = "ask" /\ n = 0
  <2>1. w.op \in Posts => dep = "ka" /\ ~k.req.idempotent
    BY <1>3 DEF ToldOK
  <2>2. w.op \in Posts => w.stage = "ask"
    <3>1. PollOK(w, k, seen[t])
      BY <1>2 DEF PollInv
    <3> QED BY <1>3, <3>1 DEF ToldOK, PollOK
  <2>3. w.op \in Posts => n = 0
    BY <1>3, <2>1 DEF SentOnce, Config, KAConfig
  <2> QED BY <2>1, <2>2, <2>3
<1>11. PICK m : m = ran'[t] /\ (w.op \in Posts => m = IF x THEN 1 ELSE 0)
  BY <1>5, <1>10, SMT
<1>12. ToldOK(dep, v, c, m)
  BY <1>7, <1>8, <1>9, <1>10, <1>11, SMT DEF ToldOK
<1> QED BY <1>4, <1>6, <1>9, <1>11, <1>12, AloneKeeps

\* Analyze and Cancel make of the answer what the caller is told.
LEMMA PostAnswersKeep ==
  ASSUME TransportInv, PollInv, ToldInv, NEW t \in Calls,
         CancelAnswer(t) \/ \E ok \in BOOLEAN : StartAnswer(t, ok)
  PROVE  ToldInv'
<1>1. PICK k, w, n : k = call[t] /\ w = tool[t] /\ n = ran[t]
  OBVIOUS
<1>2. /\ k \in CallRecords /\ n \in Nat /\ SentOnce(k, n) /\ w \in ToolRecords /\ ToldOK(dep, w, k, n)
      /\ Return(t) /\ w.op \in Posts
  BY <1>1 DEF TransportInv, CallTyped, PollInv, ToldInv, CancelAnswer, StartAnswer, Posts
<1>3. Return(t) => CallStep(t)
  BY DEF Return, CallStep
<1>4. call'[t] = NoCall /\ ran'[t] = n /\ NoCall.pc = "idle"
  BY <1>1, <1>2 DEF Return, Refuse, Record, NoCall, TransportInv, CallTyped
<1>5. PICK r : /\ Finish(t, r)
               /\ r \in {"started", "undecodable", "cancelSent"} => Outcome(t) = "ok"
               /\ r = "temporarilyUnavailable" => Outcome(t) \in {"refused", "open"}
  <2>1. /\ kaToUserFriendlyError(Outcome(t)) \notin {"started", "undecodable", "cancelSent"}
        /\ kaToUserFriendlyError(Outcome(t)) = "temporarilyUnavailable" => Outcome(t) \in {"refused", "open"}
    BY DEF kaToUserFriendlyError
  <2>2. CASE CancelAnswer(t)
    <3>1. CASE Outcome(t) = "ok"
      BY <2>2, <3>1, SMT DEF CancelAnswer
    <3>2. CASE Outcome(t) # "ok"
      BY <2>1, <2>2, <3>2 DEF CancelAnswer
    <3> QED BY <3>1, <3>2
  <2>3. ASSUME NEW ok \in BOOLEAN, StartAnswer(t, ok)
        PROVE  \E r : /\ Finish(t, r)
                      /\ r \in {"started", "undecodable", "cancelSent"} => Outcome(t) = "ok"
                      /\ r = "temporarilyUnavailable" => Outcome(t) \in {"refused", "open"}
    <3>1. CASE Outcome(t) = "ok"
      BY <2>3, <3>1, SMT DEF StartAnswer
    <3>2. CASE Outcome(t) # "ok"
      BY <2>1, <2>3, <3>2 DEF StartAnswer
    <3> QED BY <3>1, <3>2
  <2> QED BY <2>2, <2>3
<1>6. (Outcome(t) = "ok" => n = 1) /\ (Outcome(t) \in {"refused", "open"} => n = 0)
  <2>1. dep = "ka" /\ k.pc \in {"gate", "after"}
    BY <1>1, <1>2 DEF ToldOK, Return, Refuse, Record, At
  <2>2. CASE k.pc = "gate"
    <3>1. n = 0
      BY <1>2, <2>1, <2>2 DEF SentOnce, Config, KAConfig, ToldOK
    <3>2. Outcome(t) # "ok"
      BY <1>1, <2>2 DEF Outcome, At
    <3> QED BY <3>1, <3>2
  <2>3. CASE k.pc = "after"
    <3>1. Outcome(t) = k.out \/ Outcome(t) = "exhausted"
      BY <1>1, <2>3 DEF Outcome, At
    <3> QED BY <1>2, <2>3, <3>1 DEF ToldOK
  <2> QED BY <2>1, <2>2, <2>3
<1>7. tool'[t] = [w EXCEPT !.stage = "done", !.res = r] /\ Alone(t)
  <2>1. tool' = [tool EXCEPT ![t].stage = "done", ![t].res = r] /\ tool \in [Calls -> ToolRecords]
    BY <1>5 DEF Finish, PollInv
  <2>2. UNCHANGED dep /\ \A q \in Calls \ {t} : call'[q] = call[q] /\ ran'[q] = ran[q]
    BY <1>2, <1>3, CallAlone DEF TransportInv
  <2> QED BY <1>1, <2>1, <2>2 DEF Alone
<1>8. PICK v : v = tool'[t] /\ v.op = w.op /\ v.stage = "done" /\ v.res = r
  BY <1>2, <1>7 DEF ToolRecords
<1>9. ToldOK(dep, v, NoCall, n)
  BY <1>2, <1>4, <1>5, <1>6, <1>8 DEF ToldOK
<1> QED BY <1>4, <1>7, <1>8, <1>9, AloneKeeps

\* The other answers are of tools that do not post.
LEMMA OthersTellNothing ==
  ASSUME TransportInv, PollInv, ToldInv, NEW t \in Calls,
         \/ QueryAnswer(t) \/ OperationAnswer(t) \/ PollAnswer(t) \/ PollAgain(t) \/ PollCancelled(t)
         \/ FetchResult(t) \/ ResultAnswer(t)
         \/ \E ok \in BOOLEAN : SelectConnect(t, ok) \/ WatchAnswer(t, ok)
         \/ \E a \in {"callFailed", "isError", "notJSON", "object", "empty"} : SelectCall(t, a)
  PROVE  ToldInv'
<1>1. PICK w : w = tool[t]
  OBVIOUS
<1>2. w \in ToolRecords /\ tool \in [Calls -> ToolRecords] /\ PollOK(w, call[t], seen[t])
      /\ ToldOK(dep, w, call[t], ran[t]) /\ CallTyped
  BY <1>1 DEF PollInv, ToldInv, TransportInv
<1>3. w.op \notin Posts
  <2>1. \/ w.op \in {"query", "operation", "poll", "watch"}
        \/ w.stage \in {"wait", "fetch", "result", "connect", "session"}
    BY <1>1 DEF QueryAnswer, OperationAnswer, PollAnswer, PollAgain, PollCancelled, FetchResult, ResultAnswer,
                SelectConnect, WatchAnswer, SelectCall
  <2> QED BY <1>2, <2>1 DEF ToldOK, Posts
<1>4. UNCHANGED resilienceVars \/ CallStep(t) \/ \E r : Start(t, r)
  BY DEF QueryAnswer, OperationAnswer, PollAnswer, PollAgain, PollCancelled, FetchResult, ResultAnswer,
         SelectConnect, WatchAnswer, SelectCall, Return, CallStep
<1>5. PICK st, p, b, r : tool' = [tool EXCEPT ![t] = [w EXCEPT !.stage = st, !.polls = p, !.body = b, !.res = r]]
  <2> DEFINE To(st, p, b, r) == tool' = [tool EXCEPT ![t] = [w EXCEPT !.stage = st, !.polls = p, !.body = b, !.res = r]]
  <2>1. ASSUME NEW r, Finish(t, r) PROVE To("done", w.polls, w.body, r)
    BY <1>1, <1>2, <2>1 DEF Finish, ToolRecords
  <2>2. ASSUME NEW st, tool' = [tool EXCEPT ![t].stage = st] PROVE To(st, w.polls, w.body, w.res)
    BY <1>1, <1>2, <2>2 DEF ToolRecords
  <2>3. ASSUME NEW st, tool' = [tool EXCEPT ![t].stage = st, ![t].body = "none"] PROVE To(st, w.polls, "none", w.res)
    BY <1>1, <1>2, <2>3 DEF ToolRecords
  <2>4. ASSUME PollAgain(t) PROVE To("ask", w.polls + 1, w.body, w.res)
    BY <1>1, <1>2, <2>4 DEF PollAgain, ToolRecords
  <2> HIDE DEF To
  <2>5. \E st, p, b, r : To(st, p, b, r)
    <3>1. CASE PollAnswer(t)
      BY <2>1, <2>3, <3>1 DEF PollAnswer
    <3>2. CASE PollAgain(t)
      BY <2>4, <3>2
    <3>3. CASE FetchResult(t) \/ \E ok \in BOOLEAN : SelectConnect(t, ok)
      BY <2>1, <2>2, <3>3 DEF FetchResult, SelectConnect
    <3>4. CASE \/ QueryAnswer(t) \/ OperationAnswer(t) \/ PollCancelled(t) \/ ResultAnswer(t)
               \/ \E ok \in BOOLEAN : WatchAnswer(t, ok)
      BY <2>1, <3>4 DEF QueryAnswer, OperationAnswer, PollCancelled, ResultAnswer, WatchAnswer
    <3>5. CASE \E a \in {"callFailed", "isError", "notJSON", "object", "empty"} : SelectCall(t, a)
      BY <2>1, <3>5 DEF SelectCall
    <3> QED BY <3>1, <3>2, <3>3, <3>4, <3>5
  <2> QED BY <2>5 DEF To
<1>6. PICK v : v = [w EXCEPT !.stage = st, !.polls = p, !.body = b, !.res = r]
  OBVIOUS
<1>7. v.op \notin Posts
  BY <1>2, <1>3, <1>6 DEF ToolRecords
<1> QED BY <1>2, <1>4, <1>5, <1>6, <1>7, SilentKeeps

\* A tool call begins, or its caller has the result.
LEMMA InvokeTellsNothing ==
  ASSUME TransportInv, PollInv, ToldInv, NEW t \in Calls, Reply(t) \/ \E op \in Ops(dep) : Invoke(t, op)
  PROVE  ToldInv'
<1>0. CallTyped
  BY DEF TransportInv
<1>1. CASE Reply(t)
  <2>1. tool' = [tool EXCEPT ![t] = NoTool] /\ NoTool.op \notin Posts /\ UNCHANGED resilienceVars
    BY <1>1 DEF Reply, NoTool, Posts
  <2> QED BY <1>0, <2>1, SilentKeeps
<1>2. ASSUME NEW op \in Ops(dep), Invoke(t, op)
      PROVE  ToldInv'
  <2>1. PICK w : /\ tool' = [tool EXCEPT ![t] = w]
                 /\ w = [NoTool EXCEPT !.op = op, !.polls = 1, !.stage = IF op = "select" THEN "connect" ELSE "ask"]
    BY <1>2 DEF Invoke
  <2>2. w.op = op /\ (op \in Posts => w.stage = "ask")
    BY <2>1 DEF NoTool, Posts
  <2>3. UNCHANGED resilienceVars \/ \E r : Start(t, r)
    BY <1>2 DEF Invoke
  <2>4. CASE op \notin Posts
    BY <1>0, <2>1, <2>2, <2>3, <2>4, SilentKeeps
  <2>5. CASE op \in Posts
    <3>1. dep = "ka"
      BY <1>0, <2>5 DEF Ops, K8sOps, Posts, CallTyped
    <3>2. Start(t, RequestOf(op))
      BY <1>2, <2>5 DEF Invoke, Posts
    <3>3. PICK e : e = RequestOf(op) /\ ~e.idempotent
      <4>1. RequestOf(op).idempotent = (op \notin {"start", "cancel"})
        BY DEF RequestOf
      <4> QED BY <2>5, <4>1 DEF Posts
    <3>4. PICK c : call'[t] = c /\ c.pc = "gate" /\ c.req = e /\ ran'[t] = 0
      <4>1. /\ call' = [call EXCEPT ![t] = [NoCall EXCEPT !.pc = "gate", !.req = e]]
            /\ ran' = [ran EXCEPT ![t] = 0]
        BY <3>2, <3>3 DEF Start
      <4> DEFINE d == [NoCall EXCEPT !.pc = "gate", !.req = e]
      <4>2. d.pc = "gate" /\ d.req = e
        BY DEF NoCall
      <4> HIDE DEF d
      <4>3. PICK c : c = d /\ c.pc = "gate" /\ c.req = e
        BY <4>2
      <4> QED BY <1>0, <4>1, <4>3 DEF CallTyped, d
    <3>5. tool'[t] = w /\ Alone(t)
      <4>1. tool'[t] = w /\ \A q \in Calls \ {t} : tool'[q] = tool[q]
        BY <2>1 DEF PollInv
      <4> QED BY <1>0, <3>2, <4>1, CallAlone DEF Alone
    <3>6. ToldOK(dep, w, c, 0)
      BY <2>2, <2>5, <3>1, <3>3, <3>4, SMT DEF ToldOK
    <3> QED BY <3>4, <3>5, <3>6, AloneKeeps
  <2> QED BY <2>4, <2>5
<1> QED BY <1>1, <1>2

\* Every step of the tools keeps ToldInv.
LEMMA ToolsKeepTold ==
  TransportInv /\ PollInv /\ ToldInv /\ [InvestigationNext]_investigationVars => ToldInv'
<1> SUFFICES ASSUME TransportInv, PollInv, ToldInv, [InvestigationNext]_investigationVars
             PROVE  ToldInv'
  OBVIOUS
<1>1. ASSUME NEW t \in Calls, ToolStep(t)
      PROVE  ToldInv'
  BY <1>1, TransportKeepsTold, ExchangeKeepsTold, PostAnswersKeep, OthersTellNothing DEF ToolStep
<1>2. CASE UNCHANGED <<dep, tool, call, ran>>
  BY <1>2 DEF ToldInv
<1>3. CASE Environment
  BY <1>2, <1>3 DEF Environment, Expire, Healthy, KAProgress, toolVars, resilienceVars
<1>4. CASE UNCHANGED investigationVars
  BY <1>2, <1>4 DEF investigationVars
<1> QED BY <1>1, <1>3, <1>4, InvokeTellsNothing DEF InvestigationNext

\* For any number of tools, retries and trials: KA starts or cancels an investigation
\* for a tool call at most once, has done so when the caller reads of success or
\* of an answer that cannot be read, and has not when the caller reads that the
\* service is unavailable for a time.
THEOREM PostsAreToldTruly == InvestigationSpec => []PostsToldTruly
<1>1. InvestigationInit => ToldInv
  <2>1. NoTool.op \notin Posts
    BY DEF NoTool, Posts
  <2>2. InvestigationInit => \A t \in Calls : tool[t] = NoTool
    BY DEF InvestigationInit
  <2> QED BY <2>1, <2>2 DEF ToldInv, ToldOK
<1>2. TransportInv => CallTyped
  BY DEF TransportInv
<1>3. ToldInv => PostsToldTruly
  BY DEF ToldInv, ToldOK, PostsToldTruly, Posts
<1> QED BY <1>1, <1>2, <1>3, InitPolls, ToolsKeepPolls, ToolsKeepTold, TransportInvariant, PTL DEF InvestigationSpec

-----------------------------------------------------------------------------
(* Withdrawn keys.                                                          *)

ReqRecords ==
  [pc : {"idle", "gate", "fetch", "transit", "store", "fallback", "check"},
   keys : SUBSET Keys, age : 0 .. FetchTimeout]

\* A request without keys.
LEMMA EmptyTyped ==
  ASSUME NEW p \in {"idle", "fallback"}, NEW q, q = [pc |-> p, keys |-> {}, age |-> 0]
  PROVE  q \in ReqRecords /\ q.pc = p
<1>1. 0 \in 0 .. FetchTimeout /\ {} \in SUBSET Keys
  BY TokenAssumption, SMT
<1>2. q.pc = p
  OBVIOUS
<1> QED BY <1>1, <1>2 DEF ReqRecords

\* The types of what the keys depend on.
KeysTyped ==
  /\ key \in [Keys -> {"future", "published", "withdrawn"}]
  /\ gone \in [Keys -> Nat]
  /\ cache \in [has : BOOLEAN, keys : SUBSET Keys, age : 0 .. MaxAge]
  /\ req \in [Reqs -> ReqRecords]

\* None of keys was withdrawn more than n ticks ago.
GoneBy(keys, n) == \A k \in keys : gone[k] <= n

\* What a request knows of the keys it holds.
HoldsWell(q) ==
  /\ q.pc \in {"transit", "store"} => GoneBy(q.keys, q.age)
  /\ q.pc = "check" => GoneBy(q.keys, maxStaleness + FetchTimeout)

\* The inductive invariant: an answer under way is no older than its fetch, and the
\* cached one no older than its entry and a fetch together.
KeysInv ==
  /\ KeysTyped
  /\ \A k \in Keys : key[k] # "withdrawn" => gone[k] = 0
  /\ cache.has => GoneBy(cache.keys, cache.age + FetchTimeout)
  /\ \A r \in Reqs : HoldsWell(req[r])

\* At the start nothing is cached or held.
LEMMA InitKeys == AuthInit => KeysInv
<1> SUFFICES ASSUME AuthInit PROVE KeysInv
  OBVIOUS
<1>1. NoReq \in ReqRecords /\ NoReq.pc = "idle"
  BY TokenAssumption, SMT DEF NoReq, ReqRecords
<1>2. NoKeys \in [has : BOOLEAN, keys : SUBSET Keys, age : 0 .. MaxAge] /\ ~NoKeys.has
  BY TokenAssumption, SMT DEF NoKeys, MaxAge
<1>3. KeysTyped
  BY <1>1, <1>2 DEF AuthInit, KeysTyped
<1>4. QED
  BY <1>1, <1>2, <1>3 DEF AuthInit, KeysInv, HoldsWell

\* A step of one request that leaves the clock and the issuer alone.
LEMMA RequestKeepsKeys ==
  ASSUME KeysInv, NEW r \in Reqs, NEW q \in ReqRecords, HoldsWell(q),
         req' = [req EXCEPT ![r] = q], UNCHANGED <<key, gone>>,
         UNCHANGED cache \/ /\ cache' = [has |-> TRUE, keys |-> q.keys, age |-> 0]
                            /\ GoneBy(q.keys, FetchTimeout)
  PROVE  KeysInv'
<1>1. KeysTyped'
  <2>1. req' \in [Reqs -> ReqRecords]
    BY DEF KeysInv, KeysTyped
  <2>2. cache' \in [has : BOOLEAN, keys : SUBSET Keys, age : 0 .. MaxAge]
    <3>1. q.keys \in SUBSET Keys /\ 0 \in 0 .. MaxAge
      BY TokenAssumption, SMT DEF MaxAge, ReqRecords
    <3>2. cache \in [has : BOOLEAN, keys : SUBSET Keys, age : 0 .. MaxAge]
      BY DEF KeysInv, KeysTyped
    <3>3. CASE UNCHANGED cache
      BY <3>2, <3>3
    <3>4. CASE cache' = [has |-> TRUE, keys |-> q.keys, age |-> 0]
      BY <3>1, <3>4
    <3>5. QED
      BY <3>3, <3>4
  <2>3. QED
    BY <2>1, <2>2 DEF KeysInv, KeysTyped
<1>2. (cache.has => GoneBy(cache.keys, cache.age + FetchTimeout))'
  BY TokenAssumption, SMT DEF KeysInv, GoneBy
<1>3. ASSUME NEW s \in Reqs PROVE HoldsWell(req[s])'
  <2>1. req'[s] = IF s = r THEN q ELSE req[s]
    BY DEF KeysInv, KeysTyped
  <2>2. HoldsWell(req[s])
    BY DEF KeysInv
  <2>3. QED
    BY <2>1, <2>2 DEF HoldsWell, GoneBy
<1>4. QED
  BY <1>1, <1>2, <1>3 DEF KeysInv

\* A request that holds no keys.
LEMMA EmptyHolds ==
  ASSUME NEW q \in ReqRecords, q.pc \in {"idle", "gate", "fetch", "fallback"}
  PROVE  HoldsWell(q)
  BY DEF HoldsWell

\* A request answers, or moves to where it holds no keys.
LEMMA AnswerKeepsKeys ==
  ASSUME KeysInv, NEW r \in Reqs, UNCHANGED <<key, gone, cache>>,
         \/ \E res : Answer(r, res)
         \/ Go(r, "gate") \/ Go(r, "fetch") \/ Go(r, "fallback")
  PROVE  KeysInv'
<1>1. ASSUME NEW res, Answer(r, res) PROVE KeysInv'
  <2>1. NoReq \in ReqRecords /\ NoReq.pc = "idle"
    BY TokenAssumption, SMT DEF NoReq, ReqRecords
  <2>2. req' = [req EXCEPT ![r] = NoReq]
    BY <1>1 DEF Answer
  <2>3. QED
    BY <2>1, <2>2, EmptyHolds, RequestKeepsKeys
<1>2. ASSUME NEW pc \in {"gate", "fetch", "fallback"}, Go(r, pc) PROVE KeysInv'
  <2> DEFINE q == [req[r] EXCEPT !.pc = pc]
  <2>1. req' = [req EXCEPT ![r] = q]
    BY <1>2 DEF Go
  <2>2. q \in ReqRecords /\ q.pc = pc
    BY DEF KeysInv, KeysTyped, ReqRecords
  <2> HIDE DEF q
  <2>3. QED
    BY <2>1, <2>2, EmptyHolds, RequestKeepsKeys
<1>3. QED
  BY <1>1, <1>2

\* A request takes the cached keys, which are not too old.
LEMMA HoldingKeepsKeys ==
  ASSUME KeysInv, NEW r \in Reqs, UNCHANGED <<key, gone, cache>>,
         cache.has, cache.age <= maxStaleness, Holding(r, cache.keys)
  PROVE  KeysInv'
<1> DEFINE q == [pc |-> "check", keys |-> cache.keys, age |-> 0]
<1>1. q \in ReqRecords /\ req' = [req EXCEPT ![r] = q]
  BY TokenAssumption, SMT DEF Holding, KeysInv, KeysTyped, ReqRecords
<1>2. q.pc = "check" /\ q.keys = cache.keys
  OBVIOUS
<1>3. cache.keys \in SUBSET Keys /\ cache.age \in Nat /\ \A k \in Keys : gone[k] \in Nat
  BY TokenAssumption, SMT DEF KeysInv, KeysTyped, MaxAge
<1>4. \A k \in cache.keys : gone[k] <= cache.age + FetchTimeout
  BY DEF KeysInv, GoneBy
<1> HIDE DEF q
<1>5. \A k \in cache.keys : gone[k] <= maxStaleness + FetchTimeout
  BY <1>3, <1>4, TokenAssumption, SMT
<1>6. HoldsWell(q)
  BY <1>2, <1>5 DEF HoldsWell, GoneBy
<1>7. QED
  BY <1>1, <1>6, RequestKeepsKeys

\* The steps of a request.
LEMMA RequestKeys ==
  ASSUME KeysInv, NEW r \in Reqs, ReqStep(r) \/ ClientLeaves(r) \/ Arrive(r)
  PROVE  KeysInv'
<1> USE TokenAssumption
<1>1. req[r] \in ReqRecords /\ HoldsWell(req[r]) /\ cache.age \in Nat
  BY SMT DEF KeysInv, KeysTyped, MaxAge
<1>2. CASE Arrive(r)
  <2>1. UNCHANGED <<key, gone, cache>>
    BY <1>2 DEF Arrive, BadHeader, Receive
  <2>2. \/ \E res : Answer(r, res)
        \/ Lookup(r)
    BY <1>2 DEF Arrive, BadHeader, Receive, fallbackToTokenReview, TokenReview
  <2>3. CASE Lookup(r)
    BY <1>1, <2>1, <2>3, AnswerKeepsKeys, HoldingKeepsKeys, SMT DEF Lookup
  <2>4. QED
    BY <2>1, <2>2, <2>3, AnswerKeepsKeys
<1>3. CASE Gate(r)
  BY <1>3, AnswerKeepsKeys DEF Gate
<1>4. CASE EndpointAnswers(r)
  <2> DEFINE q == [req[r] EXCEPT !.pc = "transit", !.keys = Published]
  <2>1. req' = [req EXCEPT ![r] = q] /\ UNCHANGED <<key, gone, cache>>
    BY <1>4 DEF EndpointAnswers
  <2>2. q \in ReqRecords /\ q.pc = "transit" /\ q.keys = Published /\ q.age = req[r].age
    BY <1>1 DEF ReqRecords, Published
  <2> HIDE DEF q
  <2>3. \A k \in Published : gone[k] = 0
    BY DEF KeysInv, Published
  <2>4. req[r].age \in Nat /\ 0 <= req[r].age
    BY <1>1, SMT DEF ReqRecords
  <2>5. HoldsWell(q)
    BY <2>2, <2>3, <2>4 DEF HoldsWell, GoneBy
  <2>6. QED
    BY <2>1, <2>2, <2>5, RequestKeepsKeys
<1>5. CASE FetchReturns(r)
  <2> DEFINE q == [req[r] EXCEPT !.pc = "store"]
  <2>1. req' = [req EXCEPT ![r] = q] /\ UNCHANGED <<key, gone, cache>> /\ req[r].pc = "transit"
    BY <1>5 DEF FetchReturns, Go, ReqAt
  <2>2. q \in ReqRecords /\ q.pc = "store" /\ q.keys = req[r].keys /\ q.age = req[r].age
    BY <1>1 DEF ReqRecords
  <2> HIDE DEF q
  <2>3. HoldsWell(q)
    BY <1>1, <2>1, <2>2 DEF HoldsWell
  <2>4. QED
    BY <2>1, <2>2, <2>3, RequestKeepsKeys
<1>6. CASE FetchError(r)
  <2> DEFINE q == [pc |-> "fallback", keys |-> {}, age |-> 0]
  <2>1. req' = [req EXCEPT ![r] = q] /\ UNCHANGED <<key, gone, cache>>
    BY <1>6 DEF FetchError
  <2>2. q \in ReqRecords /\ q.pc = "fallback"
    BY EmptyTyped
  <2> HIDE DEF q
  <2>3. QED
    BY <2>1, <2>2, EmptyHolds, RequestKeepsKeys
<1>7. CASE Store(r)
  <2> DEFINE ks == req[r].keys
             q == [pc |-> "check", keys |-> ks, age |-> 0]
  <2>1. /\ req' = [req EXCEPT ![r] = q] /\ UNCHANGED <<key, gone>> /\ req[r].pc = "store"
        /\ cache' = [has |-> TRUE, keys |-> ks, age |-> 0]
    BY <1>7 DEF Store, Holding, ReqAt
  <2>a. ks \in SUBSET Keys /\ req[r].age \in 0 .. FetchTimeout
    BY <1>1 DEF ReqRecords
  <2>b. \A k \in Keys : gone[k] \in Nat
    BY DEF KeysInv, KeysTyped
  <2>c. \A k \in ks : gone[k] <= req[r].age
    BY <1>1, <2>1 DEF HoldsWell, GoneBy
  <2>2. ks \in SUBSET Keys /\ \A k \in ks : gone[k] \in Nat /\ gone[k] <= FetchTimeout
    BY <2>a, <2>b, <2>c, SMT
  <2> HIDE DEF ks
  <2>3. q \in ReqRecords /\ q.keys = ks
    BY <2>2, SMT DEF ReqRecords
  <2>4. HoldsWell(q) /\ GoneBy(ks, FetchTimeout)
    BY <2>2, SMT DEF HoldsWell, GoneBy
  <2> HIDE DEF q
  <2>5. QED
    BY <2>1, <2>3, <2>4, RequestKeepsKeys
<1>8. CASE Fallback(r)
  BY <1>8, AnswerKeepsKeys, HoldingKeepsKeys DEF Fallback
<1>9. CASE \E t \in Tokens : Check(r, t)
  BY <1>9, AnswerKeepsKeys DEF Check
<1>10. QED
  BY <1>2, <1>3, <1>4, <1>5, <1>6, <1>7, <1>8, <1>9 DEF ReqStep, FetchFails, ClientLeaves

\* A tick: what is withdrawn and what is cached or under way age together.
LEMMA TickKeys == ASSUME KeysInv, Tick PROVE KeysInv'
<1> USE TokenAssumption
<1>1. /\ \A k \in Keys : gone[k] \in Nat /\ gone'[k] \in Nat
      /\ \A k \in Keys : gone'[k] <= gone[k] + 1 /\ gone'[k] <= MaxGone
      /\ gone' \in [Keys -> Nat] /\ key' = key
  BY SMT DEF Tick, KeysInv, KeysTyped, UpTo, MaxGone
<1>2. \A k \in Keys : key'[k] # "withdrawn" => gone'[k] = 0
  BY DEF Tick
<1>3. /\ cache' \in [has : BOOLEAN, keys : SUBSET Keys, age : 0 .. MaxAge]
      /\ cache.has => cache'.keys = cache.keys /\ cache'.age = UpTo(cache.age, MaxAge)
      /\ cache'.has = cache.has
  <2> DEFINE n == UpTo(cache.age, MaxAge)
  <2>1. cache \in [has : BOOLEAN, keys : SUBSET Keys, age : 0 .. MaxAge]
    BY DEF KeysInv, KeysTyped
  <2>2. n \in 0 .. MaxAge
    BY <2>1, SMT DEF UpTo, MaxAge
  <2>3. cache' = IF cache.has THEN [cache EXCEPT !.age = n] ELSE cache
    BY DEF Tick
  <2> HIDE DEF n
  <2>4. QED
    BY <2>1, <2>2, <2>3 DEF n
<1>4. ASSUME cache.has PROVE GoneBy(cache.keys, cache.age + FetchTimeout)'
  <2>1. cache.keys \subseteq Keys /\ cache.age \in 0 .. MaxAge /\ GoneBy(cache.keys, cache.age + FetchTimeout)
    BY <1>4 DEF KeysInv, KeysTyped
  <2>2. QED
    BY <1>1, <1>3, <1>4, <2>1, SMT DEF GoneBy, UpTo, MaxAge, MaxGone
<1>5. ASSUME NEW r \in Reqs PROVE req'[r] \in ReqRecords /\ HoldsWell(req[r])'
  <2> DEFINE q == req[r]
             n == q.age + 1
  <2>1. q \in ReqRecords /\ HoldsWell(q) /\ q.pc \in {"idle", "fetch", "transit"}
    BY DEF KeysInv, KeysTyped, Tick, Waiting
  <2>2. CASE q.pc = "idle"
    <3>1. req'[r] = q
      BY <2>2 DEF Tick
    <3> HIDE DEF q
    <3> QED BY <2>1, <2>2, <3>1 DEF HoldsWell
  <2>3. CASE q.pc # "idle"
    <3>1. req'[r] = [q EXCEPT !.age = n] /\ n \in 0 .. FetchTimeout
      BY <2>1, <2>3, SMT DEF Tick, ReqRecords
    <3> HIDE DEF q, n
    <3>2. req'[r] \in ReqRecords /\ req'[r].pc = q.pc /\ req'[r].keys = q.keys /\ req'[r].age = n
      BY <2>1, <3>1 DEF ReqRecords
    <3>3. q.pc = "transit" => \A k \in q.keys : k \in Keys /\ gone[k] + 1 <= n
      BY <1>1, <2>1, SMT DEF HoldsWell, GoneBy, ReqRecords, n
    <3>4. n \in Nat
      BY <3>1, SMT
    <3>5. QED
      BY <1>1, <2>1, <3>2, <3>3, <3>4, SMT DEF HoldsWell, GoneBy
  <2>4. QED
    BY <2>2, <2>3
<1>6. req' \in [Reqs -> ReqRecords]
  BY <1>5 DEF Tick
<1>7. QED
  BY <1>1, <1>2, <1>3, <1>4, <1>5, <1>6 DEF KeysInv, KeysTyped

\* The issuer and the loops beside the requests.
LEMMA OthersKeys ==
  ASSUME KeysInv, \/ evictLoop \/ JWKSHealthy \/ BreakerExpires \/ Outage
                  \/ \E k \in Keys : Publish(k) \/ Withdraw(k)
  PROVE  KeysInv'
<1>1. UNCHANGED <<gone, cache, req>>
  BY DEF evictLoop, JWKSHealthy, BreakerExpires, Outage, Publish, Withdraw
<1>2. key' \in [Keys -> {"future", "published", "withdrawn"}]
  BY DEF evictLoop, JWKSHealthy, BreakerExpires, Outage, Publish, Withdraw, KeysInv, KeysTyped
<1>3. \A k \in Keys : key'[k] # "withdrawn" => key[k] # "withdrawn"
  BY DEF evictLoop, JWKSHealthy, BreakerExpires, Outage, Publish, Withdraw, KeysInv, KeysTyped
<1>4. QED
  BY <1>1, <1>2, <1>3 DEF KeysInv, KeysTyped, HoldsWell, GoneBy

\* Every step keeps the invariant of the keys.
LEMMA KeysStep == KeysInv /\ [AuthNext]_authVars => KeysInv'
<1> SUFFICES ASSUME KeysInv, [AuthNext]_authVars PROVE KeysInv'
  OBVIOUS
<1>1. CASE AuthNext
  BY <1>1, RequestKeys, TickKeys, OthersKeys DEF AuthNext
<1>2. CASE UNCHANGED authVars
  BY <1>2 DEF authVars, KeysInv, KeysTyped, HoldsWell, GoneBy
<1>3. QED
  BY <1>1, <1>2

\* No token is checked against a key that was withdrawn longer ago than maxStaleness
\* and one fetch, whatever GetKeys of several requests store, in whichever order.
THEOREM WithdrawnKeysAreDropped == AuthSpec => []WithdrawnKeysExpire
<1>1. KeysInv => WithdrawnKeysExpire
  BY DEF KeysInv, HoldsWell, GoneBy, WithdrawnKeysExpire, ReqAt
<1>2. QED
  BY InitKeys, KeysStep, <1>1, PTL DEF AuthSpec

-----------------------------------------------------------------------------
(* Replayed tokens.                                                         *)

\* The types of the replay cache and of the tokens.
ReplayTyped ==
  /\ life \in [Tokens -> Int] /\ jtis \in [Tokens -> Int] /\ used \in [Tokens -> Nat]
  /\ \A t \in Tokens : life[t] <= Life

\* The inductive invariant: an accepted token has an entry that outlives it, until it
\* has expired.
ReplayInv ==
  /\ ReplayTyped
  /\ \A t \in Tokens :
       /\ used[t] <= 1
       /\ used[t] = 1 /\ life[t] >= 0 => jtis[t] # NoEntry /\ jtis[t] >= life[t]

\* Check with replay protection accepts no token that has an entry or has expired.
LEMMA CheckReplay ==
  ASSUME ReplayInv, ReplayProtection, ReplayTTL >= Life, NEW r \in Reqs, NEW t \in Tokens, Check(r, t)
  PROVE  ReplayInv'
<1> DEFINE res == CheckResult(r, t)
           n == IF res = "accepted" THEN used[t] + 1 ELSE used[t]
           j == IF res \in {"accepted", "cel_rule_failed"} THEN ReplayTTL ELSE jtis[t]
<1>1. res = "accepted" => life[t] >= 0 /\ jtis[t] = NoEntry
  BY DEF CheckResult, validateExpiry, Seen
<1>2. used' = [used EXCEPT ![t] = n] /\ jtis' = [jtis EXCEPT ![t] = j] /\ life' = life
  BY DEF Check, ReplayInv, ReplayTyped
<1> HIDE DEF res
<1>3. n \in Nat /\ n <= 1 /\ j \in Int
  BY <1>1, TokenAssumption, SMT DEF ReplayInv, ReplayTyped
<1>4. n = 1 /\ life[t] >= 0 => j # NoEntry /\ j >= life[t]
  BY <1>1, TokenAssumption, SMT DEF ReplayInv, ReplayTyped, NoEntry
<1> HIDE DEF n, j
<1>5. QED
  BY <1>2, <1>3, <1>4 DEF ReplayInv, ReplayTyped

\* Time ages a token and its entry alike, and an entry is evicted after it expired.
LEMMA TimeReplay ==
  ASSUME ReplayInv, Tick \/ evictLoop
  PROVE  ReplayInv'
<1>1. CASE Tick
  <2>1. /\ life' = [t \in Tokens |-> DownTo(life[t], -1)] /\ used' = used
        /\ jtis' = [t \in Tokens |-> IF jtis[t] = NoEntry THEN NoEntry ELSE DownTo(jtis[t], -1)]
    BY <1>1 DEF Tick
  <2>2. QED
    BY <2>1, TokenAssumption, SMT DEF ReplayInv, ReplayTyped, DownTo, NoEntry
<1>2. CASE evictLoop
  <2>1. /\ jtis' = [t \in Tokens |-> IF jtis[t] = -1 THEN NoEntry ELSE jtis[t]]
        /\ UNCHANGED <<life, used>>
    BY <1>2 DEF evictLoop
  <2>2. QED
    BY <2>1, SMT DEF ReplayInv, ReplayTyped, NoEntry
<1>3. QED
  BY <1>1, <1>2

\* With replay protection and entries that live as long as a token does, a token is
\* accepted at most once, whatever requests race for it and whenever the cache evicts.
THEOREM NoTokenTwice == AuthSpec => []AcceptedOnce
<1> DEFINE Inv == ReplayProtection /\ ReplayTTL >= Life => ReplayInv
<1>1. AuthInit => Inv
  BY TokenAssumption, SMT DEF AuthInit, ReplayInv, ReplayTyped, NoEntry
<1>2. Inv /\ [AuthNext]_authVars => Inv'
  <2> SUFFICES ASSUME ReplayProtection, ReplayTTL >= Life, ReplayInv, [AuthNext]_authVars
               PROVE  ReplayInv'
    OBVIOUS
  <2>1. ASSUME UNCHANGED <<life, jtis, used>> PROVE ReplayInv'
    BY <2>1 DEF ReplayInv, ReplayTyped
  <2>2. ASSUME NEW r \in Reqs, ReqStep(r) \/ ClientLeaves(r) PROVE ReplayInv'
    BY <2>1, <2>2, CheckReplay
       DEF ReqStep, Gate, EndpointAnswers, FetchReturns, FetchFails, FetchError, ClientLeaves, Store,
           Fallback
  <2>3. ASSUME NEW r \in Reqs, Arrive(r) PROVE ReplayInv'
    BY <2>1, <2>3 DEF Arrive, BadHeader, Receive
  <2>4. ASSUME NEW k \in Keys, Publish(k) \/ Withdraw(k) PROVE ReplayInv'
    BY <2>1, <2>4 DEF Publish, Withdraw
  <2>5. CASE JWKSHealthy \/ BreakerExpires \/ Outage
    BY <2>1, <2>5 DEF JWKSHealthy, BreakerExpires, Outage
  <2>6. CASE UNCHANGED authVars
    BY <2>1, <2>6 DEF authVars
  <2>7. QED
    BY <2>2, <2>3, <2>4, <2>5, <2>6, TimeReplay DEF AuthNext
<1>3. Inv => AcceptedOnce
  BY DEF ReplayInv, AcceptedOnce
<1>4. QED
  BY <1>1, <1>2, <1>3, PTL DEF AuthSpec

-----------------------------------------------------------------------------
(* The breaker of the endpoint.                                             *)

Fetching == {r \in Reqs : ReqAt(r, "fetch") \/ ReqAt(r, "transit")}

\* The inductive invariant: the breaker accounts for the fetches under way.
FetchInv == KeysInv /\ BreakerOK(breaker, Fetching)

\* What changing one request does to the fetches under way.
LEMMA SetReq ==
  ASSUME KeysTyped, NEW r \in Reqs, NEW q \in ReqRecords, req' = [req EXCEPT ![r] = q]
  PROVE  Fetching' = IF q.pc \in {"fetch", "transit"} THEN Fetching \cup {r} ELSE Fetching \ {r}
<1>1. \A s \in Reqs : req'[s] = IF s = r THEN q ELSE req[s]
  BY DEF KeysTyped
<1>2. Fetching \subseteq Reqs /\ Fetching' \subseteq Reqs
  BY DEF Fetching
<1>3. \A s \in Reqs : s \in Fetching' <=> req'[s].pc \in {"fetch", "transit"}
  BY DEF Fetching, ReqAt
<1>4. \A s \in Reqs : s \in Fetching <=> req[s].pc \in {"fetch", "transit"}
  BY DEF Fetching, ReqAt
<1>5. QED
  BY <1>1, <1>2, <1>3, <1>4, SMT

\* A request that is not fetching, and does not begin to, leaves the account alone.
LEMMA AwayFromEndpoint ==
  ASSUME FetchInv, NEW r \in Reqs, r \notin Fetching, NEW q \in ReqRecords,
         q.pc \notin {"fetch", "transit"}, req' = [req EXCEPT ![r] = q],
         breaker' = breaker \/ breaker' = currentState(breaker)
  PROVE  BreakerOK(breaker, Fetching)'
<1>1. KeysTyped
  BY DEF FetchInv, KeysInv
<1>2. Fetching' = IF q.pc \in {"fetch", "transit"} THEN Fetching \cup {r} ELSE Fetching \ {r}
  BY <1>1, SetReq
<1>3. Fetching' = Fetching
  BY <1>2
<1>4. QED
  BY <1>3, CurrentStateOK DEF FetchInv

\* A request that is answered, looks for another way or has keys is not fetching.
LEMMA LeavesAccount ==
  ASSUME FetchInv, NEW r \in Reqs, r \notin Fetching, breaker' = breaker \/ breaker' = currentState(breaker),
         \/ \E res : Answer(r, res)
         \/ Go(r, "gate") \/ Go(r, "fallback")
         \/ \E keys \in SUBSET Keys : Holding(r, keys)
  PROVE  BreakerOK(breaker, Fetching)'
<1> USE TokenAssumption
<1>1. ASSUME NEW res, Answer(r, res) PROVE BreakerOK(breaker, Fetching)'
  <2>1. NoReq \in ReqRecords /\ NoReq.pc = "idle"
    BY EmptyTyped DEF NoReq
  <2>2. req' = [req EXCEPT ![r] = NoReq]
    BY <1>1 DEF Answer
  <2>3. QED
    BY <2>1, <2>2, AwayFromEndpoint
<1>2. ASSUME NEW pc \in {"gate", "fallback"}, Go(r, pc) PROVE BreakerOK(breaker, Fetching)'
  <2> DEFINE q == [req[r] EXCEPT !.pc = pc]
  <2>1. req' = [req EXCEPT ![r] = q]
    BY <1>2 DEF Go
  <2>2. q \in ReqRecords /\ q.pc = pc
    BY DEF FetchInv, KeysInv, KeysTyped, ReqRecords
  <2> HIDE DEF q
  <2>3. QED
    BY <2>1, <2>2, AwayFromEndpoint
<1>3. ASSUME NEW keys \in SUBSET Keys, Holding(r, keys) PROVE BreakerOK(breaker, Fetching)'
  <2> DEFINE q == [pc |-> "check", keys |-> keys, age |-> 0]
  <2>1. req' = [req EXCEPT ![r] = q] /\ q \in ReqRecords /\ q.pc = "check"
    BY <1>3, SMT DEF Holding, ReqRecords
  <2> HIDE DEF q
  <2>2. QED
    BY <2>1, AwayFromEndpoint
<1>4. QED
  BY <1>1, <1>2, <1>3

\* The steps of a request and the breaker.
LEMMA RequestAccount ==
  ASSUME FetchInv, NEW r \in Reqs, ReqStep(r) \/ ClientLeaves(r) \/ Arrive(r)
  PROVE  BreakerOK(breaker, Fetching)'
<1> USE TokenAssumption
<1> DEFINE b == currentState(breaker)
<1>1. /\ req[r] \in ReqRecords /\ cache.keys \in SUBSET Keys /\ req[r].keys \in SUBSET Keys
      /\ BreakerOK(b, Fetching) /\ KeysTyped
  BY CurrentStateOK DEF FetchInv, KeysInv, KeysTyped, ReqRecords
<1>2. r \in Fetching <=> req[r].pc \in {"fetch", "transit"}
  BY DEF Fetching, ReqAt
<1>3. CASE Arrive(r)
  <2>1. breaker' = breaker /\ req[r].pc = "idle"
    BY <1>3 DEF Arrive, BadHeader, Receive, ReqAt
  <2>2. (\E res : Answer(r, res)) \/ Lookup(r)
    BY <1>3 DEF Arrive, BadHeader, Receive, fallbackToTokenReview, TokenReview
  <2>3. QED
    BY <1>1, <1>2, <2>1, <2>2, LeavesAccount DEF Lookup
<1>4. CASE Gate(r)
  <2>1. r \notin Fetching
    BY <1>2, <1>4 DEF Gate, ReqAt
  <2>2. CASE Refuses(b)
    BY <1>4, <2>1, <2>2, LeavesAccount DEF Gate
  <2>3. CASE ~Refuses(b)
    <3> DEFINE q == [req[r] EXCEPT !.pc = "fetch"]
    <3>1. req' = [req EXCEPT ![r] = q] /\ breaker' = beforeRequest(b, r)
      BY <1>4, <2>3 DEF Gate, Go
    <3>2. q \in ReqRecords /\ q.pc = "fetch"
      BY <1>1 DEF ReqRecords
    <3> HIDE DEF q, b
    <3>3. Fetching' = Fetching \cup {r}
      BY <1>1, <3>1, <3>2, SetReq
    <3>4. QED
      BY <1>1, <2>1, <2>3, <3>1, <3>3, BeforeRequestOK
  <2>4. QED
    BY <2>2, <2>3
<1>5. CASE EndpointAnswers(r)
  <2> DEFINE q == [req[r] EXCEPT !.pc = "transit", !.keys = Published]
  <2>1. req' = [req EXCEPT ![r] = q] /\ breaker' = breaker /\ r \in Fetching
    BY <1>2, <1>5 DEF EndpointAnswers, ReqAt
  <2>2. q \in ReqRecords /\ q.pc = "transit"
    BY <1>1 DEF ReqRecords, Published
  <2> HIDE DEF q
  <2>3. Fetching' = Fetching
    BY <1>1, <2>1, <2>2, SetReq
  <2>4. QED
    BY <2>1, <2>3 DEF FetchInv
<1>6. CASE FetchReturns(r) \/ FetchError(r)
  <2> DEFINE q == IF FetchReturns(r) THEN [req[r] EXCEPT !.pc = "store"]
                  ELSE [pc |-> "fallback", keys |-> {}, age |-> 0]
  <2>1. req' = [req EXCEPT ![r] = q]
    BY <1>6 DEF FetchReturns, FetchError, Go
  <2>2. PICK ok \in BOOLEAN : breaker' = afterRequest(b, r, ok)
    BY <1>6 DEF FetchReturns, FetchError
  <2>3. q \in ReqRecords /\ q.pc \in {"store", "fallback"}
    BY <1>1, SMT DEF ReqRecords
  <2> HIDE DEF q, b
  <2>4. Fetching' = Fetching \ {r}
    BY <1>1, <2>1, <2>3, SetReq
  <2>5. BreakerOK(afterRequest(b, r, ok), Fetching \ {r})
    BY <1>1, AfterRequestOK
  <2>6. QED
    BY <2>2, <2>4, <2>5
<1>7. CASE Store(r) \/ Fallback(r) \/ \E t \in Tokens : Check(r, t)
  <2>1. r \notin Fetching /\ (breaker' = breaker \/ breaker' = currentState(breaker))
    BY <1>2, <1>7 DEF Store, Fallback, Check, ReqAt
  <2>2. (\E res : Answer(r, res)) \/ \E keys \in SUBSET Keys : Holding(r, keys)
    BY <1>1, <1>7 DEF Store, Fallback, Check
  <2>3. QED
    BY <2>1, <2>2, LeavesAccount
<1>8. QED
  BY <1>3, <1>4, <1>5, <1>6, <1>7 DEF ReqStep, FetchFails, ClientLeaves

\* The other steps and the breaker.
LEMMA OthersAccount ==
  ASSUME FetchInv, \/ evictLoop \/ JWKSHealthy \/ BreakerExpires \/ Tick \/ Outage
                   \/ \E k \in Keys : Publish(k) \/ Withdraw(k)
  PROVE  BreakerOK(breaker, Fetching)'
<1>1. Fetching' = Fetching
  <2>1. CASE UNCHANGED req
    BY <2>1 DEF Fetching, ReqAt
  <2>2. CASE Tick
    <3>1. \A r \in Reqs : req'[r].pc = req[r].pc
      BY <2>2 DEF Tick, FetchInv, KeysInv, KeysTyped, ReqRecords
    <3>2. QED
      BY <3>1 DEF Fetching, ReqAt
  <2>3. QED
    BY <2>1, <2>2 DEF evictLoop, JWKSHealthy, BreakerExpires, Outage, Publish, Withdraw
<1>2. BreakerOK(breaker', Fetching)
  <2>1. CASE BreakerExpires
    <3>1. breaker' = [breaker EXCEPT !.due = TRUE] /\ breaker.state = "open" /\ breaker \in Breakers(Fetching)
      BY <2>1 DEF BreakerExpires, FetchInv, BreakerOK
    <3>2. /\ breaker' \in Breakers(Fetching) /\ breaker'.fail = breaker.fail
          /\ breaker'.members = breaker.members /\ breaker'.state = breaker.state
      BY <3>1 DEF Breakers
    <3>3. QED
      BY <3>1, <3>2 DEF FetchInv, BreakerOK, Accounted
  <2>2. CASE breaker' = breaker \/ breaker' = currentState(breaker)
    BY <2>2, CurrentStateOK DEF FetchInv
  <2>3. QED
    BY <2>1, <2>2 DEF evictLoop, JWKSHealthy, Tick, Outage, Publish, Withdraw
<1>3. QED
  BY <1>1, <1>2

\* The breaker around fetchJWKS accounts for its one trial, so it is not stuck
\* half-open, however fetches, probes and late answers interleave.
THEOREM FetchesAreAccounted == AuthSpec => []FetchesAccounted
<1>1. AuthInit => FetchInv
  <2> SUFFICES ASSUME AuthInit PROVE FetchInv
    OBVIOUS
  <2>1. Fetching = {}
    BY DEF AuthInit, Fetching, ReqAt, NoReq
  <2>2. IsFiniteSet(Fetching) /\ "closed" \in States
    BY <2>1, FS_EmptySet DEF States
  <2>3. QED
    BY <2>2, InitKeys, NewGeneration DEF AuthInit, FetchInv
<1>2. FetchInv /\ [AuthNext]_authVars => FetchInv'
  <2> SUFFICES ASSUME FetchInv, [AuthNext]_authVars PROVE FetchInv'
    OBVIOUS
  <2>1. KeysInv'
    BY KeysStep DEF FetchInv
  <2>2. CASE AuthNext
    BY <2>1, <2>2, RequestAccount, OthersAccount DEF AuthNext, FetchInv
  <2>3. CASE UNCHANGED authVars
    BY <2>1, <2>3 DEF authVars, FetchInv, Fetching, ReqAt
  <2>4. QED
    BY <2>2, <2>3
<1>3. FetchInv => FetchesAccounted
  BY DEF FetchInv, BreakerOK, FetchesAccounted, Fetching
<1>4. QED
  BY <1>1, <1>2, <1>3, PTL DEF AuthSpec

==============================================================================
