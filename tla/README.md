# kubernaut-apifrontend in TLA+

The API Frontend is a Go service in front of a Kubernetes cluster. Users and
agents reach it over A2A and MCP; it authenticates them, keeps investigation
sessions as custom resources, runs tools against the cluster and other services,
and writes an audit trail. Several replicas run side by side without leader
election. This directory specifies its concurrent and failure-prone parts,
checks them with TLC on small instances, and proves the central safety
properties with TLAPS for every instance.

## The parts and how they interact

A request passes the router, the limiter of its address, the authentication and
the limiter of its user. It then reaches the MCP bridge, which calls a tool, or
the agent, whose callbacks surround each task and each tool the model chooses.
Tools read and write custom resources, triage severities with Prometheus and a
language model, and talk to the Kubernaut Agent and the Data Store through
transports with retries and a circuit breaker. Sessions are objects at the API
server; every replica has a TTL controller that ends and deletes them. All of
these emit into the audit buffer, which writes to the Data Store. A watcher
follows the configuration file. The shutdown ends requests, then servers, then
the audit buffer.

| Part | What is hard about it | Modules |
|---|---|---|
| Session service (`internal/session`) | several requests per call, conflicts and retries, rollback, restarts | `SessionPhases`, `SessionLifecycle`, `SessionService` |
| TTL controller (`internal/controller`) | acts on a lagging cache; timers | `SessionTTL` |
| Audit buffer (`internal/audit`) | select order, overflow, failed writes, Close against Emit | `AuditBuffer` |
| Tracker, router, end of `run` (`internal/streaming`, `cmd`) | snapshot against new connections, one deadline for all steps | `Shutdown` |
| Breaker and retry (`internal/resilience`) | answers of earlier generations, retries of what was done | `Breaker`, `Resilience` |
| Agent and Data Store clients (`internal/ka`, `internal/ds`) and their tools | polling against deadlines, an agent that forgets | `Investigation` |
| Authentication (`internal/auth`) | stale keys, concurrent fetches, replay, order of checks | `TokenValidation` |
| Limits (`internal/ratelimit`) | eviction, compare-and-swap loops | `RateLimit` |
| MCP bridge (`internal/handler`) | deadline, panic, semaphore, one report per call | `ToolCall` |
| Agent callbacks (`internal/agent`, `internal/launcher`) | a map of start times shared with a sweep; reports from callbacks that may not run | `AgentTools` |
| Severity triage (`internal/severity`, `internal/prometheus`) | fall-backs, a cache shared by runs | `Triage` |
| Remediation tools (`internal/tools`) | check and act across replicas, singleflight, watches | `Remediation`, `OwnerChain`, `ListTools`, composed in `RemediationTools` |
| Configuration (`internal/config`) | debounce, rejected contents, changes before the watch | `Config`, `HotReload` |

An `MC...` module gives each group its instance for TLC; a `...Proofs` module
holds its theorems. A definition whose comment begins with `MUTANT` or `Mutant` is a
variant of the next one as a plausible bug would have it; no specification uses
it. `PROJECT.json` maps the definitions to lines of the source and lists the
hazards of the code with the properties that answer to them.

### SessionService, SessionTTL

`crd` is the store: for each name an object (phase, label, connection state,
ages of the timestamps) or `Absent`. `index`, `delegate` and `gauge` are the
memory of each replica. `call[p]` is a goroutine with a program counter; each
request to the API server is one step, so calls interleave exactly between
requests. A resourceVersion is represented by what it decides: `stale` is the
set of calls whose copy has been overtaken, so that their next write gets a
conflict. `NoopWritesBump` says whether a write that changes nothing counts as
a write; both are allowed. `RequestFails` is a request that is not carried out,
`ReplyLost` one that is carried out and reported as failed, `Restart` the end of
a pod. What Delete does after its request is one step; no other call reads two
of these, so nothing can tell the order. Get, List and GetSessionPhase only read.
`SessionLifecycle` is the abstract specification: phases change along the
transition table, and terminal phases are final.

`SessionTTL` adds, per replica, a cache per name, a queue of watch events that
have not arrived, a work queue, and a timer for RequeueAfter. The worker's steps
are those of Reconcile; its call of UpdatePhase is a call of `SessionService`.
Time is the `Tick` step, which ages timestamps up to the largest limit.

### AuditBuffer, Shutdown

`buffer` is the channel, `batch` and `loop` belong to the flush goroutine, `done`
and `closer` to Close. `accepted`, `handed` and `before` are history variables
that only properties read. The three cases of the outer select are the actions
`SeeDone`, `Receive` and `Tick`, each possible whenever its case is ready. A
failed write may have been carried out.

`Shutdown` composes it with the requests, the tracker and the end of `run`.
Requests arrive, are tracked, stream and end at any point while the process
runs; nothing makes a request end. `main` is the position of `run`; `expired` is
the deadline of `shutCtx`, which the drain, the servers and Close share. The
health and metrics servers have no long requests and go down together with the
wait for the API server. EmitBlocking has no caller in the program and is used
only in the run of `AuditBuffer`. `ClientIds` are request ids that clients send,
and two requests may share one.

### Breaker, Resilience, Investigation

`Breaker` is the library gobreaker as this program uses it, as operators on a
record: state, members (the requests of the present generation), counts, and
whether the open time is over. `Resilience` puts RetryTransport inside
CircuitBreakerTransport, with idempotent requests, retryable statuses, resets
before and after execution, cancellation, and the same breaker around the dynamic
client. `ran[p]` counts how often the dependency executed the request. A
behaviour is about one dependency, since breakers share nothing. `Healthy` is the
readiness probe, which looks at the breakers of the Kubernaut Agent and the Data
Store and at no other (`main.go:614`).

`Investigation` adds the tools on top: start, poll up to `maxPolls` times, cancel,
select a workflow, and the queries of the Data Store. `inv` is the investigation of
the Kubernaut Agent, which moves on and may be forgotten. `seen` is the history of
its states during a poll.

### TokenValidation

One issuer rotates `Keys`; `cache` is its key set with an age. A request is at the
breaker, waiting for the endpoint (`fetch`), waiting for the answer to arrive
(`transit`), storing it, falling back on the cached keys, or checking a token
against the keys it has; then come the replay cache, the CEL rules and the
TokenReview fall-back. A fetch fails while the endpoint is down (`FetchFails`), and
at any time when the client goes away, whose context it has (`ClientLeaves`). Whether
a signature fits or a rule holds is a property of the token. Ages are kept instead
of clock readings.

### RateLimit, ToolCall, AgentTools

`RateLimit` follows one limiter of one kind. `entry` is its entry in the map,
`ideal` the bucket that is never evicted, `slot[w]` the place of a goroutine in the
loops that take and give back a slot. `ToolCall` puts the two middlewares and
`wrapTool` around it, with the semaphore, the deadline, panics, metrics and audit
events; `AgentTools` adds the callbacks of the agent path and the sweep. There
`trail[c]` holds the audit events of a task, and `report[c]` what the RBAC guard and the
callbacks after the tool have said of its last tool call: the verdict, whether the
tool failed, the audit events and the outcomes that were counted. A refusal is a
result of the tool; whether the callbacks run after it is the library's choice, and
both are allowed.

### Triage

`run[r]` goes through the tiers: alerts, pending rules, rules evaluated by query,
and the language model with and without matching rules. `cache` is shared. Answers of
Prometheus are sequences from a given set; a rule is its state, its severity, whether
its expression parses, and the label matchers in it.

### Remediation, OwnerChain, ListTools

`rr[n]` is the request for one target named by the millisecond `n`; `flight[p]` is
the singleflight call of replica `p`; `late` holds creates that were given up and
that the server may still handle. A watch has a queue of events, which the server
closes when it lags behind. `OwnerChain` is the walk along owner references,
compared with the longest path of a reference definition; `ListTools` the tools that
list objects, which come and go between the two requests of a list. They share no
state, so a behaviour of `RemediationTools` follows one of them.

### Config, HotReload

`Config` translates Load, the defaults and every validator as operators over the
fields they look at. `HotReload` is the FileWatcher from the start of the process
to its end: `last` is the content it holds for current, `judged` the one it gave to
its callback last, `event`, `timer` and `missed` what is on its way, pending in the
debounce, or lost in an overflow, before the watch began, or to a read that failed.
Any read of the file may fail.

## Runs

| Run | Shows |
|---|---|
| `session_service` | writes are based on the present object; audit events are truthful; timestamps match phases; Create rolls back; the service implements `SessionLifecycle` |
| `ttl` | no session with a deadline is forgotten; a terminal one in the cache still is; Disconnected sessions are left; terminal ones deleted |
| `audit_buffer` | events in order, completeness of Close, delivery, end of Close |
| `shutdown` | the tracker holds the streams; events of requests are flushed; the process exits |
| `investigation` | the breaker accounts for its trials and opens only by failures; a POST runs at most once and its report is true, and so is that of a poll; the breaker of the Kubernaut Agent does not stay open |
| `token_validation` | withdrawn keys stop working in time; a token is accepted once; the cache recovers |
| `tool_call` | eviction grants nothing; slots are exact and within the limit; every tool call, of the bridge and of the agent, and every task is reported once; calls end; abandoned start times are swept |
| `triage` | the most severe alert or pending rule decides; later tiers never decide over a pending rule; rules are fresh; runs end |
| `remediation` | one unfinished request per replica; callers are told of a request that was active; an open watch has the end of its request in its channel, and watches see it; the chain is the longest path; lists are complete, or say that they are truncated |
| `hot_reload` | a resting watcher has told what it makes of the file; what it holds for current would start a process; changes are told |
| `rr_duplicates` | violation: two replicas leave two unfinished requests for one target |
| `config_verdict` | violation: the watcher refuses a file that starts the process |

The two violations each check what a comment, and for `config_verdict` also a test
plan, says and the code does not keep; `findings` in `PROJECT.json` quotes it. Each
property of the passing runs is also known to fail when a definition of the model is
replaced by the corresponding mutant.

### Bounds

* `session_service`: two names, two replicas, two calls at a time, three in all,
  one fault, two attempts of RetryOnConflict instead of five. Two concurrent
  calls produce every conflict, the third lets a call start on what they
  left; two attempts reach both retry and giving up.
* `ttl`: one name, one replica, one client, three client calls, one fault, limits of
  one tick. One name suffices since nothing relates two names but the prune,
  which loops over an index that also holds entries of deleted sessions. Ids
  equal names (`GeneratedNames = {}`); the controller passes the name where
  UpdatePhase expects an id.
* `audit_buffer`: four events, a channel and a batch of two, one failed write: the
  channel overflows, batches fill, and the drain meets a partial batch.
* `shutdown`: three requests, two tracked at most, two events (one of a request, one
  of the controller), one id that clients share. Writes do not fail here; the
  audit run has the failures.
* `investigation`: two calls, one retry, two failures to trip, two trials, two polls:
  a call of an earlier generation can answer into a later one, a breaker trips by
  failures of both calls, and a poll can see the investigation move and vanish.
* `token_validation`: two requests, three tokens (good, signed by the next key and
  without id, wrong audience), one rotation of two keys, all intervals one tick,
  one trial. Two requests suffice for the races of fetch, store and replay.
* `tool_call`: two requests of two users and two tools, three goroutines on the
  slots, buckets of one that are evicted after one tick, two slots, one place in the
  semaphore: one call waits for it, and three goroutines race for the last slot.
* `triage`: two runs, four answers for alerts and three for rules, one query and two
  rules per call, a cache that lives one tick and requests that take two.
* `remediation`: three callers on two replicas over two milliseconds, a watch that
  may lag by one event, all owner graphs over four resources with a
  depth limit of two, five objects of which not all fit.
* `hot_reload`: eight contents, one or two of each kind that start and watcher tell
  apart.

Symmetry is used only in `session_service`, which checks no liveness. Deadlock is
checked except in `session_service` (the calls are used up, its bound),
`audit_buffer` (the buffer is closed) and `shutdown` (the process has exited).

### Fairness

* `FairTTLSpec`: calls run to their end, watch events arrive, timers fire, time
  passes, the worker goes on (weak), and the worker gets to every queued name
  (strong, as the work queue is first-in first-out). Clients and faults are not
  fair.
* `FairBufferSpec`: the flush loop goes on. Its ticker fires and a write has a
  deadline of ten seconds, so it never blocks for good.
* `FairShutdownSpec`: `run` goes on, its deadline passes, the flush loop goes on.
  There is no fairness for requests.
* `FairInvestigationSpec`: goroutines run and a request ends at the latest by the
  timeout of its client; the open time of a breaker passes; the readiness probe
  keeps coming and looks at the breaker of the Kubernaut Agent first. The look at the
  Data Store's is not fair: `AllReady` stops at the first that is not ready
  (`health.go:15`). Nothing is assumed of the agent or of users, so nothing is claimed
  of the other breakers, which half-open with the next request.
* `FairAuthSpec`: goroutines run, fetches have a timeout, the breaker's timer runs.
  Time is strongly fair, as it cannot pass while a goroutine computes. Clients may
  go away at any time; `KeysRefreshed` is about behaviours in which they do so only
  finitely often, since those that always leave keep every fetch from ending.
* `AgentSpec`: goroutines run, deadlines pass, tools return (their clients have
  timeouts or obey the context), the sweep's ticker fires; time as above.
* `TriageSpec`: steps that wait for nobody are taken, and those that wait once the
  caller's patience is over; time as above. Prometheus and the model may never
  answer.
* `ToolsSpec`: a watch receives what is in its channel. Nothing else is fair.
* `HotSpec`: the loop receives events, the debounce timer fires, the loop ends after
  its context, Stop goes on. Those who write the file are not fair.

## Proofs

The theorems hold for all sets of names, replicas, goroutines, events, keys and
contents, all capacities, thresholds and intervals, and any bound on calls and
faults. They assume only the named `ASSUME`s of the modules, which TLC evaluates
in the runs. These say that the constants have their types, that goroutines and
objects to list are finitely many, and a few facts on configuration and names:
`Burst <= MaxAge` (a bucket fills up within the age of eviction),
`refreshInterval <= maxStaleness`, generated request ids differ from those clients
choose, and no replica, resource or name is called like a mark of the model.
One theorem has a hypothesis of its own, named below.

Each proof module begins with `USE ZenonT(30)`: its leaves are first-order and set
reasoning, and those that need arithmetic, sequences or the fields of records cite
SMT.

Every invariant of the passing runs is the property of a theorem. None of them
is inductive except where said; what has to be added is the argument.

### Sessions: `SessionServiceProofs`, `SessionTTLProofs`, `SessionSightProofs`

* `Spec => []Inv`, where `Inv` has the types, what each program counter says about the
  locals of its call, that a call which is not stale has an up-to-date copy, and
  that objects are consistent. That an audit event is truthful needs that the
  phase a call read was still there when it wrote, and that needs that every
  write makes all other holders of a copy stale. From `Inv` follow `TypeCorrect`,
  `WritesAreUpToDate`, `AuditIsTruthful`, `TimestampsCorrect`, `CreateCleansUp` and
  `Refinement` (the service implements `SessionLifecycle`).
* The controller adds steps that `Spec` does not have: time passes for all objects,
  the retention deletion goes around the service, the prune changes the index, a
  restart also ends the worker. `ControllerInv` is `Inv` with the types of the
  informers and workers and with the fact that the calls of a worker belong to its
  reconcile. It holds under `TTLSpec` (`ControllerInvariance`), hence so do the four
  invariants of the service (`SessionsCorrectUnderTTL`) and the refinement
  (`LifecycleUnderTTL`).
* `SessionsStayInSight`: `NoSessionForgotten` follows from `SightInv`. It says that the
  last state an informer knows or will be told is that of the object; that a name
  whose cached object has a deadline is brought up again, by a timer that fires no
  later than the deadline if by a timer; and that an UpdatePhase of
  the worker which has written leaves an event or a queued name behind. The last
  part is why a successful cancel may forget the name: the write changed the phase,
  since it was based on an up-to-date copy and the table has no transition from a
  phase to itself, so every informer gets an event. The hypothesis is
  `GeneratedNames = {}`: handleDisconnected (`ttl.go:137`) passes the name of the object
  where UpdatePhase expects the id of the session, and they are the same only for
  sessions created with an id. The A2A server gives one.
* `RetentionVerdictIsRight`: `EndInv` says that every terminal object among those an
  informer has or will be told is followed by the same end until its removal. It
  holds because the table leaves no terminal phase and nothing rewrites the time
  of completion, so `TerminalCacheIsRight` needs no hypothesis on names.

### Audit and shutdown: `ShutdownProofs`

* `BufferSpec => []BufferInv`. `InOrder` is inductive with the types. `CloseFlushes` also
  needs that all that was handed over is stored or logged, that once the drain
  found the channel empty the events accepted before Close are handed over or in
  the last batch, and that the loop ends with an empty batch. Theorems
  `BufferTypeCorrect`, `EventsInOrder`, `CloseIsComplete`.
* `ShutdownUsesBuffer`: `Shutdown` implements `AuditBuffer`, so these hold in it too.
  `ShutdownInv` follows the steps of `run`: when the servers are down in time no
  request is left, and Close is called after that, so the events of requests are
  among those accepted before it; with `CloseFlushes` this gives `RequestEventsKept`.
  `TrackInv` says which request has the entry of an id (`TrackerTracks`).

### Limits, tools and agent: `ToolCallProofs`

* `BucketInv` says the ideal bucket is never behind the one in the map, nor behind
  one that was empty when the entry was last seen; an eviction then finds the
  ideal bucket full (`EvictionGrantsNothing`). `SlotInv` says a goroutine about to count
  up has read a value below the limit, and that the entry stays while a slot is
  held or about to be taken, so the counter is exact and within the limit
  (`SlotsExact`).
* `RequestsUseLimiters`: requests implement `RateSpec`, so both hold under any requests
  (`LimitersHoldUnderRequests`).
* `AgentInv` ties what was reported of a call, the semaphore and the start times to
  the stage of the call; its part `ReportInv` says what the guard and the callbacks of
  the agent have said of a tool call at each stage. Theorems
  `SemaphoreSlotsConserved`, `AllReportedOnce`, `StartTimesKept`; the last is the safety
  half of `SweepIsExact`.

### Transports, clients and authentication: `ResilienceProofs`

* Every operation of a breaker preserves `BreakerOK`: it accounts for the requests of
  its generation and has not forgotten to trip. Both users of the breaker cite them.
* `ToolsUseTransports` shows that the tools implement the specification of the
  transports, so what holds of `ResilienceSpec` holds under them. `TransportInv` has
  `BreakerOK` for the calls in flight and, of each request that may not be repeated,
  that it has not run before it is sent. Theorems `PostAtMostOnce`, `TrialsAreAccounted`,
  `OpenedByFailures`.
* `PollInv` says what an answer on its way, and the last status a poll has seen,
  tell of the investigation since the poll began (`PollsTellTheTruth`).
* `ToldInv` says of a start or cancel that the answer on its way, and then the result,
  decide whether KA executed it: success means once, a refused connection or an
  open breaker never (`PostsAreToldTruly`). It needs from `TransportInv` that a POST
  has one attempt, and holds beyond the return of the transport, where
  `PostAtMostOnce` ends.
* `KeysInv` bounds how long ago the keys were withdrawn that an answer under way (by
  the age of its fetch), the cache (by its age and one fetch) and a request hold;
  it gives `WithdrawnKeysAreDropped`. `ReplayInv` says an accepted token has an entry
  that outlives it (`NoTokenTwice`). `FetchInv` adds `BreakerOK` for the fetches
  (`FetchesAreAccounted`).

### Remediation and list tools: `RemediationProofs`

* `RRInv` says that a replica whose flight is about to create has no unfinished
  request, and that leader and followers of a flight know every request that was
  active since it began. Theorems `OneRequestPerReplica`, `ToldOfAnActiveRequest`,
  `EndIsFinal`.
* `WatchesMissNoEnd`: `WatchInv` says an open channel will tell of the end of its
  request, since the API server replays the object at the start and adds every
  write. This is the safety half of `WatchSeesEnd`, `WatchMissesNoEnd`.
* `ChainsAreLongest`: `OwnerInv` says the chain walked so far is a path that follows
  the references pickOwnerRef picks. Paths are determined by their start, so no
  path is longer than the chain where the walk ends. The last fact is by the least
  position at which two paths differ.
* `AnswersAreComplete`: `ListInv` says which objects the lists made so far have to
  hold and that no list repeats one. What TrimSliceToFit computes is stated by the
  number of items it leaves; that its recursion is defined, and that what is left
  is the largest beginning that fits, or one item, is by the least number for which
  it fails.
  The order in which the API server lists is left open (`Listings`).

### Configuration and triage: `ReloadProofs`

* Lemmas on defaults and validators, for any text of the file, show that what the
  watcher accepts also starts a process unless it mixes its own timeouts with
  default ones (`CurrentContentStarts`). `HotInv` says that the content held for
  current was accepted and, between the first read and the watch, is that of the
  file or the change is missed (`RestingWatcherHasTold`, `HotTypeCorrect`).
* `TriageInv` says what each tier has decided by when, with the severity `Best` picks
  from a list bounding all that match in it, and how old the rules in the cache
  and in a run are. Theorems `MostSevereWins`, `RulesAreFresh`.

### Only model-checked

All liveness properties: `DeadlinesMet`, `BufferMakesProgress`,
`ShutdownEnds`, `BreakerHalfOpens`, `KeysRefreshed`, `CallsEnd`, the second half of
`SweepIsExact`, `TriageEnds`, `WatchSeesEnd` and `ChangeIsTold`. Fairness and ENABLED are
outside the prover's reach. Induction schemes cannot be instantiated by the
provers either; where a recursive definition had to be reasoned about, the proofs
take the smallest counterexample instead (`Least`), from the well-foundedness of
the naturals. The two violations have nothing to prove.

## Seen while modelling

Disagreements between the code and what is written about it, for which no run is
kept. Where a property of a run states what does hold instead, it is named.

Sessions:

* Two UpdatePhase calls can leave a label that is not the phase: the label is a
  second write (`statemachine.go:123`), against
  `docs/test/87/TEST_PLAN_HIGH02B.md:86`. A conflict on it loses the audit event and the
  gauge step of a change that was made (`statemachine.go:124`).
* A session that reconnected is cancelled on account of a lagging cache
  (`ttl.go:137`), against `ttl.go:29`. `NoSessionForgotten` and,
  for terminal sessions, `TerminalCacheIsRight` are what holds.
* An Active session of a pod that restarted stays Active: the controller does
  nothing for that phase (`ttl.go:87`), against `service.go:219`.
* Delete counts the gauge down also when there is nothing to delete
  (`service.go:273`), so it drifts from "Number of currently active
  InvestigationSessions by phase" (`metrics.go:92`).
* The retention deletion is by name without a precondition (`ttl.go:184`): a session
  created again under the name since the cached read is deleted at once. The window
  is as long as the removal is on the way to the informer (`TerminalCacheIsRight`).
* PruneTerminalEntries treats every read error as terminal (`service.go:361`) and
  reads through the cache: it drops the entry of a session the cache does not
  have yet.

Audit and shutdown:

* A failed batch is logged and not sent again (`buffered.go:193`), against
  `RB-AF-006.md:39`. `CloseFlushes` counts logged events.
* Emit does not look at `done` (`buffered.go:86`): an event emitted after the drain
  stays in the channel, although "Close stops accepting new events"
  (`buffered.go:130`). The TTL controller, which is stopped after Close, can do it.
* On overflow Emit drops its own event (`buffered.go:91`), not the oldest as
  `AUDIT_EVENT_CATALOG.md:103` says.
* A stream accepted after DrainAll took its snapshot is not told (`tracker.go:93`),
  against `SERVICE_BOUNDARY.md:257`.
* Close shares the deadline of the servers, which may be used up (`main.go:328`),
  against `ADR-019-audit-buffer-volatility.md:18`. `RequestEventsFlushed` holds while it
  is not.
* A connection whose id another connection reuses is no longer tracked
  (`router.go:142`), against "Each connection is tracked from start to completion"
  (`router.go:133`). `TracksStreaming` states what does hold.
* DrainAll writes the frame before the wait and before Cancel (`tracker.go:107`);
  the comment at `tracker.go:82` has it the other way round.
* `statusRecorder` (`middleware.go:12`) has no Unwrap method, so the calls of
  SetWriteDeadline at `router.go:127` and `router.go:160` return an error that is
  ignored, and a stream keeps the WriteTimeout of five minutes of the server
  (`main.go:249`).

Clients and tools:

* Status and Result of the agent client ignore the status code: a poll of an
  unknown session reads the error document as a status and reports in_progress
  (`rest_client.go:155`), against "Poll with nonexistent session_id returns "not
  found"" (`docs/test/87/TEST_PLAN_IT_EXPANSION.md:188`). `PollTellsTheTruth` excepts
  such answers (`ErrorRead`).
* The breakers count a caller's cancellation, and the one around the dynamic client
  a NotFound, as failures of the dependency. The same holds of the issuer: requests
  whose clients go away during a fetch open its breaker while the endpoint is up
  (`jwks_cache.go:186`, `middleware.go:82`), until the open time is over.
* When the breaker of the Kubernaut Agent is open the probe does not look at that of
  the Data Store, which then half-opens only with a request.
* The agent's guard audits no refusal for want of an identity (`root.go:161`), against
  "Denied attempts are emitted as audit events" (`root.go:157`); nor is a tool call
  audited that panics or is given up, against "for every tool invocation"
  (`root.go:298`). A refusal is not an error to the callbacks after it: when they run,
  it is audited as invoked and counted as a success. `EverythingReported` names these
  cases.
* A long target name is cut at 63 characters, which drops the time, so every later
  create for the target fails as already existing (`af_create_rr.go:133`).
* Followers of a singleflight call share the severity and the error of its leader,
  its cancellation included, and wait beyond their own deadline.
* Cancel may overwrite the phase of a request that ended after its read
  (`crd_tools.go:302`), against "has not yet reached a terminal state"
  (`crd_tools.go:319`). `EndedStaysEnded` is what holds.
* Approve looks at nothing that it has read: it decides again on what has been
  decided (`crd_tools.go:223`), against "Approve or reject a pending remediation
  approval request" (`crd_tools.go:240`), and its merge patch keeps the reason and
  workflow override of an earlier decision.
* A list of which not even one item fits is answered with its first item, over the
  limit (`helpers.go:101`), against "until its JSON serialization fits within
  maxToolOutputBytes" (`helpers.go:92`), `docs/design/TOOL_EXECUTION_MODEL.md:169` and
  `docs/tests/52/test_plan.md:197`. `AnswerIsComplete` demands that such an answer says
  that it is truncated.
* A watch that the server closes is reported as completed (`crd_tools.go:378`).
* An owner chain that is cut off is reported as if its end were the root.
* kubernaut_list_remediations is described as listing active remediations, and lists
  all phases, untrimmed.
* Tier 2 of the triage returns the first rule with data, not the highest
  (`SEVERITY_TRIAGE.md:127`), and af_create_rr has a default severity
  (`af_create_rr.go:108` against `SEVERITY_TRIAGE.md:38`). The HTTP client of Prometheus
  has no timeout of its own (`main.go:519`).
* The semaphore that the comment at `mcp_bridge.go:314` calls per-session is one for
  all sessions.

Configuration:

* The content the watcher accepts is audited and never applied to the running
  process, against `DEVELOPER_GUIDE.md:188` and `RATE_LIMITING.md:47`.
* A file that sets only one timeout of a dependency can be reported as reloaded and
  refuse to start; `CurrentStarts` excepts it.
* A change between the start and the watch on the directory, in an overflow of
  events, or whose read fails (`hotreload.go:223`), is told only with the next event;
  `RestIsTold` excepts it.
* A rejected change that is reverted leaves the trail ending in "rejected".

## Not modelled

* The session decorator hands calls on to the service it wraps. Reinvocation has
  no caller in the program. Trimming maps one event to another and keeps nothing.
* UpdateLimits, UpdateRequestRate, UpdateToolRate and ProviderLimiter have no caller in
  the program. AcquireSession, LLMSemaphore, Cancel of the agent client and the
  breaker around the dynamic client (NewResilientDynamicClient) have none either, but
  are modelled.
* kubernaut_approve is a read whose result is not looked at and one unconditional
  patch; no property of it is left that the code promises.
* Events that a detached execution emits after its request has ended: `Shutdown` has
  the events of live requests and of the TTL controller. A request body that cannot
  be produced again: every request here has one that can.
* Impersonation and JWT delegation wrap single requests and keep no state.
* TLS wiring connects the file watchers and certificate reloaders of a library.
* Wiring of the process in `main.go` that constructs objects before any goroutine
  runs; the agent card, the tool tables and the prompts, which are data.
* SSE frames, problem documents, redaction, logging, metrics declarations and
  other formatting: functions of one value without state that others read.
* Two TTL controllers at once are outside the bounds of `ttl` (leader election is off,
  `main.go:986`); two replicas are part of `session_service`.

The components with status `not_modelled` or `partly` in `PROJECT.json` give the same
reasons.
