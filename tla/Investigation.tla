---------------------------- MODULE Investigation ----------------------------
(***************************************************************************)
(* The tools that talk to the Kubernaut Agent (KA) and the Data Store      *)
(* (internal/tools/ka_tools.go, ds_tools.go) with the clients under them   *)
(* (internal/ka, internal/ds), on top of the transports of Resilience.     *)
(*                                                                         *)
(* One investigation of KA is looked at; KA is outside this repository.    *)
(***************************************************************************)
EXTENDS Resilience

CONSTANTS
  maxPolls,  \* status requests of one poll (5)
  Serves     \* Serves[t]: the operations that come to goroutine t

ASSUME PollAssumption == maxPolls \in Nat \ {0}

VARIABLES
  inv,   \* KA's investigation: "none", its status, or "gone" once forgotten
  tool,  \* tool[t]: the tool call goroutine t is handling
  seen   \* history: seen[t] holds the values of inv during a poll

investigationVars == <<dep, cb, call, ran, inv, tool, seen>>
toolVars == <<inv, tool, seen>>

Terminal == {"completed", "failed", "cancelled"}
Known == inv \notin {"none", "gone"}

\* The operations of the dynamic client, and the one that is not guarded.
K8sOps == {"operation", "watch"}

Ops(d) == CASE d = "ka" -> {"start", "poll", "cancel", "select"}
            [] d = "ds" -> {"query"}
            [] d = "k8s" -> K8sOps

\* doJSON posts a body it can produce again, Cancel posts none, doGet and
\* the queries of the Data Store are GETs.
RequestOf(op) ==
  [idempotent |-> op \notin {"start", "cancel"},
   body |-> IF op = "start" THEN "replayable" ELSE "none"]

NoTool == [op |-> "none", stage |-> "idle", polls |-> 0, body |-> "none", res |-> "none"]

\* kaToUserFriendlyError: what the caller learns of a failed request.
kaToUserFriendlyError(r) ==
  CASE r \in {"refused", "open"} -> "temporarilyUnavailable"
    [] r = "notFound" -> "notFound"
    [] r = "serverError" -> "internalError"
    [] OTHER -> "serviceError"

Finish(t, r) == tool' = [tool EXCEPT ![t].stage = "done", ![t].res = r]

-----------------------------------------------------------------------------
(* A tool call begins, and its first request goes to the transport.         *)

Invoke(t, op) ==
  /\ tool[t].op = "none"
  /\ op \in Ops(dep) \cap Serves[t]
  /\ tool' = [tool EXCEPT ![t] = [NoTool EXCEPT !.op = op, !.polls = 1,
                !.stage = IF op = "select" THEN "connect" ELSE "ask"]]
  /\ seen' = [seen EXCEPT ![t] = IF op = "poll" THEN {inv} ELSE {}]
  /\ UNCHANGED inv
  /\ IF op \in {"select", "watch"} THEN UNCHANGED resilienceVars ELSE Start(t, RequestOf(op))

\* What KA does when it executes the request of t.
AfterRequest(t, x) ==
  CASE tool[t].op = "start" /\ x /\ inv = "none" -> "running"
    [] tool[t].op = "cancel" /\ x /\ inv = "running" -> "cancelled"
    [] OTHER -> inv

Observe(i) == seen' = [t \in Calls |-> IF tool[t].op = "poll" THEN seen[t] \cup {i} ELSE {}]

\* An attempt with its answer.  KA answers a request for a session that it
\* does not know with 404; the body of an error answer is a problem document
\* with a numeric status, or is not JSON.
Exchange(t, o, x, b) ==
  /\ Attempt(t, o, x)
  /\ tool[t].op \in {"poll", "cancel"} => (o = "ok" => Known) /\ (o = "notFound" => ~Known)
  /\ b \in CASE tool[t].op # "poll" \/ o \notin Statuses -> {"none"}
             [] o = "ok" -> {inv}
             [] OTHER -> {"number", "undecodable"}
  /\ inv' = AfterRequest(t, x)
  /\ tool' = [tool EXCEPT ![t].body = b]
  /\ Observe(inv')

Transport(t) ==
  /\ Admit(t) \/ (\E ok \in BOOLEAN : Retry(t, ok)) \/ StopRetrying(t) \/ ContextDone(t)
  /\ UNCHANGED toolVars

-----------------------------------------------------------------------------
(* The handlers read the answer.                                            *)

\* HandleStartInvestigation and Analyze: 200 and 202 are the only answers
\* that count, and their body must decode (ok).
StartAnswer(t, ok) ==
  /\ tool[t].op = "start" /\ tool[t].stage = "ask"
  /\ Return(t)
  /\ Finish(t, IF Outcome(t) = "ok" THEN IF ok THEN "started" ELSE "undecodable"
               ELSE kaToUserFriendlyError(Outcome(t)))
  /\ UNCHANGED <<inv, seen>>

CancelAnswer(t) ==
  /\ tool[t].op = "cancel" /\ tool[t].stage = "ask"
  /\ Return(t)
  /\ Finish(t, IF Outcome(t) = "ok" THEN "cancelSent" ELSE kaToUserFriendlyError(Outcome(t)))
  /\ UNCHANGED <<inv, seen>>

\* The queries of the Data Store: an error answer, or one that is not of the
\* expected type, is an error of the client and then of the tool.
QueryResult(o) == IF o = "ok" THEN "answered" ELSE "failed"

QueryAnswer(t) ==
  /\ tool[t].op = "query" /\ tool[t].stage = "ask"
  /\ Return(t)
  /\ Finish(t, QueryResult(Outcome(t)))
  /\ UNCHANGED <<inv, seen>>

\* The operations of the Kubernetes client.
OperationAnswer(t) ==
  /\ tool[t].op = "operation" /\ tool[t].stage = "ask"
  /\ Return(t)
  /\ Finish(t, IF Outcome(t) = "ok" THEN "answered" ELSE "failed")
  /\ UNCHANGED <<inv, seen>>

\* Watch does not go through the breaker.
WatchAnswer(t, ok) ==
  /\ tool[t].op = "watch" /\ tool[t].stage = "ask"
  /\ Finish(t, IF ok THEN "answered" ELSE "failed")
  /\ UNCHANGED <<inv, seen>>
  /\ UNCHANGED resilienceVars

\* Status and Result decode whatever body came with any status that the
\* transport passed on.
Decoded(t) == Outcome(t) \in Statuses /\ tool[t].body # "undecodable"

AnswerError(t) == IF Outcome(t) \in Statuses THEN "undecodable" ELSE kaToUserFriendlyError(Outcome(t))

\* UnmarshalJSON makes a text of a numeric status; only the texts of Terminal
\* mean anything to the poll.
SessionStatus(b) == IF b = "number" THEN "404" ELSE b

\* Mutant: the last poll gives up before it looks at the answer.
PollAnswerLastIgnored(t) ==
  /\ tool[t].op = "poll" /\ tool[t].stage = "ask"
  /\ Return(t)
  /\ IF ~Decoded(t) THEN Finish(t, AnswerError(t))
     ELSE IF tool[t].polls = maxPolls THEN Finish(t, "in_progress")
     ELSE IF tool[t].body = "completed"
          THEN tool' = [tool EXCEPT ![t].stage = "fetch", ![t].body = "none"]
     ELSE IF tool[t].body \in Terminal THEN Finish(t, tool[t].body)
     ELSE tool' = [tool EXCEPT ![t].stage = "wait", ![t].body = "none"]
  /\ UNCHANGED <<inv, seen>>

\* HandlePollInvestigation after a status request.
PollAnswer(t) ==
  /\ tool[t].op = "poll" /\ tool[t].stage = "ask"
  /\ Return(t)
  /\ \/ /\ ~Decoded(t)
        /\ Finish(t, AnswerError(t))
     \/ /\ Decoded(t) /\ SessionStatus(tool[t].body) = "completed"
        /\ tool' = [tool EXCEPT ![t].stage = "fetch", ![t].body = "none"]
     \/ /\ Decoded(t) /\ SessionStatus(tool[t].body) \in {"failed", "cancelled"}
        /\ Finish(t, tool[t].body)
     \/ /\ Decoded(t) /\ SessionStatus(tool[t].body) \notin Terminal
        /\ IF tool[t].polls < maxPolls
           THEN tool' = [tool EXCEPT ![t].stage = "wait", ![t].body = "none"]
           ELSE Finish(t, "in_progress")
  /\ UNCHANGED <<inv, seen>>

PollAgain(t) ==
  /\ tool[t].stage = "wait"
  /\ Start(t, RequestOf("poll"))
  /\ tool' = [tool EXCEPT ![t].stage = "ask", ![t].polls = tool[t].polls + 1]
  /\ UNCHANGED <<inv, seen>>

PollCancelled(t) ==
  /\ tool[t].stage = "wait"
  /\ Finish(t, "ctx")
  /\ UNCHANGED <<inv, seen>>
  /\ UNCHANGED resilienceVars

FetchResult(t) ==
  /\ tool[t].stage = "fetch"
  /\ Start(t, RequestOf("poll"))
  /\ tool' = [tool EXCEPT ![t].stage = "result"]
  /\ UNCHANGED <<inv, seen>>

ResultAnswer(t) ==
  /\ tool[t].stage = "result"
  /\ Return(t)
  /\ Finish(t, IF Decoded(t) THEN "completed" ELSE AnswerError(t))
  /\ UNCHANGED <<inv, seen>>

\* callTool of the MCP client: a session for each call, without retry and
\* without breaker, closed when the call returns.
SelectConnect(t, ok) ==
  /\ tool[t].stage = "connect"
  /\ IF ok THEN tool' = [tool EXCEPT ![t].stage = "session"]
           ELSE Finish(t, kaToUserFriendlyError("refused"))
  /\ UNCHANGED <<inv, seen>>
  /\ UNCHANGED resilienceVars

\* What callTool returns: an error, or the text of the first content, and {}
\* without content.
ToolContent(answer) ==
  CASE answer = "callFailed" -> "serviceError"
    [] answer = "isError" -> "agentError"
    [] answer = "empty" -> "{}"
    [] OTHER -> answer

SelectCall(t, answer) ==
  /\ tool[t].stage = "session"
  /\ LET c == ToolContent(answer)
     IN  Finish(t, CASE c \in {"serviceError", "agentError"} -> c
                     [] c = "notJSON" -> "undecodable"
                     [] c \in {"{}", "object"} -> "selected")
  /\ UNCHANGED <<inv, seen>>
  /\ UNCHANGED resilienceVars

\* The caller has the result.
Reply(t) ==
  /\ tool[t].stage = "done"
  /\ tool' = [tool EXCEPT ![t] = NoTool]
  /\ seen' = [seen EXCEPT ![t] = {}]
  /\ UNCHANGED inv
  /\ UNCHANGED resilienceVars

\* Another replica starts the investigation; KA finishes it, or it is
\* cancelled elsewhere; later KA forgets it.
KAProgress(i) ==
  /\ \/ inv = "none" /\ i = "running"
     \/ inv = "running" /\ i \in Terminal
     \/ inv \in Terminal /\ i = "gone"
  /\ inv' = i
  /\ Observe(i)
  /\ UNCHANGED tool
  /\ UNCHANGED resilienceVars

InvestigationInit ==
  /\ ResilienceInit
  /\ inv = "none"
  /\ tool = [t \in Calls |-> NoTool]
  /\ seen = [t \in Calls |-> {}]

Exchanges(t) ==
  \E o \in Statuses \cup Errors, x \in BOOLEAN, b \in {"none", "number", "undecodable", inv} :
    Exchange(t, o, x, b)

ToolStep(t) ==
  \/ Transport(t)
  \/ Exchanges(t)
  \/ CancelAnswer(t) \/ QueryAnswer(t) \/ OperationAnswer(t)
  \/ PollAnswer(t) \/ PollAgain(t) \/ PollCancelled(t)
  \/ FetchResult(t) \/ ResultAnswer(t)
  \/ \E ok \in BOOLEAN : StartAnswer(t, ok) \/ SelectConnect(t, ok) \/ WatchAnswer(t, ok)
  \/ \E a \in {"callFailed", "isError", "notJSON", "object", "empty"} : SelectCall(t, a)

Environment ==
  \/ Expire /\ UNCHANGED toolVars
  \/ Healthy /\ UNCHANGED toolVars
  \/ \E i \in Terminal \cup {"running", "gone"} : KAProgress(i)

InvestigationNext ==
  \/ \E t \in Calls : ToolStep(t) \/ Reply(t) \/ \E op \in Ops(dep) : Invoke(t, op)
  \/ Environment

InvestigationSpec == InvestigationInit /\ [][InvestigationNext]_investigationVars

\* Goroutines run, a request ends at the latest by http.Client.Timeout, the
\* breaker's timer runs, and the kubelet keeps probing readiness.  Nothing
\* is assumed of KA or of the users.
FairInvestigationSpec ==
  /\ InvestigationSpec
  /\ \A t \in Calls : WF_investigationVars(ToolStep(t))
  /\ WF_investigationVars(Expire /\ UNCHANGED toolVars)
  /\ WF_investigationVars(dep = "ka" /\ Healthy /\ UNCHANGED toolVars)

-----------------------------------------------------------------------------
(* Properties.                                                              *)

\* The last answer of KA was an error document, such as that of a session it does not
\* know, which Status decodes without a look at the code: the number in its field
\* "status" is then the status of an investigation that goes on.
ErrorRead(t) == tool[t].body = "number"

\* A poll says that an investigation is over only when it was over at some
\* time during the call, with the very outcome it had; and an investigation
\* that was over during the whole call is not called in progress, unless the last
\* answer was an error document read as a status.
PollTellsTheTruth ==
  \A t \in Calls : tool[t].op = "poll" /\ tool[t].stage = "done" =>
    /\ tool[t].res \in Terminal => tool[t].res \in seen[t]
    /\ tool[t].res = "in_progress" => ~(seen[t] \subseteq Terminal) \/ ErrorRead(t)

\* KA starts or cancels an investigation for a tool call at most once, whatever the
\* retries, resets and timeouts, and the caller learns the truth of it: done when
\* the tool says so or cannot read the answer, and not done when it says that the
\* service is unavailable for a time.
PostsToldTruly ==
  \A t \in Calls : tool[t].op \in {"start", "cancel"} =>
    /\ ran[t] <= 1
    /\ tool[t].stage = "done" /\ tool[t].res \in {"started", "undecodable", "cancelSent"} => ran[t] = 1
    /\ tool[t].stage = "done" /\ tool[t].res = "temporarilyUnavailable" => ran[t] = 0

\* The open breaker of KA does not stay open for ever: the probes, which ask it first,
\* move it to half-open even when no request comes, because the open breaker takes
\* the pod out of service.
BreakerHalfOpens == dep = "ka" /\ cb.state = "open" ~> cb.state # "open"
=============================================================================
