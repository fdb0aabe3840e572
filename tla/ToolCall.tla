------------------------------ MODULE ToolCall ------------------------------
(***************************************************************************)
(* A request on /mcp, from the router to the tool and back:                *)
(* internal/handler/router.go (order of the middleware), the two limiters  *)
(* of internal/ratelimit in front of and behind the authentication, and    *)
(* wrapTool of internal/handler/mcp_bridge.go with its semaphore.          *)
(***************************************************************************)
EXTENDS RateLimit, Sequences, Functions

CONSTANTS
  Calls,               \* goroutines that serve requests
  Identities,          \* authenticated users: [name, groups]
  NoIdentity,          \* no issuer is configured: requests pass without identity
  Key,                 \* the user whose limiters are followed
  Tools,               \* registered tools
  RBACRoles,           \* RBACRoles[g]: tools of group g, where "*" is any group or tool
  Backend,             \* Backend[t]: "k8s", "ka", "ds" or "none"
  DSConfigured,        \* a DSClient was built
  MaxConcurrentTools,
  defaultMaxConcurrentTool

ASSUME ToolAssumption ==
  /\ IsFiniteSet(Calls)
  /\ MaxConcurrentTools \in Int /\ defaultMaxConcurrentTool \in Nat \ {0}
  /\ Backend \in [Tools -> {"k8s", "ka", "ds", "none"}]
  /\ NoIdentity \notin Identities

VARIABLES
  call,     \* call[c]: the request that c serves
  waiters   \* queue of the semaphore

toolVars == <<tier, entry, ideal, count, slot, call, waiters>>

NoCall == [pc |-> "idle", user |-> NoIdentity, tool |-> CHOOSE t \in Tools : TRUE,
           expired |-> FALSE, result |-> "none", labels |-> <<>>, events |-> <<>>]

Stage(c, pc) == call[c].pc = pc
Step(c, pc) == call' = [call EXCEPT ![c].pc = pc]

GetMaxConcurrentTools ==
  IF MaxConcurrentTools > 0 THEN MaxConcurrentTools ELSE defaultMaxConcurrentTool

ToolInit ==
  /\ RateInit
  /\ call = [c \in Calls |-> NoCall]
  /\ waiters = <<>>

-----------------------------------------------------------------------------
(* The middleware.                                                          *)

\* A call of the limiter of kind t for key k.  Limiters that are not followed
\* may answer either way.
Limiter(t, k, ok) ==
  IF tier = t /\ k = Key THEN Allow(ok) ELSE ok \in BOOLEAN /\ UNCHANGED rateVars

AllowIP(ok) == Limiter("ip", Key, ok)

AllowRequest(username, ok) == Limiter("request", username, ok)

AllowToolCall(username, ok) == Limiter("tool", username, ok)

\* PreAuthMiddleware; a refused request is answered with 429.  All requests
\* come from one address.  No request uses slots, so none is followed with them.
PreAuth(c) ==
  /\ Stage(c, "idle") /\ tier \in Buckets
  /\ \E ok \in BOOLEAN : AllowIP(ok) /\ Step(c, IF ok THEN "auth" ELSE "idle")
  /\ UNCHANGED waiters

\* The authentication middleware, the subject of TokenValidation.
Authenticate(c) ==
  /\ Stage(c, "auth")
  /\ \/ Step(c, "idle")
     \/ \E u \in Identities \cup {NoIdentity} :
          call' = [call EXCEPT ![c].pc = "authenticated", ![c].user = u]
  /\ UNCHANGED <<rateVars, waiters>>

\* PostAuthMiddleware; without identity there is no limit.  The handler of the
\* route is next: a tool of the MCP server, or the agent.
PostAuth(c, handler) ==
  /\ Stage(c, "authenticated")
  /\ \/ /\ call[c].user = NoIdentity
        /\ Step(c, handler)
        /\ UNCHANGED rateVars
     \/ /\ call[c].user # NoIdentity
        /\ \E ok \in BOOLEAN :
             /\ AllowRequest(call[c].user.name, ok)
             /\ call' = [call EXCEPT ![c] = IF ok THEN [@ EXCEPT !.pc = handler] ELSE NoCall]
  /\ UNCHANGED waiters

-----------------------------------------------------------------------------
(* wrapTool up to the tool.                                                 *)

\* recordMetrics and emitAudit, always called together.
Reported(c, label, event) ==
  [call[c] EXCEPT !.labels = Append(@, label), !.events = Append(@, event)]

Finish(c, label, event) ==
  call' = [call EXCEPT ![c] = [Reported(c, label, event) EXCEPT !.pc = "finished"]]

Grants(g, tool) == g \in DOMAIN RBACRoles /\ RBACRoles[g] \cap {tool, "*"} # {}

checkRBAC(user, tool) ==
  \/ Grants("*", tool)
  \/ user # NoIdentity /\ \E g \in user.groups : Grants(g, tool)

CheckRBAC(c) ==
  /\ Stage(c, "mcp")
  /\ \E t \in Tools :
       IF checkRBAC(call[c].user, t)
       THEN call' = [call EXCEPT ![c].pc = "allowed", ![c].tool = t]
       ELSE Finish(c, "denied", "MCPToolDenied")
  /\ UNCHANGED <<rateVars, waiters>>

usernameFromCtx(user) == IF user = NoIdentity THEN "system" ELSE user.name

LimitTool(c) ==
  /\ Stage(c, "allowed")
  /\ \E ok \in BOOLEAN :
       /\ AllowToolCall(usernameFromCtx(call[c].user), ok)
       /\ IF ok THEN call' = [call EXCEPT ![c].pc = "acquire", ![c].user = NoIdentity]
                ELSE Finish(c, "rate_limited", "MCPToolFailed")
  /\ UNCHANGED waiters

\* The semaphore is in use until the deferred Release.
Using == {c \in Calls : call[c].pc \in {"running", "returned"}}

\* WithTimeout, then Acquire: at once, or at the end of the queue.
Acquire(c) ==
  /\ Stage(c, "acquire")
  /\ IF Cardinality(Using) < GetMaxConcurrentTools /\ waiters = <<>>
     THEN Step(c, "running") /\ UNCHANGED waiters
     ELSE Step(c, "waiting") /\ waiters' = Append(waiters, c)
  /\ UNCHANGED rateVars

\* The deadline of the tool passes, or the client goes away.
Expire(c) ==
  /\ call[c].pc \in {"waiting", "running"} /\ ~call[c].expired
  /\ call' = [call EXCEPT ![c].expired = TRUE]
  /\ UNCHANGED <<rateVars, waiters>>

\* The list of waiters without one of its elements.
RemoveAt(q, i) == SubSeq(q, 1, i - 1) \o SubSeq(q, i + 1, Len(q))

\* MUTANT of Throttle: a call that gives up stays in the queue.
ThrottleQueued(c) ==
  /\ Stage(c, "waiting") /\ call[c].expired
  /\ Finish(c, "throttled", "MCPToolFailed")
  /\ UNCHANGED <<rateVars, waiters>>

\* Acquire gives up, and its element is removed from the list of waiters.
Throttle(c) ==
  /\ Stage(c, "waiting") /\ call[c].expired
  /\ \E i \in DOMAIN waiters : waiters[i] = c /\ waiters' = RemoveAt(waiters, i)
  /\ Finish(c, "throttled", "MCPToolFailed")
  /\ UNCHANGED rateVars

-----------------------------------------------------------------------------
(* The tool, and wrapTool after it.                                         *)

\* What the handler that RegisterTools gave to tool t may do.  "odd": a result
\* that json.Marshal refuses.
Results(t) ==
  CASE Backend[t] = "none" -> {"ok"}
    [] Backend[t] = "ds" /\ ~DSConfigured -> {"error"}
    [] OTHER -> {"ok", "error", "odd", "panic"}

\* MUTANT of Return: a tool that has passed its deadline is not waited for again.
ReturnInTime(c) ==
  /\ Stage(c, "running") /\ ~call[c].expired
  /\ call' = [call EXCEPT ![c] = [Reported(c, "success", "MCPToolInvoked")
                                   EXCEPT !.pc = "returned", !.result = "ok"]]
  /\ UNCHANGED <<rateVars, waiters>>

\* The handler returns or panics.  All but a panic is reported before the
\* deferred calls run.
Return(c) ==
  /\ Stage(c, "running")
  /\ \E r \in Results(call[c].tool) :
       LET report == CASE r = "ok" -> Reported(c, "success", "MCPToolInvoked")
                       [] r = "error" /\ call[c].expired -> Reported(c, "timeout", "MCPToolFailed")
                       [] r = "error" /\ ~call[c].expired -> Reported(c, "error", "MCPToolFailed")
                       [] r = "odd" -> Reported(c, "error", "MCPToolFailed")
                       [] r = "panic" -> call[c]
       IN  call' = [call EXCEPT ![c] = [report EXCEPT !.pc = "returned", !.result = r]]
  /\ UNCHANGED <<rateVars, waiters>>

\* MUTANT of Release: a panic is not recovered here, so nothing is reported.
ReleaseUnrecovered(c) ==
  /\ Stage(c, "returned")
  /\ LET done == [call EXCEPT ![c].pc = "finished"]
     IN  IF waiters = <<>>
         THEN call' = done /\ UNCHANGED waiters
         ELSE /\ call' = [done EXCEPT ![Head(waiters)].pc = "running"]
              /\ waiters' = Tail(waiters)
  /\ UNCHANGED rateVars

\* The deferred calls: Release wakes the first in the queue, and a panic is
\* recovered and reported.
Release(c) ==
  /\ Stage(c, "returned")
  /\ LET own == IF call[c].result = "panic" THEN Reported(c, "panic", "MCPToolFailed") ELSE call[c]
         done == [call EXCEPT ![c] = [own EXCEPT !.pc = "finished"]]
     IN  IF waiters = <<>>
         THEN call' = done /\ UNCHANGED waiters
         ELSE /\ call' = [done EXCEPT ![Head(waiters)].pc = "running"]
              /\ waiters' = Tail(waiters)
  /\ UNCHANGED rateVars

\* The result goes to the client, and wrapTool is over.
Answer(c) ==
  /\ Stage(c, "finished")
  /\ call' = [call EXCEPT ![c] = NoCall]
  /\ UNCHANGED <<rateVars, waiters>>

-----------------------------------------------------------------------------
Resting == {"idle", "waiting", "running"}

\* Time passes while requests wait, but not while they compute.
Elapse ==
  /\ \A c \in Calls : call[c].pc \in Resting
  /\ Tick
  /\ UNCHANGED <<call, waiters>>

\* The limiters when no request calls them.
LimiterStep ==
  /\ \/ cleanup
     \/ \E w \in Workers : SlotStep(w)
  /\ UNCHANGED <<call, waiters>>

\* What a goroutine does by itself.
Proceed(c) ==
  \/ Authenticate(c) \/ PostAuth(c, "mcp") \/ CheckRBAC(c) \/ LimitTool(c) \/ Acquire(c)
  \/ Throttle(c) \/ Return(c) \/ Release(c) \/ Answer(c)

ToolNext ==
  \/ \E c \in Calls : PreAuth(c) \/ Proceed(c) \/ Expire(c)
  \/ LimiterStep
  \/ Elapse

ToolSpec == ToolInit /\ [][ToolNext]_toolVars

\* Goroutines are scheduled, deadlines pass, and tools return: the clients they
\* call have timeouts or obey the context.
FairToolSpec ==
  /\ ToolSpec
  /\ \A c \in Calls : WF_toolVars(Proceed(c)) /\ WF_toolVars(Expire(c))

-----------------------------------------------------------------------------
\* No slot of the semaphore leaks or is handed out twice, whether a tool
\* returns, panics or times out, and no call waits while a slot is free.
SlotsConserved ==
  /\ Cardinality(Using) <= GetMaxConcurrentTools
  /\ Range(waiters) = {c \in Calls : Stage(c, "waiting")}
  /\ waiters # <<>> => Cardinality(Using) = GetMaxConcurrentTools

Last(s) == s[Len(s)]

\* A finished tool call has been counted once and audited once, and it is
\* audited as invoked iff the tool ran and its result reached the client.
ReportedOnce ==
  \A c \in Calls : Stage(c, "finished") =>
    /\ Len(call[c].labels) = 1 /\ Len(call[c].events) = 1
    /\ Last(call[c].events) = "MCPToolInvoked" <=> call[c].result = "ok"
    /\ Last(call[c].events) = "MCPToolDenied" <=> Last(call[c].labels) = "denied"

\* A request that gets a tool call started comes to an end, however busy the
\* semaphore is.
CallsEnd == \A c \in Calls : Stage(c, "acquire") ~> Stage(c, "idle")
==============================================================================
