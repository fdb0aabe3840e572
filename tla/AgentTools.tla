----------------------------- MODULE AgentTools -----------------------------
(***************************************************************************)
(* A request on /a2a/invoke: the callbacks around a task in                *)
(* internal/launcher/launcher.go and around each tool the agent calls in   *)
(* internal/agent/root.go, with the map of start times they share and its  *)
(* sweep.  The agent library calls them; the language model decides which  *)
(* tools, and how many.                                                    *)
(***************************************************************************)
EXTENDS ToolCall

CONSTANTS
  AgentCalls,   \* the goroutines among Calls whose requests may be for the agent
  SweepAge      \* 5 minutes

ASSUME AgentAssumption == AgentCalls \subseteq Calls /\ SweepAge \in Nat

VARIABLES
  starts,   \* starts[c]: age of the entry of c's tool call in the map of start times
  left,     \* ages of the entries of calls that were abandoned
  took,     \* took[c]: ticks since c's tool was started
  trail,    \* trail[c]: events of c's task, without those of its tool calls
  report    \* report[c]: what the callbacks have said of a tool call of c's task, up to
            \* the next one or the end of the task

agentVars == <<tier, entry, ideal, count, slot, call, waiters, starts, left, took, trail, report>>
agentOnly == <<starts, left, took, trail, report>>

Report(verdict, events) ==
  [verdict |-> verdict, failed |-> FALSE, events |-> events, labels |-> <<>>]

NoReport == Report("none", <<>>)

NoStart == -1
Old == SweepAge + 1

AgentInit ==
  /\ ToolInit
  /\ starts = [c \in Calls |-> NoStart]
  /\ left = {}
  /\ took = [c \in Calls |-> 0]
  /\ trail = [c \in Calls |-> <<>>]
  /\ report = [c \in Calls |-> NoReport]

TaskEvent(c, e) == trail' = [trail EXCEPT ![c] = Append(@, e)]

-----------------------------------------------------------------------------
(* The task.                                                                *)

BeforeExecute(c) ==
  /\ Stage(c, "a2a")
  /\ Step(c, "turn")
  /\ TaskEvent(c, "A2ATaskStarted")
  /\ UNCHANGED <<rateVars, waiters, starts, left, took, report>>

\* The model has answered, or the task has failed.
AfterExecute(c, failed) ==
  /\ Stage(c, "turn")
  /\ Step(c, "told")
  /\ TaskEvent(c, IF failed THEN "A2ATaskFailed" ELSE "A2ATaskCompleted")
  /\ report' = [report EXCEPT ![c] = NoReport]
  /\ UNCHANGED <<rateVars, waiters, starts, left, took>>

AnswerTask(c) ==
  /\ Stage(c, "told")
  /\ call' = [call EXCEPT ![c] = NoCall]
  /\ trail' = [trail EXCEPT ![c] = <<>>]
  /\ report' = [report EXCEPT ![c] = NoReport]
  /\ UNCHANGED <<rateVars, waiters, starts, left, took>>

-----------------------------------------------------------------------------
(* One tool call of the agent.                                              *)

\* The RBAC guard: the groups of the user, without wildcards.
rbacAllows(user, tool) ==
  user # NoIdentity /\ \E g \in user.groups \cap DOMAIN RBACRoles : tool \in RBACRoles[g]

\* A refusal is the result of the tool, not an error.  It is audited unless there is
\* no identity, and the library may run the callbacks after it all the same.
Refusal(user) ==
  IF user = NoIdentity THEN Report("unauthorized", <<>>) ELSE Report("forbidden", <<"RBACDenied">>)

Guard(c) ==
  /\ Stage(c, "turn")
  /\ \E t \in Tools :
       IF rbacAllows(call[c].user, t)
       THEN Step(c, "start") /\ report' = [report EXCEPT ![c] = Report("granted", <<>>)]
       ELSE /\ \E after \in {"turn", "after"} : Step(c, after)
            /\ report' = [report EXCEPT ![c] = Refusal(call[c].user)]
  /\ UNCHANGED <<rateVars, waiters, starts, left, took, trail>>

beforeMetrics(c) ==
  /\ Stage(c, "start")
  /\ starts' = [starts EXCEPT ![c] = 0]
  /\ took' = [took EXCEPT ![c] = 0]
  /\ Step(c, "tooling")
  /\ UNCHANGED <<rateVars, waiters, left, trail, report>>

ToolReturns(c) ==
  /\ Stage(c, "tooling")
  /\ Step(c, "after")
  /\ \E failed \in BOOLEAN : report' = [report EXCEPT ![c].failed = failed]
  /\ UNCHANGED <<rateVars, waiters, starts, left, took, trail>>

\* The outcome that is counted: only an error of the tool is one.
resultLabel(failed) == IF failed THEN "error" ELSE "success"

\* What the callbacks after a tool add to what was said of it.
Invoked(r) == [verdict |-> r.verdict, failed |-> r.failed,
               events |-> Append(r.events, "ToolInvoked"),
               labels |-> Append(r.labels, resultLabel(r.failed))]

\* afterMetrics, then afterAudit.
AfterTool(c) ==
  /\ Stage(c, "after")
  /\ starts' = [starts EXCEPT ![c] = NoStart]
  /\ took' = [took EXCEPT ![c] = 0]
  /\ report' = [report EXCEPT ![c] = Invoked(@)]
  /\ Step(c, "turn")
  /\ UNCHANGED <<rateVars, waiters, left, trail>>

\* A panic or the end of the request: the callbacks after the tool never run,
\* and the task fails.
Abandon(c) ==
  /\ Stage(c, "tooling")
  /\ left' = left \cup ({starts[c]} \ {NoStart})
  /\ starts' = [starts EXCEPT ![c] = NoStart]
  /\ took' = [took EXCEPT ![c] = 0]
  /\ Step(c, "told")
  /\ TaskEvent(c, "A2ATaskFailed")
  /\ UNCHANGED <<rateVars, waiters, report>>

\* MUTANT of sweep: the age of an entry is not looked at.
sweepAll ==
  /\ left # {} \/ \E c \in Calls : starts[c] # NoStart
  /\ starts' = [c \in Calls |-> NoStart]
  /\ left' = {}
  /\ UNCHANGED <<rateVars, call, waiters, took, trail, report>>

\* The sweep takes what is older than SweepAge, abandoned or not.
sweep ==
  /\ Old \in left \cup {starts[c] : c \in Calls}
  /\ starts' = [c \in Calls |-> IF starts[c] = Old THEN NoStart ELSE starts[c]]
  /\ left' = left \ {Old}
  /\ UNCHANGED <<rateVars, call, waiters, took, trail, report>>

-----------------------------------------------------------------------------
Older(a) == Least(a + 1, Old)

AgentElapse ==
  /\ \A c \in Calls : call[c].pc \in Resting \cup {"turn", "tooling"}
  /\ Tick
  /\ starts' = [c \in Calls |-> IF starts[c] = NoStart THEN NoStart ELSE Older(starts[c])]
  /\ left' = {Older(a) : a \in left}
  /\ took' = [c \in Calls |-> IF Stage(c, "tooling") THEN Older(took[c]) ELSE took[c]]
  /\ UNCHANGED <<call, waiters, trail, report>>

RunTask(c) ==
  \/ c \in AgentCalls /\ PostAuth(c, "a2a") /\ UNCHANGED agentOnly
  \/ BeforeExecute(c) \/ AnswerTask(c)
  \/ beforeMetrics(c) \/ ToolReturns(c) \/ AfterTool(c)

AgentNext ==
  \/ \E c \in Calls :
       \/ (PreAuth(c) \/ Proceed(c) \/ Expire(c)) /\ UNCHANGED agentOnly
       \/ RunTask(c) \/ Guard(c) \/ Abandon(c)
       \/ \E failed \in BOOLEAN : AfterExecute(c, failed)
  \/ LimiterStep /\ UNCHANGED agentOnly
  \/ sweep
  \/ AgentElapse

\* As in FairToolSpec; the sweep has a ticker of its own, and time goes on.  The
\* model may call tools for ever.
AgentSpec ==
  /\ AgentInit /\ [][AgentNext]_agentVars
  /\ \A c \in Calls :
       /\ WF_agentVars(Proceed(c) /\ UNCHANGED agentOnly)
       /\ WF_agentVars(Expire(c) /\ UNCHANGED agentOnly)
       /\ WF_agentVars(RunTask(c))
  /\ WF_agentVars(sweep) /\ SF_agentVars(AgentElapse)

-----------------------------------------------------------------------------
\* The start times are those of the tools that run now, and the duration of
\* every tool that takes no longer than SweepAge is measured.
StartsKept ==
  \A c \in Calls :
    /\ starts[c] # NoStart => call[c].pc \in {"tooling", "after"}
    /\ Stage(c, "tooling") /\ took[c] <= SweepAge => starts[c] # NoStart

\* The sweep takes no start time of a tool that runs, and those of abandoned tool
\* calls do not stay in the map.
SweepIsExact == [](StartsKept /\ <>(Old \notin left))

\* What is said of a tool call that the agent has got over, as <<events, labels>>.
\* One that was granted is audited and counted once, by the outcome of the tool.  One
\* that was forbidden is audited as such, first and once; when the callbacks run after
\* it, it is also audited as invoked and counted as a success.
Said(r) ==
  <<r.events, r.labels>> \in
    CASE r.verdict = "none" -> {<< <<>>, <<>> >>}
      [] r.verdict = "granted" -> {<< <<"ToolInvoked">>, <<resultLabel(r.failed)>> >>}
      [] r.verdict = "forbidden" -> {<< <<"RBACDenied">>, <<>> >>,
                                     << <<"RBACDenied", "ToolInvoked">>, <<"success">> >>}
      [] r.verdict = "unauthorized" -> {<< <<>>, <<>> >>, << <<"ToolInvoked">>, <<"success">> >>}

\* A granted tool call of which the callbacks said nothing.
Unsaid(r) == r.verdict = "granted" /\ r.events = <<>> /\ r.labels = <<>>

\* Every tool call of a client and of the agent, and every task, is reported once: a
\* task is audited as started once and as ended once before its client is told, and no
\* tool call is left unreported but that of a task that is reported as failed, or one
\* refused for want of an identity.
EverythingReported ==
  /\ ReportedOnce
  /\ \A c \in Calls : Stage(c, "turn") => Said(report[c])
  /\ \A c \in Calls : Stage(c, "told") =>
       /\ Len(trail[c]) = 2
       /\ Head(trail[c]) = "A2ATaskStarted"
       /\ Last(trail[c]) \in {"A2ATaskCompleted", "A2ATaskFailed"}
       /\ Unsaid(report[c]) => Last(trail[c]) = "A2ATaskFailed"
==============================================================================
