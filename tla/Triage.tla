------------------------------- MODULE Triage -------------------------------
(***************************************************************************)
(* internal/severity and the Prometheus client under it: concurrent runs   *)
(* of the triage pipeline, which share the cache of alerting rules.        *)
(*                                                                         *)
(* The rule groups are one sequence of rules, as no tier tells groups      *)
(* apart: the break of tier 2 at MaxRulesEvaluated is met again in every   *)
(* later group.  Labels are functions from label names to values.  Time    *)
(* passes in ticks, and only while every run waits for Prometheus or for   *)
(* the language model.                                                     *)
(***************************************************************************)
EXTENDS Integers, Sequences

CONSTANTS
  Runs,               \* goroutines that call Triage
  Target,             \* labels of the resource: namespace, kind and name
  AlertAnswers,       \* what /api/v1/alerts may list: sequences of Alerts
  RuleAnswers,        \* what /api/v1/rules may list: sequences of Rules
  MaxQueriesPerCall,
  MaxRulesEvaluated,
  TTL,                \* CacheTTLSeconds
  Patience            \* deadline of the context an MCP tool call runs under

\* A label that is not there reads as the empty string.
NoSeverity == "none"

ASSUME TriageAssumption ==
  /\ \A answer \in AlertAnswers \cup RuleAnswers : answer \in Seq({answer[i] : i \in DOMAIN answer})
  /\ MaxQueriesPerCall \in Nat /\ MaxRulesEvaluated \in Nat
  /\ TTL \in Nat /\ Patience \in Nat

VARIABLES
  llm,     \* the LLMTriager: "genai" or "noop"
  cache,   \* RulesCache: rules, ticks until it expires, age of its content
  run      \* run[r]: the pipeline run of r

triageVars == <<llm, cache, run>>

-----------------------------------------------------------------------------
(* types.go, and the matching of labels.                                    *)

\* Labels that are not severities, like "warning" or no label, rank 0.
severityRank(s) ==
  CASE s = "critical" -> 5 [] s = "high" -> 4 [] s = "medium" -> 3 [] s = "low" -> 2
    [] s = "info" -> 1 [] OTHER -> 0

ValidateSeverity(s) == severityRank(s) > 0

NormalizeSeverity(s) == IF ValidateSeverity(s) THEN s ELSE "medium"

CompareSeverity(a, b) == severityRank(a) - severityRank(b)

\* MUTANT of Better: the last one wins.
BetterLater(best, s) == IF s # NoSeverity THEN s ELSE best

\* One turn of the loops of tiers 1 and 1.5.
Better(best, s) == IF best = NoSeverity \/ CompareSeverity(s, best) > 0 THEN s ELSE best

\* The loops; they skip the items that are not among the indices in these.
Best(items, these) ==
  LET best[i \in 0..Len(items)] ==
        IF i = 0 THEN NoSeverity
        ELSE IF i \in these THEN Better(best[i - 1], items[i].severity)
        ELSE best[i - 1]
  IN  best[Len(items)]

labelsOverlap(labels) ==
  LET common == DOMAIN labels \cap DOMAIN Target
  IN  common # {} /\ \A k \in common : labels[k] = Target[k]

\* ExtractLabelMatchers of a rule's query: no query, no matchers.
ExtractLabelMatchers(rule) == IF rule.valid THEN rule.matchers ELSE {}

MatchesResource(matchers) ==
  /\ matchers # {}
  /\ \A m \in matchers : m.name \in DOMAIN Target /\ (Target[m.name] = m.value) = m.equal

\* The alerts, and the rules in a state, that are for the resource: their indices.
Firing(alerts) ==
  {i \in DOMAIN alerts : alerts[i].state = "firing" /\ labelsOverlap(alerts[i].labels)}
Matching(rules, state) ==
  {i \in DOMAIN rules : rules[i].state = state /\ MatchesResource(ExtractLabelMatchers(rules[i]))}

\* GenAITriager.classify: a text that is no severity has confidence 0.5, which
\* is below the threshold, and is medium either way.
classify(text) == NormalizeSeverity(text)

-----------------------------------------------------------------------------
NoRun == [pc |-> "idle", alerts |-> <<>>, rules |-> <<>>, next |-> 1, matched |-> 0,
          queries |-> 0, age |-> 0, waited |-> 0, severity |-> NoSeverity, source |-> "none"]
NoRules == [rules |-> <<>>, left |-> -1, age |-> 0]

TriageInit ==
  /\ llm \in {"genai", "noop"}
  /\ cache = NoRules
  /\ run = [r \in Runs |-> NoRun]

At(r, pc) == run[r].pc = pc
Become(r, q) == run' = [run EXCEPT ![r] = q]
Enter(r, pc) == Become(r, [run[r] EXCEPT !.pc = pc])

\* The context has ended: by its deadline, or as the client went away.
Expired(r) == run[r].waited >= Patience

\* Triage returns; HandleCreateRR goes on.
Finish(r, severity, source) ==
  Become(r, [run[r] EXCEPT !.pc = "done", !.severity = severity, !.source = source])
Fail(r) == Become(r, NoRun)

\* triagePipeline begins; were its context over, it would end at once.
Begin(r) ==
  /\ At(r, "idle")
  /\ Enter(r, "alerts")
  /\ UNCHANGED cache

\* The client of the call goes away.
Cancel(r) ==
  /\ run[r].pc \notin {"idle", "done"} /\ ~Expired(r)
  /\ Become(r, [run[r] EXCEPT !.waited = Patience])
  /\ UNCHANGED cache

-----------------------------------------------------------------------------
(* Tier 1.                                                                  *)

\* GetAlerts answers.  The context is looked at again after tier 1.
runTier1(r) ==
  /\ At(r, "alerts") /\ ~Expired(r)
  /\ \E alerts \in AlertAnswers :
       LET best == Best(alerts, Firing(alerts))
       IN  IF best # NoSeverity
           THEN Become(r, [run[r] EXCEPT !.pc = "done", !.alerts = alerts, !.severity = best,
                                         !.source = "firing_alert"])
           ELSE Enter(r, "rules")
  /\ UNCHANGED cache

\* MUTANT of AlertsFail: GetAlerts is tried again, and the context not looked at.
AlertsRetried(r) == At(r, "alerts") /\ UNCHANGED <<cache, run>>

\* GetAlerts fails; at the deadline it must.
AlertsFail(r) ==
  /\ At(r, "alerts")
  /\ IF Expired(r) THEN Fail(r) ELSE Enter(r, "rules")
  /\ UNCHANGED cache

-----------------------------------------------------------------------------
(* The rules, and tier 1.5.                                                 *)

\* Tier 1.5 decides, or tier 2 begins.
runTier15(r, rules, age) ==
  LET best == Best(rules, Matching(rules, "pending"))
  IN  IF best # NoSeverity
      THEN Become(r, [run[r] EXCEPT !.pc = "done", !.rules = rules, !.age = age,
                                    !.severity = best, !.source = "pending_alert"])
      ELSE Become(r, [run[r] EXCEPT !.pc = "tier2", !.rules = rules, !.age = age])

\* MUTANT of Get: the expiry is not looked at.
GetExpired == cache.rules

Get == IF cache.left >= 0 THEN cache.rules ELSE <<>>

fetchRules(r) ==
  /\ At(r, "rules")
  /\ IF Get # <<>> THEN runTier15(r, Get, cache.age) ELSE Enter(r, "fetch")
  /\ UNCHANGED cache

\* Prometheus answers; the answer is on its way while its age grows.
RulesAnswer(r) ==
  /\ At(r, "fetch") /\ ~Expired(r)
  /\ \E rules \in RuleAnswers : Become(r, [run[r] EXCEPT !.pc = "fetched", !.rules = rules, !.age = 0])
  /\ UNCHANGED cache

\* Without rules there are no tiers 1.5 to 2.5.
RulesFail(r) ==
  /\ run[r].pc \in {"fetch", "fetched"}
  /\ Become(r, [run[r] EXCEPT !.pc = "tier3", !.rules = <<>>, !.age = 0])
  /\ UNCHANGED cache

Set(rules, age) == cache' = [rules |-> rules, left |-> TTL, age |-> age]

\* The answer arrives.  An empty one is not stored.
RulesArrive(r) ==
  /\ At(r, "fetched") /\ ~Expired(r)
  /\ IF run[r].rules # <<>> THEN Set(run[r].rules, run[r].age) ELSE UNCHANGED cache
  /\ runTier15(r, run[r].rules, run[r].age)

-----------------------------------------------------------------------------
(* Tier 2: one rule after the other.                                        *)

\* The rule at hand, and whether the loops are over.
Current(r) == run[r].rules[run[r].next]
Over(r) == run[r].next > Len(run[r].rules) \/ run[r].matched >= MaxRulesEvaluated
Applies(r) == run[r].next \in Matching(run[r].rules, "inactive")

\* The loop goes on, with so many rules matched and queries made.
Skip(r, matched, queries) ==
  Become(r, [run[r] EXCEPT !.next = run[r].next + 1, !.matched = matched, !.queries = queries])

\* The rule is not inactive, not for this resource, or past the limit of queries.
SkipRule(r) ==
  /\ At(r, "tier2") /\ ~Over(r)
  /\ \/ ~Applies(r) /\ Skip(r, run[r].matched, run[r].queries)
     \/ /\ Applies(r) /\ run[r].queries >= MaxQueriesPerCall
        /\ Skip(r, run[r].matched + 1, run[r].queries)
  /\ UNCHANGED cache

\* InstantQuery returns data, nothing, or an error.
Query(r) ==
  /\ At(r, "tier2") /\ ~Over(r) /\ Applies(r) /\ run[r].queries < MaxQueriesPerCall
  /\ \/ ~Expired(r) /\ Finish(r, Current(r).severity, "rule_evaluation")
     \/ Skip(r, run[r].matched + 1, run[r].queries + 1)
  /\ UNCHANGED cache

EndTier2(r) ==
  /\ At(r, "tier2") /\ Over(r)
  /\ Enter(r, IF run[r].matched > 0 THEN "tier25" ELSE "tier3")
  /\ UNCHANGED cache

-----------------------------------------------------------------------------
(* Tiers 2.5 and 3: the language model.                                     *)

Replies == {"critical", "unsure"}

\* The answer of the LLMTriager; the stub does not look at the context.
Ask(r, source) ==
  \/ llm = "noop" /\ Finish(r, "medium", source)
  \/ llm = "genai" /\ ~Expired(r) /\ \E text \in Replies : Finish(r, classify(text), source)

runTier25(r) ==
  /\ At(r, "tier25")
  /\ \/ Ask(r, "llm_rule_informed")
     \/ llm = "genai" /\ Enter(r, "tier3")
  /\ UNCHANGED cache

runTier3(r) ==
  /\ At(r, "tier3")
  /\ \/ Ask(r, "llm_triage")
     \/ llm = "genai" /\ Fail(r)
  /\ UNCHANGED cache

\* The caller has its answer.
Take(r) ==
  /\ At(r, "done")
  /\ Fail(r)
  /\ UNCHANGED cache

-----------------------------------------------------------------------------
Asking == {"alerts", "fetch", "fetched", "tier2", "tier25", "tier3"}

\* Ages are told apart up to the first that is too old.
MaxAge == TTL + Patience + 1
Older(n, max) == IF n < max THEN n + 1 ELSE n

\* Time passes while nobody computes, and not beyond a deadline.
Tick ==
  /\ \A r \in Runs : At(r, "idle") \/ (run[r].pc \in Asking /\ ~Expired(r))
  /\ cache' = IF cache.rules = <<>> THEN cache
              ELSE [rules |-> cache.rules, age |-> Older(cache.age, MaxAge),
                    left |-> IF cache.left < 0 THEN cache.left ELSE cache.left - 1]
  /\ run' = [r \in Runs |->
       IF At(r, "idle") THEN run[r]
       ELSE [run[r] EXCEPT !.waited = Older(run[r].waited, Patience),
                           !.age = IF At(r, "fetched") THEN Older(run[r].age, MaxAge) ELSE run[r].age]]
  /\ UNCHANGED llm

Step(r) ==
  /\ \/ runTier1(r) \/ AlertsFail(r)
     \/ fetchRules(r) \/ RulesAnswer(r) \/ RulesFail(r) \/ RulesArrive(r)
     \/ SkipRule(r) \/ Query(r) \/ EndTier2(r)
     \/ runTier25(r) \/ runTier3(r) \/ Take(r)
  /\ UNCHANGED llm

Call(r) == (Begin(r) \/ Cancel(r)) /\ UNCHANGED llm

TriageNext ==
  \/ \E r \in Runs : Call(r) \/ Step(r)
  \/ Tick

\* A run that computes goes on, and so does one whose context has ended: its
\* request returns.  Nobody has to answer a request before that.
TriageSpec ==
  /\ TriageInit /\ [][TriageNext]_triageVars
  /\ SF_triageVars(Tick)
  /\ \A r \in Runs : WF_triageVars((run[r].pc \notin Asking \/ Expired(r)) /\ Step(r))

-----------------------------------------------------------------------------
Severities(items, these) == {items[i].severity : i \in these}

MostSevere(severity, all) == severity \in all /\ \A s \in all : CompareSeverity(s, severity) <= 0

\* In tiers 1 and 1.5 the severity is that of an alert or a rule for the
\* resource, and none of those is more severe, in whatever order they come
\* and whatever labels that are no severities are among them.  No later tier
\* decides over a pending rule for the resource that has a severity; a rule
\* that is evaluated, or told to the model, is an inactive one for the resource.
HighestWins ==
  \A r \in Runs : At(r, "done") =>
    LET q == run[r]
        firing == Severities(q.alerts, Firing(q.alerts))
        pending == Severities(q.rules, Matching(q.rules, "pending"))
        inactive == Severities(q.rules, Matching(q.rules, "inactive"))
    IN  /\ q.source = "firing_alert" => MostSevere(q.severity, firing)
        /\ q.source = "pending_alert" => MostSevere(q.severity, pending)
        /\ q.source \notin {"firing_alert", "pending_alert"} => pending \subseteq {NoSeverity}
        /\ q.source = "llm_rule_informed" => inactive # {}
        /\ q.source = "rule_evaluation" => q.severity \in inactive

\* No run is given rules that Prometheus listed longer ago than the life of
\* the cache and of one request together, whichever of two concurrent fetches
\* stores its answer last.
RulesFresh == \A r \in Runs : run[r].age <= TTL + Patience

\* Every run ends, in a severity or in an error, though Prometheus and the
\* model may never answer.
TriageEnds == \A r \in Runs : ~At(r, "idle") ~> At(r, "idle")
==============================================================================
