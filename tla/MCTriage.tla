------------------------------ MODULE MCTriage ------------------------------
(* Two concurrent runs of the triage pipeline for one deployment.            *)
EXTENDS Triage

MCRuns == {"r1", "r2"}
MCTarget == [namespace |-> "prod", kind |-> "Deployment", name |-> "web"]

Alert(state, severity, labels) == [state |-> state, severity |-> severity, labels |-> labels]
Own == [namespace |-> "prod", alertname |-> "Slow"]
Other == [namespace |-> "test", kind |-> "Deployment"]

\* Alerts of the resource and of others, firing or not, without a severity and
\* with one that is not known, in more than one order.
MCAlertAnswers == {
  <<>>,
  <<Alert("firing", "critical", Other), Alert("pending", "high", Own)>>,
  <<Alert("firing", NoSeverity, Own), Alert("firing", "warning", Own)>>,
  <<Alert("firing", "warning", Own), Alert("firing", "high", Own), Alert("firing", "low", Own)>>}

Rule(state, severity, matchers) ==
  [state |-> state, severity |-> severity, valid |-> TRUE, matchers |-> matchers]
Broken(state) == [state |-> state, severity |-> "critical", valid |-> FALSE, matchers |-> {}]
Is(name, value) == [name |-> name, equal |-> TRUE, value |-> value]
IsNot(name, value) == [name |-> name, equal |-> FALSE, value |-> value]
Prod == {Is("namespace", "prod"), IsNot("name", "db")}
Test == {Is("namespace", "test")}
Pod == {Is("namespace", "prod"), Is("pod", "web-1")}

MCRuleAnswers == {
  <<>>,
  <<Rule("pending", "low", Prod), Rule("pending", "high", Prod), Rule("pending", "info", Prod)>>,
  <<Broken("pending"), Rule("pending", "critical", Pod), Rule("pending", NoSeverity, Prod),
    Rule("inactive", "high", Test), Rule("inactive", NoSeverity, Prod),
    Rule("inactive", "high", Prod), Rule("inactive", "low", Prod)>>}
=============================================================================
