SPECIFICATION TriageSpec
CONSTANTS
  Runs <- MCRuns
  Target <- MCTarget
  AlertAnswers <- MCAlertAnswers
  RuleAnswers <- MCRuleAnswers
  MaxQueriesPerCall = 1
  MaxRulesEvaluated = 2
  TTL = 1
  Patience = 2
INVARIANTS HighestWins RulesFresh
PROPERTY TriageEnds
