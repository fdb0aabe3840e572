---------------------------- MODULE SessionPhases ----------------------------
(***************************************************************************)
(* The phase machine of an InvestigationSession: the table of transitions  *)
(* of internal/session/statemachine.go and the predicates the session      *)
(* service and the TTL controller ask of it.                               *)
(***************************************************************************)

\* The phases of SessionPhase; NoPhase is the empty string of an
\* InvestigationSession whose status has never been written.
Phases  == {"Active", "Disconnected", "Completed", "Cancelled", "Failed"}
NoPhase == ""

terminalPhases == {"Completed", "Cancelled", "Failed"}

IsTerminal(phase) == phase \in terminalPhases

validTransitions ==
  [from \in {"Active", "Disconnected"} |->
     IF from = "Active"
     THEN {"Completed", "Cancelled", "Failed", "Disconnected"}
     ELSE {"Active", "Cancelled", "Failed"}]

\* ValidateTransition(from, to) returns nil.
ValidTransition(from, to) ==
  /\ from \in DOMAIN validTransitions
  /\ to \in validTransitions[from]

==============================================================================
