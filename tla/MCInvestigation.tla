--------------------------- MODULE MCInvestigation ---------------------------
(* Investigation with two goroutines that share a breaker of the Data Store *)
(* or of the Kubernetes client; the first also serves the tools of KA.      *)
EXTENDS Investigation

MCServes ==
  [t \in Calls |-> {"query", "operation", "watch"} \cup
                   IF t = "t1" THEN {"start", "poll", "cancel", "select"} ELSE {}]
==============================================================================
