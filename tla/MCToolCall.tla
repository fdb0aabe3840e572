----------------------------- MODULE MCToolCall -----------------------------
(* Two requests, to tools or to the agent, and one slot of the semaphore.   *)
EXTENDS AgentTools

MCIdentities == {[name |-> "ann", groups |-> {"sre"}], [name |-> "bob", groups |-> {"cicd"}]}

MCRoles == [sre |-> {"get", "present"}, cicd |-> {"present"}]

MCBackend == [get |-> "k8s", present |-> "none"]
==============================================================================
