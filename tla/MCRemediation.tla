---------------------------- MODULE MCRemediation ----------------------------
(* Three callers on two replicas over two milliseconds, all owner graphs over *)
(* four resources, one of a kind that is not known, and lists of five objects, *)
(* not all of which fit.                                                     *)
EXTENDS RemediationTools

MCReplicas == {"p1", "p2"}
MCCallers == {"c1", "c2", "c3"}
MCReplica == [c1 |-> "p1", c2 |-> "p1", c3 |-> "p2"]
MCOps == [c1 |-> {"create"}, c2 |-> {"create", "cancel", "watch"}, c3 |-> {"create"}]

MCResources == {"pod", "rs", "deploy", "custom"}
MCRefLists ==
  {<<>>, <<[to |-> NoOwner, controller |-> TRUE]>>}
    \cup {<<[to |-> o, controller |-> FALSE]>> : o \in MCResources}
    \cup {<<[to |-> "custom", controller |-> FALSE], [to |-> o, controller |-> TRUE]>> :
            o \in {"rs", "deploy"}}
MCKind == <<"Deployment", "Deployment", "StatefulSet", "Pod", "RemediationRequest">>
MCSize == <<3, 4, 3, 12, 12>>
MCMatches == <<TRUE, FALSE, TRUE, FALSE, TRUE>>
==============================================================================
