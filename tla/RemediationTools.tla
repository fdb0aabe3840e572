-------------------------- MODULE RemediationTools --------------------------
(***************************************************************************)
(* The tools of the Kubernetes API together.  Requests, owner chains and   *)
(* lists share no state of the program, so a behaviour follows one of the  *)
(* three.                                                                  *)
(***************************************************************************)
EXTENDS Remediation, OwnerChain, ListTools

VARIABLE scene   \* what the behaviour follows

toolVars == <<scene, rrVars, ownerVars, listVars>>

ToolsInit ==
  /\ scene \in {"requests", "owner", "list"}
  /\ RRInit /\ OwnerInit /\ ListInit
  /\ scene # "requests" => ~long
  /\ scene # "owner" => \A o \in Known : refs[o] = missing
  /\ scene # "list" => there = {}

ToolsNext ==
  \/ scene = "requests" /\ RRNext /\ UNCHANGED <<scene, ownerVars, listVars>>
  \/ scene = "owner" /\ OwnerNext /\ UNCHANGED <<scene, rrVars, listVars>>
  \/ scene = "list" /\ ListNext /\ UNCHANGED <<scene, rrVars, ownerVars>>

\* Watches read their channels; see RRSpec.
ToolsSpec ==
  /\ ToolsInit /\ [][ToolsNext]_toolVars
  /\ \A c \in Callers :
       WF_toolVars((ReceiveEvent(c) \/ SeeClosed(c))
                     /\ UNCHANGED <<scene, ownerVars, listVars>>)
==============================================================================
