--------------------------- MODULE SessionLifecycle ---------------------------
(***************************************************************************)
(* What the session store promises about each InvestigationSession, with   *)
(* no replicas, requests, copies or retries: a session comes into being    *)
(* without a status, becomes Active, moves along the transition table and  *)
(* may be removed at any moment.  A terminal phase is never left.          *)
(***************************************************************************)
EXTENDS SessionPhases

CONSTANTS Keys,    \* names of InvestigationSession objects
          Absent   \* the phase of a name that has no object

VARIABLE phase     \* phase[k]: Absent, NoPhase or one of Phases

Init == phase = [k \in Keys |-> Absent]

Create(k) ==
  /\ phase[k] = Absent
  /\ phase' = [phase EXCEPT ![k] = NoPhase]

Activate(k) ==
  /\ phase[k] = NoPhase
  /\ phase' = [phase EXCEPT ![k] = "Active"]

Transition(k) ==
  \E to \in Phases : /\ ValidTransition(phase[k], to)
                     /\ phase' = [phase EXCEPT ![k] = to]

Remove(k) ==
  /\ phase[k] # Absent
  /\ phase' = [phase EXCEPT ![k] = Absent]

Next == \E k \in Keys : Create(k) \/ Activate(k) \/ Transition(k) \/ Remove(k)

Spec == Init /\ [][Next]_phase

==============================================================================
