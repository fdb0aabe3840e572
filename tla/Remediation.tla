----------------------------- MODULE Remediation -----------------------------
(***************************************************************************)
(* The tools that create, cancel and watch the RemediationRequests of      *)
(* one target (internal/tools), called on several replicas against one API *)
(* server and the external controller that works the requests off.         *)
(* Every request to the API server is a step of its own; it may fail, its  *)
(* reply may be lost, and a create may be handled after its caller has     *)
(* given up.  Arguments are valid.  The phases that are not terminal are   *)
(* one, "unfinished", as no tool tells them apart.                         *)
(***************************************************************************)
EXTENDS Integers, Sequences, FiniteSets

CONSTANTS
  Replicas,
  Callers,    \* goroutines of the replicas
  replica,    \* replica[c]: the replica c runs on
  Ops,        \* Ops[c]: the tools c calls
  MaxNow,     \* milliseconds the clock is followed for
  MaxLag      \* events a watch may lag behind before the server closes it

ASSUME RemediationAssumption ==
  /\ replica \in [Callers -> Replicas] /\ Replicas \cap {"nobody", "late"} = {}
  /\ \A c \in Callers : Ops[c] \subseteq {"create", "cancel", "watch"}
  /\ MaxNow \in Nat /\ MaxLag \in Nat \ {0}

VARIABLES
  now,      \* time.Now().UnixMilli(), the same on all replicas
  long,     \* the name of the target is so long that the time is cut off
  rr,       \* rr[n]: the RemediationRequest named n
  late,     \* names of creates that were given up and not handled yet
  flight,   \* flight[p]: the call of rrCreateGroup.Do of replica p
  call      \* call[c]: the tool call of c

rrVars == <<now, long, rr, late, flight, call>>

-----------------------------------------------------------------------------
Names == 0 .. MaxNow

\* MUTANT of IsTerminalPhase: a request that nobody works on yet is terminal.
IsTerminalOrNew(phase) == phase \in {"unfinished", "Completed", "Failed", "Cancelled"}

IsTerminalPhase(phase) == phase \in {"Completed", "Failed", "Cancelled"}

Absent == [phase |-> "absent", by |-> "nobody"]
Exists(n) == rr[n] # Absent
Active == {n \in Names : Exists(n) /\ ~IsTerminalPhase(rr[n].phase)}
First(S) == CHOOSE n \in S : \A k \in S : n <= k

NoFlight == [pc |-> "none", leader |-> "nobody", name |-> 0]
Idle == [pc |-> "idle", live |-> {}, rr |-> 0, queue |-> <<>>, open |-> FALSE]

RRInit ==
  /\ now = 0
  /\ long \in BOOLEAN
  /\ rr = [n \in Names |-> Absent]
  /\ late = {}
  /\ flight = [p \in Replicas |-> NoFlight]
  /\ call = [c \in Callers |-> Idle]

At(c, pc) == call[c].pc = pc
Return(c) == call' = [call EXCEPT ![c] = Idle]

-----------------------------------------------------------------------------
(* The API server.                                                          *)

\* A change of object n goes to the watches on it; the server closes a watch
\* that lags too far behind.  A create is also seen by the creations under way.
Notify(n, obj, calls) ==
  [c \in Callers |->
    LET k == calls[c]
    IN  IF k.pc = "watching" /\ k.rr = n /\ k.open
        THEN IF Len(k.queue) < MaxLag
             THEN [k EXCEPT !.queue = Append(@, obj.phase)]
             ELSE [k EXCEPT !.open = FALSE]
        ELSE IF k.pc \in {"leading", "following"} /\ obj.phase = "unfinished"
        THEN [k EXCEPT !.live = @ \cup {n}]
        ELSE k]

Store(n, obj, calls) ==
  /\ rr' = [rr EXCEPT ![n] = obj]
  /\ call' = Notify(n, obj, calls)

-----------------------------------------------------------------------------
(* af_create_rr.  Validation and triage come before the singleflight group. *)

\* rrCreateGroup.Do: the first caller leads, the others wait for its result.
Do(c) ==
  LET p == replica[c]
  IN  IF flight[p].pc = "none"
      THEN /\ flight' = [flight EXCEPT ![p] = [pc |-> "check", leader |-> c, name |-> 0]]
           /\ call' = [call EXCEPT ![c].pc = "leading", ![c].live = Active]
      ELSE /\ call' = [call EXCEPT ![c].pc = "following", ![c].live = call[flight[p].leader].live]
           /\ UNCHANGED flight

HandleCreateRR(c) ==
  /\ At(c, "idle") /\ "create" \in Ops[c]
  /\ Do(c)
  /\ UNCHANGED <<now, long, rr, late>>

\* The function returns: all calls of the flight have the result, name n.
Land(p, n, calls) ==
  /\ flight' = [flight EXCEPT ![p] = NoFlight]
  /\ call' = [c \in Callers |->
       IF replica[c] = p /\ calls[c].pc \in {"leading", "following"}
       THEN [calls[c] EXCEPT !.pc = "told", !.rr = n, !.live = @ \cap {n}]
       ELSE calls[c]]

\* It returns an error, to the leader and to those that share its call.
LandError(p) ==
  /\ flight' = [flight EXCEPT ![p] = NoFlight]
  /\ call' = [c \in Callers |->
       IF replica[c] = p /\ call[c].pc \in {"leading", "following"} THEN Idle ELSE call[c]]

\* MUTANT of Existing: a request that is terminal is reported as well.
ExistingAny == {n \in Names : Exists(n)}

\* HandleCheckExistingRR, by the list of the API server.
Existing == Active

rrName == IF long THEN 0 ELSE now

CheckExisting(p) ==
  /\ flight[p].pc = "check"
  /\ IF Existing # {}
     THEN Land(p, First(Existing), call)
     ELSE /\ flight' = [flight EXCEPT ![p].pc = "create", ![p].name = rrName]
          /\ UNCHANGED call
  /\ UNCHANGED <<now, long, rr, late>>

\* The object is created, or there is one of that name.
Create(p) ==
  LET n == flight[p].name
      made == [phase |-> "unfinished", by |-> p]
  IN  /\ flight[p].pc = "create"
      /\ IF Exists(n)
         THEN LandError(p) /\ UNCHANGED rr
         ELSE rr' = [rr EXCEPT ![n] = made] /\ Land(p, n, Notify(n, made, call))
      /\ UNCHANGED <<now, long, late>>

\* A request fails, its reply is lost, or the context of the leader ends while it
\* waits; the API server may still handle the create.
CreateFails(p) ==
  /\ flight[p].pc \in {"check", "create"}
  /\ LandError(p)
  /\ \/ UNCHANGED late
     \/ flight[p].pc = "create" /\ late' = late \cup {flight[p].name}
  /\ UNCHANGED <<now, long, rr>>

\* A create that was given up is handled, or is not.
HandleLate(n) ==
  /\ n \in late
  /\ late' = late \ {n}
  /\ IF Exists(n) THEN UNCHANGED <<rr, call>>
     ELSE Store(n, [phase |-> "unfinished", by |-> "late"], call) \/ UNCHANGED <<rr, call>>
  /\ UNCHANGED <<now, long, flight>>

\* The tool call ends.
Told(c) ==
  /\ At(c, "told")
  /\ Return(c)
  /\ UNCHANGED <<now, long, rr, late, flight>>

-----------------------------------------------------------------------------
(* kubernaut_cancel_remediation.                                            *)

CancelGet(c) ==
  /\ At(c, "idle") /\ "cancel" \in Ops[c]
  /\ \E n \in Names :
       /\ Exists(n) /\ ~IsTerminalPhase(rr[n].phase)
       /\ call' = [call EXCEPT ![c].pc = "cancelling", ![c].rr = n]
  /\ UNCHANGED <<now, long, rr, late, flight>>

CancelPhase == "Cancelled"

\* The merge patch has no precondition; the reply may be lost.
CancelPatch(c) ==
  LET n == call[c].rr
      ended == [call EXCEPT ![c] = Idle]
  IN  /\ At(c, "cancelling")
      /\ IF Exists(n)
         THEN Store(n, [rr[n] EXCEPT !.phase = CancelPhase], ended)
         ELSE call' = ended /\ UNCHANGED rr
      /\ UNCHANGED <<now, long, late, flight>>

CancelFails(c) ==
  /\ At(c, "cancelling")
  /\ Return(c)
  /\ UNCHANGED <<now, long, rr, late, flight>>

-----------------------------------------------------------------------------
(* kubernaut_watch.                                                         *)

\* MUTANT of HandleWatch: the watch starts at a resource version, with later events.
HandleWatchLater(c) ==
  /\ At(c, "idle") /\ "watch" \in Ops[c]
  /\ \E n \in Names :
       call' = [call EXCEPT ![c] = [Idle EXCEPT !.pc = "watching", !.rr = n, !.open = TRUE]]
  /\ UNCHANGED <<now, long, rr, late, flight>>

\* The server first sends the object as it is, in an event of type Added.
HandleWatch(c) ==
  /\ At(c, "idle") /\ "watch" \in Ops[c]
  /\ \E n \in Names :
       call' = [call EXCEPT ![c] =
         [Idle EXCEPT !.pc = "watching", !.rr = n, !.open = TRUE,
                      !.queue = IF Exists(n) THEN <<rr[n].phase>> ELSE <<>>]]
  /\ UNCHANGED <<now, long, rr, late, flight>>

\* Whether an event, of type Added or Modified, ends the watch.
Ends(phase) == IsTerminalPhase(phase)

\* An event is taken from the channel.
ReceiveEvent(c) ==
  /\ At(c, "watching") /\ call[c].queue # <<>>
  /\ IF Ends(Head(call[c].queue))
     THEN Return(c)
     ELSE call' = [call EXCEPT ![c].queue = Tail(@)]
  /\ UNCHANGED <<now, long, rr, late, flight>>

\* MUTANT of SeeClosed: the watch goes on reading the closed channel.
SeeClosedAgain(c) ==
  /\ At(c, "watching") /\ call[c].queue = <<>> /\ ~call[c].open
  /\ UNCHANGED rrVars

\* The channel is closed and empty: the watch is reported as completed.
SeeClosed(c) ==
  /\ At(c, "watching") /\ call[c].queue = <<>> /\ ~call[c].open
  /\ Return(c)
  /\ UNCHANGED <<now, long, rr, late, flight>>

\* The connection breaks, or maxWatchDuration is over.
CloseWatch(c) ==
  /\ At(c, "watching") /\ call[c].open
  /\ call' = [call EXCEPT ![c].open = FALSE]
  /\ UNCHANGED <<now, long, rr, late, flight>>

\* The context of the tool call ends; the select may prefer it to an event.
SeeDone(c) ==
  /\ At(c, "watching")
  /\ Return(c)
  /\ UNCHANGED <<now, long, rr, late, flight>>

-----------------------------------------------------------------------------
(* The controller, and time.                                                *)

\* The controller ends a request; whether it fails makes no difference here.
Complete(n) ==
  /\ rr[n].phase = "unfinished"
  /\ Store(n, [rr[n] EXCEPT !.phase = "Completed"], call)
  /\ UNCHANGED <<now, long, late, flight>>

\* A request that has ended is removed; the watch ignores the event.
Collect(n) ==
  /\ Exists(n) /\ IsTerminalPhase(rr[n].phase)
  /\ rr' = [rr EXCEPT ![n] = Absent]
  /\ UNCHANGED <<now, long, late, flight, call>>

Tick ==
  /\ now < MaxNow
  /\ now' = now + 1
  /\ UNCHANGED <<long, rr, late, flight, call>>

RRNext ==
  \/ \E c \in Callers :
       \/ HandleCreateRR(c) \/ Told(c)
       \/ CancelGet(c) \/ CancelPatch(c) \/ CancelFails(c)
       \/ HandleWatch(c) \/ ReceiveEvent(c) \/ SeeClosed(c) \/ CloseWatch(c) \/ SeeDone(c)
  \/ \E p \in Replicas : CheckExisting(p) \/ Create(p) \/ CreateFails(p)
  \/ \E n \in Names : HandleLate(n) \/ Complete(n) \/ Collect(n)
  \/ Tick

\* Watches read their channels.  Nothing else has to happen: no deadline has to
\* pass and no channel has to be closed.
RRSpec ==
  /\ RRInit /\ [][RRNext]_rrVars
  /\ \A c \in Callers : WF_rrVars(ReceiveEvent(c) \/ SeeClosed(c))

-----------------------------------------------------------------------------
Unfinished(n) == rr[n].phase = "unfinished"

\* Two unfinished requests for the target were created by different replicas,
\* or one of them by a create that its caller had given up: within a replica
\* the singleflight group and the check before the create keep it to one.
OnePerReplica ==
  \A n, k \in Names :
    Unfinished(n) /\ Unfinished(k) /\ rr[n].by = rr[k].by => n = k \/ rr[n].by = "late"

\* The request that a caller is told of, created or existing, was unfinished at
\* some time since the flight whose result it shares began.
ToldWasActive == \A c \in Callers : At(c, "told") => call[c].rr \in call[c].live

\* A request that has ended stays ended, though a cancellation may come late.
EndedStaysEnded ==
  [][\A n \in Names : IsTerminalPhase(rr[n].phase) =>
       IsTerminalPhase(rr'[n].phase) \/ rr'[n] = Absent]_rrVars

\* A watch misses no end: while its channel is open and its request has ended,
\* before or after the watch began, an event that ends the watch is in the channel.
WatchMissesNoEnd ==
  \A c \in Callers :
    At(c, "watching") /\ call[c].open /\ IsTerminalPhase(rr[call[c].rr].phase)
      => \E i \in DOMAIN call[c].queue : Ends(call[c].queue[i])

\* A watch on a request that has ended, before or after the watch began, ends
\* without waiting for any deadline.
WatchSeesEnd ==
  \A c \in {d \in Callers : "watch" \in Ops[d]} : \A n \in Names :
    At(c, "watching") /\ call[c].rr = n /\ Exists(n) /\ IsTerminalPhase(rr[n].phase)
      ~> ~At(c, "watching")

\* The check of existing requests prevents duplicates regardless.
NoDuplicates == \A n, k \in Names : Unfinished(n) /\ Unfinished(k) => n = k
==============================================================================
