------------------------------ MODULE SessionTTL ------------------------------
(***************************************************************************)
(* The session service together with the TTL controller of                 *)
(* internal/controller/ttl.go.  There is no leader election: each replica  *)
(* runs the reconciler with one worker, on an informer cache that lags     *)
(* behind the API server by the watch events not yet delivered.            *)
(*                                                                         *)
(* The worker of replica r is the process r: its UpdatePhase call is a     *)
(* call of SessionService like any other.  Time passes in ticks; a         *)
(* timestamp is the number of ticks since it was taken, up to the TTL it   *)
(* is compared with.                                                       *)
(***************************************************************************)
EXTENDS SessionService, Sequences

CONSTANTS
  DisconnectTTL,        \* session.disconnectTTL, in ticks
  ConfiguredRetention,  \* session.retentionTTL
  MinRetentionTTL       \* 30 days

ASSUME TTLAssumption ==
  /\ Replicas \subseteq Procs
  /\ DisconnectTTL \in Nat
  /\ ConfiguredRetention \in Nat
  /\ MinRetentionTTL \in Nat \ {0}

retentionTTL == IF ConfiguredRetention < MinRetentionTTL THEN MinRetentionTTL
                                                         ELSE ConfiguredRetention

VARIABLES
  cache,   \* cache[r][k]: what the informer of replica r knows of k
  watch,   \* watch[r][k]: states of k the informer has yet to be told, in order
  queue,   \* queue[r]: names waiting for the worker of r
  timer,   \* timer[r][k]: ticks until RequeueAfter adds k again (NoTime: not set)
  worker   \* worker[r]: the reconcile in progress

informer == <<cache, watch>>
ttlVars  == <<vars, cache, watch, queue, timer, worker>>

Clients == Procs \ Replicas

Waiting == [pc |-> "wait", key |-> None, todo |-> {}]

TTLInit ==
  /\ Init
  /\ cache  = [r \in Replicas |-> [k \in Keys |-> Absent]]
  /\ watch  = [r \in Replicas |-> [k \in Keys |-> <<>>]]
  /\ queue  = [r \in Replicas |-> {}]
  /\ timer  = [r \in Replicas |-> [k \in Keys |-> NoTime]]
  /\ worker = [r \in Replicas |-> Waiting]

-----------------------------------------------------------------------------
(* The API server and the informers.                                        *)

\* Every change of an object is an event for every informer.
Publish ==
  watch' = [r \in Replicas |-> [k \in Keys |->
              IF crd'[k] = crd[k] THEN watch[r][k] ELSE Append(watch[r][k], crd'[k])]]

NotController == UNCHANGED <<cache, queue, timer, worker>>

ClientCalls(p) == ClientStep(p) /\ Publish /\ NotController
CallRuns(p)    == CallStep(p) /\ Publish /\ NotController
CallFails(p)   == FaultStep(p) /\ Publish /\ NotController

Enqueue(r, k) == queue' = [queue EXCEPT ![r] = @ \cup {k}]

Deliver(r, k) ==
  /\ watch[r][k] # <<>>
  /\ cache' = [cache EXCEPT ![r][k] = Head(watch[r][k])]
  /\ watch' = [watch EXCEPT ![r][k] = Tail(watch[r][k])]
  /\ Enqueue(r, k)
  /\ UNCHANGED <<vars, timer, worker>>

\* The informer's periodic resync, and events of writes that changed nothing.
Resync(r, k) ==
  /\ cache[r][k] # Absent
  /\ Enqueue(r, k)
  /\ UNCHANGED <<vars, informer, timer, worker>>

Older(t, limit) == IF t = NoTime \/ t >= limit THEN t ELSE t + 1

Aged(obj) ==
  IF obj = Absent THEN obj
  ELSE [obj EXCEPT !.disc = Older(@, DisconnectTTL), !.comp = Older(@, retentionTTL)]

Tick ==
  /\ crd'   = [k \in Keys |-> Aged(crd[k])]
  /\ cache' = [r \in Replicas |-> [k \in Keys |-> Aged(cache[r][k])]]
  /\ watch' = [r \in Replicas |-> [k \in Keys |->
                 [i \in DOMAIN watch[r][k] |-> Aged(watch[r][k][i])]]]
  /\ timer' = [r \in Replicas |-> [k \in Keys |->
                 IF timer[r][k] > 0 THEN timer[r][k] - 1 ELSE timer[r][k]]]
  /\ UNCHANGED <<local, call, stale, bounded, queue, worker>>

TimerFires(r, k) ==
  /\ timer[r][k] = 0
  /\ timer' = [timer EXCEPT ![r][k] = NoTime]
  /\ Enqueue(r, k)
  /\ UNCHANGED <<vars, informer, worker>>

-----------------------------------------------------------------------------
(* Reconcile.                                                               *)

\* Mutant: both TTLs are measured from completedAt.
SinceCompleted(obj) == obj.comp

\* The timestamp a phase is measured from, and for how long it may last.
Since(obj) == IF obj.phase = "Disconnected" THEN obj.disc ELSE obj.comp

Limit(obj) == IF obj.phase = "Disconnected" THEN DisconnectTTL ELSE retentionTTL

\* The phases for which Reconcile has a handler.
HasTTL(phase) == phase \in {"Disconnected", "Completed", "Cancelled", "Failed"}

\* The objects a handler does something about.
Handled(obj) == /\ obj # Absent
                /\ HasTTL(obj.phase)
                /\ Since(obj) # NoTime

Expired(obj) == Since(obj) >= Limit(obj)

Take(r, k) ==
  /\ worker[r].pc = "wait"
  /\ k \in queue[r]
  /\ queue' = [queue EXCEPT ![r] = @ \ {k}]
  /\ UNCHANGED informer

Work(r, pc, k) == worker' = [worker EXCEPT ![r] = [pc |-> pc, key |-> k, todo |-> {}]]

ReconcileNothing(r, k) ==
  /\ Take(r, k)
  /\ ~Handled(cache[r][k])
  /\ UNCHANGED <<vars, timer, worker>>

\* Mutant: an early reconcile does not ask to be repeated.
NoRequeueAfter(r, k, remaining) == UNCHANGED timer

\* A name waits for the earliest of the times it was to be added again.
RequeueAfter(r, k, remaining) ==
  timer' = [timer EXCEPT ![r][k] = IF @ = NoTime \/ remaining < @ THEN remaining ELSE @]

ReconcileEarly(r, k) ==
  LET obj == cache[r][k] IN
  /\ Take(r, k)
  /\ Handled(obj) /\ ~Expired(obj)
  /\ RequeueAfter(r, k, Limit(obj) - Since(obj))
  /\ UNCHANGED <<vars, worker>>

\* handleDisconnected calls UpdatePhase with the object's name.
ReconcileDisconnected(r, k) ==
  LET obj == cache[r][k] IN
  /\ Take(r, k)
  /\ Handled(obj) /\ Expired(obj) /\ ValidTransition(obj.phase, "Cancelled")
  /\ StartUpdate(r, r, k, "Cancelled")
  /\ Work(r, "cancel", k)
  /\ NoWrite(r)
  /\ UNCHANGED <<local, bounded, timer>>

ReconcileTerminal(r, k) ==
  LET obj == cache[r][k] IN
  /\ Take(r, k)
  /\ Handled(obj) /\ Expired(obj) /\ IsTerminal(obj.phase)
  /\ Work(r, "delete", k)
  /\ UNCHANGED <<vars, timer>>

\* UpdatePhase returned; an error puts the name back.
CancelReturns(r) ==
  /\ worker[r].pc = "cancel" /\ At(r, "idle")
  /\ worker' = [worker EXCEPT ![r] = Waiting]
  /\ IF call[r].ok THEN UNCHANGED queue ELSE Enqueue(r, worker[r].key)
  /\ UNCHANGED <<vars, informer, timer>>

\* handleTerminal deletes by name, whatever the object is by now.
RetentionDelete(r) ==
  LET k == worker[r].key IN
  /\ worker[r].pc = "delete"
  /\ IF crd[k] = Absent THEN worker' = [worker EXCEPT ![r] = Waiting]
                        ELSE Work(r, "snapshot", k)
  /\ Write(r, k, Absent)
  /\ Publish
  /\ UNCHANGED <<local, call, bounded, cache, queue, timer>>

\* The deletion fails, or succeeds and its reply is lost.
RetentionDeleteFails(r) ==
  LET k == worker[r].key IN
  /\ worker[r].pc = "delete"
  /\ Spend
  /\ worker' = [worker EXCEPT ![r] = Waiting]
  /\ Enqueue(r, k)
  /\ NoWrite(r) \/ Write(r, k, Absent)
  /\ Publish
  /\ UNCHANGED <<local, call, started, orphans, cache, timer>>

\* PruneTerminalEntries copies crdIndex ...
Snapshot(r) == {e \in Keys \X Keys : index[r][e[1]] = e[2]}

PruneSnapshot(r) ==
  /\ worker[r].pc = "snapshot"
  /\ worker' = [worker EXCEPT ![r].pc = "prune",
                              ![r].todo = Snapshot(r)]
  /\ UNCHANGED <<vars, informer, queue, timer>>

\* ... and drops the entries whose object the cache lacks or shows terminal.
Prunable(obj) == obj = Absent \/ IsTerminal(obj.phase)

PruneEntry(r) ==
  \E e \in worker[r].todo :
    /\ worker' = [worker EXCEPT ![r].todo = @ \ {e}]
    /\ index' = IF Prunable(cache[r][e[2]]) THEN [index EXCEPT ![r][e[1]] = None] ELSE index
    /\ UNCHANGED <<crd, delegate, gauge, call, stale, bounded, informer, queue, timer>>

PruneEnds(r) ==
  /\ worker[r].pc = "prune" /\ worker[r].todo = {}
  /\ worker' = [worker EXCEPT ![r] = Waiting]
  /\ UNCHANGED <<vars, informer, queue, timer>>

\* A pod restarts: its informer starts from a list of the existing objects.
PodRestart(r) ==
  /\ Restart(r)
  /\ cache'  = [cache EXCEPT ![r] = [k \in Keys |-> Absent]]
  /\ watch'  = [watch EXCEPT ![r] = [k \in Keys |-> IF crd[k] = Absent THEN <<>> ELSE <<crd[k]>>]]
  /\ queue'  = [queue EXCEPT ![r] = {}]
  /\ timer'  = [timer EXCEPT ![r] = [k \in Keys |-> NoTime]]
  /\ worker' = [worker EXCEPT ![r] = Waiting]

-----------------------------------------------------------------------------
Reconcile(r, k) == ReconcileNothing(r, k) \/ ReconcileEarly(r, k)
                   \/ ReconcileDisconnected(r, k) \/ ReconcileTerminal(r, k)

WorkerStep(r) == CancelReturns(r) \/ RetentionDelete(r) \/ PruneSnapshot(r)
                 \/ PruneEntry(r) \/ PruneEnds(r)

TTLNext ==
  \/ \E p \in Clients : ClientCalls(p)
  \/ \E p \in Procs : CallRuns(p) \/ CallFails(p)
  \/ Tick
  \/ \E r \in Replicas : \/ \E k \in Keys : Deliver(r, k) \/ Resync(r, k)
                                            \/ TimerFires(r, k) \/ Reconcile(r, k)
                         \/ WorkerStep(r) \/ RetentionDeleteFails(r) \/ PodRestart(r)

TTLSpec == TTLInit /\ [][TTLNext]_ttlVars

\* Calls run to their end, events and timers arrive, time passes, and the
\* worker, whose queue is first-in first-out, gets to every name in it.
\* Clients need not call, and nothing has to fail.
Fairness ==
  /\ \A p \in Procs : WF_ttlVars(CallRuns(p))
  /\ WF_ttlVars(Tick)
  /\ \A r \in Replicas : /\ WF_ttlVars(WorkerStep(r))
                         /\ \A k \in Keys : /\ WF_ttlVars(Deliver(r, k))
                                            /\ WF_ttlVars(TimerFires(r, k))
                                            /\ SF_ttlVars(Reconcile(r, k))

FairTTLSpec == TTLSpec /\ Fairness

-----------------------------------------------------------------------------
(* Properties.                                                              *)

\* No replica loses sight of a session that has a deadline: an event, a queued
\* name, the reconcile in progress, or a timer that fires no later than the
\* deadline, will bring it up again, whatever writes, conflicts, failures and
\* restarts happen meanwhile.
NoSessionForgotten ==
  \A r \in Replicas, k \in Keys : Handled(crd[k]) =>
    \/ watch[r][k] # <<>>
    \/ k \in queue[r]
    \/ timer[r][k] \in 0 .. Limit(crd[k]) - Since(crd[k])
    \/ worker[r].key = k /\ worker[r].pc \in {"cancel", "delete"}

\* What handleTerminal decides from the informer's cache is right although the
\* cache lags: an object the cache shows terminal is still that object, in that
\* phase and as long completed, unless its removal is on the way to the informer.
TerminalCacheIsRight ==
  \A r \in Replicas, k \in Keys :
    (/\ cache[r][k] # Absent /\ IsTerminal(cache[r][k].phase)
     /\ \A i \in DOMAIN watch[r][k] : watch[r][k][i] # Absent)
    => crd[k] # Absent /\ crd[k].phase = cache[r][k].phase /\ crd[k].comp = cache[r][k].comp

\* A Disconnected session does not stay Disconnected: it is cancelled at the
\* latest when its TTL has passed and the faults are over.
DisconnectedIsLeft ==
  \A k \in Keys : (crd[k] # Absent /\ crd[k].phase = "Disconnected")
                    ~> (crd[k] = Absent \/ crd[k].phase # "Disconnected")

\* A terminal session is deleted in the end.
TerminalIsDeleted ==
  \A k \in Keys : (crd[k] # Absent /\ IsTerminal(crd[k].phase)) ~> crd[k] = Absent

\* Every session meets both deadlines of the TTL reconciler, whatever reconciles
\* fail, race or are lost in a restart before the faults are over.
DeadlinesMet == DisconnectedIsLeft /\ TerminalIsDeleted

==============================================================================
