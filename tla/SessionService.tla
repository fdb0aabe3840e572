---------------------------- MODULE SessionService ----------------------------
(***************************************************************************)
(* CRDSessionService of internal/session: concurrent Create, UpdatePhase,  *)
(* Delete and AppendEvent calls of several replicas of the frontend on the *)
(* InvestigationSession objects of one API server.                         *)
(*                                                                         *)
(* A call is a process with a program counter; each of its API requests is *)
(* a step of its own, and so is what it does on return (audit event, gauge *)
(* and crdIndex), because calls of other goroutines and replicas run in    *)
(* between.  The API server checks resourceVersions: `stale' is the set of *)
(* calls whose copy of their object has been overtaken by another write or *)
(* by a deletion, so that their next write is refused.                     *)
(***************************************************************************)
EXTENDS SessionPhases, Integers, FiniteSets

CONSTANTS
  Keys,               \* session ids and object names
  GeneratedNames,     \* names Create may make up for a request without an id
  Replicas,           \* running pods of the frontend
  Procs,              \* calls that can be in progress at the same time
  None,               \* no id, no name, no replica
  Absent,             \* crd[k] when no object is called k
  DefaultRetrySteps,  \* attempts of RetryOnConflict (5 in client-go)
  NoopWritesBump,     \* a write that changes nothing gives a new resourceVersion:
                      \* FALSE for the API server, TRUE for the in-memory client
  MaxCalls,           \* bound: calls made by clients
  MaxFaults           \* bound: failed requests, lost replies and pod restarts

NoTime == -1
Times  == {NoTime} \cup Nat   \* age of a timestamp, NoTime while it is nil

Objects ==
  [phase : Phases \cup {NoPhase}, label : Phases,
   conn : {"", "Connected", "Disconnected"}, disc : Times, comp : Times]

ASSUME ServiceAssumption ==
  /\ GeneratedNames \subseteq Keys
  /\ None \notin Keys \cup Replicas
  /\ Absent \notin Objects \cup Phases \cup {NoPhase}
  /\ DefaultRetrySteps \in Nat \ {0}
  /\ NoopWritesBump \in BOOLEAN
  /\ MaxCalls \in Nat
  /\ MaxFaults \in Nat

VARIABLES
  crd,       \* crd[k]: the InvestigationSession called k at the API server
  index,     \* index[r][id]: crdIndex of replica r (None: no entry)
  delegate,  \* delegate[r]: ids held by the replica's in-memory session service
  gauge,     \* gauge[r][phase]: sessions_active of replica r
  call,      \* call[p]: the call process p is making
  stale,     \* processes whose copy of their object has been overtaken
  started,   \* calls made by clients so far
  faults,    \* faults so far
  orphans    \* history: names whose Create ended without its rollback

local   == <<index, delegate, gauge>>
bounded == <<started, faults, orphans>>
vars    == <<crd, index, delegate, gauge, call, stale, started, faults, orphans>>

PCs == {"idle", "create", "createStatus", "createDelegate", "createRollback",
        "createDone", "get", "status", "reget", "label", "updateDone",
        "deleteRead", "delete", "deleteDone", "appendGet", "appendTouch"}

\* The locals of a call: made is the transition written by the last
\* Status().Update that succeeded (<<>>: none), ok whether it returned nil.
Calls ==
  [pc : PCs, rep : Replicas \cup {None}, id : Keys \cup {None},
   name : Keys \cup {None}, to : Phases, from : Phases \cup {NoPhase},
   tries : 1..DefaultRetrySteps, made : {<<>>} \cup (Phases \X Phases),
   ok : BOOLEAN]

Idle == [pc |-> "idle", rep |-> None, id |-> None, name |-> None,
         to |-> "Active", from |-> NoPhase, tries |-> 1, made |-> <<>>,
         ok |-> TRUE]

Init ==
  /\ crd      = [k \in Keys |-> Absent]
  /\ index    = [r \in Replicas |-> [k \in Keys |-> None]]
  /\ delegate = [r \in Replicas |-> {}]
  /\ gauge    = [r \in Replicas |-> [ph \in Phases \cup {NoPhase} |-> 0]]
  /\ call     = [p \in Procs |-> Idle]
  /\ stale    = {}
  /\ started  = 0
  /\ faults   = 0
  /\ orphans  = {}

-----------------------------------------------------------------------------
(* Moves of a call.                                                         *)

At(p, pc) == call[p].pc = pc

Goto(p, pc) == call' = [call EXCEPT ![p].pc = pc]

Return(p, ok) ==
  call' = [call EXCEPT ![p] = [Idle EXCEPT !.ok = ok, !.made = call[p].made]]

Exists(p) == crd[call[p].name] # Absent

\* Calls holding a copy of object n that they are about to write back.
Holders(n) ==
  {q \in Procs : /\ call[q].pc \in {"createStatus", "status", "label", "appendTouch"}
                 /\ call[q].name = n}

\* Process p leaves the object as it is: a copy p reads now is up to date.
NoWrite(p) == /\ UNCHANGED crd
              /\ stale' = stale \ {p}

\* Process p replaces object n, and every other copy of n is overtaken.
Write(p, n, obj) == /\ crd' = [crd EXCEPT ![n] = obj]
                    /\ stale' = (stale \cup Holders(n)) \ {p}

\* Process p writes back a copy of object n, perhaps unchanged.
WriteBack(p, n, obj) == IF obj = crd[n] /\ ~NoopWritesBump THEN NoWrite(p)
                                                           ELSE Write(p, n, obj)

\* Mutant: writes carry no resourceVersion and the last one wins.
LastWriteWins(p) == p \in Procs

\* A Status().Update or Update is accepted only from the latest copy.
Fresh(p) == p \notin stale

\* crdIndex[id], or the id itself when the replica has no entry for it.
CRDName(r, id) == IF index[r][id] = None THEN id ELSE index[r][id]

Spend == /\ faults < MaxFaults
         /\ faults' = faults + 1

Begin(p, r, pc, id, name, to) ==
  /\ At(p, "idle")
  /\ call' = [call EXCEPT ![p] = [Idle EXCEPT !.pc = pc, !.rep = r, !.id = id,
                                            !.name = name, !.to = to]]

\* A client makes one of its calls.
ClientCall(p) == /\ started < MaxCalls
                 /\ started' = started + 1
                 /\ NoWrite(p)
                 /\ UNCHANGED <<local, faults, orphans>>

\* No client can name an id that a Create has generated but not yet returned.
Known(id) ==
  \A q \in Procs : ~(At(q, "createDone") /\ call[q].id = id /\ call[q].name # id)

-----------------------------------------------------------------------------
(* Create.  The API server ignores the status of a created object, which is *)
(* therefore written by a second request; each later failure is rolled back *)
(* by a deletion by name.                                                   *)

\* Nothing in the system mentions k: a generated name or id is new.
Unused(k) ==
  /\ crd[k] = Absent
  /\ \A r \in Replicas : /\ k \notin delegate[r]
                         /\ index[r][k] = None
                         /\ \A id \in Keys : index[r][id] # k
  /\ \A q \in Procs : k \notin {call[q].id, call[q].name}

BeginCreate(p, r) ==
  /\ \E k \in Keys : \/ Known(k) /\ Begin(p, r, "create", k, k, "Active")
                     \/ k \in GeneratedNames /\ Unused(k) /\ Begin(p, r, "create", None, k, "Active")
  /\ ClientCall(p)

NewObject == [phase |-> NoPhase, label |-> "Active", conn |-> "",
              disc |-> NoTime, comp |-> NoTime]

CreateCRD(p) ==
  /\ At(p, "create")
  /\ IF Exists(p) THEN Return(p, FALSE) /\ NoWrite(p)
                  ELSE Goto(p, "createStatus") /\ Write(p, call[p].name, NewObject)
  /\ UNCHANGED <<local, bounded>>

Activated(obj) == [obj EXCEPT !.phase = "Active", !.conn = "Connected"]

\* Mutant: a Create whose status update fails returns without a rollback.
NoRollback(p) == Return(p, FALSE)

RollBack(p) == Goto(p, "createRollback")

CreateStatus(p) ==
  /\ At(p, "createStatus")
  /\ IF Fresh(p) THEN /\ Goto(p, "createDelegate")
                      /\ Write(p, call[p].name, Activated(crd[call[p].name]))
                 ELSE RollBack(p) /\ NoWrite(p)
  /\ UNCHANGED <<local, bounded>>

\* The in-memory service refuses an id it holds and generates one when the
\* request has none.
CreateDelegate(p) ==
  LET r == call[p].rep IN
  /\ At(p, "createDelegate")
  /\ IF call[p].id \in delegate[r]
     THEN RollBack(p) /\ UNCHANGED delegate
     ELSE \E id \in Keys :
            /\ IF call[p].id = None THEN Unused(id) ELSE id = call[p].id
            /\ delegate' = [delegate EXCEPT ![r] = @ \cup {id}]
            /\ call' = [call EXCEPT ![p].pc = "createDone", ![p].id = id]
  /\ NoWrite(p)
  /\ UNCHANGED <<index, gauge, bounded>>

\* Process p created object k and has neither given it a status nor undone it.
Creating(p, k) == /\ call[p].pc \in {"createStatus", "createRollback"}
                  /\ call[p].name = k

CreateRollback(p) ==
  /\ At(p, "createRollback")
  /\ Return(p, FALSE)
  /\ Write(p, call[p].name, Absent)
  /\ UNCHANGED <<local, bounded>>

CreateDone(p) ==
  LET r == call[p].rep IN
  /\ At(p, "createDone")
  /\ index' = [index EXCEPT ![r][call[p].id] = call[p].name]
  /\ gauge' = [gauge EXCEPT ![r]["Active"] = @ + 1]
  /\ Return(p, TRUE)
  /\ NoWrite(p)
  /\ UNCHANGED <<delegate, bounded>>

-----------------------------------------------------------------------------
(* UpdatePhase.  The closure handed to RetryOnConflict reads the object,    *)
(* validates the transition, writes the status, reads again and writes the  *)
(* phase label; a conflict of either write runs it again from the start.    *)

StartUpdate(p, r, id, to) == Begin(p, r, "get", id, CRDName(r, id), to)

BeginUpdatePhase(p, r) ==
  /\ \E id \in Keys, to \in Phases : Known(id) /\ StartUpdate(p, r, id, to)
  /\ ClientCall(p)

\* Mutant: from is captured by the first attempt only.
FromOnce(p) == IF call[p].tries = 1 THEN crd[call[p].name].phase ELSE call[p].from

From(p) == crd[call[p].name].phase

\* Mutant: the transition is validated before the retry loop only.
ValidatedOnce(p) == call[p].tries > 1 \/ ValidTransition(From(p), call[p].to)

Validated(p) == ValidTransition(From(p), call[p].to)

UpdateGet(p) ==
  /\ At(p, "get")
  /\ IF Exists(p) /\ Validated(p)
     THEN call' = [call EXCEPT ![p].pc = "status", ![p].from = From(p)]
     ELSE Return(p, FALSE)
  /\ NoWrite(p)
  /\ UNCHANGED <<local, bounded>>

\* Mutant: a reconnect leaves the connection state as it was.
SetConnOnDisconnect(conn, from, to) == IF to = "Disconnected" THEN to ELSE conn

SetConn(conn, from, to) ==
  CASE to = "Disconnected" -> "Disconnected"
    [] from = "Disconnected" /\ to = "Active" -> "Connected"
    [] OTHER -> conn

\* The fields UpdatePhase changes in its copy of the object.
SetPhase(obj, from, to) ==
  [obj EXCEPT !.phase = to,
              !.comp  = IF IsTerminal(to) THEN 0 ELSE @,
              !.disc  = IF to = "Disconnected" THEN 0 ELSE @,
              !.conn  = SetConn(@, from, to)]

WritePhase(p) ==
  LET c == call[p] IN Write(p, c.name, SetPhase(crd[c.name], c.from, c.to))

AttemptsLeft(p) == call[p].tries < DefaultRetrySteps

\* The API server refused a write: RetryOnConflict retries a conflict until
\* its attempts are used up, and gives up when the object is gone.
Refused(p) ==
  /\ IF Exists(p) /\ AttemptsLeft(p)
     THEN call' = [call EXCEPT ![p].pc = "get", ![p].tries = @ + 1]
     ELSE Return(p, FALSE)
  /\ NoWrite(p)

UpdateStatus(p) ==
  LET c == call[p] IN
  /\ At(p, "status")
  /\ IF Fresh(p)
     THEN /\ call' = [call EXCEPT ![p].pc = "reget",
                                  ![p].made = <<crd[c.name].phase, c.to>>]
          /\ WritePhase(p)
     ELSE Refused(p)
  /\ UNCHANGED <<local, bounded>>

UpdateReget(p) ==
  /\ At(p, "reget")
  /\ IF Exists(p) THEN Goto(p, "label") ELSE Return(p, FALSE)
  /\ NoWrite(p)
  /\ UNCHANGED <<local, bounded>>

WriteLabel(p) ==
  LET n == call[p].name IN WriteBack(p, n, [crd[n] EXCEPT !.label = call[p].to])

UpdateLabel(p) ==
  /\ At(p, "label")
  /\ IF Fresh(p) THEN Goto(p, "updateDone") /\ WriteLabel(p) ELSE Refused(p)
  /\ UNCHANGED <<local, bounded>>

UpdateDone(p) ==
  LET c == call[p] IN
  /\ At(p, "updateDone")
  /\ gauge' = [gauge EXCEPT ![c.rep] = [ph \in DOMAIN @ |->
                 @[ph] + (IF ph = c.to THEN 1 ELSE 0) - (IF ph = c.from THEN 1 ELSE 0)]]
  /\ index' = IF IsTerminal(c.to) THEN [index EXCEPT ![c.rep][c.id] = None] ELSE index
  /\ Return(p, TRUE)
  /\ NoWrite(p)
  /\ UNCHANGED <<delegate, bounded>>

-----------------------------------------------------------------------------
(* Delete.  The phase to take off the gauge is read first; errors of either *)
(* request are only logged.                                                 *)

BeginDelete(p, r) ==
  /\ \E id \in Keys : /\ Known(id)
                      /\ Begin(p, r, "deleteRead", id, CRDName(r, id), "Active")
  /\ ClientCall(p)

DeleteRead(p) ==
  /\ At(p, "deleteRead")
  /\ call' = [call EXCEPT ![p].pc = "delete",
                          ![p].from = IF Exists(p) THEN crd[call[p].name].phase
                                                   ELSE "Active"]
  /\ NoWrite(p)
  /\ UNCHANGED <<local, bounded>>

DeleteCRD(p) ==
  /\ At(p, "delete")
  /\ Goto(p, "deleteDone")
  /\ Write(p, call[p].name, Absent)
  /\ UNCHANGED <<local, bounded>>

DeleteDone(p) ==
  LET c == call[p] IN
  /\ At(p, "deleteDone")
  /\ index' = [index EXCEPT ![c.rep][c.id] = None]
  /\ gauge' = [gauge EXCEPT ![c.rep][c.from] = @ - 1]
  /\ delegate' = [delegate EXCEPT ![c.rep] = @ \ {c.id}]
  /\ Return(p, TRUE)
  /\ NoWrite(p)
  /\ UNCHANGED bounded

-----------------------------------------------------------------------------
(* AppendEvent.  Once the event is stored, the object of an indexed session *)
(* is read and its status written back as it was.                           *)

BeginAppend(p, r) ==
  /\ \E id \in delegate[r] : /\ index[r][id] # None
                             /\ Begin(p, r, "appendGet", id, index[r][id], "Active")
  /\ ClientCall(p)

AppendGet(p) ==
  /\ At(p, "appendGet")
  /\ IF Exists(p) THEN Goto(p, "appendTouch") ELSE Return(p, TRUE)
  /\ NoWrite(p)
  /\ UNCHANGED <<local, bounded>>

AppendTouch(p) ==
  LET n == call[p].name IN
  /\ At(p, "appendTouch")
  /\ Return(p, TRUE)
  /\ IF Fresh(p) THEN WriteBack(p, n, crd[n]) ELSE NoWrite(p)
  /\ UNCHANGED <<local, bounded>>

-----------------------------------------------------------------------------
(* Faults.                                                                  *)

\* What the calls do when a request returns an error that is not a conflict.
OnError(p) ==
  CASE At(p, "createStatus") \/ At(p, "createDelegate") -> RollBack(p)
    [] At(p, "deleteRead") -> call' = [call EXCEPT ![p].pc = "delete",
                                                   ![p].from = "Active"]
    [] At(p, "delete") -> Goto(p, "deleteDone")
    [] At(p, "appendGet") \/ At(p, "appendTouch") -> Return(p, TRUE)
    [] OTHER -> Return(p, FALSE)

\* A request, or the delegate, fails and has no effect.
RequestFails(p) ==
  /\ call[p].pc \in {"create", "createStatus", "createDelegate", "createRollback",
                     "get", "status", "reget", "label", "deleteRead", "delete", "appendGet", "appendTouch"}
  /\ Spend
  /\ OnError(p)
  /\ NoWrite(p)
  /\ orphans' = IF At(p, "createRollback") THEN orphans \cup {call[p].name} ELSE orphans
  /\ UNCHANGED <<local, started>>

\* A request takes effect and its caller sees an error.
ReplyLost(p) ==
  LET n == call[p].name IN
  /\ \/ At(p, "create") /\ ~Exists(p) /\ Write(p, n, NewObject)
     \/ At(p, "createStatus") /\ Fresh(p) /\ Write(p, n, Activated(crd[n]))
     \/ At(p, "status") /\ Fresh(p) /\ WritePhase(p)
     \/ At(p, "label") /\ Fresh(p) /\ WriteLabel(p)
  /\ Spend
  /\ OnError(p)
  /\ orphans' = IF At(p, "create") THEN orphans \cup {n} ELSE orphans
  /\ UNCHANGED <<local, started>>

\* A pod restarts: its calls end and all it held in memory is gone.
Restart(r) ==
  /\ Spend
  /\ index'    = [index EXCEPT ![r] = [k \in Keys |-> None]]
  /\ delegate' = [delegate EXCEPT ![r] = {}]
  /\ gauge'    = [gauge EXCEPT ![r] = [ph \in Phases \cup {NoPhase} |-> 0]]
  /\ call'     = [p \in Procs |-> IF call[p].rep = r THEN Idle ELSE call[p]]
  /\ stale'    = {p \in stale : call[p].rep # r}
  /\ orphans'  = orphans \cup {k \in Keys : \E p \in Procs : call[p].rep = r /\ Creating(p, k)}
  /\ UNCHANGED <<crd, started>>

-----------------------------------------------------------------------------
ClientStep(p) ==
  \E r \in Replicas : BeginCreate(p, r) \/ BeginUpdatePhase(p, r)
                      \/ BeginDelete(p, r) \/ BeginAppend(p, r)

CallStep(p) ==
  \/ CreateCRD(p) \/ CreateStatus(p) \/ CreateDelegate(p) \/ CreateRollback(p)
  \/ CreateDone(p)
  \/ UpdateGet(p) \/ UpdateStatus(p) \/ UpdateReget(p) \/ UpdateLabel(p) \/ UpdateDone(p)
  \/ DeleteRead(p) \/ DeleteCRD(p) \/ DeleteDone(p)
  \/ AppendGet(p) \/ AppendTouch(p)

FaultStep(p) == RequestFails(p) \/ ReplyLost(p)

Next == \/ \E p \in Procs : ClientStep(p) \/ CallStep(p) \/ FaultStep(p)
        \/ \E r \in Replicas : Restart(r)

Spec == Init /\ [][Next]_vars

-----------------------------------------------------------------------------
(* Properties.                                                              *)

\* Types, and the bound on the attempts of RetryOnConflict.
TypeOK ==
  /\ crd      \in [Keys -> Objects \cup {Absent}]
  /\ index    \in [Replicas -> [Keys -> Keys \cup {None}]]
  /\ delegate \in [Replicas -> SUBSET Keys]
  /\ gauge    \in [Replicas -> [Phases \cup {NoPhase} -> Int]]
  /\ call     \in [Procs -> Calls]
  /\ stale    \subseteq Procs
  /\ started  \in 0..MaxCalls
  /\ faults   \in 0..MaxFaults
  /\ orphans  \subseteq Keys

\* The optimistic locking UpdatePhase and Create rely on: what a call decided
\* from the copy it read still holds of the object when its write is accepted,
\* whatever the other calls did since.
CopyUpToDate(p) ==
  /\ At(p, "status") => /\ Exists(p)
                        /\ crd[call[p].name].phase = call[p].from
                        /\ ValidTransition(call[p].from, call[p].to)
  /\ At(p, "createStatus") => Exists(p) /\ crd[call[p].name].phase = NoPhase
  /\ call[p].pc \in {"label", "appendTouch"} => Exists(p)

CopiesUpToDate == \A p \in Procs : Fresh(p) => CopyUpToDate(p)

\* The phase_changed event (and the gauge step) of UpdatePhase reports the
\* transition this very call wrote, also after conflicts made it start over.
AuditReportsCommit ==
  \A p \in Procs : At(p, "updateDone") => call[p].made = <<call[p].from, call[p].to>>

\* The timestamps the TTL controller measures from are there exactly when it
\* looks at them, and the connection state agrees with the phase.
Consistent(obj) ==
  /\ IsTerminal(obj.phase) <=> obj.comp # NoTime
  /\ obj.phase = "Disconnected" => obj.disc # NoTime /\ obj.conn = "Disconnected"
  /\ obj.phase = "Active" => obj.conn = "Connected"

TimestampsMatchPhase == \A k \in Keys : crd[k] # Absent => Consistent(crd[k])

\* An object without a status, which no controller handles, has a Create in
\* progress that will write the status or roll back, unless the reply of its
\* creation was lost, its rollback failed or its pod restarted: neither a
\* failed status update nor any interleaving of calls leaves one behind.
Statusless(k) == crd[k] # Absent /\ crd[k].phase = NoPhase

StatuslessHasCreator ==
  \A k \in Keys : Statusless(k) => k \in orphans \/ \E p \in Procs : Creating(p, k)

\* The store goes through the abstract life cycle: every change of a phase is
\* a transition of the table, and a terminal phase is left by removal only.
Lifecycle == INSTANCE SessionLifecycle WITH
  phase <- [k \in Keys |-> IF crd[k] = Absent THEN Absent ELSE crd[k].phase]

ImplementsLifecycle == Lifecycle!Spec

==============================================================================
