--------------------------- MODULE SessionTTLProofs ---------------------------
(* Proofs about SessionTTL, the service together with the TTL controller,   *)
(* for any number of names, replicas, clients and faults and any TTLs.      *)
EXTENDS SessionTTL, SessionServiceProofs

\* First-order and set reasoning is Zenon's; a leaf with arithmetic, sequences or
\* the fields of records cites SMT.
USE ZenonT(30)

-----------------------------------------------------------------------------
(* What holds of the service holds under the controller.                    *)

WorkerRecs ==
  [pc : {"wait", "cancel", "delete", "snapshot", "prune"}, key : Keys \cup {None},
   todo : SUBSET (Keys \X Keys)]

\* The types of the controller's state.
TTLTyped ==
  /\ cache  \in [Replicas -> [Keys -> Objects \cup {Absent}]]
  /\ watch  \in [Replicas -> [Keys -> Seq(Objects \cup {Absent})]]
  /\ queue  \in [Replicas -> SUBSET Keys]
  /\ timer  \in [Replicas -> [Keys -> Times]]
  /\ worker \in [Replicas -> WorkerRecs]

\* The calls of a replica's worker are UpdatePhase calls of its reconcile.
WorkerCalls ==
  \A r \in Replicas : /\ worker[r].pc # "cancel" => At(r, "idle")
                      /\ call[r].rep \in {r, None} /\ (~At(r, "idle") => call[r].rep = r)
                      /\ worker[r].pc \in {"cancel", "delete", "snapshot"} => worker[r].key \in Keys

ControllerInv == Inv /\ TTLTyped /\ WorkerCalls

\* A timestamp grows older and stays a timestamp.
LEMMA OlderFacts ==
  ASSUME NEW t \in Times, NEW limit \in Nat
  PROVE  Older(t, limit) \in Times /\ (Older(t, limit) = NoTime <=> t = NoTime)
  BY SMT DEF Older, Times, NoTime

\* Both limits are numbers.
LEMMA Limits == DisconnectTTL \in Nat /\ retentionTTL \in Nat
  BY TTLAssumption DEF retentionTTL

\* Time changes nothing about an object but the age of its timestamps.
LEMMA AgedFacts ==
  ASSUME NEW obj \in Objects \cup {Absent}
  PROVE  /\ Aged(obj) \in Objects \cup {Absent}
         /\ Aged(obj) = Absent <=> obj = Absent
         /\ obj # Absent => Aged(obj).phase = obj.phase /\ (Consistent(obj) => Consistent(Aged(obj)))
         /\ Handled(Aged(obj)) <=> Handled(obj)
<1>1. CASE obj = Absent
  BY <1>1 DEF Aged, Handled
<1>2. CASE obj # Absent
  <2> DEFINE d == Older(obj.disc, DisconnectTTL)
             c == Older(obj.comp, retentionTTL)
  <2>1. obj \in Objects /\ obj.disc \in Times /\ obj.comp \in Times
    BY <1>2 DEF Objects
  <2>2. /\ d \in Times /\ (d = NoTime <=> obj.disc = NoTime)
        /\ c \in Times /\ (c = NoTime <=> obj.comp = NoTime)
    BY <2>1, Limits, OlderFacts
  <2>3. Aged(obj) = [obj EXCEPT !.disc = d, !.comp = c]
    BY <1>2 DEF Aged
  <2> HIDE DEF d, c
  <2>4. /\ Aged(obj) \in Objects /\ Aged(obj).phase = obj.phase /\ Aged(obj).conn = obj.conn
        /\ Aged(obj).disc = d /\ Aged(obj).comp = c
    BY <2>1, <2>2, <2>3 DEF Objects
  <2>5. Aged(obj) # Absent
    BY <2>4, ServiceAssumption
  <2>6. Consistent(obj) => Consistent(Aged(obj))
    BY <2>2, <2>4 DEF Consistent
  <2>7. Handled(Aged(obj)) <=> Handled(obj)
    BY <1>2, <2>2, <2>4, <2>5 DEF Handled, Since
  <2> QED BY <1>2, <2>4, <2>5, <2>6, <2>7
<1> QED BY <1>1, <1>2

\* Time passes.
LEMMA TickInv ==
  ASSUME Inv, Tick
  PROVE  Inv'
<1>1. /\ crd' = [k \in Keys |-> Aged(crd[k])]
      /\ UNCHANGED <<index, delegate, gauge, call, stale, started, faults, orphans>>
  BY DEF Tick, local, bounded
<1>2. crd \in [Keys -> Objects \cup {Absent}]
  BY DEF Inv, TypeOK
<1>3. ASSUME NEW k \in Keys
      PROVE  /\ crd'[k] \in Objects \cup {Absent} /\ (crd'[k] = Absent <=> crd[k] = Absent)
             /\ crd[k] # Absent => crd'[k].phase = crd[k].phase
             /\ crd[k] # Absent /\ Consistent(crd[k]) => Consistent(crd'[k])
  BY <1>1, <1>2, AgedFacts
<1>4. TypeOK'
  <2>1. crd' \in [Keys -> Objects \cup {Absent}]
    BY <1>1, <1>3
  <2> QED BY <1>1, <2>1 DEF Inv, TypeOK
<1>5. ASSUME NEW p \in Procs
      PROVE  Named(p)' /\ Made(p)' /\ (Fresh(p)' => CopyUpToDate(p)')
  <2>1. Named(p) /\ Made(p) /\ (Fresh(p) => CopyUpToDate(p))
    BY DEF Inv, CopiesUpToDate
  <2>2. Named(p)' /\ Made(p)'
    BY <1>1, <2>1 DEF Named, Made, At
  <2>3. ~At(p, "idle") => call[p].name \in Keys
    BY <2>1 DEF Named
  <2>4. CopyUpToDate(p) => CopyUpToDate(p)'
    BY <1>1, <1>3, <2>3 DEF CopyUpToDate, At, Exists
  <2> QED BY <1>1, <2>1, <2>2, <2>4 DEF Fresh
<1>6. TimestampsMatchPhase'
  BY <1>3 DEF Inv, TimestampsMatchPhase
<1>7. StatuslessHasCreator'
  BY <1>1, <1>3 DEF Inv, StatuslessHasCreator, Statusless, Creating
<1> QED BY <1>4, <1>5, <1>6, <1>7 DEF Inv, CopiesUpToDate

\* The worker deletes an object by its name.
LEMMA RetentionInv ==
  ASSUME Inv, NEW r \in Replicas, At(r, "idle"), NEW k \in Keys,
         NoWrite(r) \/ Write(r, k, Absent),
         UNCHANGED <<local, call, started, orphans>>, faults' \in 0 .. MaxFaults
  PROVE  Inv'
<1>1. r \in Procs
  BY TTLAssumption
<1>2. call \in [Procs -> Calls] /\ started \in 0 .. MaxCalls /\ orphans \subseteq Keys
  BY DEF Inv, TypeOK
<1>3. Named(r)' /\ Made(r)' /\ CopyUpToDate(r)'
  <2>1. call'[r].pc = "idle"
    BY DEF At
  <2>2. Named(r)' /\ Made(r)'
    BY <2>1 DEF Named, Made, At
  <2>3. CopyUpToDate(r)'
    BY <2>1 DEF CopyUpToDate, At
  <2> QED BY <2>2, <2>3
<1>4. \A n \in Keys : Statusless(n)' => Statusless(n) /\ ~Creating(r, n)
  <2>1. crd \in [Keys -> Objects \cup {Absent}]
    BY DEF Inv, TypeOK
  <2>2. \A n \in Keys : crd'[n] = crd[n] \/ crd'[n] = Absent
    BY <2>1 DEF NoWrite, Write
  <2> QED BY <2>2 DEF Statusless, Creating, At
<1> QED BY <1>1, <1>2, <1>3, <1>4, LocalFacts, StepPreserves

\* The worker calls UpdatePhase.
LEMMA CancelInv ==
  ASSUME Inv, NEW r \in Replicas, NEW k \in Keys, ReconcileDisconnected(r, k)
  PROVE  Inv'
<1>1. Begin(r, r, "get", k, CRDName(r, k), "Cancelled") /\ NoWrite(r) /\ UNCHANGED <<local, bounded>>
  BY DEF ReconcileDisconnected, StartUpdate
<1>2. r \in Procs /\ CRDName(r, k) \in Keys /\ "Cancelled" \in Phases
  BY TTLAssumption, SMT DEF Inv, TypeOK, CRDName, Phases
<1>3. started' \in 0 .. MaxCalls /\ UNCHANGED <<local, faults, orphans>>
  BY <1>1 DEF Inv, TypeOK, bounded
<1> QED BY <1>1, <1>2, <1>3, BeginPreserves

\* Entries of crdIndex are dropped.
LEMMA PruneInv ==
  ASSUME Inv, NEW r \in Replicas, NEW id \in Keys,
         index' = index \/ index' = [index EXCEPT ![r][id] = None],
         UNCHANGED <<crd, delegate, gauge, call, stale, bounded>>
  PROVE  Inv'
<1>1. index' \in [Replicas -> [Keys -> Keys \cup {None}]]
  <2>1. index \in [Replicas -> [Keys -> Keys \cup {None}]]
    BY DEF Inv, TypeOK
  <2>2. [index[r] EXCEPT ![id] = None] \in [Keys -> Keys \cup {None}]
    BY <2>1
  <2>3. CASE index' = [index EXCEPT ![r][id] = None]
    BY <2>1, <2>2, <2>3
  <2> QED BY <2>1, <2>3
<1>2. TypeOK'
  BY <1>1 DEF Inv, TypeOK, bounded
<1> QED BY <1>2 DEF Inv, Named, Made, CopiesUpToDate, CopyUpToDate, Fresh, At, Exists,
                    TimestampsMatchPhase, StatuslessHasCreator, Statusless, Creating, bounded

\* A step of a call changes no other call, and an idle call takes no step.
LEMMA OtherCalls ==
  ASSUME Inv, NEW p \in Procs, NEW q \in Procs, q # p,
         ClientStep(p) \/ CallStep(p) \/ FaultStep(p)
  PROVE  call'[q] = call[q]
<1>0. call \in [Procs -> Calls]
  BY DEF Inv, TypeOK
<1>1. \A pc : Goto(p, pc) => call'[q] = call[q]
  BY <1>0 DEF Goto
<1>2. \A ok : Return(p, ok) => call'[q] = call[q]
  BY <1>0 DEF Return
<1>3. \A r, pc, id, name, to : Begin(p, r, pc, id, name, to) => call'[q] = call[q]
  BY <1>0 DEF Begin
<1>4. Refused(p) => call'[q] = call[q]
  BY <1>0, <1>2 DEF Refused
<1>5. OnError(p) => call'[q] = call[q]
  BY <1>0, <1>1, <1>2 DEF OnError, RollBack
<1> HIDE DEF Goto, Return, Begin, Refused, OnError
<1>6. CASE ClientStep(p)
  BY <1>3, <1>6 DEF ClientStep, BeginCreate, BeginUpdatePhase, StartUpdate, BeginDelete, BeginAppend
<1>7. CASE FaultStep(p)
  BY <1>5, <1>7 DEF FaultStep, RequestFails, ReplyLost
<1>8. CASE CreateCRD(p) \/ CreateStatus(p) \/ CreateRollback(p) \/ CreateDone(p)
  BY <1>1, <1>2, <1>8 DEF CreateCRD, CreateStatus, RollBack, CreateRollback, CreateDone
<1>9. CASE CreateDelegate(p)
  BY <1>0, <1>1, <1>9 DEF CreateDelegate, RollBack
<1>10. CASE UpdateGet(p) \/ UpdateStatus(p)
  BY <1>0, <1>2, <1>4, <1>10 DEF UpdateGet, UpdateStatus
<1>11. CASE UpdateReget(p) \/ UpdateLabel(p) \/ UpdateDone(p)
  BY <1>1, <1>2, <1>4, <1>11 DEF UpdateReget, UpdateLabel, UpdateDone
<1>12. CASE DeleteRead(p) \/ DeleteCRD(p) \/ DeleteDone(p)
  BY <1>0, <1>1, <1>2, <1>12 DEF DeleteRead, DeleteCRD, DeleteDone
<1>13. CASE AppendGet(p) \/ AppendTouch(p)
  BY <1>1, <1>2, <1>13 DEF AppendGet, AppendTouch
<1> QED BY <1>6, <1>7, <1>8, <1>9, <1>10, <1>11, <1>12, <1>13 DEF CallStep

\* A step of a call ends it or keeps what it is about.
LEMMA OwnCall ==
  ASSUME Inv, NEW p \in Procs, CallStep(p) \/ FaultStep(p)
  PROVE  \/ call'[p].pc = "idle" /\ call'[p].rep = None
         \/ call'[p].rep = call[p].rep /\ call'[p].name = call[p].name /\ call'[p].to = call[p].to
<1> DEFINE Ends == call'[p].pc = "idle" /\ call'[p].rep = None
           Goes == call'[p].rep = call[p].rep /\ call'[p].name = call[p].name /\ call'[p].to = call[p].to
<1>0. call \in [Procs -> Calls] /\ call[p] \in Calls
  BY DEF Inv, TypeOK
<1>1. \A pc : Goto(p, pc) => Goes
  BY <1>0 DEF Goto, Calls
<1>2. \A ok : Return(p, ok) => Ends
  BY <1>0 DEF Return, Idle
<1>3. \A pc, x : call' = [call EXCEPT ![p].pc = pc, ![p].from = x] => Goes
  BY <1>0, SMT DEF Calls
<1>4. \A pc, x : call' = [call EXCEPT ![p].pc = pc, ![p].made = x] => Goes
  BY <1>0, SMT DEF Calls
<1>5. \A pc, x : call' = [call EXCEPT ![p].pc = pc, ![p].id = x] => Goes
  BY <1>0, SMT DEF Calls
<1>6. Refused(p) => Ends \/ Goes
  <2>1. call' = [call EXCEPT ![p].pc = "get", ![p].tries = @ + 1] => Goes
    BY <1>0, SMT DEF Calls
  <2> QED BY <1>2, <2>1 DEF Refused
<1> HIDE DEF Ends, Goes
<1>7. OnError(p) => Ends \/ Goes
  BY <1>1, <1>2, <1>3 DEF OnError, RollBack
<1>8. CASE FaultStep(p)
  BY <1>7, <1>8 DEF FaultStep, RequestFails, ReplyLost, Ends, Goes
<1>9. CASE CreateCRD(p) \/ CreateStatus(p) \/ CreateRollback(p) \/ CreateDone(p)
  BY <1>1, <1>2, <1>9 DEF CreateCRD, CreateStatus, RollBack, CreateRollback, CreateDone, Ends, Goes
<1>10. CASE CreateDelegate(p)
  BY <1>1, <1>5, <1>10 DEF CreateDelegate, RollBack, Ends, Goes
<1>11. CASE UpdateGet(p) \/ UpdateStatus(p)
  BY <1>2, <1>3, <1>4, <1>6, <1>11 DEF UpdateGet, UpdateStatus, Ends, Goes
<1>12. CASE UpdateReget(p) \/ UpdateLabel(p) \/ UpdateDone(p)
  BY <1>1, <1>2, <1>6, <1>12 DEF UpdateReget, UpdateLabel, UpdateDone, Ends, Goes
<1>13. CASE DeleteRead(p) \/ DeleteCRD(p) \/ DeleteDone(p)
  BY <1>1, <1>2, <1>3, <1>13 DEF DeleteRead, DeleteCRD, DeleteDone, Ends, Goes
<1>14. CASE AppendGet(p) \/ AppendTouch(p)
  BY <1>1, <1>2, <1>14 DEF AppendGet, AppendTouch, Ends, Goes
<1> QED BY <1>8, <1>9, <1>10, <1>11, <1>12, <1>13, <1>14 DEF CallStep, Ends, Goes

\* An idle call takes no step of its own.
LEMMA IdleRests ==
  ASSUME NEW p \in Procs, CallStep(p) \/ FaultStep(p)
  PROVE  ~At(p, "idle")
  BY DEF CallStep, FaultStep, CreateCRD, CreateStatus, CreateDelegate, CreateRollback,
         CreateDone, UpdateGet, UpdateStatus, UpdateReget, UpdateLabel, UpdateDone,
         DeleteRead, DeleteCRD, DeleteDone, AppendGet, AppendTouch, RequestFails,
         ReplyLost, At

\* Every informer is told of every change.
LEMMA Published ==
  ASSUME TTLTyped, crd' \in [Keys -> Objects \cup {Absent}], Publish
  PROVE  /\ watch' \in [Replicas -> [Keys -> Seq(Objects \cup {Absent})]]
         /\ \A r \in Replicas, k \in Keys :
              watch'[r][k] = IF crd'[k] = crd[k] THEN watch[r][k] ELSE Append(watch[r][k], crd'[k])
<1> DEFINE Obj == Objects \cup {Absent}
           W(r, k) == IF crd'[k] = crd[k] THEN watch[r][k] ELSE Append(watch[r][k], crd'[k])
<1>1. ASSUME NEW r \in Replicas, NEW k \in Keys PROVE W(r, k) \in Seq(Obj)
  <2>1. watch[r][k] \in Seq(Obj) /\ crd'[k] \in Obj
    BY DEF TTLTyped
  <2> HIDE DEF Obj
  <2> QED BY <2>1, SMT
<1>2. watch' = [r \in Replicas |-> [k \in Keys |-> W(r, k)]]
  BY DEF Publish
<1> HIDE DEF W, Obj
<1>3. watch' \in [Replicas -> [Keys -> Seq(Obj)]] /\ \A r \in Replicas, k \in Keys : watch'[r][k] = W(r, k)
  BY <1>1, <1>2
<1> QED BY <1>3 DEF W, Obj

\* A step of a call of the service.
LEMMA ServiceKeeps ==
  ASSUME ControllerInv, NEW p \in Procs,
         \/ p \in Clients /\ ClientCalls(p)
         \/ CallRuns(p) \/ CallFails(p)
  PROVE  ControllerInv'
<1>1. /\ ClientStep(p) \/ CallStep(p) \/ FaultStep(p)
      /\ Publish /\ UNCHANGED <<cache, queue, timer, worker>>
  BY DEF ClientCalls, CallRuns, CallFails, NotController
<1>2. Inv'
  BY <1>1, NextInv DEF ControllerInv, Next
<1>3. TTLTyped'
  <2>1. crd' \in [Keys -> Objects \cup {Absent}]
    BY <1>2 DEF Inv, TypeOK
  <2> QED BY <1>1, <2>1, Published DEF ControllerInv, TTLTyped
<1>4. WorkerCalls'
  <2>1. ASSUME NEW r \in Replicas
        PROVE  /\ worker[r].pc # "cancel" => call'[r].pc = "idle"
               /\ call'[r].rep \in {r, None} /\ (call'[r].pc # "idle" => call'[r].rep = r)
    <3>1. /\ r \in Procs /\ (worker[r].pc # "cancel" => call[r].pc = "idle")
          /\ call[r].rep \in {r, None} /\ (call[r].pc # "idle" => call[r].rep = r)
      BY TTLAssumption DEF ControllerInv, WorkerCalls, At
    <3>2. CASE r # p
      BY <1>1, <3>1, <3>2, OtherCalls DEF ControllerInv
    <3>3. CASE r = p
      <4>1. (CallStep(r) \/ FaultStep(r)) /\ call[r].pc # "idle"
        BY <3>1, <3>3, IdleRests DEF Clients, CallRuns, CallFails, At
      <4> QED BY <3>1, <3>3, <4>1, OwnCall DEF ControllerInv
    <3> QED BY <3>2, <3>3
  <2> QED BY <1>1, <2>1 DEF WorkerCalls, ControllerInv, At
<1> QED BY <1>2, <1>3, <1>4 DEF ControllerInv

\* A table with one entry changed.
LEMMA EntrySet ==
  ASSUME NEW S, NEW f \in [Replicas -> [Keys -> S]], NEW r \in Replicas, NEW k \in Keys, NEW v \in S
  PROVE  /\ [f EXCEPT ![r][k] = v] \in [Replicas -> [Keys -> S]]
         /\ \A q \in Replicas, n \in Keys :
              [f EXCEPT ![r][k] = v][q][n] = IF q = r /\ n = k THEN v ELSE f[q][n]
<1> DEFINE g == [f[r] EXCEPT ![k] = v]
<1>1. g \in [Keys -> S] /\ \A n \in Keys : g[n] = IF n = k THEN v ELSE f[r][n]
  OBVIOUS
<1>2. [f EXCEPT ![r][k] = v] = [f EXCEPT ![r] = g]
  OBVIOUS
<1> HIDE DEF g
<1> QED BY <1>1, <1>2

\* Inv says nothing of the controller.
LEMMA ServiceRests ==
  ASSUME Inv, UNCHANGED vars
  PROVE  Inv'
  BY NextInv

\* Time passes.
LEMMA TickKeeps ==
  ASSUME ControllerInv, Tick
  PROVE  /\ ControllerInv'
         /\ \A r \in Replicas, k \in Keys :
              /\ cache'[r][k] = Aged(cache[r][k])
              /\ Len(watch'[r][k]) = Len(watch[r][k]) /\ (watch'[r][k] = <<>> <=> watch[r][k] = <<>>)
              /\ \A i \in 1 .. Len(watch[r][k]) : watch'[r][k][i] = Aged(watch[r][k][i])
              /\ timer'[r][k] = NoTime <=> timer[r][k] = NoTime
<1> DEFINE Obj == Objects \cup {Absent}
           W(r, k) == [i \in DOMAIN watch[r][k] |-> Aged(watch[r][k][i])]
           T(r, k) == IF timer[r][k] > 0 THEN timer[r][k] - 1 ELSE timer[r][k]
<1>1. /\ cache' = [r \in Replicas |-> [k \in Keys |-> Aged(cache[r][k])]]
      /\ watch' = [r \in Replicas |-> [k \in Keys |-> W(r, k)]]
      /\ timer' = [r \in Replicas |-> [k \in Keys |-> T(r, k)]]
      /\ UNCHANGED <<call, queue, worker>>
  BY DEF Tick
<1>2. ASSUME NEW r \in Replicas, NEW k \in Keys
      PROVE  /\ Aged(cache[r][k]) \in Obj
             /\ W(r, k) \in Seq(Obj) /\ Len(W(r, k)) = Len(watch[r][k])
             /\ W(r, k) = <<>> <=> watch[r][k] = <<>>
             /\ \A i \in 1 .. Len(watch[r][k]) : W(r, k)[i] = Aged(watch[r][k][i])
             /\ T(r, k) \in Times /\ (T(r, k) = NoTime <=> timer[r][k] = NoTime)
  <2>1. cache[r][k] \in Obj /\ watch[r][k] \in Seq(Obj) /\ timer[r][k] \in Times
    BY DEF ControllerInv, TTLTyped
  <2>2. \A i \in 1 .. Len(watch[r][k]) : Aged(watch[r][k][i]) \in Obj
    BY <2>1, AgedFacts, SMT
  <2>3. Aged(cache[r][k]) \in Obj
    BY <2>1, AgedFacts
  <2>4. T(r, k) \in Times /\ (T(r, k) = NoTime <=> timer[r][k] = NoTime)
    BY <2>1, SMT DEF Times, NoTime
  <2> HIDE DEF Obj
  <2>5. /\ W(r, k) \in Seq(Obj) /\ Len(W(r, k)) = Len(watch[r][k])
        /\ \A i \in 1 .. Len(watch[r][k]) : W(r, k)[i] = Aged(watch[r][k][i])
    BY <2>1, <2>2, SMT
  <2>6. W(r, k) = <<>> <=> watch[r][k] = <<>>
    BY <2>1, <2>5, SMT
  <2> QED BY <2>3, <2>4, <2>5, <2>6
<1> HIDE DEF W, T
<1>3. TTLTyped'
  <2>1. cache' \in [Replicas -> [Keys -> Objects \cup {Absent}]]
    BY <1>1, <1>2
  <2>2. timer' \in [Replicas -> [Keys -> Times]]
    BY <1>1, <1>2
  <2>3. watch' \in [Replicas -> [Keys -> Seq(Obj)]]
    <3> HIDE DEF Obj
    <3> QED BY <1>1, <1>2
  <2> QED BY <1>1, <2>1, <2>2, <2>3 DEF ControllerInv, TTLTyped
<1>4. WorkerCalls'
  BY <1>1 DEF ControllerInv, WorkerCalls, At
<1> QED BY <1>1, <1>2, <1>3, <1>4, TickInv DEF ControllerInv

\* An event arrives, or a name is queued again.
LEMMA InformerKeeps ==
  ASSUME ControllerInv, NEW r \in Replicas, NEW k \in Keys,
         Deliver(r, k) \/ Resync(r, k) \/ TimerFires(r, k)
  PROVE  ControllerInv'
<1>1. UNCHANGED <<vars, call, worker>> /\ Enqueue(r, k)
  BY DEF Deliver, Resync, TimerFires, vars
<1>2. queue' \in [Replicas -> SUBSET Keys]
  BY <1>1 DEF Enqueue, ControllerInv, TTLTyped
<1> DEFINE Obj == Objects \cup {Absent}
<1>0. /\ cache \in [Replicas -> [Keys -> Obj]] /\ watch \in [Replicas -> [Keys -> Seq(Obj)]]
      /\ timer \in [Replicas -> [Keys -> Times]] /\ NoTime \in Times
  BY DEF ControllerInv, TTLTyped, Times
<1>3. watch[r][k] # <<>> => Head(watch[r][k]) \in Obj /\ Tail(watch[r][k]) \in Seq(Obj)
  <2> HIDE DEF Obj
  <2> QED BY <1>0, SMT
<1>4. cache' \in [Replicas -> [Keys -> Obj]] /\ watch' \in [Replicas -> [Keys -> Seq(Obj)]]
  <2> HIDE DEF Obj
  <2>1. CASE Deliver(r, k)
    BY <1>0, <1>3, <2>1, EntrySet DEF Deliver
  <2>2. CASE UNCHANGED <<cache, watch>>
    BY <1>0, <2>2
  <2> QED BY <2>1, <2>2 DEF Resync, TimerFires, informer
<1>5. timer' \in [Replicas -> [Keys -> Times]]
  <2>1. CASE UNCHANGED timer
    BY <1>0, <2>1
  <2>2. CASE timer' = [timer EXCEPT ![r][k] = NoTime]
    BY <1>0, <2>2, EntrySet
  <2> QED BY <2>1, <2>2 DEF Deliver, Resync, TimerFires
<1>6. TTLTyped'
  BY <1>1, <1>2, <1>3, <1>4, <1>5 DEF ControllerInv, TTLTyped
<1>7. WorkerCalls'
  BY <1>1 DEF ControllerInv, WorkerCalls, At
<1> QED BY <1>1, <1>6, <1>7, ServiceRests DEF ControllerInv

\* The worker takes a name and decides what to do about it.
LEMMA ReconcileKeeps ==
  ASSUME ControllerInv, NEW r \in Replicas, NEW k \in Keys, Reconcile(r, k)
  PROVE  ControllerInv'
<1>1. /\ worker[r].pc = "wait" /\ queue' = [queue EXCEPT ![r] = @ \ {k}]
      /\ UNCHANGED <<cache, watch>> /\ At(r, "idle")
  BY DEF Reconcile, ReconcileNothing, ReconcileEarly, ReconcileDisconnected, ReconcileTerminal,
         Take, informer, ControllerInv, WorkerCalls
<1>2. queue' \in [Replicas -> SUBSET Keys]
  BY <1>1 DEF ControllerInv, TTLTyped
<1>3. timer' \in [Replicas -> [Keys -> Times]]
  <2>1. timer \in [Replicas -> [Keys -> Times]]
    BY DEF ControllerInv, TTLTyped
  <2>2. CASE UNCHANGED timer
    BY <2>1, <2>2
  <2>3. CASE ReconcileEarly(r, k)
    <3> DEFINE n == Limit(cache[r][k]) - Since(cache[r][k])
    <3>1. RequeueAfter(r, k, n) /\ Handled(cache[r][k]) /\ ~Expired(cache[r][k])
      BY <2>3 DEF ReconcileEarly
    <3>2. n \in Nat
      <4>1. cache[r][k] \in Objects
        BY <3>1, SMT DEF ControllerInv, TTLTyped, Handled
      <4>2. Since(cache[r][k]) \in Nat /\ Limit(cache[r][k]) \in Nat
        BY <3>1, <4>1, Limits DEF Handled, Since, Limit, Objects, Times
      <4> QED BY <3>1, <4>2, SMT DEF Expired
    <3> HIDE DEF n
    <3> QED BY <2>1, <3>1, <3>2 DEF RequeueAfter, Times
  <2> QED BY <2>2, <2>3 DEF Reconcile, ReconcileNothing, ReconcileDisconnected, ReconcileTerminal
<1>4. /\ worker' \in [Replicas -> WorkerRecs]
      /\ \/ UNCHANGED worker /\ ~ReconcileDisconnected(r, k)
         \/ /\ worker' = [worker EXCEPT ![r] = [pc |-> "cancel", key |-> k, todo |-> {}]]
            /\ ReconcileDisconnected(r, k)
         \/ /\ worker' = [worker EXCEPT ![r] = [pc |-> "delete", key |-> k, todo |-> {}]]
            /\ UNCHANGED call
  <2>1. \A pc \in {"cancel", "delete"} : [pc |-> pc, key |-> k, todo |-> {}] \in WorkerRecs
    BY DEF WorkerRecs
  <2> QED BY <2>1 DEF Reconcile, ReconcileNothing, ReconcileEarly, ReconcileDisconnected,
                      ReconcileTerminal, Work, vars, ControllerInv, TTLTyped
<1>5. TTLTyped'
  BY <1>1, <1>2, <1>3, <1>4 DEF ControllerInv, TTLTyped
<1>6. Inv'
  BY ServiceRests, CancelInv DEF Reconcile, ReconcileNothing, ReconcileEarly, ReconcileTerminal,
                                 ControllerInv
<1>7. \A q \in Replicas \ {r} : call'[q] = call[q] /\ worker'[q] = worker[q]
  BY <1>4, TTLAssumption DEF Reconcile, ReconcileNothing, ReconcileEarly, ReconcileDisconnected,
       ReconcileTerminal, StartUpdate, Begin, vars, ControllerInv, TTLTyped, Inv, TypeOK
<1>8. WorkerCalls'
  <2>0. worker \in [Replicas -> WorkerRecs]
    BY DEF ControllerInv, TTLTyped
  <2>a. \/ worker'[r] = worker[r] /\ ~ReconcileDisconnected(r, k)
        \/ worker'[r].pc = "cancel" /\ worker'[r].key = k
        \/ worker'[r].pc = "delete" /\ worker'[r].key = k /\ UNCHANGED call
    BY <1>4, <2>0, SMT
  <2>b. ~ReconcileDisconnected(r, k) => UNCHANGED call
    BY DEF Reconcile, ReconcileNothing, ReconcileEarly, ReconcileTerminal, vars
  <2>1. worker'[r].pc # "cancel" => call'[r] = call[r]
    BY <2>a, <2>b
  <2>2. worker'[r] = worker[r] \/ worker'[r].key = k
    BY <2>a
  <2>3. call'[r] = call[r] \/ call'[r].rep = r
    <3>1. CASE UNCHANGED call
      BY <3>1
    <3>2. CASE ReconcileDisconnected(r, k)
      BY <3>2, TTLAssumption DEF ReconcileDisconnected, StartUpdate, Begin, Idle, ControllerInv, Inv, TypeOK
    <3> QED BY <1>4, <3>1, <3>2 DEF Reconcile, ReconcileNothing, ReconcileEarly, ReconcileTerminal, vars
  <2>4. ASSUME NEW q \in Replicas
        PROVE  /\ worker'[q].pc # "cancel" => call'[q].pc = "idle"
               /\ call'[q].rep \in {q, None} /\ (call'[q].pc # "idle" => call'[q].rep = q)
               /\ worker'[q].pc \in {"cancel", "delete", "snapshot"} => worker'[q].key \in Keys
    BY <1>1, <1>7, <2>1, <2>2, <2>3 DEF WorkerCalls, At, ControllerInv
  <2> QED BY <2>4 DEF WorkerCalls, At
<1> QED BY <1>5, <1>6, <1>8 DEF ControllerInv

\* The records of the worker.
LEMMA WorkerTypes ==
  /\ Waiting \in WorkerRecs /\ Waiting.pc = "wait"
  /\ \A k \in Keys : LET w == [pc |-> "snapshot", key |-> k, todo |-> {}]
                      IN  w \in WorkerRecs /\ w.pc = "snapshot" /\ w.key = k
  /\ \A w \in WorkerRecs, t \in SUBSET (Keys \X Keys) :
       [w EXCEPT !.pc = "prune", !.todo = t] \in WorkerRecs /\ [w EXCEPT !.todo = t] \in WorkerRecs
  BY DEF Waiting, WorkerRecs

\* The worker ends a reconcile of a Disconnected session, or goes on with one of a
\* terminal session.
LEMMA WorkerKeeps ==
  ASSUME ControllerInv, NEW r \in Replicas, WorkerStep(r) \/ RetentionDeleteFails(r)
  PROVE  ControllerInv'
<1> DEFINE w == worker[r]
<1>0. w \in WorkerRecs /\ worker \in [Replicas -> WorkerRecs] /\ w.todo \subseteq Keys \X Keys
  BY DEF ControllerInv, TTLTyped, WorkerRecs
<1>a. Inv /\ TTLTyped /\ WorkerCalls
  BY DEF ControllerInv
<1>b. ASSUME NEW v \in WorkerRecs, worker' = [worker EXCEPT ![r] = v], UNCHANGED call,
             v.pc = "cancel" => w.pc = "cancel", w.pc = "cancel" => At(r, "idle"),
             v.pc \in {"cancel", "delete", "snapshot"} => v.key \in Keys
      PROVE  worker' \in [Replicas -> WorkerRecs] /\ WorkerCalls'
  <2>1. worker' \in [Replicas -> WorkerRecs] /\ \A q \in Replicas : worker'[q] = IF q = r THEN v ELSE worker[q]
    BY <1>0, <1>b
  <2> QED BY <1>a, <1>b, <2>1 DEF WorkerCalls, At
<1>1. CASE CancelReturns(r)
  <2>1. worker' \in [Replicas -> WorkerRecs] /\ WorkerCalls'
    BY <1>1, <1>b, WorkerTypes DEF CancelReturns, vars
  <2>2. queue' \in [Replicas -> SUBSET Keys]
    <3>1. worker[r].key \in Keys /\ queue \in [Replicas -> SUBSET Keys]
      BY <1>1, <1>a DEF CancelReturns, TTLTyped, WorkerCalls
    <3>2. queue[r] \cup {worker[r].key} \in SUBSET Keys
      BY <3>1
    <3> QED BY <1>1, <3>1, <3>2 DEF CancelReturns, Enqueue
  <2>3. TTLTyped' /\ UNCHANGED vars
    BY <1>1, <1>a, <2>1, <2>2 DEF CancelReturns, informer, TTLTyped
  <2> QED BY <1>a, <2>1, <2>3, ServiceRests DEF ControllerInv
<1>2. CASE RetentionDelete(r) \/ RetentionDeleteFails(r)
  <2> DEFINE k == w.key
  <2>1. w.pc = "delete" /\ k \in Keys /\ At(r, "idle")
    BY <1>2, <1>a DEF RetentionDelete, RetentionDeleteFails, WorkerCalls
  <2>2. /\ NoWrite(r) \/ Write(r, k, Absent)
        /\ Publish /\ UNCHANGED <<local, call, started, orphans, cache, timer>>
        /\ queue' = queue \/ Enqueue(r, k)
    BY <1>2 DEF RetentionDelete, RetentionDeleteFails, bounded
  <2>3. faults' \in 0 .. MaxFaults
    BY <1>2, <1>a, SpendFacts DEF RetentionDelete, RetentionDeleteFails, bounded, Inv, TypeOK
  <2>4. Inv'
    BY <1>a, <2>1, <2>2, <2>3, RetentionInv
  <2>5. \E v \in WorkerRecs : /\ worker' = [worker EXCEPT ![r] = v]
                              /\ v.pc = "wait" \/ (v.pc = "snapshot" /\ v.key = k)
    BY <1>2, <2>1, WorkerTypes DEF RetentionDelete, RetentionDeleteFails, Work
  <2>6. worker' \in [Replicas -> WorkerRecs] /\ WorkerCalls'
    BY <1>b, <2>1, <2>2, <2>5
  <2>7. queue' \in [Replicas -> SUBSET Keys]
    <3>1. queue \in [Replicas -> SUBSET Keys] /\ queue[r] \cup {k} \in SUBSET Keys
      BY <1>a, <2>1 DEF TTLTyped
    <3> HIDE DEF k
    <3> QED BY <2>2, <3>1 DEF Enqueue
  <2>8. watch' \in [Replicas -> [Keys -> Seq(Objects \cup {Absent})]]
    BY <1>a, <2>2, <2>4, Published DEF Inv, TypeOK
  <2>9. TTLTyped'
    BY <1>a, <2>2, <2>6, <2>7, <2>8 DEF TTLTyped
  <2> QED BY <2>4, <2>6, <2>9 DEF ControllerInv
<1>3. CASE PruneSnapshot(r)
  <2> DEFINE v == [w EXCEPT !.pc = "prune", !.todo = Snapshot(r)]
  <2>1. Snapshot(r) \in SUBSET (Keys \X Keys)
    BY DEF Snapshot
  <2>2. worker' = [worker EXCEPT ![r] = v] /\ w.pc = "snapshot" /\ UNCHANGED <<vars, cache, watch, queue, timer>>
    BY <1>0, <1>3 DEF PruneSnapshot, informer
  <2>3. v \in WorkerRecs /\ v.pc = "prune"
    BY <1>0, <2>1, WorkerTypes DEF WorkerRecs
  <2> HIDE DEF v
  <2>4. worker' \in [Replicas -> WorkerRecs] /\ WorkerCalls'
    BY <1>b, <2>2, <2>3 DEF vars
  <2>5. TTLTyped'
    BY <1>a, <2>2, <2>4 DEF TTLTyped
  <2> QED BY <1>a, <2>2, <2>4, <2>5, ServiceRests DEF ControllerInv
<1>4. CASE PruneEntry(r)
  <2>1. PICK e \in w.todo :
          /\ worker' = [worker EXCEPT ![r].todo = @ \ {e}]
          /\ index' = IF Prunable(cache[r][e[2]]) THEN [index EXCEPT ![r][e[1]] = None] ELSE index
          /\ UNCHANGED <<crd, delegate, gauge, call, stale, bounded, cache, watch, queue, timer>>
    BY <1>4 DEF PruneEntry, informer
  <2> DEFINE v == [w EXCEPT !.todo = w.todo \ {e}]
  <2>2. worker' = [worker EXCEPT ![r] = v] /\ e[1] \in Keys
    BY <1>0, <2>1
  <2>3. v \in WorkerRecs /\ v.pc = w.pc /\ v.key = w.key
    BY <1>0, WorkerTypes DEF WorkerRecs
  <2> HIDE DEF v
  <2>4. worker' \in [Replicas -> WorkerRecs] /\ \A q \in Replicas : worker'[q] = IF q = r THEN v ELSE worker[q]
    BY <1>0, <2>2, <2>3
  <2>5. WorkerCalls'
    BY <1>a, <2>1, <2>3, <2>4 DEF WorkerCalls, At
  <2>6. Inv'
    BY <1>a, <2>1, <2>2, PruneInv
  <2>7. TTLTyped'
    BY <1>a, <2>1, <2>4 DEF TTLTyped
  <2> QED BY <2>5, <2>6, <2>7 DEF ControllerInv
<1>5. CASE PruneEnds(r)
  <2>1. worker' = [worker EXCEPT ![r] = Waiting] /\ w.pc = "prune" /\ UNCHANGED <<vars, cache, watch, queue, timer>>
    BY <1>5 DEF PruneEnds, informer
  <2>2. worker' \in [Replicas -> WorkerRecs] /\ WorkerCalls'
    BY <1>b, <2>1, WorkerTypes DEF vars
  <2>3. TTLTyped'
    BY <1>a, <2>1, <2>2 DEF TTLTyped
  <2> QED BY <1>a, <2>1, <2>2, <2>3, ServiceRests DEF ControllerInv
<1> QED BY <1>1, <1>2, <1>3, <1>4, <1>5 DEF WorkerStep

\* A pod restarts with its controller.
LEMMA RestartKeeps ==
  ASSUME ControllerInv, NEW r \in Replicas, PodRestart(r)
  PROVE  ControllerInv'
<1> DEFINE Obj == Objects \cup {Absent}
           list == [k \in Keys |-> IF crd[k] = Absent THEN <<>> ELSE <<crd[k]>>]
<1>1. Inv' /\ Inv /\ TTLTyped /\ WorkerCalls
  BY RestartInv DEF PodRestart, ControllerInv
<1>2. list \in [Keys -> Seq(Obj)]
  <2>1. crd \in [Keys -> Obj]
    BY <1>1 DEF Inv, TypeOK
  <2> HIDE DEF Obj
  <2> QED BY <2>1, SMT
<1>3. [k \in Keys |-> Absent] \in [Keys -> Obj] /\ [k \in Keys |-> NoTime] \in [Keys -> Times]
  BY DEF Times
<1> HIDE DEF list
<1>4. /\ watch' = [watch EXCEPT ![r] = list] /\ cache' = [cache EXCEPT ![r] = [k \in Keys |-> Absent]]
      /\ timer' = [timer EXCEPT ![r] = [k \in Keys |-> NoTime]]
      /\ queue' = [queue EXCEPT ![r] = {}] /\ worker' = [worker EXCEPT ![r] = Waiting]
  BY DEF PodRestart, list
<1>5. TTLTyped'
  BY <1>1, <1>2, <1>3, <1>4, WorkerTypes DEF TTLTyped
<1>6. ASSUME NEW q \in Replicas PROVE (call'[q].pc = "idle" /\ call'[q].rep = None) \/ (call'[q] = call[q] /\ call[q].rep # r)
  <2>1. call'[q] = IF call[q].rep = r THEN Idle ELSE call[q]
    BY TTLAssumption DEF PodRestart, Restart
  <2> QED BY <2>1, SMT DEF Idle
<1>7. \A q \in Replicas : worker'[q] = IF q = r THEN Waiting ELSE worker[q]
  BY <1>1, <1>4 DEF TTLTyped
<1>8. call'[r].pc = "idle" /\ call'[r].rep = None
  BY <1>1, <1>6 DEF WorkerCalls, At
<1>9. ASSUME NEW q \in Replicas
      PROVE  /\ worker'[q].pc # "cancel" => call'[q].pc = "idle"
             /\ call'[q].rep \in {q, None} /\ (call'[q].pc # "idle" => call'[q].rep = q)
             /\ worker'[q].pc \in {"cancel", "delete", "snapshot"} => worker'[q].key \in Keys
  <2>1. CASE q = r
    BY <1>7, <1>8, <2>1, WorkerTypes
  <2>2. CASE q # r
    BY <1>1, <1>6, <1>7, <2>2 DEF WorkerCalls, At
  <2> QED BY <2>1, <2>2
<1>10. WorkerCalls'
  BY <1>9 DEF WorkerCalls, At
<1> QED BY <1>1, <1>5, <1>10 DEF ControllerInv

\* Every step keeps ControllerInv.
LEMMA ControllerStep ==
  ASSUME ControllerInv, [TTLNext]_ttlVars
  PROVE  ControllerInv'
<1>1. CASE UNCHANGED ttlVars
  <2>1. UNCHANGED <<vars, call, cache, watch, queue, timer, worker>>
    BY <1>1 DEF ttlVars, vars
  <2> QED BY <2>1, ServiceRests DEF ControllerInv, TTLTyped, WorkerCalls, At
<1>2. ASSUME NEW p \in Clients, ClientCalls(p) PROVE ControllerInv'
  BY <1>2, ServiceKeeps DEF Clients
<1> QED BY <1>1, <1>2, ServiceKeeps, TickKeeps, InformerKeeps, ReconcileKeeps, WorkerKeeps, RestartKeeps
        DEF TTLNext

\* It holds at the start.
LEMMA InitController == TTLInit => ControllerInv
<1> SUFFICES ASSUME TTLInit
             PROVE  ControllerInv
  OBVIOUS
<1>1. TTLTyped
  <2>1. \A S : <<>> \in Seq(S)
    BY SMT
  <2>2. watch \in [Replicas -> [Keys -> Seq(Objects \cup {Absent})]]
    BY <2>1 DEF TTLInit
  <2> QED BY <2>2, WorkerTypes DEF TTLInit, TTLTyped, Times
<1>2. WorkerCalls
  <2>1. \A r \in Replicas : call[r] = Idle /\ worker[r] = Waiting
    BY TTLAssumption DEF TTLInit, Init
  <2>2. Idle.pc = "idle" /\ Idle.rep = None
    BY DEF Idle
  <2> QED BY <2>1, <2>2, WorkerTypes DEF WorkerCalls, At
<1> QED BY <1>1, <1>2, InitInv DEF TTLInit, ControllerInv

\* What holds of the session service holds of it together with the TTL controllers of
\* all replicas, which cancel and delete sessions and prune the index from caches
\* that lag behind.
THEOREM ControllerInvariance == TTLSpec => []ControllerInv
  BY InitController, ControllerStep, PTL DEF TTLSpec

\* Under the TTL controllers, too: accepted writes are based on what the object is,
\* audit events report what was written, timestamps match phases, and objects
\* without a status have a Create in progress.
THEOREM SessionsCorrectUnderTTL ==
  TTLSpec => [](CopiesUpToDate /\ AuditReportsCommit /\ TimestampsMatchPhase /\ StatuslessHasCreator)
<1>1. ControllerInv => CopiesUpToDate /\ AuditReportsCommit /\ TimestampsMatchPhase /\ StatuslessHasCreator
  BY DEF ControllerInv, Inv, AuditReportsCommit, Made, At
<1> QED BY <1>1, ControllerInvariance, PTL

\* Under the TTL controllers, too, a phase changes along the table and a terminal phase
\* is left by the deletion of its object only.
THEOREM LifecycleUnderTTL == TTLSpec => ImplementsLifecycle
<1> DEFINE P == [k \in Keys |-> IF crd[k] = Absent THEN Absent ELSE crd[k].phase]
<1>1. TTLInit => Lifecycle!Init
  BY DEF TTLInit, Init, Lifecycle!Init
<1>2. ControllerInv /\ [TTLNext]_ttlVars => [Lifecycle!Next]_P
  <2> SUFFICES ASSUME ControllerInv, [TTLNext]_ttlVars
               PROVE  [Lifecycle!Next]_P
    OBVIOUS
  <2>0. Inv /\ crd \in [Keys -> Objects \cup {Absent}]
    BY DEF ControllerInv, Inv, TypeOK
  <2>1. CASE [Next]_vars
    BY <2>0, <2>1, NextImplements
  <2>2. CASE Tick
    <3>1. P' = P
      BY <2>0, <2>2, AgedFacts DEF Tick
    <3> QED BY <3>1
  <2>3. CASE UNCHANGED crd
    BY <2>3
  <2>4. ASSUME NEW r \in Replicas, RetentionDelete(r) \/ RetentionDeleteFails(r)
        PROVE  [Lifecycle!Next]_P
    <3>1. worker[r].key \in Keys /\ r \in Procs
      BY <2>4, TTLAssumption DEF RetentionDelete, RetentionDeleteFails, ControllerInv, WorkerCalls
    <3>2. NoWrite(r) \/ Write(r, worker[r].key, Absent)
      BY <2>4 DEF RetentionDelete, RetentionDeleteFails
    <3>3. CASE NoWrite(r)
      BY <2>3, <3>3 DEF NoWrite
    <3> QED BY <2>0, <3>1, <3>2, <3>3, WriteImplements
  <2>5. ASSUME NEW r \in Replicas, NEW k \in Keys,
               Deliver(r, k) \/ Resync(r, k) \/ TimerFires(r, k) \/ Reconcile(r, k)
        PROVE  UNCHANGED crd
    BY <2>5 DEF Deliver, Resync, TimerFires, Reconcile, ReconcileNothing, ReconcileEarly,
                ReconcileDisconnected, ReconcileTerminal, NoWrite, vars
  <2>6. ASSUME NEW r \in Replicas, CancelReturns(r) \/ PruneSnapshot(r) \/ PruneEntry(r) \/ PruneEnds(r)
        PROVE  UNCHANGED crd
    BY <2>6 DEF CancelReturns, PruneSnapshot, PruneEntry, PruneEnds, vars
  <2>7. ASSUME NEW p \in Procs, ClientCalls(p) \/ CallRuns(p) \/ CallFails(p)
        PROVE  Next
    BY <2>7 DEF ClientCalls, CallRuns, CallFails, Next
  <2>8. ASSUME NEW r \in Replicas, PodRestart(r)
        PROVE  Next
    BY <2>8 DEF PodRestart, Next
  <2>9. UNCHANGED ttlVars => UNCHANGED crd
    BY DEF ttlVars, vars
  <2> HIDE DEF P
  <2> QED BY <2>1, <2>2, <2>3, <2>4, <2>5, <2>6, <2>7, <2>8, <2>9 DEF TTLNext, WorkerStep, Clients
<1> QED BY <1>1, <1>2, ControllerInvariance, PTL DEF TTLSpec, ImplementsLifecycle, Lifecycle!Spec

==============================================================================
