-------------------------- MODULE SessionSightProofs --------------------------
(* The proof that the TTL controller forgets no session.                    *)
EXTENDS SessionTTLProofs

\* First-order and set reasoning is Zenon's; a leaf with arithmetic, sequences or
\* the fields of records cites SMT.
USE ZenonT(30)

-----------------------------------------------------------------------------
(* The inductive invariant.                                                 *)

\* The last state of k that the informer of r knows or will be told.
LastTold(r, k) ==
  IF watch[r][k] = <<>> THEN cache[r][k] ELSE watch[r][k][Len(watch[r][k])]

Pending(r, k) == watch[r][k] # <<>> \/ k \in queue[r]

\* The timer fires before the TTL of what the cache shows has passed.
OnTime(r, k) == timer[r][k] \in 0 .. Limit(cache[r][k]) - Since(cache[r][k])

BroughtUp(r, k) ==
  \/ Pending(r, k) \/ OnTime(r, k)
  \/ worker[r].key = k /\ worker[r].pc \in {"cancel", "delete"}

UpdatePCs == {"get", "status", "reget", "label", "updateDone"}

\* UpdatePhase has written the status, or returned without an error.
Written(c) == c.pc \in {"reget", "label", "updateDone"} \/ (c.pc = "idle" /\ c.ok)

CreatingPCs == {"create", "createStatus", "createDelegate", "createRollback", "createDone"}

\* Objects are called as their sessions.
OwnNames ==
  /\ \A r \in Replicas, k \in Keys : index[r][k] \in {None, k}
  /\ \A p \in Procs : call[p].pc \in CreatingPCs => call[p].id = call[p].name

\* What the worker has cancelled will be brought up again by its own write.
CancelOK(r) ==
  worker[r].pc = "cancel" =>
    /\ ~At(r, "idle") => call[r].pc \in UpdatePCs /\ call[r].name = worker[r].key
    /\ Written(call[r]) => Pending(r, worker[r].key)

\* The informer of r is told the truth in the end, and brings k up.
InSight(r, k) == LastTold(r, k) = crd[k] /\ (Handled(cache[r][k]) => BroughtUp(r, k))

SightInv ==
  /\ OwnNames
  /\ \A r \in Replicas : CancelOK(r)
  /\ \A r \in Replicas, k \in Keys : InSight(r, k)

\* A step of UpdatePhase goes on with it or ends it, and reports success only when
\* the object has changed on the way.
LEMMA UpdateMoves ==
  ASSUME Inv, NEW p \in Procs, call[p].pc \in UpdatePCs, CallStep(p) \/ FaultStep(p)
  PROVE  /\ call'[p].pc \in UpdatePCs \cup {"idle"}
         /\ Written(call'[p]) => Written(call[p]) \/ crd'[call[p].name] # crd[call[p].name]
<1> DEFINE n == call[p].name
           Goal == /\ call'[p].pc \in UpdatePCs \cup {"idle"}
                   /\ Written(call'[p]) => Written(call[p]) \/ crd'[n] # crd[n]
<1>0. call \in [Procs -> Calls] /\ call[p] \in Calls
  BY DEF Inv, TypeOK
<1>1. \A ok \in BOOLEAN : Return(p, ok) => call'[p].pc = "idle" /\ call'[p].ok = ok
  BY <1>0 DEF Return, Idle
<1>2. \A pc : Goto(p, pc) => call'[p].pc = pc
  BY <1>0 DEF Goto, Calls
<1>3. Return(p, FALSE) => Goal
  BY <1>1 DEF Written
<1>4. Refused(p) => Goal
  <2>1. call' = [call EXCEPT ![p].pc = "get", ![p].tries = @ + 1] => call'[p].pc = "get"
    BY <1>0 DEF Calls
  <2> QED BY <1>3, <2>1 DEF Refused, Written, UpdatePCs
<1>5. CASE FaultStep(p)
  <2>1. OnError(p) => Return(p, FALSE)
    BY DEF OnError, At, UpdatePCs
  <2> QED BY <1>3, <1>5, <2>1 DEF FaultStep, RequestFails, ReplyLost
<1>6. CASE UpdateGet(p)
  <2>1. \A x : call' = [call EXCEPT ![p].pc = "status", ![p].from = x] => call'[p].pc = "status"
    BY <1>0, SMT DEF Calls
  <2> QED BY <1>3, <1>6, <2>1 DEF UpdateGet, Written, UpdatePCs
<1>7. CASE UpdateStatus(p)
  <2>1. CASE ~Fresh(p)
    BY <1>4, <1>7, <2>1 DEF UpdateStatus
  <2>2. CASE Fresh(p)
    <3>1. At(p, "status") /\ Write(p, n, SetPhase(crd[n], call[p].from, call[p].to))
      BY <1>7, <2>2 DEF UpdateStatus, WritePhase
    <3>2. /\ n \in Keys /\ crd \in [Keys -> Objects \cup {Absent}] /\ crd[n] \in Objects
          /\ crd[n].phase = call[p].from /\ ValidTransition(call[p].from, call[p].to)
      BY <2>2, <3>1, CallFacts DEF CopyUpToDate, Exists, At
    <3>3. call[p].from # call[p].to
      BY <3>2 DEF ValidTransition, validTransitions
    <3>4. SetPhase(crd[n], call[p].from, call[p].to).phase = call[p].to
      BY <3>2 DEF SetPhase, Objects
    <3>5. crd'[n] = SetPhase(crd[n], call[p].from, call[p].to)
      BY <3>1, <3>2 DEF Write
    <3>6. crd'[n] # crd[n]
      BY <3>2, <3>3, <3>4, <3>5
    <3>7. call'[p].pc = "reget"
      <4>1. \A x : call' = [call EXCEPT ![p].pc = "reget", ![p].made = x] => call'[p].pc = "reget"
        BY <1>0 DEF Calls
      <4> QED BY <1>7, <2>2, <4>1 DEF UpdateStatus
    <3> QED BY <3>6, <3>7 DEF UpdatePCs
  <2> QED BY <2>1, <2>2
<1>8. CASE UpdateReget(p) \/ UpdateLabel(p) \/ UpdateDone(p)
  <2>1. Written(call[p])
    BY <1>8 DEF UpdateReget, UpdateLabel, UpdateDone, Written, At
  <2> QED BY <1>1, <1>2, <1>4, <1>8, <2>1 DEF UpdateReget, UpdateLabel, UpdateDone, UpdatePCs
<1>9. UpdateGet(p) \/ UpdateStatus(p) \/ UpdateReget(p) \/ UpdateLabel(p) \/ UpdateDone(p) \/ FaultStep(p)
  BY DEF CallStep, CreateCRD, CreateStatus, CreateDelegate, CreateRollback, CreateDone,
         DeleteRead, DeleteCRD, DeleteDone, AppendGet, AppendTouch, At, UpdatePCs
<1> QED BY <1>5, <1>6, <1>7, <1>8, <1>9

\* Without generated names, objects stay called as their sessions.
LEMMA NamesStep ==
  ASSUME GeneratedNames = {}, Inv, OwnNames, NEW p \in Procs,
         ClientStep(p) \/ CallStep(p) \/ FaultStep(p)
  PROVE  OwnNames'
<1>0. /\ call \in [Procs -> Calls] /\ call[p] \in Calls
      /\ index \in [Replicas -> [Keys -> Keys \cup {None}]]
  BY DEF Inv, TypeOK
<1>1. \A r \in Replicas, k \in Keys : index'[r][k] \in {None, k}
  <2>1. CASE CreateDone(p)
    <3>1. call[p].id = call[p].name /\ call[p].id \in Keys /\ call[p].rep \in Replicas
      <4>1. At(p, "createDone") /\ call[p].pc \in CreatingPCs
        BY <2>1 DEF CreateDone, At, CreatingPCs
      <4>2. Named(p) /\ ~At(p, "idle") /\ call[p].pc \notin CreatePCs
        BY <4>1 DEF Inv, At, CreatePCs
      <4> QED BY <4>1, <4>2 DEF OwnNames, Named
    <3>2. \A r \in Replicas, k \in Keys :
            index'[r][k] = IF r = call[p].rep /\ k = call[p].id THEN call[p].name ELSE index[r][k]
      BY <1>0, <2>1, <3>1, EntrySet, SMT DEF CreateDone
    <3> QED BY <3>1, <3>2, SMT DEF OwnNames
  <2>2. CASE UpdateDone(p) \/ DeleteDone(p)
    <3>1. call[p].id \in Keys /\ call[p].rep \in Replicas
      <4>1. Named(p) /\ ~At(p, "idle") /\ call[p].pc \notin CreatePCs
        BY <2>2 DEF Inv, At, CreatePCs, UpdateDone, DeleteDone
      <4> QED BY <4>1 DEF Named
    <3>2. index' = index \/ index' = [index EXCEPT ![call[p].rep][call[p].id] = None]
      BY <2>2 DEF UpdateDone, DeleteDone
    <3>3. \A r \in Replicas, k \in Keys : index'[r][k] = index[r][k] \/ index'[r][k] = None
      <4>1. None \in Keys \cup {None}
        OBVIOUS
      <4> DEFINE g == [index EXCEPT ![call[p].rep][call[p].id] = None]
      <4>2. \A r \in Replicas, k \in Keys :
              g[r][k] = IF r = call[p].rep /\ k = call[p].id THEN None ELSE index[r][k]
        BY <1>0, <3>1, <4>1, EntrySet, SMT
      <4>3. index' = index \/ index' = g
        BY <3>2
      <4> HIDE DEF g
      <4> QED BY <4>2, <4>3, SMT
    <3> QED BY <3>3 DEF OwnNames
  <2>3. CASE ~(CreateDone(p) \/ UpdateDone(p) \/ DeleteDone(p))
    <3>1. UNCHANGED index
      <4>1. CASE ClientStep(p)
        BY <4>1 DEF ClientStep, BeginCreate, BeginUpdatePhase, BeginDelete, BeginAppend, ClientCall, local
      <4>2. CASE CallStep(p)
        BY <2>3, <4>2 DEF CallStep, CreateCRD, CreateStatus, CreateDelegate, CreateRollback, UpdateGet,
             UpdateStatus, UpdateReget, UpdateLabel, DeleteRead, DeleteCRD, AppendGet, AppendTouch, local
      <4>3. CASE FaultStep(p)
        BY <4>3 DEF FaultStep, RequestFails, ReplyLost, local
      <4> QED BY <4>1, <4>2, <4>3
    <3> QED BY <3>1 DEF OwnNames
  <2> QED BY <2>1, <2>2, <2>3
<1>2. call'[p].pc \in CreatingPCs => call'[p].id = call'[p].name
  <2>0. \A pc : Goto(p, pc) => call'[p].pc = pc /\ call'[p].id = call[p].id /\ call'[p].name = call[p].name
    BY <1>0 DEF Goto, Calls
  <2>1. \A ok : Return(p, ok) => call'[p].pc = "idle"
    BY <1>0 DEF Return, Idle
  <2>2. \A r, pc, id, name, to : Begin(p, r, pc, id, name, to) =>
          call'[p].pc = pc /\ call'[p].id = id /\ call'[p].name = name
    BY <1>0, SMT DEF Begin, Idle
  <2>3. CASE ClientStep(p)
    BY <2>2, <2>3 DEF ClientStep, BeginCreate, BeginUpdatePhase, StartUpdate, BeginDelete, BeginAppend,
                      CreatingPCs
  <2>4. CASE call[p].pc \in CreatingPCs /\ (CallStep(p) \/ FaultStep(p))
    <3>1. call[p].id = call[p].name
      BY <2>4 DEF OwnNames
    <3>2. CASE FaultStep(p)
      <4>1. OnError(p)
        BY <3>2 DEF FaultStep, RequestFails, ReplyLost
      <4>2. RollBack(p) \/ Return(p, FALSE)
        BY <2>4, <4>1 DEF OnError, At, CreatingPCs
      <4> QED BY <2>0, <2>1, <3>1, <4>2 DEF RollBack, CreatingPCs
    <3>3. CASE CreateDelegate(p)
      <4>1. CASE RollBack(p)
        BY <2>0, <3>1, <4>1 DEF RollBack
      <4>2. CASE ~RollBack(p)
        <5>1. PICK id \in Keys : /\ IF call[p].id = None THEN Unused(id) ELSE id = call[p].id
                                 /\ call' = [call EXCEPT ![p].pc = "createDone", ![p].id = id]
          BY <3>3, <4>2 DEF CreateDelegate
        <5>2. call[p].id # None
          <6>1. Named(p) /\ ~At(p, "idle")
            BY <3>3 DEF Inv, CreateDelegate, At
          <6> QED BY <3>1, <6>1, ServiceAssumption DEF Named
        <5>3. call'[p].id = id /\ call'[p].name = call[p].name
          BY <1>0, <5>1 DEF Calls
        <5> QED BY <3>1, <5>1, <5>2, <5>3
      <4> QED BY <4>1, <4>2
    <3>4. CASE CreateCRD(p) \/ CreateStatus(p) \/ CreateRollback(p) \/ CreateDone(p)
      BY <2>0, <2>1, <3>1, <3>4 DEF CreateCRD, CreateStatus, RollBack, CreateRollback, CreateDone, CreatingPCs
    <3>5. FaultStep(p) \/ CreateDelegate(p) \/ CreateCRD(p) \/ CreateStatus(p) \/ CreateRollback(p) \/ CreateDone(p)
      BY <2>4 DEF CallStep, UpdateGet, UpdateStatus, UpdateReget, UpdateLabel, UpdateDone,
                  DeleteRead, DeleteCRD, DeleteDone, AppendGet, AppendTouch, At, CreatingPCs
    <3> QED BY <3>2, <3>3, <3>4, <3>5
  <2>5. CASE call[p].pc \notin CreatingPCs /\ (CallStep(p) \/ FaultStep(p))
    <3>1. CASE call[p].pc \in UpdatePCs
      BY <2>5, <3>1, UpdateMoves DEF UpdatePCs, CreatingPCs
    <3>2. CASE call[p].pc \notin UpdatePCs
      <4>1. \A x : call' = [call EXCEPT ![p].pc = "delete", ![p].from = x] => call'[p].pc = "delete"
        BY <1>0 DEF Calls
      <4>2. CASE FaultStep(p)
        <5>1. OnError(p) /\ call[p].pc \notin {"createStatus", "createDelegate"}
          BY <2>5, <4>2 DEF FaultStep, RequestFails, ReplyLost, CreatingPCs
        <5>2. \/ call' = [call EXCEPT ![p].pc = "delete", ![p].from = "Active"]
              \/ Goto(p, "deleteDone") \/ Return(p, TRUE) \/ Return(p, FALSE)
          BY <5>1 DEF OnError, At
        <5>3. call'[p].pc \in {"delete", "deleteDone", "idle"}
          BY <2>0, <2>1, <4>1, <5>2
        <5> QED BY <5>3 DEF CreatingPCs
      <4>3. CASE DeleteRead(p) \/ DeleteCRD(p) \/ DeleteDone(p) \/ AppendGet(p) \/ AppendTouch(p)
        <5>1. \/ \E x : call' = [call EXCEPT ![p].pc = "delete", ![p].from = x]
              \/ Goto(p, "deleteDone") \/ Goto(p, "appendTouch") \/ Return(p, TRUE)
          BY <4>3 DEF DeleteRead, DeleteCRD, DeleteDone, AppendGet, AppendTouch
        <5>2. call'[p].pc \in {"delete", "deleteDone", "appendTouch", "idle"}
          BY <2>0, <2>1, <4>1, <5>1
        <5> QED BY <5>2 DEF CreatingPCs
      <4>4. FaultStep(p) \/ DeleteRead(p) \/ DeleteCRD(p) \/ DeleteDone(p) \/ AppendGet(p) \/ AppendTouch(p)
        BY <2>5, <3>2 DEF CallStep, CreateCRD, CreateStatus, CreateDelegate, CreateRollback, CreateDone,
             UpdateGet, UpdateStatus, UpdateReget, UpdateLabel, UpdateDone, At, CreatingPCs, UpdatePCs
      <4> QED BY <4>2, <4>3, <4>4
    <3> QED BY <3>1, <3>2
  <2> QED BY <2>3, <2>4, <2>5
<1>3. \A q \in Procs \ {p} : call'[q] = call[q]
  BY OtherCalls
<1> QED BY <1>1, <1>2, <1>3 DEF OwnNames

\* The last element of a sequence that has grown, or lost its head.
LEMMA LastOf ==
  ASSUME NEW S, NEW s \in Seq(S), NEW x \in S
  PROVE  /\ Append(s, x) # <<>> /\ Append(s, x)[Len(Append(s, x))] = x
         /\ s # <<>> => IF Tail(s) = <<>> THEN Head(s) = s[Len(s)]
                                          ELSE Tail(s)[Len(Tail(s))] = s[Len(s)]
<1>1. Append(s, x) \in Seq(S) /\ Len(Append(s, x)) = Len(s) + 1 /\ Len(s) \in Nat
  BY SMT
<1>2. Append(s, x)[Len(s) + 1] = x
  BY SMT
<1>3. ASSUME s # <<>>, Tail(s) = <<>> PROVE Head(s) = s[Len(s)]
  <2>0. Len(Tail(s)) = Len(s) - 1
    BY <1>3, SMT
  <2>1. Len(Tail(s)) = Len(s) - 1 /\ Len(Tail(s)) = 0
    BY <1>3, <2>0
  <2>2. Len(s) = 1
    BY <1>1, <2>1, SMT
  <2> QED BY <1>3, <2>2, SMT
<1>4. ASSUME s # <<>>, Tail(s) # <<>> PROVE Tail(s)[Len(Tail(s))] = s[Len(s)]
  <2>1. Tail(s) \in Seq(S) /\ Len(Tail(s)) = Len(s) - 1
    BY <1>4, SMT
  <2>2. Len(Tail(s)) \in 1 .. Len(s) - 1
    BY <1>1, <1>4, <2>1, SMT
  <2>3. \A i \in 1 .. Len(s) - 1 : Tail(s)[i] = s[i + 1]
    BY <1>4, SMT
  <2> QED BY <1>1, <2>1, <2>2, <2>3, SMT
<1> QED BY <1>1, <1>2, <1>3, <1>4, SMT

\* An informer that is told of every change is told the truth in the end.
LEMMA PublishSight ==
  ASSUME TTLTyped, crd' \in [Keys -> Objects \cup {Absent}], Publish, UNCHANGED cache,
         NEW r \in Replicas, NEW k \in Keys, InSight(r, k)
  PROVE  /\ LastTold(r, k)' = crd'[k]
         /\ watch[r][k] # <<>> \/ crd'[k] # crd[k] => watch'[r][k] # <<>>
<1> DEFINE Obj == Objects \cup {Absent}
<1>1. watch'[r][k] = IF crd'[k] = crd[k] THEN watch[r][k] ELSE Append(watch[r][k], crd'[k])
  BY Published
<1>2. watch[r][k] \in Seq(Obj) /\ crd'[k] \in Obj
  BY DEF TTLTyped
<1>3. /\ Append(watch[r][k], crd'[k]) # <<>>
      /\ Append(watch[r][k], crd'[k])[Len(Append(watch[r][k], crd'[k]))] = crd'[k]
  <2> HIDE DEF Obj
  <2> QED BY <1>2, LastOf, SMT
<1>4. CASE crd'[k] = crd[k]
  BY <1>1, <1>4 DEF LastTold, InSight
<1>5. CASE crd'[k] # crd[k]
  BY <1>1, <1>3, <1>5 DEF LastTold
<1> QED BY <1>4, <1>5

\* A service step keeps every session in sight.
LEMMA ServiceSight ==
  ASSUME GeneratedNames = {}, ControllerInv, SightInv, NEW p \in Procs,
         \/ p \in Clients /\ ClientCalls(p)
         \/ CallRuns(p) \/ CallFails(p)
  PROVE  SightInv'
<1>0. Inv /\ TTLTyped /\ WorkerCalls /\ OwnNames
  BY DEF ControllerInv, SightInv
<1>1. /\ ClientStep(p) \/ CallStep(p) \/ FaultStep(p)
      /\ Publish /\ UNCHANGED <<cache, queue, timer, worker>>
  BY DEF ClientCalls, CallRuns, CallFails, NotController
<1>2. crd' \in [Keys -> Objects \cup {Absent}]
  BY ServiceKeeps DEF ControllerInv, Inv, TypeOK
<1>3. OwnNames'
  BY <1>0, <1>1, NamesStep
<1>4. ASSUME NEW r \in Replicas, NEW k \in Keys
      PROVE  /\ LastTold(r, k)' = crd'[k]
             /\ watch[r][k] # <<>> \/ crd'[k] # crd[k] => watch'[r][k] # <<>>
  BY <1>0, <1>1, <1>2, PublishSight DEF SightInv
<1>5. ASSUME NEW r \in Replicas, NEW k \in Keys PROVE InSight(r, k)'
  BY <1>1, <1>4, SMT DEF SightInv, InSight, BroughtUp, OnTime, Pending
<1>6. ASSUME NEW r \in Replicas, worker'[r].pc = "cancel"
      PROVE  /\ call'[r].pc # "idle" => call'[r].pc \in UpdatePCs /\ call'[r].name = worker'[r].key
             /\ Written(call'[r]) => (watch'[r][worker'[r].key] # <<>> \/ worker'[r].key \in queue'[r])
  <2> DEFINE k == worker[r].key
  <2>1. k \in Keys /\ worker[r].pc = "cancel" /\ worker'[r].key = k /\ r \in Procs
    BY <1>0, <1>1, <1>6, TTLAssumption DEF WorkerCalls
  <2>2. /\ call[r].pc # "idle" => call[r].pc \in UpdatePCs /\ call[r].name = k
        /\ Written(call[r]) => (watch[r][k] # <<>> \/ k \in queue[r])
    BY <2>1 DEF SightInv, CancelOK, At, Pending
  <2>3. CASE r # p
    <3>1. call'[r] = call[r]
      BY <1>0, <1>1, <2>1, <2>3, OtherCalls
    <3> QED BY <1>1, <1>4, <2>1, <2>2, <3>1
  <2>4. CASE r = p
    <3>1. CallStep(r) \/ FaultStep(r)
      BY <2>4 DEF Clients, CallRuns, CallFails
    <3>2. call[r].pc # "idle"
      BY <2>1, <3>1, IdleRests DEF At
    <3>3. /\ call'[r].pc \in UpdatePCs \cup {"idle"}
          /\ Written(call'[r]) => Written(call[r]) \/ crd'[k] # crd[k]
      BY <1>0, <2>1, <2>2, <3>1, <3>2, UpdateMoves
    <3>4. call'[r].pc # "idle" => call'[r].name = call[r].name
      BY <1>0, <2>1, <3>1, OwnCall
    <3> QED BY <1>1, <1>4, <2>1, <2>2, <3>2, <3>3, <3>4
  <2> QED BY <2>3, <2>4
<1>7. \A r \in Replicas : CancelOK(r)'
  BY <1>6 DEF CancelOK, At, Pending
<1> QED BY <1>3, <1>5, <1>7 DEF SightInv

\* A timer runs at the pace of the timestamps.
LEMMA AgedTimer ==
  ASSUME NEW obj \in Objects, obj # Absent, Since(obj) # NoTime,
         NEW t \in 0 .. Limit(obj) - Since(obj)
  PROVE  (IF t > 0 THEN t - 1 ELSE t) \in 0 .. Limit(Aged(obj)) - Since(Aged(obj))
<1> DEFINE d == Older(obj.disc, DisconnectTTL)
           c == Older(obj.comp, retentionTTL)
<1>1. /\ obj.disc \in Times /\ obj.comp \in Times
      /\ d \in Times /\ c \in Times
  BY Limits, OlderFacts DEF Objects
<1>2. Aged(obj) = [obj EXCEPT !.disc = d, !.comp = c]
  BY DEF Aged
<1>3. Aged(obj).phase = obj.phase /\ Aged(obj).disc = d /\ Aged(obj).comp = c
  <2> HIDE DEF d, c
  <2> QED BY <1>1, <1>2 DEF Objects
<1>4. Limit(Aged(obj)) = Limit(obj) /\ Limit(obj) \in Nat
  BY <1>3, Limits DEF Limit
<1>5. Since(Aged(obj)) = Older(Since(obj), Limit(obj)) /\ Since(obj) \in Times
  BY <1>1, <1>3 DEF Since, Limit
<1> HIDE DEF d, c
<1>6. Since(obj) \in Nat
  BY <1>5 DEF Times, NoTime
<1> QED BY <1>4, <1>5, <1>6, SMT DEF Older, NoTime

\* Time changes nothing about what is in sight.
LEMMA TickSight ==
  ASSUME ControllerInv, SightInv, Tick
  PROVE  SightInv'
<1>1. UNCHANGED <<index, call, queue, worker>> /\ \A k \in Keys : crd'[k] = Aged(crd[k])
  BY DEF Tick, local
<1>2. ASSUME NEW r \in Replicas, NEW k \in Keys
      PROVE  /\ cache'[r][k] = Aged(cache[r][k]) /\ cache[r][k] \in Objects \cup {Absent}
             /\ Len(watch'[r][k]) = Len(watch[r][k]) /\ (watch'[r][k] = <<>> <=> watch[r][k] = <<>>)
             /\ \A i \in 1 .. Len(watch[r][k]) : watch'[r][k][i] = Aged(watch[r][k][i])
  BY TickKeeps, SMT DEF ControllerInv, TTLTyped
<1>3. ASSUME NEW r \in Replicas, NEW k \in Keys PROVE InSight(r, k)'
  <2>1. LastTold(r, k)' = Aged(LastTold(r, k))
    <3>1. CASE watch[r][k] = <<>>
      BY <1>2, <3>1 DEF LastTold
    <3>2. CASE watch[r][k] # <<>>
      <4>1. watch[r][k] \in Seq(Objects \cup {Absent})
        BY DEF ControllerInv, TTLTyped
      <4>2. Len(watch[r][k]) \in 1 .. Len(watch[r][k])
        BY <3>2, <4>1, SMT
      <4> QED BY <1>2, <3>2, <4>2, SMT DEF LastTold
    <3> QED BY <3>1, <3>2
  <2>2. LastTold(r, k)' = crd'[k]
    BY <1>1, <2>1 DEF SightInv, InSight
  <2>3. Handled(cache'[r][k]) => Handled(cache[r][k])
    BY <1>2, AgedFacts, SMT
  <2>4. Handled(cache[r][k]) /\ OnTime(r, k) => OnTime(r, k)'
    <3>1. SUFFICES ASSUME Handled(cache[r][k]), OnTime(r, k) PROVE OnTime(r, k)'
      OBVIOUS
    <3>2. /\ cache[r][k] \in Objects /\ cache[r][k] # Absent /\ Since(cache[r][k]) # NoTime
          /\ timer[r][k] \in 0 .. Limit(cache[r][k]) - Since(cache[r][k])
      BY <1>2, <3>1 DEF Handled, OnTime
    <3>3. timer'[r][k] = IF timer[r][k] > 0 THEN timer[r][k] - 1 ELSE timer[r][k]
      BY DEF Tick
    <3>4. timer'[r][k] \in 0 .. Limit(Aged(cache[r][k])) - Since(Aged(cache[r][k]))
      BY <3>2, <3>3, AgedTimer
    <3> QED BY <1>2, <3>4 DEF OnTime
  <2> QED BY <1>1, <1>2, <2>2, <2>3, <2>4 DEF SightInv, InSight, BroughtUp, Pending
<1>4. OwnNames'
  BY <1>1 DEF SightInv, OwnNames
<1>5. ASSUME NEW r \in Replicas PROVE CancelOK(r)'
  <2>1. worker[r].pc = "cancel" => worker[r].key \in Keys
    BY DEF ControllerInv, WorkerCalls
  <2> QED BY <1>1, <1>2, <2>1 DEF SightInv, CancelOK, At, Pending
<1> QED BY <1>3, <1>4, <1>5 DEF SightInv

\* The informer and the timer keep every session in sight.
LEMMA InformerSight ==
  ASSUME ControllerInv, SightInv, NEW r \in Replicas, NEW k \in Keys,
         Deliver(r, k) \/ Resync(r, k) \/ TimerFires(r, k)
  PROVE  SightInv'
<1> DEFINE Obj == Objects \cup {Absent}
<1>0. /\ cache \in [Replicas -> [Keys -> Obj]] /\ watch \in [Replicas -> [Keys -> Seq(Obj)]]
      /\ timer \in [Replicas -> [Keys -> Times]] /\ NoTime \in Times
      /\ queue \in [Replicas -> SUBSET Keys]
  BY DEF ControllerInv, TTLTyped, Times
<1>1. UNCHANGED <<crd, index, call, worker>> /\ queue' = [queue EXCEPT ![r] = @ \cup {k}]
  BY DEF Deliver, Resync, TimerFires, vars, Enqueue, local
<1>2. \A q \in Replicas, n \in Keys :
        /\ n \in queue[q] => n \in queue'[q]
        /\ q = r /\ n = k => n \in queue'[q]
  BY <1>0, <1>1
<1>3. ASSUME NEW q \in Replicas, NEW n \in Keys
      PROVE  /\ LastTold(q, n)' = crd'[n]
             /\ q # r \/ n # k => /\ cache'[q][n] = cache[q][n] /\ watch'[q][n] = watch[q][n]
                                  /\ timer'[q][n] = timer[q][n]
  <2>1. LastTold(q, n) = crd[n]
    BY DEF SightInv, InSight
  <2>2. CASE Deliver(r, k)
    <3>0. watch[r][k] # <<>> /\ watch[r][k] \in Seq(Obj)
      BY <1>0, <2>2 DEF Deliver
    <3>1. Head(watch[r][k]) \in Obj /\ Tail(watch[r][k]) \in Seq(Obj)
      <4> HIDE DEF Obj
      <4> QED BY <3>0, SMT
    <3>2. /\ cache'[q][n] = IF q = r /\ n = k THEN Head(watch[r][k]) ELSE cache[q][n]
          /\ watch'[q][n] = IF q = r /\ n = k THEN Tail(watch[r][k]) ELSE watch[q][n]
          /\ timer'[q][n] = timer[q][n]
      <4> HIDE DEF Obj
      <4> QED BY <1>0, <2>2, <3>1, EntrySet, SMT DEF Deliver
    <3>3. IF Tail(watch[r][k]) = <<>>
            THEN Head(watch[r][k]) = watch[r][k][Len(watch[r][k])]
            ELSE Tail(watch[r][k])[Len(Tail(watch[r][k]))] = watch[r][k][Len(watch[r][k])]
      <4> HIDE DEF Obj
      <4> QED BY <3>0, <3>1, LastOf
    <3> QED BY <1>1, <2>1, <3>0, <3>2, <3>3 DEF LastTold
  <2>3. CASE Resync(r, k)
    BY <1>1, <2>1, <2>3 DEF Resync, LastTold, informer
  <2>4. CASE TimerFires(r, k)
    <3>1. timer'[q][n] = IF q = r /\ n = k THEN NoTime ELSE timer[q][n]
      BY <1>0, <2>4, EntrySet, SMT DEF TimerFires
    <3> QED BY <1>1, <2>1, <2>4, <3>1 DEF TimerFires, LastTold, informer
  <2> QED BY <2>2, <2>3, <2>4
<1>4. ASSUME NEW q \in Replicas, NEW n \in Keys PROVE InSight(q, n)'
  <2>1. InSight(q, n) /\ LastTold(q, n)' = crd'[n]
    BY <1>3 DEF SightInv
  <2>2. CASE q = r /\ n = k
    BY <1>2, <2>1, <2>2 DEF InSight, BroughtUp, OnTime, Pending
  <2>3. CASE q # r \/ n # k
    <3>1. /\ cache'[q][n] = cache[q][n] /\ watch'[q][n] = watch[q][n] /\ timer'[q][n] = timer[q][n]
          /\ n \in queue[q] => n \in queue'[q]
      BY <1>2, <1>3, <2>3
    <3> QED BY <1>1, <2>1, <3>1 DEF InSight, BroughtUp, OnTime, Pending
  <2> QED BY <2>2, <2>3
<1>5. OwnNames'
  BY <1>1 DEF SightInv, OwnNames
<1>6. ASSUME NEW q \in Replicas PROVE CancelOK(q)'
  <2>1. worker[q].pc = "cancel" => worker[q].key \in Keys
    BY DEF ControllerInv, WorkerCalls
  <2> QED BY <1>1, <1>2, <1>3, <2>1, SMT DEF SightInv, CancelOK, At, Pending
<1> QED BY <1>4, <1>5, <1>6 DEF SightInv

\* A reconcile keeps every session in sight: it waits for the TTL, starts to act
\* on the session, or finds nothing to do.
LEMMA ReconcileSight ==
  ASSUME ControllerInv, SightInv, NEW r \in Replicas, NEW k \in Keys, Reconcile(r, k)
  PROVE  SightInv'
<1>0. /\ queue \in [Replicas -> SUBSET Keys] /\ timer \in [Replicas -> [Keys -> Times]]
      /\ worker \in [Replicas -> WorkerRecs] /\ call \in [Procs -> Calls] /\ r \in Procs
      /\ cache[r][k] \in Objects \cup {Absent}
  BY TTLAssumption, SMT DEF ControllerInv, TTLTyped, Inv, TypeOK
<1>1. /\ worker[r].pc = "wait" /\ queue' = [queue EXCEPT ![r] = @ \ {k}]
      /\ UNCHANGED <<crd, index, cache, watch>> /\ At(r, "idle")
  BY DEF Reconcile, ReconcileNothing, ReconcileEarly, ReconcileDisconnected, ReconcileTerminal,
         Take, informer, ControllerInv, WorkerCalls, vars, local, NoWrite
<1>2. \A q \in Replicas, n \in Keys : q # r \/ n # k => (n \in queue'[q] <=> n \in queue[q])
  BY <1>0, <1>1
<1>3. \A pc : Work(r, pc, k) => /\ worker'[r].pc = pc /\ worker'[r].key = k
                                /\ \A q \in Replicas : q # r => worker'[q] = worker[q]
  BY <1>0, SMT DEF Work
<1>4. /\ \A q \in Replicas : q # r => worker'[q] = worker[q] /\ call'[q] = call[q]
      /\ \A q \in Replicas, n \in Keys : q # r \/ n # k => timer'[q][n] = timer[q][n]
      /\ Handled(cache[r][k]) => OnTime(r, k)' \/ (worker'[r].key = k /\ worker'[r].pc \in {"cancel", "delete"})
      /\ OwnNames' /\ CancelOK(r)'
  <2>1. CASE ReconcileNothing(r, k)
    <3>1. UNCHANGED <<crd, index, call, timer, worker>> /\ ~Handled(cache[r][k])
      BY <2>1 DEF ReconcileNothing, vars, local
    <3> QED BY <1>1, <3>1 DEF SightInv, OwnNames, CancelOK
  <2>2. CASE ReconcileEarly(r, k)
    <3> DEFINE rem == Limit(cache[r][k]) - Since(cache[r][k])
               t == IF timer[r][k] = NoTime \/ rem < timer[r][k] THEN rem ELSE timer[r][k]
    <3>1. UNCHANGED <<crd, index, call, worker>> /\ Handled(cache[r][k]) /\ ~Expired(cache[r][k])
      BY <2>2 DEF ReconcileEarly, vars, local
    <3>2. Since(cache[r][k]) \in Times /\ Since(cache[r][k]) # NoTime /\ Limit(cache[r][k]) \in Nat
      BY <1>0, <3>1, Limits DEF Handled, Since, Limit, Objects
    <3>3. rem \in Nat \ {0}
      BY <3>1, <3>2, SMT DEF Expired, Times, NoTime
    <3>4. timer' = [timer EXCEPT ![r][k] = t]
      BY <2>2 DEF ReconcileEarly, RequeueAfter
    <3>5. t \in Times /\ t \in 0 .. rem
      <4>1. timer[r][k] \in Times
        BY <1>0
      <4> HIDE DEF rem
      <4> QED BY <3>3, <4>1, SMT DEF Times, NoTime
    <3> HIDE DEF t
    <3>6. \A q \in Replicas, n \in Keys : timer'[q][n] = IF q = r /\ n = k THEN t ELSE timer[q][n]
      BY <1>0, <3>4, <3>5, EntrySet, SMT
    <3>7. OnTime(r, k)'
      BY <1>1, <3>5, <3>6 DEF OnTime
    <3> HIDE DEF rem
    <3> QED BY <1>1, <3>1, <3>6, <3>7 DEF SightInv, OwnNames, CancelOK
  <2>3. CASE ReconcileDisconnected(r, k)
    <3>1. /\ UNCHANGED <<index, timer>> /\ Work(r, "cancel", k)
          /\ call' = [call EXCEPT ![r] = [Idle EXCEPT !.pc = "get", !.rep = r, !.id = k,
                                                      !.name = CRDName(r, k), !.to = "Cancelled"]]
      BY <2>3 DEF ReconcileDisconnected, StartUpdate, Begin, local
    <3>2. CRDName(r, k) = k
      BY DEF SightInv, OwnNames, CRDName
    <3>3. /\ call'[r].pc = "get" /\ call'[r].name = k
          /\ \A p \in Procs : p # r => call'[p] = call[p]
      BY <1>0, <3>1, <3>2 DEF Idle
    <3>4. OwnNames'
      BY <3>1, <3>3 DEF SightInv, OwnNames, CreatingPCs
    <3>5. CancelOK(r)'
      BY <1>3, <3>1, <3>3 DEF CancelOK, At, Written, UpdatePCs
    <3> QED BY <1>3, <3>1, <3>3, <3>4, <3>5, TTLAssumption
  <2>4. CASE ReconcileTerminal(r, k)
    <3>1. UNCHANGED <<crd, index, call, timer>> /\ Work(r, "delete", k)
      BY <2>4 DEF ReconcileTerminal, vars, local
    <3>2. OwnNames'
      BY <3>1 DEF SightInv, OwnNames
    <3>3. CancelOK(r)'
      BY <1>3, <3>1, SMT DEF CancelOK
    <3> QED BY <1>3, <3>1, <3>2, <3>3
  <2> QED BY <2>1, <2>2, <2>3, <2>4 DEF Reconcile
<1>5. ASSUME NEW q \in Replicas, NEW n \in Keys PROVE InSight(q, n)'
  <2>1. LastTold(q, n)' = crd'[n] /\ (Handled(cache[q][n]) => BroughtUp(q, n))
    BY <1>1 DEF SightInv, InSight, LastTold
  <2>2. CASE q = r /\ n = k
    BY <1>1, <1>4, <2>1, <2>2 DEF InSight, BroughtUp
  <2>3. CASE q = r /\ n # k
    BY <1>1, <1>2, <1>4, <2>1, <2>3, SMT DEF InSight, BroughtUp, OnTime, Pending
  <2>4. CASE q # r
    BY <1>1, <1>2, <1>4, <2>1, <2>4 DEF InSight, BroughtUp, OnTime, Pending
  <2> QED BY <2>2, <2>3, <2>4
<1>6. ASSUME NEW q \in Replicas, q # r PROVE CancelOK(q)'
  <2>1. worker[q].pc = "cancel" => worker[q].key \in Keys
    BY DEF ControllerInv, WorkerCalls
  <2> QED BY <1>1, <1>2, <1>4, <1>6, <2>1 DEF SightInv, CancelOK, At, Pending
<1> QED BY <1>4, <1>5, <1>6 DEF SightInv

\* The worker keeps every session in sight.
LEMMA WorkerSight ==
  ASSUME ControllerInv, SightInv, NEW r \in Replicas, WorkerStep(r) \/ RetentionDeleteFails(r)
  PROVE  SightInv'
<1>k. PICK k : k = worker[r].key
  OBVIOUS
<1> USE <1>k
<1>0. /\ queue \in [Replicas -> SUBSET Keys] /\ worker \in [Replicas -> WorkerRecs]
      /\ index \in [Replicas -> [Keys -> Keys \cup {None}]]
      /\ worker[r].pc \in {"cancel", "delete"} => k \in Keys
      /\ crd \in [Keys -> Objects \cup {Absent}] /\ TTLTyped
  BY DEF ControllerInv, TTLTyped, Inv, TypeOK, WorkerCalls
<1>1. Waiting.pc = "wait"
  BY DEF Waiting
<1>2. ASSUME NEW w, worker' = [worker EXCEPT ![r] = w]
      PROVE  worker'[r] = w /\ \A q \in Replicas : q # r => worker'[q] = worker[q]
  BY <1>0, <1>2
<1>3. Enqueue(r, k) /\ k \in Keys =>
        /\ k \in queue'[r]
        /\ \A q \in Replicas, n \in Keys : n \in queue[q] => n \in queue'[q]
  BY <1>0, SMT DEF Enqueue
\* A step that leaves the objects, and hence the informers, alone.
<1>a. ASSUME UNCHANGED <<crd, call, cache, watch, timer>>, OwnNames',
             \A q \in Replicas : q # r => worker'[q] = worker[q],
             \A q \in Replicas, n \in Keys : n \in queue[q] => n \in queue'[q],
             worker'[r].pc = "cancel" => worker'[r] = worker[r],
             worker[r].pc \in {"cancel", "delete"} => BroughtUp(r, k)'
      PROVE  SightInv'
  <2>1. ASSUME NEW q \in Replicas, NEW n \in Keys PROVE InSight(q, n)'
    <3>1. LastTold(q, n)' = crd'[n] /\ (Handled(cache[q][n]) => BroughtUp(q, n))
      BY <1>a DEF SightInv, InSight, LastTold
    <3>2. CASE q = r /\ n = k /\ worker[r].pc \in {"cancel", "delete"}
      BY <1>a, <3>1, <3>2 DEF InSight
    <3>3. CASE q # r \/ n # k \/ worker[r].pc \notin {"cancel", "delete"}
      BY <1>a, <3>1, <3>3 DEF InSight, BroughtUp, OnTime, Pending
    <3> QED BY <3>2, <3>3
  <2>2. ASSUME NEW q \in Replicas PROVE CancelOK(q)'
    <3>1. worker[q].pc = "cancel" => worker[q].key \in Keys
      BY DEF ControllerInv, WorkerCalls
    <3> QED BY <1>a, <3>1 DEF SightInv, CancelOK, At, Pending
  <2> QED BY <1>a, <2>1, <2>2 DEF SightInv
\* A step that writes at most the object it is to delete.
<1>b. ASSUME UNCHANGED <<index, call, cache, timer>>, crd' \in [Keys -> Objects \cup {Absent}], Publish,
             \A q \in Replicas : q # r => worker'[q] = worker[q],
             \A q \in Replicas, n \in Keys : n \in queue[q] => n \in queue'[q],
             worker'[r].pc # "cancel", worker[r].pc = "delete",
             k \in queue'[r] \/ crd'[k] = Absent
      PROVE  SightInv'
  <2>0. k \in Keys
    BY <1>0, <1>b
  <2>1. ASSUME NEW q \in Replicas, NEW n \in Keys
        PROVE  /\ LastTold(q, n)' = crd'[n]
               /\ watch[q][n] # <<>> \/ crd'[n] # crd[n] => watch'[q][n] # <<>>
    BY <1>0, <1>b, PublishSight DEF SightInv
  <2>2. ASSUME NEW q \in Replicas, NEW n \in Keys PROVE InSight(q, n)'
    <3>1. Handled(cache[q][n]) => BroughtUp(q, n)
      BY DEF SightInv, InSight
    <3>2. CASE q # r \/ n # k
      BY <1>b, <2>1, <3>1, <3>2 DEF InSight, BroughtUp, OnTime, Pending
    <3>3. CASE q = r /\ n = k
      <4>1. CASE k \in queue'[r]
        BY <2>1, <3>3, <4>1 DEF InSight, BroughtUp, OnTime, Pending
      <4>2. CASE k \notin queue'[r] /\ watch'[r][k] # <<>>
        BY <2>1, <3>3, <4>2 DEF InSight, BroughtUp, OnTime, Pending
      <4>3. CASE k \notin queue'[r] /\ watch'[r][k] = <<>>
        <5>1. watch[r][k] = <<>> /\ crd[k] = Absent
          BY <1>b, <2>0, <2>1, <4>3
        <5>2. cache[r][k] = Absent
          BY <2>0, <5>1 DEF SightInv, InSight, LastTold
        <5> QED BY <1>b, <2>1, <3>3, <5>2 DEF InSight, Handled
      <4> QED BY <4>1, <4>2, <4>3
    <3> QED BY <3>2, <3>3
  <2>3. ASSUME NEW q \in Replicas PROVE CancelOK(q)'
    <3>1. worker[q].pc = "cancel" => worker[q].key \in Keys
      BY DEF ControllerInv, WorkerCalls
    <3>2. CASE q = r
      BY <1>b, <3>2 DEF CancelOK
    <3>3. CASE q # r
      <4>1. CancelOK(q) /\ worker'[q] = worker[q] /\ UNCHANGED call
        BY <1>b, <3>3 DEF SightInv
      <4>2. worker[q].pc = "cancel" /\ Pending(q, worker[q].key) =>
              watch'[q][worker[q].key] # <<>> \/ worker[q].key \in queue'[q]
        BY <1>b, <2>1, <3>1 DEF Pending
      <4> QED BY <4>1, <4>2 DEF CancelOK, At, Pending
    <3> QED BY <3>2, <3>3
  <2>4. OwnNames'
    BY <1>b DEF SightInv, OwnNames
  <2> QED BY <2>2, <2>3, <2>4 DEF SightInv
<1>c. UNCHANGED <<index, call>> => OwnNames'
  BY DEF SightInv, OwnNames
<1>4. CASE CancelReturns(r)
  <2>1. /\ UNCHANGED <<crd, index, call, cache, watch, timer>> /\ worker' = [worker EXCEPT ![r] = Waiting]
        /\ worker[r].pc = "cancel" /\ call[r].pc = "idle" /\ k \in Keys
        /\ IF call[r].ok THEN UNCHANGED queue ELSE Enqueue(r, k)
    BY <1>0, <1>4 DEF CancelReturns, vars, local, informer, At
  <2>2. BroughtUp(r, k)'
    <3>1. Pending(r, k) \/ ~call[r].ok
      BY <2>1 DEF SightInv, CancelOK, Written
    <3>2. CASE call[r].ok
      BY <2>1, <3>1, <3>2 DEF BroughtUp, OnTime, Pending
    <3>3. CASE ~call[r].ok
      <4>1. k \in queue'[r]
        BY <1>3, <2>1, <3>3
      <4> QED BY <4>1 DEF BroughtUp, OnTime, Pending
    <3> QED BY <3>2, <3>3
  <2>3. \A q \in Replicas, n \in Keys : n \in queue[q] => n \in queue'[q]
    BY <1>3, <2>1
  <2> QED BY <1>1, <1>2, <1>a, <1>c, <2>1, <2>2, <2>3
<1>5. CASE RetentionDelete(r)
  <2>1. /\ UNCHANGED <<index, call, cache, queue, timer>> /\ Publish /\ worker[r].pc = "delete"
        /\ crd' = [crd EXCEPT ![k] = Absent]
        /\ (\E w : w.pc \in {"wait", "snapshot"} /\ worker' = [worker EXCEPT ![r] = w])
    BY <1>1, <1>5, SMT DEF RetentionDelete, Write, Work, local
  <2>2. crd' \in [Keys -> Objects \cup {Absent}] /\ crd'[k] = Absent
    BY <1>0, <2>1
  <2>3. worker'[r].pc # "cancel" /\ \A q \in Replicas : q # r => worker'[q] = worker[q]
    BY <1>2, <2>1
  <2> QED BY <1>b, <2>1, <2>2, <2>3
<1>6. CASE RetentionDeleteFails(r)
  <2>1. /\ UNCHANGED <<index, call, cache, timer>> /\ Publish /\ worker[r].pc = "delete" /\ k \in Keys
        /\ crd' = crd \/ crd' = [crd EXCEPT ![k] = Absent]
        /\ worker' = [worker EXCEPT ![r] = Waiting] /\ Enqueue(r, k)
    BY <1>0, <1>6 DEF RetentionDeleteFails, Write, NoWrite, local
  <2>2. crd' \in [Keys -> Objects \cup {Absent}]
    BY <1>0, <2>1
  <2> QED BY <1>1, <1>2, <1>3, <1>b, <2>1, <2>2
<1>7. CASE PruneSnapshot(r)
  <2>1. /\ UNCHANGED <<crd, index, call, cache, watch, queue, timer>> /\ worker[r].pc = "snapshot"
        /\ worker' = [worker EXCEPT ![r].pc = "prune", ![r].todo = Snapshot(r)]
    BY <1>7 DEF PruneSnapshot, vars, local, informer
  <2>2. worker'[r].pc = "prune" /\ \A q \in Replicas : q # r => worker'[q] = worker[q]
    BY <1>0, <2>1 DEF WorkerRecs
  <2> QED BY <1>a, <1>c, <2>1, <2>2
<1>8. CASE PruneEntry(r)
  <2>1. PICK e \in worker[r].todo :
          /\ worker' = [worker EXCEPT ![r].todo = @ \ {e}]
          /\ index' = IF Prunable(cache[r][e[2]]) THEN [index EXCEPT ![r][e[1]] = None] ELSE index
          /\ UNCHANGED <<crd, call, cache, watch, queue, timer>>
    BY <1>8 DEF PruneEntry, informer
  <2>2. /\ worker'[r].pc = worker[r].pc /\ worker'[r].key = k
        /\ \A q \in Replicas : q # r => worker'[q] = worker[q]
    BY <1>0, <2>1 DEF WorkerRecs
  <2>3. e[1] \in Keys
    BY <1>0, <2>1, SMT DEF WorkerRecs
  <2>4. \A q \in Replicas, n \in Keys : index'[q][n] \in {None, n}
    <3> DEFINE g == [index EXCEPT ![r][e[1]] = None]
    <3>1. \A q \in Replicas, n \in Keys : g[q][n] = IF q = r /\ n = e[1] THEN None ELSE index[q][n]
      <4>1. PICK S, n : S = Keys \cup {None} /\ n = e[1] /\ n \in Keys /\ None \in S /\ index \in [Replicas -> [Keys -> S]]
        BY <1>0, <2>3
      <4> QED BY <4>1, EntrySet, SMT
    <3>2. index' = index \/ index' = g
      BY <2>1
    <3>3. \A q \in Replicas, n \in Keys : index[q][n] \in {None, n}
      BY DEF SightInv, OwnNames
    <3> HIDE DEF g
    <3> QED BY <3>1, <3>2, <3>3, SMT
  <2>5. OwnNames'
    BY <2>1, <2>4 DEF SightInv, OwnNames
  <2>6. ASSUME NEW q \in Replicas, NEW n \in Keys PROVE InSight(q, n)'
    <3>1. worker'[q].pc = worker[q].pc /\ worker'[q].key = worker[q].key
      BY <2>2
    <3> QED BY <2>1, <3>1 DEF SightInv, InSight, LastTold, BroughtUp, OnTime, Pending
  <2>7. ASSUME NEW q \in Replicas PROVE CancelOK(q)'
    <3>1. worker'[q].pc = worker[q].pc /\ worker'[q].key = worker[q].key
      BY <2>2
    <3> QED BY <2>1, <3>1 DEF SightInv, CancelOK, At, Pending
  <2> QED BY <2>5, <2>6, <2>7 DEF SightInv
<1>9. CASE PruneEnds(r)
  <2>1. /\ UNCHANGED <<crd, index, call, cache, watch, queue, timer>> /\ worker[r].pc = "prune"
        /\ worker' = [worker EXCEPT ![r] = Waiting]
    BY <1>9 DEF PruneEnds, vars, local, informer
  <2> QED BY <1>1, <1>2, <1>a, <1>c, <2>1
<1> QED BY <1>4, <1>5, <1>6, <1>7, <1>8, <1>9 DEF WorkerStep

\* A restarted pod is told of every object, and the others are not concerned.
LEMMA RestartSight ==
  ASSUME ControllerInv, SightInv, NEW r \in Replicas, PodRestart(r)
  PROVE  SightInv'
<1>0. /\ TTLTyped /\ WorkerCalls /\ call \in [Procs -> Calls] /\ Replicas \subseteq Procs
      /\ index \in [Replicas -> [Keys -> Keys \cup {None}]]
  BY TTLAssumption DEF ControllerInv, Inv, TypeOK
<1>1. /\ UNCHANGED crd /\ index' = [index EXCEPT ![r] = [k \in Keys |-> None]]
      /\ call' = [p \in Procs |-> IF call[p].rep = r THEN Idle ELSE call[p]]
      /\ cache' = [cache EXCEPT ![r] = [k \in Keys |-> Absent]]
      /\ watch' = [watch EXCEPT ![r] = [k \in Keys |-> IF crd[k] = Absent THEN <<>> ELSE <<crd[k]>>]]
      /\ queue' = [queue EXCEPT ![r] = {}]
      /\ timer' = [timer EXCEPT ![r] = [k \in Keys |-> NoTime]]
      /\ worker' = [worker EXCEPT ![r] = Waiting]
  BY DEF PodRestart, Restart
<1>2. /\ \A k \in Keys : /\ cache'[r][k] = Absent
                         /\ watch'[r][k] = IF crd[k] = Absent THEN <<>> ELSE <<crd[k]>>
      /\ worker'[r].pc = "wait"
  BY <1>0, <1>1 DEF TTLTyped, Waiting
<1>3. \A q \in Replicas : q # r => /\ cache'[q] = cache[q] /\ watch'[q] = watch[q] /\ queue'[q] = queue[q]
                                   /\ timer'[q] = timer[q] /\ worker'[q] = worker[q]
  BY <1>0, <1>1 DEF TTLTyped
<1>4. ASSUME NEW q \in Replicas, q # r PROVE call'[q] = call[q]
  <2>1. call[q].rep # r
    BY <1>0, <1>4, ServiceAssumption DEF WorkerCalls
  <2> QED BY <1>0, <1>1, <2>1
<1>5. OwnNames'
  <2>1. \A q \in Replicas, k \in Keys : index'[q][k] \in {None, k}
    BY <1>0, <1>1 DEF SightInv, OwnNames
  <2>2. ASSUME NEW p \in Procs PROVE call'[p].pc \in CreatingPCs => call'[p].id = call'[p].name
    <3>1. call'[p] = Idle \/ call'[p] = call[p]
      BY <1>1
    <3>2. call[p].pc \in CreatingPCs => call[p].id = call[p].name
      BY DEF SightInv, OwnNames
    <3>3. Idle.id = Idle.name
      BY DEF Idle
    <3> QED BY <3>1, <3>2, <3>3
  <2> QED BY <2>1, <2>2 DEF OwnNames
<1>6. ASSUME NEW q \in Replicas, NEW k \in Keys PROVE InSight(q, k)'
  <2>1. CASE q = r
    <3>1. ~Handled(cache'[q][k])
      BY <1>2, <2>1 DEF Handled
    <3>2. LastTold(q, k)' = crd'[k]
      <4>1. CASE crd[k] = Absent
        BY <1>1, <1>2, <2>1, <4>1 DEF LastTold
      <4>2. CASE crd[k] # Absent
        <5>1. watch'[q][k] = <<crd[k]>>
          BY <1>2, <2>1, <4>2
        <5>2. <<crd[k]>> # <<>> /\ <<crd[k]>>[Len(<<crd[k]>>)] = crd[k]
          OBVIOUS
        <5> QED BY <1>1, <5>1, <5>2 DEF LastTold
      <4> QED BY <4>1, <4>2
    <3> QED BY <3>1, <3>2 DEF InSight
  <2>2. CASE q # r
    <3>1. InSight(q, k)
      BY DEF SightInv
    <3>2. /\ cache'[q] = cache[q] /\ watch'[q] = watch[q] /\ queue'[q] = queue[q]
          /\ timer'[q] = timer[q] /\ worker'[q] = worker[q] /\ crd' = crd
      BY <1>1, <1>3, <2>2
    <3> QED BY <3>1, <3>2 DEF InSight, LastTold, BroughtUp, OnTime, Pending
  <2> QED BY <2>1, <2>2
<1>7. ASSUME NEW q \in Replicas PROVE CancelOK(q)'
  <2>1. CASE q = r
    BY <1>2, <2>1 DEF CancelOK
  <2>2. CASE q # r
    BY <1>3, <1>4, <2>2 DEF SightInv, CancelOK, At, Pending
  <2> QED BY <2>1, <2>2
<1> QED BY <1>5, <1>6, <1>7 DEF SightInv

\* Every step keeps every session in sight.
LEMMA SightStep ==
  ASSUME GeneratedNames = {}, ControllerInv, SightInv, [TTLNext]_ttlVars
  PROVE  SightInv'
<1>1. CASE UNCHANGED ttlVars
  <2>1. UNCHANGED <<crd, index, call, cache, watch, queue, timer, worker>>
    BY <1>1 DEF ttlVars, vars, local
  <2> QED BY <2>1, SMT DEF SightInv, OwnNames, CancelOK, InSight, LastTold, BroughtUp, OnTime, Pending, At
<1>2. ASSUME NEW p \in Clients, ClientCalls(p) PROVE SightInv'
  BY <1>2, ServiceSight DEF Clients
<1> QED BY <1>1, <1>2, ServiceSight, TickSight, InformerSight, ReconcileSight, WorkerSight, RestartSight
        DEF TTLNext

\* At the start there is nothing to see.
LEMMA InitSight == TTLInit => SightInv
<1> SUFFICES ASSUME TTLInit PROVE SightInv
  OBVIOUS
<1>1. OwnNames
  BY DEF TTLInit, Init, OwnNames, Idle, CreatingPCs
<1>2. \A r \in Replicas : CancelOK(r)
  BY DEF TTLInit, CancelOK, Waiting
<1>3. \A r \in Replicas, k \in Keys : InSight(r, k)
  BY DEF TTLInit, Init, InSight, LastTold, Handled
<1> QED BY <1>1, <1>2, <1>3 DEF SightInv

\* No replica of the TTL controller loses sight of a session with a deadline: an
\* event, a queued name, the reconcile in progress or a timer that fires no later than
\* the deadline will bring it up again, for any number of replicas, clients and
\* sessions, any faults and any TTLs.  Every session has to be created with an id of its own, as the A2A server
\* does: handleDisconnected passes the name of the object where UpdatePhase
\* expects the id of the session.
THEOREM SessionsStayInSight ==
  ASSUME GeneratedNames = {}
  PROVE  TTLSpec => []NoSessionForgotten
<1>1. TTLInit => ControllerInv /\ SightInv
  BY InitController, InitSight
<1>2. ControllerInv /\ SightInv /\ [TTLNext]_ttlVars => (ControllerInv /\ SightInv)'
  BY ControllerStep, SightStep
<1>3. SightInv => NoSessionForgotten
  <2> SUFFICES ASSUME SightInv, NEW r \in Replicas, NEW k \in Keys, Handled(crd[k]), watch[r][k] = <<>>
               PROVE  k \in queue[r] \/ timer[r][k] \in 0 .. Limit(crd[k]) - Since(crd[k])
                      \/ (worker[r].key = k /\ worker[r].pc \in {"cancel", "delete"})
    BY DEF NoSessionForgotten
  <2>1. cache[r][k] = crd[k] /\ (Handled(cache[r][k]) => BroughtUp(r, k))
    BY DEF SightInv, InSight, LastTold
  <2> QED BY <2>1 DEF BroughtUp, OnTime, Pending
<1> QED BY <1>1, <1>2, <1>3, PTL DEF TTLSpec

-----------------------------------------------------------------------------
(* What the cache shows of an object that has ended.                        *)

Ended(x) == x # Absent /\ IsTerminal(x.phase)

\* Object y is x, as it ended.
SameEnd(x, y) == y # Absent /\ y.phase = x.phase /\ y.comp = x.comp

\* The end the cache shows, and each end the informer will be told of, is the end
\* of the object, unless a removal follows it.
KnownEnd(r, k) ==
  Ended(cache[r][k]) /\ (\A i \in 1 .. Len(watch[r][k]) : watch[r][k][i] # Absent)
    => SameEnd(cache[r][k], crd[k])

ToldEnd(r, k) ==
  \A i \in 1 .. Len(watch[r][k]) :
    Ended(watch[r][k][i]) /\ (\A j \in i + 1 .. Len(watch[r][k]) : watch[r][k][j] # Absent)
      => SameEnd(watch[r][k][i], crd[k])

EndInv == \A r \in Replicas, k \in Keys : KnownEnd(r, k) /\ ToldEnd(r, k)

\* A call of the service changes an ended object by its removal only: the writes of
\* UpdatePhase and Create are refused, and the label is no part of its end.
LEMMA EndIsKept ==
  ASSUME Inv, NEW p \in Procs, ClientStep(p) \/ CallStep(p) \/ FaultStep(p),
         NEW k \in Keys, Ended(crd[k]), crd'[k] # Absent
  PROVE  SameEnd(crd[k], crd'[k])
<1>1. CASE UNCHANGED crd
  BY <1>1 DEF SameEnd
<1>2. CASE ~UNCHANGED crd
  <2> DEFINE n == call[p].name
  <2>0. (CallStep(p) \/ FaultStep(p)) /\ ~At(p, "idle")
    <3>1. ClientStep(p) => UNCHANGED crd
      BY DEF ClientStep, BeginCreate, BeginUpdatePhase, BeginDelete, BeginAppend, ClientCall, NoWrite
    <3> QED BY <1>2, <3>1, IdleRests
  <2>1. n \in Keys /\ crd \in [Keys -> Objects \cup {Absent}] /\ crd[k] \in Objects
    BY <2>0, CallFacts DEF Ended
  <2>2. \/ CreateCRD(p) \/ CreateStatus(p) \/ CreateRollback(p) \/ UpdateStatus(p)
        \/ UpdateLabel(p) \/ DeleteCRD(p) \/ AppendTouch(p) \/ ReplyLost(p)
    BY <1>2, <2>0 DEF CallStep, FaultStep, CreateDelegate, CreateDone, UpdateGet, UpdateReget,
                      UpdateDone, DeleteRead, DeleteDone, AppendGet, RequestFails, NoWrite
  <2>3. \/ Write(p, n, Absent)
        \/ ~Exists(p) /\ Write(p, n, NewObject)
        \/ At(p, "createStatus") /\ Fresh(p) /\ Write(p, n, Activated(crd[n]))
        \/ At(p, "status") /\ Fresh(p) /\ WritePhase(p)
        \/ At(p, "label") /\ Write(p, n, [crd[n] EXCEPT !.label = call[p].to])
        \/ At(p, "appendTouch") /\ Write(p, n, crd[n])
    BY <1>2, <2>2 DEF CreateCRD, CreateStatus, CreateRollback, UpdateStatus, UpdateLabel,
                      DeleteCRD, AppendTouch, ReplyLost, WriteLabel, WriteBack, Refused, NoWrite
  <2>4. CASE k # n
    <3>1. \A obj : Write(p, n, obj) => crd'[k] = crd[k]
      BY <2>1, <2>4 DEF Write
    <3>2. crd'[k] = crd[k]
      BY <2>3, <3>1 DEF WritePhase
    <3> QED BY <3>2 DEF SameEnd
  <2>5. CASE k = n
    <3>1. \A obj : Write(p, n, obj) => crd'[k] = obj
      BY <2>1, <2>5 DEF Write
    <3>2. ~Write(p, n, Absent) /\ Exists(p)
      BY <2>5, <3>1 DEF Exists, Ended
    <3>3. ~(At(p, "createStatus") /\ Fresh(p))
      <4>1. At(p, "createStatus") /\ Fresh(p) => crd[k].phase = NoPhase
        BY <2>0, <2>5, CallFacts DEF CopyUpToDate
      <4> QED BY <4>1 DEF Ended, IsTerminal, terminalPhases, NoPhase
    <3>4. ~(At(p, "status") /\ Fresh(p))
      <4>1. At(p, "status") /\ Fresh(p) => ValidTransition(crd[k].phase, call[p].to)
        BY <2>0, <2>5, CallFacts DEF CopyUpToDate
      <4> QED BY <4>1 DEF Ended, IsTerminal, terminalPhases, ValidTransition, validTransitions
    <3>5. crd'[k] = crd[k] \/ crd'[k] = [crd[k] EXCEPT !.label = call[p].to]
      BY <2>3, <2>5, <3>1, <3>2, <3>3, <3>4
    <3> QED BY <2>1, <3>5 DEF SameEnd, Objects
  <2> QED BY <2>4, <2>5
<1> QED BY <1>1, <1>2

\* What appending x to w does to the items and to those that are not a.
LEMMA AppendItems ==
  ASSUME NEW S, NEW w \in Seq(S), NEW x \in S, NEW v, v = Append(w, x), NEW a
  PROVE  /\ (\A i \in 1 .. Len(v) : v[i] # a) => x # a /\ \A i \in 1 .. Len(w) : w[i] # a
         /\ \A i \in 1 .. Len(v) :
              \/ v[i] = x
              \/ /\ i \in 1 .. Len(w) /\ v[i] = w[i]
                 /\ (\A j \in i + 1 .. Len(v) : v[j] # a) => x # a /\ \A j \in i + 1 .. Len(w) : w[j] # a
<1>1. PICK l \in Nat : l = Len(w)
  BY SMT
<1>2. Len(v) = l + 1 /\ v[l + 1] = x /\ \A i \in 1 .. l : v[i] = w[i]
  BY <1>1, SMT
<1>3. ASSUME NEW i \in 0 .. l, \A j \in i + 1 .. l + 1 : v[j] # a
      PROVE  x # a /\ \A j \in i + 1 .. l : w[j] # a
  <2>1. l + 1 \in i + 1 .. l + 1
    BY SMT
  <2>2. ASSUME NEW j \in i + 1 .. l PROVE j \in i + 1 .. l + 1 /\ j \in 1 .. l
    BY SMT
  <2>3. x # a
    BY <1>2, <1>3, <2>1
  <2>4. ASSUME NEW j \in i + 1 .. l PROVE w[j] # a
    BY <1>2, <1>3, <2>2
  <2> QED BY <2>3, <2>4
<1>4. ASSUME NEW i \in 1 .. l + 1
      PROVE  i = l + 1 \/ i \in 1 .. l
  BY SMT
<1>5. 0 \in 0 .. l /\ 0 + 1 = 1 /\ \A i \in 1 .. l : i \in 0 .. l
  BY SMT
<1>6. (\A i \in 1 .. l + 1 : v[i] # a) => x # a /\ \A i \in 1 .. l : w[i] # a
  BY <1>3, <1>5
<1>7. ASSUME NEW i \in 1 .. l + 1
      PROVE  \/ v[i] = x
             \/ /\ i \in 1 .. l /\ v[i] = w[i]
                /\ (\A j \in i + 1 .. l + 1 : v[j] # a) => x # a /\ \A j \in i + 1 .. l : w[j] # a
  BY <1>2, <1>3, <1>4, <1>5
<1> QED BY <1>1, <1>2, <1>6, <1>7

\* An informer that is told of every change is told of every removal.
LEMMA PublishEnd ==
  ASSUME TTLTyped, crd' \in [Keys -> Objects \cup {Absent}], Publish, UNCHANGED cache,
         NEW r \in Replicas, NEW k \in Keys, KnownEnd(r, k), ToldEnd(r, k),
         Ended(crd[k]) /\ crd'[k] # Absent => SameEnd(crd[k], crd'[k])
  PROVE  KnownEnd(r, k)' /\ ToldEnd(r, k)'
<1> DEFINE Obj == Objects \cup {Absent}
           w == watch[r][k]
           v == watch'[r][k]
<1>1. v = IF crd'[k] = crd[k] THEN w ELSE Append(w, crd'[k])
  BY Published
<1>2. w \in Seq(Obj) /\ crd'[k] \in Obj
  BY DEF TTLTyped
<1>3. CASE crd'[k] = crd[k]
  BY <1>1, <1>3 DEF KnownEnd, ToldEnd
<1>4. CASE crd'[k] # crd[k]
  <2>1. /\ (\A i \in 1 .. Len(v) : v[i] # Absent) => crd'[k] # Absent /\ \A i \in 1 .. Len(w) : w[i] # Absent
        /\ \A i \in 1 .. Len(v) :
             \/ v[i] = crd'[k]
             \/ /\ i \in 1 .. Len(w) /\ v[i] = w[i]
                /\ (\A j \in i + 1 .. Len(v) : v[j] # Absent) =>
                     crd'[k] # Absent /\ \A j \in i + 1 .. Len(w) : w[j] # Absent
    <3> HIDE DEF Obj, v, w
    <3>1. PICK x : x = crd'[k] /\ x \in Obj /\ v = Append(w, x)
      BY <1>1, <1>2, <1>4
    <3>2. PICK a : a = Absent
      OBVIOUS
    <3>3. /\ (\A i \in 1 .. Len(v) : v[i] # a) => x # a /\ \A i \in 1 .. Len(w) : w[i] # a
          /\ \A i \in 1 .. Len(v) :
               \/ v[i] = x
               \/ /\ i \in 1 .. Len(w) /\ v[i] = w[i]
                  /\ (\A j \in i + 1 .. Len(v) : v[j] # a) => x # a /\ \A j \in i + 1 .. Len(w) : w[j] # a
      BY ONLY <1>2, <3>1, AppendItems, SMT
    <3> QED BY <3>1, <3>2, <3>3
  <2>2. \A x : Ended(x) /\ SameEnd(x, crd[k]) /\ crd'[k] # Absent => SameEnd(x, crd'[k])
    BY DEF SameEnd, Ended
  <2> HIDE DEF v
  <2>3. ASSUME Ended(cache[r][k]), \A i \in 1 .. Len(v) : v[i] # Absent
        PROVE  SameEnd(cache[r][k], crd'[k])
    BY <2>1, <2>2, <2>3 DEF KnownEnd
  <2>4. ASSUME NEW i \in 1 .. Len(v), Ended(v[i]), \A j \in i + 1 .. Len(v) : v[j] # Absent
        PROVE  SameEnd(v[i], crd'[k])
    <3>1. CASE v[i] = crd'[k]
      BY <2>4, <3>1 DEF SameEnd, Ended
    <3>2. CASE v[i] # crd'[k]
      <4>1. /\ i \in 1 .. Len(w) /\ v[i] = w[i]
            /\ crd'[k] # Absent /\ \A j \in i + 1 .. Len(w) : w[j] # Absent
        BY <2>1, <2>4, <3>2
      <4> QED BY <2>2, <2>4, <4>1 DEF ToldEnd
    <3> QED BY <3>1, <3>2
  <2>5. KnownEnd(r, k)'
    BY <2>3 DEF KnownEnd, v
  <2>6. ToldEnd(r, k)'
    BY <2>4 DEF ToldEnd, v
  <2> QED BY <2>5, <2>6
<1> QED BY <1>3, <1>4

\* A timestamp grows older at the same pace in the object and in its copies.
LEMMA AgedEnd ==
  ASSUME NEW x \in Objects \cup {Absent}, NEW y \in Objects \cup {Absent}
  PROVE  /\ Ended(Aged(x)) => Ended(x)
         /\ Aged(x) = Absent <=> x = Absent
         /\ Ended(x) /\ SameEnd(x, y) => SameEnd(Aged(x), Aged(y))
<1>1. /\ Aged(x) = Absent <=> x = Absent
      /\ Aged(y) = Absent <=> y = Absent
      /\ x # Absent => Aged(x).phase = x.phase
      /\ y # Absent => Aged(y).phase = y.phase
  BY AgedFacts
<1>2. ASSUME NEW z \in Objects, z # Absent PROVE Aged(z).comp = Older(z.comp, retentionTTL)
  <2> DEFINE d == Older(z.disc, DisconnectTTL)
             c == Older(z.comp, retentionTTL)
  <2>1. Aged(z) = [z EXCEPT !.disc = d, !.comp = c]
    BY <1>2 DEF Aged
  <2> HIDE DEF d, c
  <2>2. Aged(z).comp = c
    BY <2>1 DEF Objects
  <2> QED BY <2>2 DEF c
<1>3. ASSUME Ended(x), SameEnd(x, y) PROVE SameEnd(Aged(x), Aged(y))
  <2>1. x \in Objects /\ y \in Objects /\ x # Absent /\ y # Absent /\ y.phase = x.phase /\ y.comp = x.comp
    BY <1>3 DEF Ended, SameEnd
  <2>2. Aged(x).comp = Older(x.comp, retentionTTL) /\ Aged(y).comp = Older(y.comp, retentionTTL)
    BY <1>2, <2>1
  <2> QED BY <1>1, <2>1, <2>2 DEF SameEnd
<1> QED BY <1>1, <1>3 DEF Ended

\* Time changes nothing about what the informers know of an end.
LEMMA TickEnd ==
  ASSUME ControllerInv, EndInv, Tick
  PROVE  EndInv'
<1> SUFFICES ASSUME NEW r \in Replicas, NEW k \in Keys PROVE KnownEnd(r, k)' /\ ToldEnd(r, k)'
  BY DEF EndInv
<1> DEFINE w == watch[r][k]
           v == watch'[r][k]
<1>1. /\ cache'[r][k] = Aged(cache[r][k]) /\ Len(v) = Len(w)
      /\ \A i \in 1 .. Len(w) : v[i] = Aged(w[i])
      /\ crd'[k] = Aged(crd[k])
  BY TickKeeps DEF Tick
<1>2. /\ cache[r][k] \in Objects \cup {Absent} /\ crd[k] \in Objects \cup {Absent}
      /\ \A i \in 1 .. Len(w) : w[i] \in Objects \cup {Absent}
  BY SMT DEF ControllerInv, TTLTyped, Inv, TypeOK
<1>3. Len(w) \in Nat
  <2>1. w \in Seq(Objects \cup {Absent})
    BY DEF ControllerInv, TTLTyped
  <2> QED BY <2>1, SMT
<1>4. \A i \in 1 .. Len(w) : v[i] # Absent => w[i] # Absent
  BY <1>1, <1>2, AgedEnd
<1>5. KnownEnd(r, k) /\ ToldEnd(r, k)
  BY DEF EndInv
<1> HIDE DEF v
<1>6. ASSUME Ended(cache'[r][k]), \A i \in 1 .. Len(v) : v[i] # Absent
      PROVE  SameEnd(cache'[r][k], crd'[k])
  <2>1. Ended(cache[r][k]) /\ \A i \in 1 .. Len(w) : w[i] # Absent
    BY <1>1, <1>2, <1>4, <1>6, AgedEnd
  <2>2. SameEnd(cache[r][k], crd[k])
    BY <1>5, <2>1 DEF KnownEnd
  <2> QED BY <1>1, <1>2, <2>1, <2>2, AgedEnd
<1>7. ASSUME NEW i \in 1 .. Len(v), Ended(v[i]), \A j \in i + 1 .. Len(v) : v[j] # Absent
      PROVE  SameEnd(v[i], crd'[k])
  <2>1. i \in 1 .. Len(w) /\ v[i] = Aged(w[i]) /\ w[i] \in Objects \cup {Absent}
    BY <1>1, <1>2
  <2>2. Ended(w[i])
    BY <1>7, <2>1, AgedEnd
  <2>3. \A j \in i + 1 .. Len(w) : w[j] # Absent
    BY <1>1, <1>3, <1>4, <1>7, <2>1, SMT
  <2>4. SameEnd(w[i], crd[k])
    BY <1>5, <2>1, <2>2, <2>3 DEF ToldEnd
  <2> QED BY <1>1, <1>2, <2>1, <2>2, <2>4, AgedEnd
<1>8. KnownEnd(r, k)'
  BY <1>6 DEF KnownEnd, v
<1>9. ToldEnd(r, k)'
  BY <1>7 DEF ToldEnd, v
<1> QED BY <1>8, <1>9

\* An event moves from the informer's watch to its cache.
LEMMA DeliverEnd ==
  ASSUME ControllerInv, EndInv, NEW r \in Replicas, NEW k \in Keys, Deliver(r, k)
  PROVE  EndInv'
<1> DEFINE Obj == Objects \cup {Absent}
           w == watch[r][k]
<1>0. /\ cache \in [Replicas -> [Keys -> Obj]] /\ watch \in [Replicas -> [Keys -> Seq(Obj)]]
      /\ w # <<>> /\ w \in Seq(Obj) /\ UNCHANGED crd
  BY DEF ControllerInv, TTLTyped, Deliver, vars
<1>1. /\ Head(w) \in Obj /\ Tail(w) \in Seq(Obj) /\ Head(w) = w[1] /\ Len(w) \in Nat \ {0}
      /\ Len(Tail(w)) = Len(w) - 1 /\ \A i \in 1 .. Len(w) - 1 : Tail(w)[i] = w[i + 1]
  <2> HIDE DEF Obj
  <2> QED BY <1>0, SMT
<1>2. \A q \in Replicas, n \in Keys :
        /\ cache'[q][n] = IF q = r /\ n = k THEN Head(w) ELSE cache[q][n]
        /\ watch'[q][n] = IF q = r /\ n = k THEN Tail(w) ELSE watch[q][n]
  <2> HIDE DEF Obj
  <2> QED BY <1>0, <1>1, EntrySet, SMT DEF Deliver
<1> SUFFICES ASSUME NEW q \in Replicas, NEW n \in Keys PROVE KnownEnd(q, n)' /\ ToldEnd(q, n)'
  BY DEF EndInv
<1>3. CASE q # r \/ n # k
  <2>1. cache'[q][n] = cache[q][n] /\ watch'[q][n] = watch[q][n] /\ crd' = crd
    BY <1>0, <1>2, <1>3
  <2>2. KnownEnd(q, n) /\ ToldEnd(q, n)
    BY DEF EndInv
  <2> QED BY <2>1, <2>2 DEF KnownEnd, ToldEnd
<1>4. CASE q = r /\ n = k
  <2>1. ToldEnd(r, k)
    BY DEF EndInv
  <2>2. cache'[r][k] = w[1] /\ watch'[r][k] = Tail(w) /\ crd' = crd
    BY <1>0, <1>1, <1>2
  <2>3. ASSUME Ended(w[1]), \A i \in 1 .. Len(Tail(w)) : Tail(w)[i] # Absent
        PROVE  SameEnd(w[1], crd[k])
    <3>1. ASSUME NEW j \in 2 .. Len(w) PROVE w[j] # Absent
      <4>1. j - 1 \in 1 .. Len(w) - 1 /\ (j - 1) + 1 = j
        BY <1>1, SMT
      <4> QED BY <1>1, <2>3, <4>1
    <3>2. 1 \in 1 .. Len(w) /\ \A j \in 1 + 1 .. Len(w) : w[j] # Absent
      BY <1>1, <3>1, SMT
    <3> QED BY <2>1, <2>3, <3>2 DEF ToldEnd
  <2>4. ASSUME NEW i \in 1 .. Len(Tail(w)), Ended(Tail(w)[i]),
               \A j \in i + 1 .. Len(Tail(w)) : Tail(w)[j] # Absent
        PROVE  SameEnd(Tail(w)[i], crd[k])
    <3>1. i + 1 \in 1 .. Len(w) /\ Tail(w)[i] = w[i + 1]
      <4>1. PICK l \in Nat : l = Len(w)
        BY <1>1
      <4>2. i \in 1 .. l - 1
        BY <1>1, <2>4, <4>1
      <4>3. i + 1 \in 1 .. l
        BY <4>2, SMT
      <4> QED BY <1>1, <4>1, <4>2, <4>3
    <3>2. ASSUME NEW j \in (i + 1) + 1 .. Len(w) PROVE w[j] # Absent
      <4>1. j - 1 \in i + 1 .. Len(Tail(w)) /\ j - 1 \in 1 .. Len(w) - 1 /\ (j - 1) + 1 = j
        <5>1. PICK l \in Nat : l = Len(w) /\ Len(Tail(w)) = l - 1
          BY <1>1
        <5>2. i \in 1 .. l - 1 /\ j \in (i + 1) + 1 .. l
          BY <2>4, <3>2, <5>1
        <5>3. j - 1 \in i + 1 .. l - 1 /\ j - 1 \in 1 .. l - 1 /\ (j - 1) + 1 = j
          BY <5>1, <5>2, SMT
        <5> QED BY <5>1, <5>3
      <4> QED BY <1>1, <2>4, <4>1
    <3> QED BY <2>1, <2>4, <3>1, <3>2 DEF ToldEnd
  <2>5. KnownEnd(r, k)'
    BY <2>2, <2>3 DEF KnownEnd
  <2>6. ToldEnd(r, k)'
    BY <2>2, <2>4 DEF ToldEnd
  <2> QED BY <1>4, <2>5, <2>6
<1> QED BY <1>3, <1>4

\* Every step keeps what the informers know of an end right.
LEMMA EndStep ==
  ASSUME ControllerInv, EndInv, [TTLNext]_ttlVars
  PROVE  EndInv'
<1>0. Inv /\ TTLTyped /\ crd \in [Keys -> Objects \cup {Absent}]
  BY DEF ControllerInv, Inv, TypeOK
<1>1. UNCHANGED <<crd, cache, watch>> => EndInv'
  BY DEF EndInv, KnownEnd, ToldEnd
<1>2. ASSUME Publish, UNCHANGED cache, crd' \in [Keys -> Objects \cup {Absent}],
             \A k \in Keys : Ended(crd[k]) /\ crd'[k] # Absent => SameEnd(crd[k], crd'[k])
      PROVE  EndInv'
  BY <1>0, <1>2, PublishEnd DEF EndInv
<1>3. ASSUME NEW p \in Procs, (p \in Clients /\ ClientCalls(p)) \/ CallRuns(p) \/ CallFails(p)
      PROVE  EndInv'
  <2>1. (ClientStep(p) \/ CallStep(p) \/ FaultStep(p)) /\ Publish /\ UNCHANGED cache
    BY <1>3 DEF ClientCalls, CallRuns, CallFails, NotController
  <2>2. crd' \in [Keys -> Objects \cup {Absent}]
    BY <1>3, ServiceKeeps DEF ControllerInv, Inv, TypeOK
  <2>3. \A k \in Keys : Ended(crd[k]) /\ crd'[k] # Absent => SameEnd(crd[k], crd'[k])
    BY <1>0, <2>1, EndIsKept
  <2> QED BY <1>2, <2>1, <2>2, <2>3
<1>4. ASSUME NEW r \in Replicas, RetentionDelete(r) \/ RetentionDeleteFails(r)
      PROVE  EndInv'
  <2>1. /\ Publish /\ UNCHANGED cache /\ worker[r].key \in Keys
        /\ crd' = crd \/ crd' = [crd EXCEPT ![worker[r].key] = Absent]
    BY <1>4 DEF RetentionDelete, RetentionDeleteFails, NoWrite, Write, ControllerInv, WorkerCalls
  <2>2. crd' \in [Keys -> Objects \cup {Absent}] /\ \A k \in Keys : crd'[k] = crd[k] \/ crd'[k] = Absent
    BY <1>0, <2>1
  <2>3. \A k \in Keys : Ended(crd[k]) /\ crd'[k] # Absent => SameEnd(crd[k], crd'[k])
    BY <2>2 DEF SameEnd
  <2> QED BY <1>2, <2>1, <2>2, <2>3
<1>5. ASSUME NEW r \in Replicas, NEW k \in Keys, Resync(r, k) \/ TimerFires(r, k) \/ Reconcile(r, k)
      PROVE  EndInv'
  <2>1. UNCHANGED <<crd, cache, watch>>
    BY <1>5 DEF Resync, TimerFires, Reconcile, ReconcileNothing, ReconcileEarly, ReconcileDisconnected,
                ReconcileTerminal, Take, NoWrite, vars, informer
  <2> QED BY <1>1, <2>1
<1>6. ASSUME NEW r \in Replicas, CancelReturns(r) \/ PruneSnapshot(r) \/ PruneEntry(r) \/ PruneEnds(r)
      PROVE  EndInv'
  <2>1. UNCHANGED <<crd, cache, watch>>
    BY <1>6 DEF CancelReturns, PruneSnapshot, PruneEntry, PruneEnds, vars, informer
  <2> QED BY <1>1, <2>1
<1>7. ASSUME NEW r \in Replicas, PodRestart(r) PROVE EndInv'
  <2>1. /\ UNCHANGED crd
        /\ \A k \in Keys : /\ cache'[r][k] = Absent
                           /\ watch'[r][k] = IF crd[k] = Absent THEN <<>> ELSE <<crd[k]>>
        /\ \A q \in Replicas : q # r => cache'[q] = cache[q] /\ watch'[q] = watch[q]
    BY <1>0, <1>7 DEF PodRestart, Restart, TTLTyped
  <2>2. ASSUME NEW k \in Keys PROVE KnownEnd(r, k)' /\ ToldEnd(r, k)'
    <3>1. \A i \in 1 .. Len(watch'[r][k]) : watch'[r][k][i] = crd[k] /\ crd[k] # Absent
      <4>1. CASE crd[k] = Absent
        <5>1. watch'[r][k] = <<>> /\ Len(<<>>) = 0
          BY <2>1, <4>1
        <5>2. 1 .. Len(watch'[r][k]) = {}
          BY <5>1, SMT
        <5> QED BY <5>2
      <4>2. CASE crd[k] # Absent
        <5>1. watch'[r][k] = <<crd[k]>>
          BY <2>1, <4>2
        <5>2. Len(<<crd[k]>>) = 1 /\ <<crd[k]>>[1] = crd[k]
          OBVIOUS
        <5>3. \A i \in 1 .. Len(watch'[r][k]) : i = 1
          BY <5>1, <5>2, SMT
        <5> QED BY <4>2, <5>1, <5>2, <5>3
      <4> QED BY <4>1, <4>2
    <3> QED BY <2>1, <3>1 DEF KnownEnd, ToldEnd, Ended, SameEnd
  <2>3. ASSUME NEW q \in Replicas, q # r, NEW k \in Keys PROVE KnownEnd(q, k)' /\ ToldEnd(q, k)'
    <3>1. cache'[q] = cache[q] /\ watch'[q] = watch[q] /\ crd' = crd
      BY <2>1, <2>3
    <3>2. KnownEnd(q, k) /\ ToldEnd(q, k)
      BY DEF EndInv
    <3> QED BY <3>1, <3>2 DEF KnownEnd, ToldEnd
  <2> QED BY <2>2, <2>3 DEF EndInv
<1>8. UNCHANGED ttlVars => UNCHANGED <<crd, cache, watch>>
  BY DEF ttlVars, vars
<1> QED BY <1>1, <1>3, <1>4, <1>5, <1>6, <1>7, <1>8, TickEnd, DeliverEnd DEF TTLNext, WorkerStep, Clients

\* What handleTerminal decides from a lagging cache is right, for any number of
\* replicas, clients and sessions, any faults and any TTLs: an object the cache
\* shows terminal is still that object, in that phase and as long completed, unless
\* its removal is on the way to the informer.
THEOREM RetentionVerdictIsRight == TTLSpec => []TerminalCacheIsRight
<1>1. TTLInit => EndInv
  <2> SUFFICES ASSUME TTLInit, NEW r \in Replicas, NEW k \in Keys PROVE KnownEnd(r, k) /\ ToldEnd(r, k)
    BY DEF EndInv
  <2>1. cache[r][k] = Absent /\ watch[r][k] = <<>>
    BY DEF TTLInit
  <2> QED BY <2>1, SMT DEF KnownEnd, ToldEnd, Ended
<1>2. EndInv /\ ControllerInv => TerminalCacheIsRight
  <2> SUFFICES ASSUME EndInv, ControllerInv, NEW r \in Replicas, NEW k \in Keys,
                      cache[r][k] # Absent, IsTerminal(cache[r][k].phase),
                      \A i \in DOMAIN watch[r][k] : watch[r][k][i] # Absent
               PROVE  crd[k] # Absent /\ crd[k].phase = cache[r][k].phase /\ crd[k].comp = cache[r][k].comp
    BY DEF TerminalCacheIsRight
  <2>1. watch[r][k] \in Seq(Objects \cup {Absent})
    BY DEF ControllerInv, TTLTyped
  <2>2. DOMAIN watch[r][k] = 1 .. Len(watch[r][k])
    BY <2>1, SMT
  <2>3. KnownEnd(r, k)
    BY DEF EndInv
  <2> QED BY <2>2, <2>3 DEF KnownEnd, Ended, SameEnd
<1> QED BY <1>1, <1>2, EndStep, ControllerInvariance, PTL DEF TTLSpec

==============================================================================
