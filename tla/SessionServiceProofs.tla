------------------------- MODULE SessionServiceProofs -------------------------
(* Proofs about SessionService, for any number of names, replicas, calls,   *)
(* attempts and faults.                                                     *)
EXTENDS SessionService, TLAPS

\* First-order and set reasoning is Zenon's; a leaf with arithmetic, sequences or
\* the fields of records cites SMT.
USE ZenonT(30)

-----------------------------------------------------------------------------
(* Type correctness.                                                        *)

\* A call that has returned is idle.
LEMMA IdleType == Idle \in Calls
<1>1. 1 \in 1..DefaultRetrySteps
  BY ServiceAssumption, SMT
<1>2. <<>> \in {<<>>} \cup (Phases \X Phases)
  OBVIOUS
<1> QED
  BY <1>1, <1>2 DEF Idle, Calls, PCs, Phases, NoPhase

\* A call stays a call when the locals its steps assign change.
LEMMA LocalsType ==
  ASSUME NEW c \in Calls, NEW pc \in PCs
  PROVE  /\ [c EXCEPT !.pc = pc] \in Calls
         /\ \A ph \in Phases \cup {NoPhase} : [c EXCEPT !.pc = pc, !.from = ph] \in Calls
         /\ \A n \in 1..DefaultRetrySteps : [c EXCEPT !.pc = pc, !.tries = n] \in Calls
         /\ \A t \in Phases \X Phases : [c EXCEPT !.pc = pc, !.made = t] \in Calls
         /\ \A k \in Keys : [c EXCEPT !.pc = pc, !.id = k] \in Calls
         /\ \A ok \in BOOLEAN : [Idle EXCEPT !.ok = ok, !.made = c.made] \in Calls
<1>1. [c EXCEPT !.pc = pc] \in Calls
  BY DEF Calls
<1>2. \A ph \in Phases \cup {NoPhase} : [c EXCEPT !.pc = pc, !.from = ph] \in Calls
  BY DEF Calls
<1>3. \A n \in 1..DefaultRetrySteps : [c EXCEPT !.pc = pc, !.tries = n] \in Calls
  BY DEF Calls
<1>4. \A t \in Phases \X Phases : [c EXCEPT !.pc = pc, !.made = t] \in Calls
  BY DEF Calls
<1>5. \A k \in Keys : [c EXCEPT !.pc = pc, !.id = k] \in Calls
  BY DEF Calls
<1>6. \A ok \in BOOLEAN : [Idle EXCEPT !.ok = ok, !.made = c.made] \in Calls
  <2> DEFINE made == c.made
  <2>1. made \in {<<>>} \cup (Phases \X Phases)
    BY DEF Calls
  <2> HIDE DEF made
  <2>2. ASSUME NEW ok \in BOOLEAN
        PROVE  [Idle EXCEPT !.ok = ok, !.made = made] \in Calls
    <3>1. [Idle EXCEPT !.made = made] \in Calls
      BY <2>1, IdleType DEF Calls
    <3>2. \A d \in Calls : [d EXCEPT !.ok = ok] \in Calls
      BY SMT DEF Calls
    <3>3. [Idle EXCEPT !.ok = ok, !.made = made] = [[Idle EXCEPT !.made = made] EXCEPT !.ok = ok]
      BY DEF Idle
    <3> QED
      BY <3>1, <3>2, <3>3, Zenon
  <2>3. \A ok \in BOOLEAN : [Idle EXCEPT !.ok = ok, !.made = made] \in Calls
    BY <2>2
  <2> QED
    BY <2>3 DEF made
<1> QED
  BY <1>1, <1>2, <1>3, <1>4, <1>5, <1>6

\* So does the state of all calls when process p makes a move.
LEMMA MovesType ==
  ASSUME TypeOK, NEW p \in Procs
  PROVE  /\ \A c \in Calls : [call EXCEPT ![p] = c] \in [Procs -> Calls]
         /\ \A ok \in BOOLEAN : Return(p, ok) => call' \in [Procs -> Calls]
         /\ \A pc \in PCs : Goto(p, pc) => call' \in [Procs -> Calls]
         /\ OnError(p) => call' \in [Procs -> Calls]
         /\ Refused(p) => call' \in [Procs -> Calls]
<1>0. call \in [Procs -> Calls] /\ call[p] \in Calls
  BY DEF TypeOK
<1>1. ASSUME NEW ok \in BOOLEAN, Return(p, ok) PROVE call' \in [Procs -> Calls]
  BY <1>0, <1>1, IdleType, LocalsType DEF Return, PCs
<1>2. ASSUME NEW pc \in PCs, Goto(p, pc) PROVE call' \in [Procs -> Calls]
  BY <1>0, <1>2, LocalsType DEF Goto
<1>3. ASSUME OnError(p) PROVE call' \in [Procs -> Calls]
  <2>1. CASE At(p, "createStatus") \/ At(p, "createDelegate")
    BY <1>2, <1>3, <2>1 DEF OnError, RollBack, At, PCs
  <2>2. CASE At(p, "deleteRead")
    <3>1. [call[p] EXCEPT !.pc = "delete", !.from = "Active"] \in Calls
      BY <1>0, LocalsType DEF PCs, Phases
    <3> QED
      BY <1>0, <1>3, <2>2, <3>1 DEF OnError, At
  <2>3. CASE At(p, "delete")
    BY <1>2, <1>3, <2>3 DEF OnError, At, PCs
  <2>4. CASE At(p, "appendGet") \/ At(p, "appendTouch")
    BY <1>1, <1>3, <2>4 DEF OnError, At
  <2>5. CASE call[p].pc \notin {"createStatus", "createDelegate", "deleteRead",
                                "delete", "appendGet", "appendTouch"}
    BY <1>1, <1>3, <2>5 DEF OnError, At
  <2> QED
    BY <2>1, <2>2, <2>3, <2>4, <2>5 DEF At
<1>4. ASSUME Refused(p) PROVE call' \in [Procs -> Calls]
  <2>1. CASE Exists(p) /\ AttemptsLeft(p)
    <3>1. call[p].tries + 1 \in 1..DefaultRetrySteps
      BY <1>0, <2>1, ServiceAssumption, SMT DEF AttemptsLeft, Calls
    <3>2. [call[p] EXCEPT !.pc = "get", !.tries = call[p].tries + 1] \in Calls
      BY <1>0, <3>1, LocalsType DEF PCs
    <3> QED
      BY <1>0, <1>4, <2>1, <3>2 DEF Refused
  <2>2. CASE ~(Exists(p) /\ AttemptsLeft(p))
    BY <1>1, <1>4, <2>2 DEF Refused
  <2> QED
    BY <2>1, <2>2
<1> QED
  BY <1>0, <1>1, <1>2, <1>3, <1>4

-----------------------------------------------------------------------------
(* The inductive invariant: the checked properties, that a call in progress *)
(* has its object and replica, and, for AuditReportsCommit, that the        *)
(* transition reported was made from the moment the status was written.     *)

CreatePCs == {"create", "createStatus", "createDelegate", "createRollback"}

Named(p) == ~At(p, "idle") => /\ call[p].name \in Keys
                              /\ call[p].rep \in Replicas
                              /\ call[p].pc \notin CreatePCs => call[p].id \in Keys

Made(p) == call[p].pc \in {"reget", "label", "updateDone"} =>
             call[p].made = <<call[p].from, call[p].to>>

Inv == /\ TypeOK
       /\ \A p \in Procs : Named(p) /\ Made(p)
       /\ CopiesUpToDate
       /\ TimestampsMatchPhase
       /\ StatuslessHasCreator

\* What a step of process p has to show for Inv when it moves its own call and
\* leaves the objects alone or replaces one of them: the copies of the other
\* calls are taken care of by the API server.
LEMMA StepPreserves ==
  ASSUME Inv, NEW p \in Procs, NEW n \in Keys, NEW obj \in Objects \cup {Absent},
         call' \in [Procs -> Calls],
         \A q \in Procs \ {p} : call'[q] = call[q],
         \/ NoWrite(p)
         \/ Write(p, n, obj) /\ (obj # Absent => Consistent(obj)),
         /\ index'    \in [Replicas -> [Keys -> Keys \cup {None}]]
         /\ delegate' \in [Replicas -> SUBSET Keys]
         /\ gauge'    \in [Replicas -> [Phases \cup {NoPhase} -> Int]]
         /\ started'  \in 0..MaxCalls
         /\ faults'   \in 0..MaxFaults
         /\ orphans'  \subseteq Keys,
         Named(p)', Made(p)',
         Fresh(p)' => CopyUpToDate(p)',
         orphans \subseteq orphans',
         \A k \in Keys : Statusless(k)' =>
           \/ Statusless(k) /\ ~Creating(p, k)
           \/ k \in orphans'
           \/ Creating(p, k)'
  PROVE  Inv'
<1>1. TypeOK'
  <2>1. crd' \in [Keys -> Objects \cup {Absent}]
    BY DEF Inv, TypeOK, NoWrite, Write
  <2>2. stale' \subseteq Procs
    BY DEF Inv, TypeOK, NoWrite, Write, Holders
  <2> QED
    BY <2>1, <2>2, Zenon DEF TypeOK
<1>2. ASSUME NEW q \in Procs PROVE Named(q)' /\ Made(q)'
  <2>1. CASE q = p
    BY <2>1
  <2>2. CASE q # p
    BY <2>2 DEF Inv, Named, Made, At
  <2> QED
    BY <2>1, <2>2
<1>3. ASSUME NEW q \in Procs, Fresh(q)' PROVE CopyUpToDate(q)'
  <2>1. CASE q = p
    BY <1>3, <2>1
  <2>2. CASE q # p
    <3>1. call'[q] = call[q] /\ Fresh(q)
      BY <1>3, <2>2 DEF Fresh, NoWrite, Write
    <3>2. CopyUpToDate(q)
      BY <3>1 DEF Inv, CopiesUpToDate
    <3>3. CASE NoWrite(p)
      BY <3>1, <3>2, <3>3 DEF CopyUpToDate, NoWrite, At, Exists
    <3>4. CASE Write(p, n, obj)
      <4>1. q \notin Holders(n)
        BY <1>3, <2>2, <3>4 DEF Fresh, Write, Holders
      <4>2. call[q].name # n \/
            call[q].pc \notin {"createStatus", "status", "label", "appendTouch"}
        BY <4>1 DEF Holders
      <4>3. crd \in [Keys -> Objects \cup {Absent}] /\ Named(q)
        BY DEF Inv, TypeOK
      <4> QED
        BY <3>1, <3>2, <3>4, <4>2, <4>3 DEF CopyUpToDate, Write, At, Exists, Named
    <3> QED
      BY <3>3, <3>4
  <2> QED
    BY <2>1, <2>2
<1>4. TimestampsMatchPhase'
  BY SMT DEF Inv, TimestampsMatchPhase, TypeOK, NoWrite, Write, Consistent
<1>5. ASSUME NEW k \in Keys, Statusless(k)', k \notin orphans'
      PROVE  \E q \in Procs : Creating(q, k)'
  <2>1. CASE Creating(p, k)'
    BY <2>1
  <2>2. CASE Statusless(k) /\ ~Creating(p, k)
    <3>1. PICK q \in Procs : Creating(q, k)
      BY <1>5, <2>2 DEF Inv, StatuslessHasCreator
    <3> QED
      BY <2>2, <3>1 DEF Creating
  <2> QED
    BY <1>5, <2>1, <2>2
<1> QED
  BY <1>1, <1>2, <1>3, <1>4, <1>5 DEF Inv, CopiesUpToDate, StatuslessHasCreator

\* The case of a call that returns.
LEMMA ReturnPreserves ==
  ASSUME Inv, NEW p \in Procs, NEW ok \in BOOLEAN, Return(p, ok),
         NEW n \in Keys, NEW obj \in Objects \cup {Absent},
         \/ NoWrite(p)
         \/ Write(p, n, obj) /\ (obj # Absent => Consistent(obj)),
         /\ index'    \in [Replicas -> [Keys -> Keys \cup {None}]]
         /\ delegate' \in [Replicas -> SUBSET Keys]
         /\ gauge'    \in [Replicas -> [Phases \cup {NoPhase} -> Int]]
         /\ started'  \in 0..MaxCalls
         /\ faults'   \in 0..MaxFaults
         /\ orphans'  \subseteq Keys,
         orphans \subseteq orphans',
         \A k \in Keys : Statusless(k)' =>
           (Statusless(k) /\ ~Creating(p, k)) \/ k \in orphans'
  PROVE  Inv'
<1>1. call' \in [Procs -> Calls]
  BY MovesType DEF Inv
<1>2. call'[p].pc = "idle" /\ \A q \in Procs \ {p} : call'[q] = call[q]
  BY DEF Inv, TypeOK, Return, Idle
<1>3. Named(p)' /\ Made(p)' /\ CopyUpToDate(p)'
  BY <1>2 DEF Named, Made, CopyUpToDate, At
<1> QED
  BY <1>1, <1>2, <1>3, StepPreserves

\* The case of a call that moves on and writes no object.
LEMMA MovePreserves ==
  ASSUME Inv, NEW p \in Procs, NEW c \in Calls, call' = [call EXCEPT ![p] = c],
         NoWrite(p), call[p].name \in Keys,
         delegate' \in [Replicas -> SUBSET Keys],
         faults' \in 0..MaxFaults,
         UNCHANGED <<index, gauge, started, orphans>>,
         Named(p)', Made(p)', CopyUpToDate(p)',
         \A k \in Keys : Creating(p, k) => Creating(p, k)'
  PROVE  Inv'
<1>1. call' \in [Procs -> Calls] /\ \A q \in Procs \ {p} : call'[q] = call[q]
  BY DEF Inv, TypeOK
<1>2. /\ index'    \in [Replicas -> [Keys -> Keys \cup {None}]]
      /\ gauge'    \in [Replicas -> [Phases \cup {NoPhase} -> Int]]
      /\ started'  \in 0..MaxCalls
      /\ orphans'  \subseteq Keys
  BY DEF Inv, TypeOK
<1>3. \A k \in Keys : Statusless(k)' => (Statusless(k) /\ ~Creating(p, k)) \/ Creating(p, k)'
  BY DEF Statusless, NoWrite
<1> QED
  BY <1>1, <1>2, <1>3, StepPreserves

-----------------------------------------------------------------------------
(* Each action preserves the invariant.                                     *)

\* Starting a call from Idle with well-typed locals preserves Inv.
LEMMA BeginPreserves ==
  ASSUME Inv, NEW p \in Procs, NEW r \in Replicas,
         NEW pc \in {"create", "get", "deleteRead", "appendGet"},
         NEW id \in Keys \cup {None}, NEW n \in Keys, NEW to \in Phases,
         pc # "create" => id \in Keys,
         Begin(p, r, pc, id, n, to), NoWrite(p), started' \in 0..MaxCalls,
         UNCHANGED <<local, faults, orphans>>
  PROVE  Inv'
<1> DEFINE c == [Idle EXCEPT !.pc = pc, !.rep = r, !.id = id, !.name = n, !.to = to]
<1>1. c \in Calls
  BY IdleType DEF Calls, PCs
<1>2. call' \in [Procs -> Calls] /\ \A q \in Procs \ {p} : call'[q] = call[q]
  BY <1>1 DEF Inv, TypeOK, Begin
<1>3. call'[p] = c
  BY DEF Inv, TypeOK, Begin
<1>4. c.pc = pc /\ c.rep = r /\ c.id = id /\ c.name = n
  BY DEF Idle
<1>5. Named(p)' /\ Made(p)' /\ CopyUpToDate(p)'
  BY <1>3, <1>4 DEF Named, Made, CopyUpToDate, At, CreatePCs
<1>6. \A k \in Keys : Statusless(k)' => Statusless(k) /\ ~Creating(p, k)
  BY DEF Statusless, NoWrite, Creating, Begin, At
<1>7. Absent \in Objects \cup {Absent}
  OBVIOUS
<1>8. /\ index'    \in [Replicas -> [Keys -> Keys \cup {None}]]
      /\ delegate' \in [Replicas -> SUBSET Keys]
      /\ gauge'    \in [Replicas -> [Phases \cup {NoPhase} -> Int]]
      /\ faults'   \in 0..MaxFaults
      /\ orphans'  \subseteq Keys
  BY DEF Inv, TypeOK, local
<1> QED
  BY <1>2, <1>5, <1>6, <1>7, <1>8, StepPreserves

\* The start of a Create, UpdatePhase, Delete or AppendEvent call.
LEMMA ClientStepInv ==
  ASSUME Inv, NEW p \in Procs, ClientStep(p)
  PROVE  Inv'
<1>1. PICK r \in Replicas : BeginCreate(p, r) \/ BeginUpdatePhase(p, r)
                            \/ BeginDelete(p, r) \/ BeginAppend(p, r)
  BY DEF ClientStep
<1>2. /\ started' \in 0..MaxCalls
      /\ NoWrite(p)
      /\ UNCHANGED <<local, faults, orphans>>
  BY <1>1, ServiceAssumption, SMT
     DEF Inv, TypeOK, ClientCall, BeginCreate, BeginUpdatePhase, BeginDelete, BeginAppend
<1>3. \A id \in Keys : CRDName(r, id) \in Keys
  BY SMT DEF Inv, TypeOK, CRDName
<1>4. "Active" \in Phases
  BY DEF Phases
<1>5. CASE BeginCreate(p, r)
  <2>1. PICK k \in Keys : \/ Begin(p, r, "create", k, k, "Active")
                         \/ Begin(p, r, "create", None, k, "Active")
    BY <1>5 DEF BeginCreate
  <2> QED
    BY <1>2, <1>4, <2>1, BeginPreserves
<1>6. CASE BeginUpdatePhase(p, r)
  <2>1. PICK id \in Keys, to \in Phases : Begin(p, r, "get", id, CRDName(r, id), to)
    BY <1>6 DEF BeginUpdatePhase, StartUpdate
  <2> QED
    BY <1>2, <1>3, <2>1, BeginPreserves
<1>7. CASE BeginDelete(p, r)
  <2>1. PICK id \in Keys : Begin(p, r, "deleteRead", id, CRDName(r, id), "Active")
    BY <1>7 DEF BeginDelete
  <2> QED
    BY <1>2, <1>3, <1>4, <2>1, BeginPreserves
<1>8. CASE BeginAppend(p, r)
  <2>1. PICK id \in Keys : /\ index[r][id] \in Keys
                          /\ Begin(p, r, "appendGet", id, index[r][id], "Active")
    BY <1>8, SMT DEF BeginAppend, Inv, TypeOK
  <2> QED
    BY <1>2, <1>4, <2>1, BeginPreserves
<1> QED
  BY <1>1, <1>5, <1>6, <1>7, <1>8

\* The objects the calls write are well formed.
LEMMA NewObjectConsistent ==
  NewObject \in Objects /\ Consistent(NewObject) /\ NewObject # Absent
<1>1. NoTime \in Times
  BY DEF Times
<1>2. NewObject \in Objects
  BY <1>1 DEF NewObject, Objects, Phases
<1>3. Consistent(NewObject)
  BY DEF NewObject, Consistent, IsTerminal, terminalPhases, NoPhase
<1> QED
  BY <1>2, <1>3, ServiceAssumption

\* The objects that Create and UpdatePhase write are well typed and consistent.
LEMMA WrittenConsistent ==
  ASSUME NEW obj \in Objects, Consistent(obj)
  PROVE  /\ obj.phase = NoPhase => Activated(obj) \in Objects /\ Consistent(Activated(obj))
         /\ \A to \in Phases :
              /\ ValidTransition(obj.phase, to) =>
                   /\ SetPhase(obj, obj.phase, to) \in Objects
                   /\ Consistent(SetPhase(obj, obj.phase, to))
              /\ /\ [obj EXCEPT !.label = to] \in Objects
                 /\ Consistent([obj EXCEPT !.label = to])
<1>1. ASSUME obj.phase = NoPhase
      PROVE  Activated(obj) \in Objects /\ Consistent(Activated(obj))
  BY <1>1 DEF Objects, Activated, Consistent, IsTerminal, terminalPhases, Phases, NoPhase
<1>2. ASSUME NEW to \in Phases
      PROVE  [obj EXCEPT !.label = to] \in Objects /\ Consistent([obj EXCEPT !.label = to])
  BY DEF Objects, Consistent
<1>3. ASSUME NEW to \in Phases, ValidTransition(obj.phase, to)
      PROVE  /\ SetPhase(obj, obj.phase, to) \in Objects
             /\ Consistent(SetPhase(obj, obj.phase, to))
  <2>1. SetConn(obj.conn, obj.phase, to) \in {"", "Connected", "Disconnected"}
    BY DEF SetConn, Objects
  <2>2. 0 \in Times /\ 0 # NoTime
    BY SMT DEF Times, NoTime
  <2>3. SetPhase(obj, obj.phase, to) \in Objects
    BY <2>1, <2>2 DEF SetPhase, Objects
  <2>4. ~IsTerminal(obj.phase)
    BY <1>3 DEF ValidTransition, validTransitions, IsTerminal, terminalPhases, Objects, Phases, NoPhase
  <2>5. to = "Active" => obj.phase = "Disconnected"
    BY <1>3 DEF ValidTransition, validTransitions, Objects, Phases, NoPhase
  <2>6. to = "Active" => SetConn(obj.conn, obj.phase, to) = "Connected"
    BY <2>5 DEF SetConn
  <2>7. to = "Disconnected" => SetConn(obj.conn, obj.phase, to) = "Disconnected"
    BY DEF SetConn
  <2> QED
    BY <2>2, <2>3, <2>4, <2>6, <2>7 DEF SetPhase, Consistent, Objects, IsTerminal, terminalPhases
<1> QED
  BY <1>1, <1>2, <1>3

\* What Inv says of a call in progress and of its object.
LEMMA CallFacts ==
  ASSUME Inv, NEW p \in Procs, ~At(p, "idle")
  PROVE  /\ call \in [Procs -> Calls] /\ call[p] \in Calls
         /\ call[p].name \in Keys /\ call[p].rep \in Replicas
         /\ call[p].pc \notin CreatePCs => call[p].id \in Keys
         /\ call[p].to \in Phases /\ call[p].from \in Phases \cup {NoPhase}
         /\ crd \in [Keys -> Objects \cup {Absent}]
         /\ Exists(p) => /\ crd[call[p].name] \in Objects
                        /\ Consistent(crd[call[p].name])
         /\ Fresh(p) => CopyUpToDate(p)
<1>1. call \in [Procs -> Calls] /\ call[p] \in Calls /\ Named(p)
  BY DEF Inv, TypeOK
<1>2. call[p].to \in Phases /\ call[p].from \in Phases \cup {NoPhase}
  BY <1>1 DEF Calls
<1> QED
  BY <1>1, <1>2 DEF Inv, Named, TypeOK, TimestampsMatchPhase, CopiesUpToDate, Exists

\* A call that only changes its program counter and perhaps its locals.
LEMMA LocalFacts ==
  ASSUME Inv, UNCHANGED local
  PROVE  /\ index'    \in [Replicas -> [Keys -> Keys \cup {None}]]
         /\ delegate' \in [Replicas -> SUBSET Keys]
         /\ gauge'    \in [Replicas -> [Phases \cup {NoPhase} -> Int]]
  BY DEF Inv, TypeOK, local

\* The number of calls started stays within its bound.
LEMMA BoundedFacts ==
  ASSUME Inv, UNCHANGED bounded
  PROVE  /\ started'  \in 0..MaxCalls
         /\ faults'   \in 0..MaxFaults
         /\ orphans'  \subseteq Keys
         /\ orphans' = orphans
  BY DEF Inv, TypeOK, bounded

\* Create: the request that creates the object.
LEMMA CreateCRDInv ==
  ASSUME Inv, NEW p \in Procs, CreateCRD(p)
  PROVE  Inv'
<1>1. At(p, "create") /\ UNCHANGED <<local, bounded>> /\ ~At(p, "idle")
  BY DEF CreateCRD, At
<1>2. CASE Exists(p)
  <2>1. Return(p, FALSE) /\ NoWrite(p)
    BY <1>2 DEF CreateCRD
  <2>2. \A k \in Keys : Statusless(k)' => Statusless(k) /\ ~Creating(p, k)
    BY <1>1, <2>1 DEF Statusless, NoWrite, Creating, At
  <2> QED
    BY <1>1, <2>1, <2>2, CallFacts, LocalFacts, BoundedFacts, ReturnPreserves
<1>3. CASE ~Exists(p)
  <2> DEFINE n == call[p].name
  <2>1. Goto(p, "createStatus") /\ Write(p, n, NewObject)
    BY <1>3 DEF CreateCRD
  <2>2. call' \in [Procs -> Calls]
    BY <2>1, MovesType DEF Inv, PCs
  <2>3. /\ call'[p] = [call[p] EXCEPT !.pc = "createStatus"]
        /\ \A q \in Procs \ {p} : call'[q] = call[q]
    BY <1>1, <2>1, CallFacts DEF Goto
  <2>4. call'[p].pc = "createStatus" /\ call'[p].name = n /\ call'[p].rep = call[p].rep
    BY <1>1, <2>3, CallFacts DEF Calls
  <2>5. crd'[n] # Absent /\ crd'[n].phase = NoPhase
    BY <1>1, <2>1, CallFacts, NewObjectConsistent DEF Write, NewObject
  <2>6. Named(p)' /\ Made(p)' /\ CopyUpToDate(p)'
    BY <1>1, <2>4, <2>5, CallFacts DEF Named, Made, CopyUpToDate, At, Exists, CreatePCs
  <2>7. \A k \in Keys : Statusless(k)' => (Statusless(k) /\ ~Creating(p, k)) \/ Creating(p, k)'
    BY <1>1, <2>1, <2>4, CallFacts DEF Statusless, Write, Creating, At
  <2> QED
    BY <1>1, <2>1, <2>2, <2>3, <2>6, <2>7, CallFacts, LocalFacts, BoundedFacts,
       NewObjectConsistent, StepPreserves
<1> QED
  BY <1>2, <1>3

\* The case of a call that writes its object, other than in creating it, and
\* moves on.
LEMMA WritePreserves ==
  ASSUME Inv, NEW p \in Procs, ~At(p, "idle"),
         NEW c \in Calls, call' = [call EXCEPT ![p] = c],
         NEW obj \in Objects \cup {Absent}, Write(p, call[p].name, obj),
         obj # Absent => /\ Consistent(obj)
                         /\ obj.phase = NoPhase => /\ Statusless(call[p].name)
                                                   /\ ~At(p, "createStatus")
                                                   /\ ~At(p, "createRollback"),
         UNCHANGED <<local, bounded>>,
         Named(p)', Made(p)', CopyUpToDate(p)'
  PROVE  Inv'
<1>1. call' \in [Procs -> Calls] /\ \A q \in Procs \ {p} : call'[q] = call[q]
  BY CallFacts
<1>2. ASSUME NEW k \in Keys, Statusless(k)' PROVE Statusless(k) /\ ~Creating(p, k)
  <2>1. CASE k = call[p].name
    <3>1. crd'[k] = obj
      BY <2>1, CallFacts DEF Write
    <3> QED
      BY <1>2, <2>1, <3>1 DEF Statusless, Creating, At
  <2>2. CASE k # call[p].name
    BY <1>2, <2>2, CallFacts DEF Statusless, Write, Creating
  <2> QED
    BY <2>1, <2>2
<1> QED
  BY <1>1, <1>2, CallFacts, LocalFacts, BoundedFacts, StepPreserves

\* Create: the status update, which may be refused.
LEMMA CreateStatusInv ==
  ASSUME Inv, NEW p \in Procs, CreateStatus(p)
  PROVE  Inv'
<1> DEFINE n == call[p].name
<1>1. At(p, "createStatus") /\ UNCHANGED <<local, bounded>> /\ ~At(p, "idle")
  BY DEF CreateStatus, At
<1>2. CASE Fresh(p)
  <2> DEFINE c == [call[p] EXCEPT !.pc = "createDelegate"]
  <2>1. call' = [call EXCEPT ![p] = c] /\ Write(p, n, Activated(crd[n]))
    BY <1>2 DEF CreateStatus, Goto
  <2>2. c \in Calls
    BY <1>1, CallFacts, LocalsType DEF PCs
  <2>3. call'[p] = c
    BY <1>1, <2>1, CallFacts
  <2>4. c.pc = "createDelegate" /\ c.name = n /\ c.rep = call[p].rep
    BY <1>1, CallFacts DEF Calls
  <2>5. Named(p)' /\ Made(p)' /\ CopyUpToDate(p)'
    BY <1>1, <2>3, <2>4, CallFacts DEF Named, Made, CopyUpToDate, At, CreatePCs
  <2>6. Exists(p) /\ crd[n].phase = NoPhase
    BY <1>1, <1>2, CallFacts DEF CopyUpToDate
  <2>7. Activated(crd[n]) \in Objects /\ Consistent(Activated(crd[n]))
    BY <1>1, <2>6, CallFacts, WrittenConsistent
  <2>8. Activated(crd[n]).phase # NoPhase
    BY <1>1, <2>6, CallFacts DEF Activated, Objects, NoPhase
  <2> QED
    BY <1>1, <2>1, <2>2, <2>5, <2>7, <2>8, WritePreserves
<1>3. CASE ~Fresh(p)
  <2> DEFINE c == [call[p] EXCEPT !.pc = "createRollback"]
  <2>1. call' = [call EXCEPT ![p] = c] /\ NoWrite(p)
    BY <1>3 DEF CreateStatus, RollBack, Goto
  <2>2. c \in Calls
    BY <1>1, CallFacts, LocalsType DEF PCs
  <2>3. call'[p] = c
    BY <1>1, <2>1, CallFacts
  <2>4. c.pc = "createRollback" /\ c.name = n /\ c.rep = call[p].rep
    BY <1>1, CallFacts DEF Calls
  <2>5. Named(p)' /\ Made(p)' /\ CopyUpToDate(p)'
    BY <1>1, <2>3, <2>4, CallFacts DEF Named, Made, CopyUpToDate, At, CreatePCs
  <2>6. \A k \in Keys : Creating(p, k) => Creating(p, k)'
    BY <2>3, <2>4 DEF Creating
  <2> QED
    BY <1>1, <2>1, <2>2, <2>5, <2>6, CallFacts, LocalFacts, BoundedFacts, MovePreserves
       DEF local, bounded
<1> QED
  BY <1>2, <1>3

\* Create: the deletion that rolls back.
LEMMA CreateRollbackInv ==
  ASSUME Inv, NEW p \in Procs, CreateRollback(p)
  PROVE  Inv'
<1>1. ~At(p, "idle") /\ UNCHANGED <<local, bounded>>
  BY DEF CreateRollback, At
<1>2. Return(p, FALSE) /\ Write(p, call[p].name, Absent)
  BY DEF CreateRollback
<1>3. \A k \in Keys : Statusless(k)' => Statusless(k) /\ ~Creating(p, k)
  BY <1>1, <1>2, CallFacts DEF Statusless, Write, Creating
<1>4. Absent \in Objects \cup {Absent}
  OBVIOUS
<1> QED
  BY <1>1, <1>2, <1>3, <1>4, CallFacts, LocalFacts, BoundedFacts, ReturnPreserves

\* Create: the call of the in-memory session service.
LEMMA CreateDelegateInv ==
  ASSUME Inv, NEW p \in Procs, CreateDelegate(p)
  PROVE  Inv'
<1> DEFINE n == call[p].name
<1>1. /\ At(p, "createDelegate") /\ ~At(p, "idle") /\ NoWrite(p)
      /\ UNCHANGED <<index, gauge, bounded>>
  BY DEF CreateDelegate, At
<1>2. \A k \in Keys : ~Creating(p, k)
  BY <1>1 DEF Creating, At
<1>3. UNCHANGED <<started, faults, orphans>>
  BY <1>1 DEF bounded
<1>4. CASE call[p].id \in delegate[call[p].rep]
  <2> DEFINE c == [call[p] EXCEPT !.pc = "createRollback"]
  <2>1. call' = [call EXCEPT ![p] = c] /\ UNCHANGED delegate
    BY <1>4 DEF CreateDelegate, RollBack, Goto
  <2>2. c \in Calls
    BY <1>1, CallFacts, LocalsType DEF PCs
  <2>3. call'[p] = c
    BY <1>1, <2>1, CallFacts
  <2>4. c.pc = "createRollback" /\ c.name = n /\ c.rep = call[p].rep
    BY <1>1, CallFacts DEF Calls
  <2>5. Named(p)' /\ Made(p)' /\ CopyUpToDate(p)'
    BY <1>1, <2>3, <2>4, CallFacts DEF Named, Made, CopyUpToDate, At, CreatePCs
  <2>6. delegate' \in [Replicas -> SUBSET Keys] /\ faults' \in 0..MaxFaults
    BY <1>3, <2>1 DEF Inv, TypeOK
  <2> QED
    BY <1>1, <1>2, <1>3, <2>1, <2>2, <2>5, <2>6, CallFacts, MovePreserves
<1>5. CASE call[p].id \notin delegate[call[p].rep]
  <2>1. PICK id \in Keys :
          /\ delegate' = [delegate EXCEPT ![call[p].rep] = @ \cup {id}]
          /\ call' = [call EXCEPT ![p].pc = "createDone", ![p].id = id]
    BY <1>5 DEF CreateDelegate
  <2> DEFINE c == [call[p] EXCEPT !.pc = "createDone", !.id = id]
  <2>2. call' = [call EXCEPT ![p] = c]
    BY <1>1, <2>1, CallFacts
  <2>3. c \in Calls
    BY <1>1, CallFacts, LocalsType DEF PCs
  <2>4. call'[p] = c
    BY <1>1, <2>2, CallFacts
  <2>5. c.pc = "createDone" /\ c.name = n /\ c.rep = call[p].rep /\ c.id = id
    BY <1>1, CallFacts DEF Calls
  <2>6. Named(p)' /\ Made(p)' /\ CopyUpToDate(p)'
    BY <1>1, <2>4, <2>5, CallFacts DEF Named, Made, CopyUpToDate, At, CreatePCs
  <2>7. delegate' \in [Replicas -> SUBSET Keys] /\ faults' \in 0..MaxFaults
    BY <1>3, <2>1 DEF Inv, TypeOK
  <2> QED
    BY <1>1, <1>2, <1>3, <2>2, <2>3, <2>6, <2>7, CallFacts, MovePreserves
<1> QED
  BY <1>4, <1>5

\* The steps in which a call takes its effect on the replica and returns.
LEMMA DonePreserves ==
  ASSUME Inv, NEW p \in Procs, call[p].pc \in {"createDone", "updateDone", "deleteDone"},
         Return(p, TRUE), NoWrite(p), UNCHANGED bounded,
         index'    \in [Replicas -> [Keys -> Keys \cup {None}]],
         delegate' \in [Replicas -> SUBSET Keys],
         gauge'    \in [Replicas -> [Phases \cup {NoPhase} -> Int]]
  PROVE  Inv'
<1>1. ~At(p, "idle")
  BY DEF At
<1>2. \A k \in Keys : Statusless(k)' => Statusless(k) /\ ~Creating(p, k)
  BY DEF Statusless, NoWrite, Creating
<1>3. Absent \in Objects \cup {Absent}
  OBVIOUS
<1> QED
  BY <1>1, <1>2, <1>3, CallFacts, BoundedFacts, ReturnPreserves

\* A gauge that goes up or down by one is still a gauge.
LEMMA GaugeType ==
  ASSUME Inv, NEW r \in Replicas, NEW ph \in Phases \cup {NoPhase}
  PROVE  /\ [gauge EXCEPT ![r][ph] = @ + 1] \in [Replicas -> [Phases \cup {NoPhase} -> Int]]
         /\ [gauge EXCEPT ![r][ph] = @ - 1] \in [Replicas -> [Phases \cup {NoPhase} -> Int]]
<1> DEFINE S == Phases \cup {NoPhase}
<1> HIDE DEF S
<1>1. gauge \in [Replicas -> [S -> Int]]
  BY DEF Inv, TypeOK, S
<1>2. ph \in S
  BY DEF S
<1>3. [gauge[r] EXCEPT ![ph] = @ + 1] \in [S -> Int]
  BY <1>1, <1>2, SMT
<1>4. [gauge[r] EXCEPT ![ph] = @ - 1] \in [S -> Int]
  BY <1>1, <1>2, SMT
<1>5. /\ [gauge EXCEPT ![r][ph] = @ + 1] \in [Replicas -> [S -> Int]]
      /\ [gauge EXCEPT ![r][ph] = @ - 1] \in [Replicas -> [S -> Int]]
  BY <1>1, <1>2, <1>3, <1>4
<1> QED
  BY <1>5 DEF S

\* Create: index, audit event and gauge.
LEMMA CreateDoneInv ==
  ASSUME Inv, NEW p \in Procs, CreateDone(p)
  PROVE  Inv'
<1>1. call[p].pc = "createDone" /\ ~At(p, "idle")
  BY DEF CreateDone, At
<1>2. call[p].rep \in Replicas /\ call[p].id \in Keys /\ call[p].name \in Keys
  BY <1>1, CallFacts DEF CreatePCs
<1>3. index' \in [Replicas -> [Keys -> Keys \cup {None}]]
  BY <1>2 DEF CreateDone, Inv, TypeOK
<1>4. gauge' \in [Replicas -> [Phases \cup {NoPhase} -> Int]]
  <2>1. "Active" \in Phases \cup {NoPhase}
    BY DEF Phases
  <2> QED
    BY <1>2, <2>1, GaugeType DEF CreateDone
<1>5. delegate' \in [Replicas -> SUBSET Keys]
  BY DEF CreateDone, Inv, TypeOK
<1> QED
  BY <1>1, <1>3, <1>4, <1>5, DonePreserves DEF CreateDone

\* Delete: index, in-memory session and gauge.
LEMMA DeleteDoneInv ==
  ASSUME Inv, NEW p \in Procs, DeleteDone(p)
  PROVE  Inv'
<1>1. call[p].pc = "deleteDone" /\ ~At(p, "idle")
  BY DEF DeleteDone, At
<1>2. /\ call[p].rep \in Replicas /\ call[p].id \in Keys
      /\ call[p].from \in Phases \cup {NoPhase}
  BY <1>1, CallFacts DEF CreatePCs
<1>3. index' \in [Replicas -> [Keys -> Keys \cup {None}]]
  BY <1>2 DEF DeleteDone, Inv, TypeOK
<1>4. gauge' \in [Replicas -> [Phases \cup {NoPhase} -> Int]]
  BY <1>2, GaugeType DEF DeleteDone
<1>5. delegate' \in [Replicas -> SUBSET Keys]
  BY <1>2 DEF DeleteDone, Inv, TypeOK
<1> QED
  BY <1>1, <1>3, <1>4, <1>5, DonePreserves DEF DeleteDone

\* UpdatePhase: audit event, gauge and index.
LEMMA UpdateDoneInv ==
  ASSUME Inv, NEW p \in Procs, UpdateDone(p)
  PROVE  Inv'
<1>1. call[p].pc = "updateDone" /\ ~At(p, "idle")
  BY DEF UpdateDone, At
<1>2. call[p].rep \in Replicas /\ call[p].id \in Keys
  BY <1>1, CallFacts DEF CreatePCs
<1>3. index' \in [Replicas -> [Keys -> Keys \cup {None}]]
  BY <1>2 DEF UpdateDone, Inv, TypeOK
<1>4. gauge' \in [Replicas -> [Phases \cup {NoPhase} -> Int]]
  <2> DEFINE g == gauge[call[p].rep]
             h == [ph \in DOMAIN g |-> g[ph] + (IF ph = call[p].to THEN 1 ELSE 0)
                                             - (IF ph = call[p].from THEN 1 ELSE 0)]
  <2>1. g \in [Phases \cup {NoPhase} -> Int]
    BY <1>2 DEF Inv, TypeOK
  <2>2. h \in [Phases \cup {NoPhase} -> Int]
    BY <2>1, SMT
  <2>3. gauge' = [gauge EXCEPT ![call[p].rep] = h]
    BY <1>2 DEF UpdateDone, Inv, TypeOK
  <2> QED
    BY <1>2, <2>2, <2>3 DEF Inv, TypeOK
<1>5. delegate' \in [Replicas -> SUBSET Keys]
  BY DEF UpdateDone, Inv, TypeOK
<1> QED
  BY <1>1, <1>3, <1>4, <1>5, DonePreserves DEF UpdateDone

LaterPCs == PCs \ (CreatePCs \cup {"idle"})

\* The case of an UpdatePhase, Delete or AppendEvent that reads and moves on.
LEMMA ReadPreserves ==
  ASSUME Inv, NEW p \in Procs, call[p].pc \in LaterPCs,
         NEW c \in Calls, call' = [call EXCEPT ![p] = c],
         c.name = call[p].name, c.rep = call[p].rep, c.id = call[p].id,
         NoWrite(p), UNCHANGED <<local, bounded>>, Made(p)', CopyUpToDate(p)'
  PROVE  Inv'
<1>1. ~At(p, "idle") /\ call[p].pc \notin CreatePCs
  BY DEF At, LaterPCs
<1>2. call'[p] = c
  BY <1>1, CallFacts
<1>3. Named(p)'
  BY <1>1, <1>2, CallFacts DEF Named, At
<1>4. \A k \in Keys : ~Creating(p, k)
  BY <1>1 DEF Creating, CreatePCs
<1>5. UNCHANGED <<index, gauge, started, orphans>>
  BY DEF local, bounded
<1> QED
  BY <1>1, <1>3, <1>4, <1>5, CallFacts, LocalFacts, BoundedFacts, MovePreserves

\* The case of an UpdatePhase, Delete or AppendEvent that returns early.
LEMMA QuitPreserves ==
  ASSUME Inv, NEW p \in Procs, call[p].pc \in LaterPCs,
         NEW ok \in BOOLEAN, Return(p, ok), NoWrite(p), UNCHANGED <<local, bounded>>
  PROVE  Inv'
<1>1. ~At(p, "idle") /\ call[p].pc \notin CreatePCs
  BY DEF At, LaterPCs
<1>2. \A k \in Keys : Statusless(k)' => Statusless(k) /\ ~Creating(p, k)
  BY <1>1 DEF Statusless, NoWrite, Creating, CreatePCs
<1>3. Absent \in Objects \cup {Absent}
  OBVIOUS
<1> QED
  BY <1>1, <1>2, <1>3, CallFacts, LocalFacts, BoundedFacts, ReturnPreserves

\* UpdatePhase: the read that an attempt starts with, and the validation.
LEMMA UpdateGetInv ==
  ASSUME Inv, NEW p \in Procs, UpdateGet(p)
  PROVE  Inv'
<1>1. /\ call[p].pc = "get" /\ call[p].pc \in LaterPCs /\ ~At(p, "idle")
      /\ NoWrite(p) /\ UNCHANGED <<local, bounded>>
  BY DEF UpdateGet, At, LaterPCs, PCs, CreatePCs
<1>2. CASE Exists(p) /\ Validated(p)
  <2> DEFINE c == [call[p] EXCEPT !.pc = "status", !.from = From(p)]
  <2>1. From(p) \in Phases \cup {NoPhase}
    BY <1>1, <1>2, CallFacts DEF From, Objects
  <2>2. c \in Calls
    BY <1>1, <2>1, CallFacts, LocalsType DEF PCs
  <2>3. call' = [call EXCEPT ![p] = c]
    BY <1>1, <1>2, CallFacts DEF UpdateGet
  <2>4. call'[p] = c
    BY <1>1, <2>3, CallFacts
  <2>5. /\ c.pc = "status" /\ c.name = call[p].name /\ c.rep = call[p].rep
        /\ c.id = call[p].id /\ c.to = call[p].to /\ c.from = From(p)
    BY <1>1, CallFacts DEF Calls
  <2>6. Made(p)' /\ CopyUpToDate(p)'
    BY <1>1, <1>2, <2>4, <2>5 DEF Made, CopyUpToDate, At, Exists, NoWrite, From, Validated
  <2> QED
    BY <1>1, <2>2, <2>3, <2>5, <2>6, ReadPreserves
<1>3. CASE ~(Exists(p) /\ Validated(p))
  BY <1>1, <1>3, QuitPreserves DEF UpdateGet
<1> QED
  BY <1>2, <1>3

\* UpdatePhase: a write met a conflict, and the attempt is repeated or given up.
LEMMA RefusedInv ==
  ASSUME Inv, NEW p \in Procs, call[p].pc \in {"status", "label"}, Refused(p),
         UNCHANGED <<local, bounded>>
  PROVE  Inv'
<1>1. call[p].pc \in LaterPCs /\ ~At(p, "idle") /\ NoWrite(p)
  BY DEF Refused, At, LaterPCs, PCs, CreatePCs
<1>2. CASE Exists(p) /\ AttemptsLeft(p)
  <2> DEFINE c == [call[p] EXCEPT !.pc = "get", !.tries = call[p].tries + 1]
  <2>1. call[p].tries + 1 \in 1..DefaultRetrySteps
    BY <1>1, <1>2, CallFacts, ServiceAssumption, SMT DEF AttemptsLeft, Calls
  <2>2. c \in Calls
    BY <1>1, <2>1, CallFacts, LocalsType DEF PCs
  <2>3. call' = [call EXCEPT ![p] = c]
    BY <1>1, <1>2, CallFacts DEF Refused
  <2>4. call'[p] = c
    BY <1>1, <2>3, CallFacts
  <2>5. c.pc = "get" /\ c.name = call[p].name /\ c.rep = call[p].rep /\ c.id = call[p].id
    BY <1>1, CallFacts DEF Calls
  <2>6. Made(p)' /\ CopyUpToDate(p)'
    BY <2>4, <2>5 DEF Made, CopyUpToDate, At
  <2> QED
    BY <1>1, <2>2, <2>3, <2>5, <2>6, ReadPreserves
<1>3. CASE ~(Exists(p) /\ AttemptsLeft(p))
  BY <1>1, <1>3, QuitPreserves DEF Refused
<1> QED
  BY <1>2, <1>3

\* UpdatePhase: the write of the status.
LEMMA UpdateStatusInv ==
  ASSUME Inv, NEW p \in Procs, UpdateStatus(p)
  PROVE  Inv'
<1>1. /\ call[p].pc = "status" /\ At(p, "status") /\ ~At(p, "idle")
      /\ UNCHANGED <<local, bounded>>
  BY DEF UpdateStatus, At
<1>2. CASE Fresh(p)
  <2> DEFINE old == crd[call[p].name]
             obj == SetPhase(old, call[p].from, call[p].to)
             c   == [call[p] EXCEPT !.pc = "reget", !.made = <<old.phase, call[p].to>>]
  <2>1. Exists(p) /\ old.phase = call[p].from /\ ValidTransition(old.phase, call[p].to)
    BY <1>1, <1>2, CallFacts DEF CopyUpToDate
  <2>2. old.phase \in Phases /\ call[p].to \in Phases
    BY <1>1, <2>1, CallFacts DEF ValidTransition, validTransitions, Phases
  <2>a. call[p] \in Calls
    BY <1>1, CallFacts
  <2>b. "reget" \in PCs
    BY DEF PCs
  <2>c. <<old.phase, call[p].to>> \in Phases \X Phases
    BY <2>2
  <2>3. c \in Calls
    BY <2>a, <2>b, <2>c DEF Calls
  <2>4. call' = [call EXCEPT ![p] = c] /\ Write(p, call[p].name, obj)
    BY <1>1, <1>2, CallFacts DEF UpdateStatus, WritePhase
  <2>5. call'[p] = c
    BY <1>1, <2>4, CallFacts
  <2>6. /\ c.pc = "reget" /\ c.name = call[p].name /\ c.rep = call[p].rep
        /\ c.id = call[p].id /\ c.to = call[p].to /\ c.from = call[p].from
        /\ c.made = <<old.phase, call[p].to>>
    BY <1>1, CallFacts DEF Calls
  <2>7. Named(p)' /\ Made(p)' /\ CopyUpToDate(p)'
    BY <1>1, <2>1, <2>5, <2>6, CallFacts DEF Named, Made, CopyUpToDate, At, CreatePCs
  <2>8. obj \in Objects /\ Consistent(obj)
    BY <1>1, <2>1, CallFacts, WrittenConsistent
  <2>9. obj.phase # NoPhase
    BY <1>1, <2>1, <2>2, CallFacts DEF SetPhase, Objects, Phases, NoPhase
  <2> QED
    BY <1>1, <2>3, <2>4, <2>7, <2>8, <2>9, WritePreserves
<1>3. CASE ~Fresh(p)
  BY <1>1, <1>3, RefusedInv DEF UpdateStatus
<1> QED
  BY <1>2, <1>3

\* UpdatePhase: the second read.
LEMMA UpdateRegetInv ==
  ASSUME Inv, NEW p \in Procs, UpdateReget(p)
  PROVE  Inv'
<1>1. /\ call[p].pc = "reget" /\ call[p].pc \in LaterPCs /\ ~At(p, "idle")
      /\ NoWrite(p) /\ UNCHANGED <<local, bounded>>
  BY DEF UpdateReget, At, LaterPCs, PCs, CreatePCs
<1>2. CASE Exists(p)
  <2> DEFINE c == [call[p] EXCEPT !.pc = "label"]
  <2>1. c \in Calls
    BY <1>1, CallFacts, LocalsType DEF PCs
  <2>2. call' = [call EXCEPT ![p] = c]
    BY <1>2 DEF UpdateReget, Goto
  <2>3. call'[p] = c
    BY <1>1, <2>2, CallFacts
  <2>4. /\ c.pc = "label" /\ c.name = call[p].name /\ c.rep = call[p].rep /\ c.id = call[p].id
        /\ c.made = call[p].made /\ c.from = call[p].from /\ c.to = call[p].to
    BY <1>1, CallFacts DEF Calls
  <2>5. Made(p)
    BY DEF Inv
  <2>6. Made(p)' /\ CopyUpToDate(p)'
    BY <1>1, <1>2, <2>3, <2>4, <2>5 DEF Made, CopyUpToDate, At, Exists, NoWrite
  <2> QED
    BY <1>1, <2>1, <2>2, <2>4, <2>6, ReadPreserves
<1>3. CASE ~Exists(p)
  BY <1>1, <1>3, QuitPreserves DEF UpdateReget
<1> QED
  BY <1>2, <1>3

\* UpdatePhase: the write of the label.
LEMMA UpdateLabelInv ==
  ASSUME Inv, NEW p \in Procs, UpdateLabel(p)
  PROVE  Inv'
<1>1. /\ call[p].pc = "label" /\ call[p].pc \in LaterPCs /\ ~At(p, "idle")
      /\ UNCHANGED <<local, bounded>>
  BY DEF UpdateLabel, At, LaterPCs, PCs, CreatePCs
<1>2. CASE Fresh(p)
  <2> DEFINE old == crd[call[p].name]
             obj == [old EXCEPT !.label = call[p].to]
             c   == [call[p] EXCEPT !.pc = "updateDone"]
  <2>1. c \in Calls
    BY <1>1, CallFacts, LocalsType DEF PCs
  <2>2. call' = [call EXCEPT ![p] = c] /\ WriteBack(p, call[p].name, obj)
    BY <1>2 DEF UpdateLabel, Goto, WriteLabel
  <2>3. call'[p] = c
    BY <1>1, <2>2, CallFacts
  <2>4. /\ c.pc = "updateDone" /\ c.name = call[p].name /\ c.rep = call[p].rep /\ c.id = call[p].id
        /\ c.made = call[p].made /\ c.from = call[p].from /\ c.to = call[p].to
    BY <1>1, CallFacts DEF Calls
  <2>5. Made(p)
    BY DEF Inv
  <2>6. Named(p)' /\ Made(p)' /\ CopyUpToDate(p)'
    BY <1>1, <2>3, <2>4, <2>5, CallFacts DEF Named, Made, CopyUpToDate, At, CreatePCs
  <2>7. CASE NoWrite(p)
    BY <1>1, <2>1, <2>2, <2>4, <2>6, <2>7, ReadPreserves
  <2>8. CASE Write(p, call[p].name, obj)
    <3>1. Exists(p)
      BY <1>1, <1>2, CallFacts DEF CopyUpToDate
    <3>2. obj \in Objects /\ Consistent(obj)
      BY <1>1, <3>1, CallFacts, WrittenConsistent
    <3>3. obj.phase = NoPhase => Statusless(call[p].name)
      BY <1>1, <3>1, CallFacts DEF Statusless, Exists, Objects
    <3> QED
      BY <1>1, <2>1, <2>2, <2>6, <2>8, <3>2, <3>3, WritePreserves DEF At
  <2> QED
    BY <2>2, <2>7, <2>8 DEF WriteBack
<1>3. CASE ~Fresh(p)
  BY <1>1, <1>3, RefusedInv DEF UpdateLabel
<1> QED
  BY <1>2, <1>3

\* Delete: the read of the phase.
LEMMA DeleteReadInv ==
  ASSUME Inv, NEW p \in Procs, DeleteRead(p)
  PROVE  Inv'
<1> DEFINE ph == IF Exists(p) THEN crd[call[p].name].phase ELSE "Active"
           c  == [call[p] EXCEPT !.pc = "delete", !.from = ph]
<1>1. /\ call[p].pc \in LaterPCs /\ ~At(p, "idle")
      /\ NoWrite(p) /\ UNCHANGED <<local, bounded>>
  BY DEF DeleteRead, At, LaterPCs, PCs, CreatePCs
<1>2. ph \in Phases \cup {NoPhase}
  BY <1>1, CallFacts DEF Objects, Phases
<1> HIDE DEF ph
<1>3. c \in Calls
  <2>1. call[p] \in Calls /\ "delete" \in PCs
    BY <1>1, CallFacts DEF PCs
  <2> QED
    BY <1>2, <2>1, LocalsType
<1> USE DEF ph
<1>4. call' = [call EXCEPT ![p] = c]
  BY <1>1, CallFacts DEF DeleteRead
<1>5. call'[p] = c
  BY <1>1, <1>4, CallFacts
<1>6. c.pc = "delete" /\ c.name = call[p].name /\ c.rep = call[p].rep /\ c.id = call[p].id
  BY <1>1, CallFacts DEF Calls
<1>7. Made(p)' /\ CopyUpToDate(p)'
  BY <1>5, <1>6 DEF Made, CopyUpToDate, At
<1> QED
  BY <1>1, <1>3, <1>4, <1>6, <1>7, ReadPreserves

\* Delete: the deletion of the object.
LEMMA DeleteCRDInv ==
  ASSUME Inv, NEW p \in Procs, DeleteCRD(p)
  PROVE  Inv'
<1> DEFINE c == [call[p] EXCEPT !.pc = "deleteDone"]
<1>1. /\ call[p].pc = "delete" /\ ~At(p, "idle") /\ UNCHANGED <<local, bounded>>
      /\ call' = [call EXCEPT ![p] = c] /\ Write(p, call[p].name, Absent)
  BY DEF DeleteCRD, At, Goto
<1>2. c \in Calls
  BY <1>1, CallFacts, LocalsType DEF PCs
<1>3. call'[p] = c
  BY <1>1, CallFacts
<1>4. c.pc = "deleteDone" /\ c.name = call[p].name /\ c.rep = call[p].rep /\ c.id = call[p].id
  BY <1>1, CallFacts DEF Calls
<1>5. Named(p)' /\ Made(p)' /\ CopyUpToDate(p)'
  BY <1>1, <1>3, <1>4, CallFacts DEF Named, Made, CopyUpToDate, At, CreatePCs
<1>6. Absent \in Objects \cup {Absent}
  OBVIOUS
<1> QED
  BY <1>1, <1>2, <1>5, <1>6, WritePreserves

\* AppendEvent: its read and its write.
LEMMA AppendInv ==
  ASSUME Inv, NEW p \in Procs, AppendGet(p) \/ AppendTouch(p)
  PROVE  Inv'
<1>1. /\ call[p].pc \in LaterPCs /\ ~At(p, "idle") /\ UNCHANGED <<local, bounded>>
  BY DEF AppendGet, AppendTouch, At, LaterPCs, PCs, CreatePCs
<1>2. CASE AppendGet(p) /\ Exists(p)
  <2> DEFINE c == [call[p] EXCEPT !.pc = "appendTouch"]
  <2>1. c \in Calls
    BY <1>1, CallFacts, LocalsType DEF PCs
  <2>2. call' = [call EXCEPT ![p] = c] /\ NoWrite(p)
    BY <1>2 DEF AppendGet, Goto
  <2>3. call'[p] = c
    BY <1>1, <2>2, CallFacts
  <2>4. c.pc = "appendTouch" /\ c.name = call[p].name /\ c.rep = call[p].rep /\ c.id = call[p].id
    BY <1>1, CallFacts DEF Calls
  <2>5. Made(p)' /\ CopyUpToDate(p)'
    BY <1>2, <2>2, <2>3, <2>4 DEF Made, CopyUpToDate, At, Exists, NoWrite
  <2> QED
    BY <1>1, <2>1, <2>2, <2>4, <2>5, ReadPreserves
<1>3. CASE AppendGet(p) /\ ~Exists(p)
  BY <1>1, <1>3, QuitPreserves DEF AppendGet
<1>4. CASE AppendTouch(p) /\ NoWrite(p)
  BY <1>1, <1>4, QuitPreserves DEF AppendTouch
<1>5. CASE AppendTouch(p) /\ ~NoWrite(p)
  <2> DEFINE n == call[p].name
  <2>1. Return(p, TRUE) /\ Fresh(p) /\ Write(p, n, crd[n]) /\ At(p, "appendTouch")
    BY <1>5 DEF AppendTouch, WriteBack
  <2>2. Exists(p)
    BY <1>1, <2>1, CallFacts DEF CopyUpToDate, At
  <2>3. crd[n] \in Objects /\ Consistent(crd[n]) /\ n \in Keys
    BY <1>1, <2>2, CallFacts
  <2>4. \A k \in Keys : Statusless(k)' => Statusless(k) /\ ~Creating(p, k)
    BY <1>1, <2>1, CallFacts DEF Statusless, Write, Creating, At
  <2> QED
    BY <1>1, <2>1, <2>3, <2>4, LocalFacts, BoundedFacts, ReturnPreserves
<1> QED
  BY <1>2, <1>3, <1>4, <1>5

\* A request fails, whether or not it has had its effect at the API server.
LEMMA ErrorPreserves ==
  ASSUME Inv, NEW p \in Procs, ~At(p, "idle"), OnError(p),
         NEW obj \in Objects \cup {Absent},
         \/ NoWrite(p)
         \/ Write(p, call[p].name, obj) /\ (obj # Absent => Consistent(obj)),
         UNCHANGED <<local, started>>, faults' \in 0..MaxFaults,
         orphans \subseteq orphans', orphans' \subseteq Keys,
         \A k \in Keys : Statusless(k)' =>
           (Statusless(k) /\ ~(At(p, "createRollback") /\ call[p].name = k)) \/ k \in orphans'
  PROVE  Inv'
<1>1. call' \in [Procs -> Calls]
  BY MovesType DEF Inv
<1>2. started' \in 0..MaxCalls
  BY DEF Inv, TypeOK
<1>3. CASE At(p, "createStatus") \/ At(p, "createDelegate")
  <2> DEFINE c == [call[p] EXCEPT !.pc = "createRollback"]
  <2>1. call' = [call EXCEPT ![p] = c]
    <3>1. RollBack(p)
      BY <1>3 DEF OnError, At
    <3> QED
      BY <3>1 DEF RollBack, Goto
  <2>2. call'[p] = c /\ \A q \in Procs \ {p} : call'[q] = call[q]
    BY <2>1, CallFacts
  <2>3. c.pc = "createRollback" /\ c.name = call[p].name /\ c.rep = call[p].rep
    BY CallFacts DEF Calls
  <2>4. Named(p)' /\ Made(p)' /\ CopyUpToDate(p)'
    BY <2>2, <2>3, CallFacts DEF Named, Made, CopyUpToDate, At, CreatePCs
  <2>5. \A k \in Keys : Statusless(k)' =>
          (Statusless(k) /\ ~Creating(p, k)) \/ k \in orphans' \/ Creating(p, k)'
    BY <2>2, <2>3 DEF Creating
  <2> QED
    BY <1>1, <1>2, <2>2, <2>4, <2>5, CallFacts, LocalFacts, StepPreserves
<1>4. CASE At(p, "deleteRead") \/ At(p, "delete")
  <2>1. PICK pc \in {"delete", "deleteDone"}, ph \in Phases \cup {NoPhase} :
          call' = [call EXCEPT ![p] = [call[p] EXCEPT !.pc = pc, !.from = ph]]
    <3>1. CASE At(p, "deleteRead")
      BY <3>1, CallFacts DEF OnError, At, Phases
    <3>2. CASE At(p, "delete")
      <4>1. [call[p] EXCEPT !.pc = "deleteDone"]
              = [call[p] EXCEPT !.pc = "deleteDone", !.from = call[p].from]
        BY CallFacts DEF Calls
      <4> QED
        BY <3>2, <4>1, CallFacts DEF OnError, At, Goto
    <3> QED
      BY <1>4, <3>1, <3>2
  <2> DEFINE c == [call[p] EXCEPT !.pc = pc, !.from = ph]
  <2>2. call'[p] = c /\ \A q \in Procs \ {p} : call'[q] = call[q]
    BY <2>1, CallFacts
  <2>3. /\ c.pc \in {"delete", "deleteDone"}
        /\ c.name = call[p].name /\ c.rep = call[p].rep /\ c.id = call[p].id
    BY CallFacts DEF Calls
  <2>4. call[p].pc \notin CreatePCs
    BY <1>4 DEF At, CreatePCs
  <2>5. Named(p)' /\ Made(p)' /\ CopyUpToDate(p)'
    BY <2>2, <2>3, <2>4, CallFacts DEF Named, Made, CopyUpToDate, At
  <2>6. \A k \in Keys : ~Creating(p, k)
    BY <2>4 DEF Creating, CreatePCs
  <2> QED
    BY <1>1, <1>2, <2>2, <2>5, <2>6, CallFacts, LocalFacts, StepPreserves
<1>5. CASE ~(At(p, "createStatus") \/ At(p, "createDelegate") \/ At(p, "deleteRead") \/ At(p, "delete"))
  <2>1. \E ok \in BOOLEAN : Return(p, ok)
    BY <1>5 DEF OnError
  <2>2. \A k \in Keys : Statusless(k)' => (Statusless(k) /\ ~Creating(p, k)) \/ k \in orphans'
    BY <1>5 DEF Creating, At
  <2> QED
    BY <1>2, <2>1, <2>2, CallFacts, LocalFacts, ReturnPreserves
<1> QED
  BY <1>3, <1>4, <1>5

\* A fault is counted and stays within its bound.
LEMMA SpendFacts ==
  ASSUME Inv, Spend
  PROVE  faults' \in 0..MaxFaults
  BY ServiceAssumption, SMT DEF Inv, TypeOK, Spend

\* A request of a call fails without having been carried out.
LEMMA RequestFailsInv ==
  ASSUME Inv, NEW p \in Procs, RequestFails(p)
  PROVE  Inv'
<1>1. ~At(p, "idle") /\ Spend /\ OnError(p) /\ NoWrite(p) /\ UNCHANGED <<local, started>>
  BY DEF RequestFails, At
<1>2. /\ orphans \subseteq orphans'
      /\ orphans' \subseteq Keys
      /\ At(p, "createRollback") => call[p].name \in orphans'
  BY <1>1, CallFacts DEF RequestFails, Inv, TypeOK
<1>3. \A k \in Keys : Statusless(k)' =>
        (Statusless(k) /\ ~(At(p, "createRollback") /\ call[p].name = k)) \/ k \in orphans'
  BY <1>1, <1>2 DEF Statusless, NoWrite
<1>4. Absent \in Objects \cup {Absent}
  OBVIOUS
<1> QED
  BY <1>1, <1>2, <1>3, <1>4, SpendFacts, ErrorPreserves

\* A request of a call is carried out and its reply is lost.
LEMMA ReplyLostInv ==
  ASSUME Inv, NEW p \in Procs, ReplyLost(p)
  PROVE  Inv'
<1> DEFINE n == call[p].name
<1>1. ~At(p, "idle") /\ ~At(p, "createRollback")
  BY DEF ReplyLost, At
<1>2. Spend /\ OnError(p) /\ UNCHANGED <<local, started>>
  BY DEF ReplyLost
<1>3. /\ orphans \subseteq orphans' /\ orphans' \subseteq Keys
      /\ At(p, "create") => n \in orphans'
  BY <1>1, CallFacts DEF ReplyLost, Inv, TypeOK
<1>4. \/ NoWrite(p)
      \/ \E obj \in Objects : /\ Write(p, n, obj) /\ Consistent(obj)
                              /\ obj.phase = NoPhase => Statusless(n) \/ n \in orphans'
  <2>1. CASE At(p, "create") /\ Write(p, n, NewObject)
    BY <1>3, <2>1, NewObjectConsistent
  <2>2. CASE At(p, "createStatus") /\ Fresh(p) /\ Write(p, n, Activated(crd[n]))
    <3>1. Exists(p) /\ crd[n].phase = NoPhase
      BY <1>1, <2>2, CallFacts DEF CopyUpToDate
    <3>2. Statusless(n)
      BY <3>1 DEF Statusless, Exists
    <3>3. Activated(crd[n]) \in Objects /\ Consistent(Activated(crd[n]))
      BY <1>1, <3>1, CallFacts, WrittenConsistent
    <3> QED
      BY <2>2, <3>2, <3>3
  <2>3. CASE At(p, "status") /\ Fresh(p) /\ WritePhase(p)
    <3> DEFINE obj == SetPhase(crd[n], call[p].from, call[p].to)
    <3>1. Exists(p) /\ crd[n].phase = call[p].from /\ ValidTransition(crd[n].phase, call[p].to)
      BY <1>1, <2>3, CallFacts DEF CopyUpToDate
    <3>2. obj \in Objects /\ Consistent(obj)
      BY <1>1, <3>1, CallFacts, WrittenConsistent
    <3>3. obj.phase # NoPhase
      BY <1>1, <3>1, CallFacts DEF SetPhase, Objects, Phases, NoPhase
    <3> QED
      BY <2>3, <3>2, <3>3 DEF WritePhase
  <2>4. CASE At(p, "label") /\ Fresh(p) /\ WriteLabel(p)
    <3> DEFINE obj == [crd[n] EXCEPT !.label = call[p].to]
    <3>1. Exists(p)
      BY <1>1, <2>4, CallFacts DEF CopyUpToDate, At
    <3>2. obj \in Objects /\ Consistent(obj)
      BY <1>1, <3>1, CallFacts, WrittenConsistent
    <3>3. obj.phase = NoPhase => Statusless(n)
      BY <1>1, <3>1, CallFacts DEF Statusless, Exists, Objects
    <3> QED
      BY <2>4, <3>2, <3>3 DEF WriteLabel, WriteBack
  <2> QED
    BY <2>1, <2>2, <2>3, <2>4 DEF ReplyLost
<1>5. CASE NoWrite(p)
  <2>1. \A k \in Keys : Statusless(k)' => Statusless(k)
    BY <1>5 DEF NoWrite, Statusless
  <2>2. Absent \in Objects \cup {Absent}
    OBVIOUS
  <2> QED
    BY <1>1, <1>2, <1>3, <1>5, <2>1, <2>2, SpendFacts, ErrorPreserves
<1>6. ASSUME NEW obj \in Objects, Write(p, n, obj), Consistent(obj),
             obj.phase = NoPhase => Statusless(n) \/ n \in orphans'
      PROVE  Inv'
  <2>1. \A k \in Keys : Statusless(k)' => Statusless(k) \/ k \in orphans'
    BY <1>1, <1>6, CallFacts DEF Write, Statusless
  <2>2. obj \in Objects \cup {Absent}
    OBVIOUS
  <2> QED
    BY <1>1, <1>2, <1>3, <1>6, <2>1, <2>2, SpendFacts, ErrorPreserves
<1> QED
  BY <1>4, <1>5, <1>6

\* A pod restarts.
LEMMA RestartInv ==
  ASSUME Inv, NEW r \in Replicas, Restart(r)
  PROVE  Inv'
<1>1. /\ call' \in [Procs -> Calls] /\ UNCHANGED crd
      /\ \A p \in Procs : call'[p] = IF call[p].rep = r THEN Idle ELSE call[p]
      /\ \A p \in Procs : call[p].rep # r => (p \in stale' <=> p \in stale)
  BY IdleType DEF Inv, TypeOK, Restart
<1>2. index' \in [Replicas -> [Keys -> Keys \cup {None}]]
  BY DEF Inv, TypeOK, Restart
<1>3. gauge' \in [Replicas -> [Phases \cup {NoPhase} -> Int]]
  BY SMT DEF Inv, TypeOK, Restart
<1>4. delegate' \in [Replicas -> SUBSET Keys] /\ orphans' \subseteq Keys /\ stale' \subseteq Procs
  BY DEF Inv, TypeOK, Restart
<1>5. TypeOK'
  BY <1>1, <1>2, <1>3, <1>4, SpendFacts DEF Inv, TypeOK, Restart
<1>6. ASSUME NEW p \in Procs
      PROVE  Named(p)' /\ Made(p)' /\ (Fresh(p)' => CopyUpToDate(p)')
  <2>1. CASE call[p].rep = r
    <3>1. call'[p].pc = "idle"
      BY <1>1, <2>1, SMT DEF Idle
    <3>2. Named(p)' /\ Made(p)'
      BY <3>1 DEF Named, Made, At
    <3>3. CopyUpToDate(p)'
      BY <3>1 DEF CopyUpToDate, At
    <3> QED
      BY <3>2, <3>3
  <2>2. CASE call[p].rep # r
    BY <1>1, <2>2 DEF Inv, CopiesUpToDate, Named, Made, CopyUpToDate, At, Fresh, Exists
  <2> QED
    BY <2>1, <2>2
<1>7. TimestampsMatchPhase'
  BY <1>1 DEF Inv, TimestampsMatchPhase
<1>8. ASSUME NEW k \in Keys, Statusless(k)', k \notin orphans'
      PROVE  \E p \in Procs : Creating(p, k)'
  <2>1. k \notin orphans /\ Statusless(k)
    BY <1>1, <1>8 DEF Restart, Statusless
  <2>2. PICK p \in Procs : Creating(p, k)
    BY <2>1 DEF Inv, StatuslessHasCreator
  <2>3. call[p].rep # r
    BY <1>8, <2>2 DEF Restart
  <2> QED
    BY <1>1, <2>2, <2>3 DEF Creating
<1> QED
  BY <1>5, <1>6, <1>7, <1>8 DEF Inv, CopiesUpToDate, StatuslessHasCreator

-----------------------------------------------------------------------------
(* The theorems.                                                            *)

\* Inv holds before the first call.
LEMMA InitInv == Init => Inv
<1> SUFFICES ASSUME Init PROVE Inv
  OBVIOUS
<1>1. TypeOK
  BY IdleType, ServiceAssumption, SMT DEF Init, TypeOK
<1>2. \A p \in Procs : call[p] = Idle
  BY DEF Init
<1>3. \A p \in Procs : Named(p) /\ Made(p) /\ CopyUpToDate(p)
  <2>1. \A p \in Procs : call[p].pc = "idle"
    BY <1>2, SMT DEF Idle
  <2>2. \A p \in Procs : Named(p) /\ Made(p)
    BY <2>1 DEF Named, Made, At
  <2>3. \A p \in Procs : CopyUpToDate(p)
    BY <2>1 DEF CopyUpToDate, At
  <2> QED
    BY <2>2, <2>3
<1>4. TimestampsMatchPhase /\ StatuslessHasCreator
  BY DEF Init, TimestampsMatchPhase, StatuslessHasCreator, Statusless
<1> QED
  BY <1>1, <1>3, <1>4 DEF Inv, CopiesUpToDate

\* Every step preserves Inv.
LEMMA NextInv ==
  ASSUME Inv, [Next]_vars
  PROVE  Inv'
<1>1. ASSUME NEW p \in Procs, CallStep(p) PROVE Inv'
  BY <1>1, CreateCRDInv, CreateStatusInv, CreateDelegateInv, CreateRollbackInv, CreateDoneInv,
     UpdateGetInv, UpdateStatusInv, UpdateRegetInv, UpdateLabelInv, UpdateDoneInv,
     DeleteReadInv, DeleteCRDInv, DeleteDoneInv, AppendInv DEF CallStep
<1>2. ASSUME NEW p \in Procs, FaultStep(p) PROVE Inv'
  BY <1>2, RequestFailsInv, ReplyLostInv DEF FaultStep
<1>3. CASE UNCHANGED vars
  BY <1>3 DEF vars, Inv, TypeOK, Named, Made, CopiesUpToDate, CopyUpToDate, Fresh, At, Exists,
              TimestampsMatchPhase, StatuslessHasCreator, Statusless, Creating
<1> QED
  BY <1>1, <1>2, <1>3, ClientStepInv, RestartInv DEF Next

\* The checked properties hold together with what makes them inductive.
THEOREM Invariance == Spec => []Inv
  BY InitInv, NextInv, PTL DEF Spec

\* SessionService is type correct: no call makes more attempts than
\* RetryOnConflict allows or refers to an object or a replica it does not have.
THEOREM TypeCorrect == Spec => []TypeOK
<1>1. Inv => TypeOK
  BY DEF Inv
<1> QED
  BY <1>1, Invariance, PTL

\* A write of Create, UpdatePhase or AppendEvent that the API server accepts is
\* based on what the object still is.
THEOREM WritesAreUpToDate == Spec => []CopiesUpToDate
<1>1. Inv => CopiesUpToDate
  BY DEF Inv
<1> QED
  BY <1>1, Invariance, PTL

\* The event and the gauge step of UpdatePhase report the transition the call
\* wrote, after any number of conflicts.
THEOREM AuditIsTruthful == Spec => []AuditReportsCommit
<1>1. Inv => AuditReportsCommit
  BY DEF Inv, AuditReportsCommit, Made, At
<1> QED
  BY <1>1, Invariance, PTL

\* The timestamps and the connection state agree with the phase, so that the
\* TTL controller never meets a phase without the time it measures from.
THEOREM TimestampsCorrect == Spec => []TimestampsMatchPhase
<1>1. Inv => TimestampsMatchPhase
  BY DEF Inv
<1> QED
  BY <1>1, Invariance, PTL

\* Only a lost reply, a failed rollback or a restart leaves an object without
\* a status behind.
THEOREM CreateCleansUp == Spec => []StatuslessHasCreator
<1>1. Inv => StatuslessHasCreator
  BY DEF Inv
<1> QED
  BY <1>1, Invariance, PTL

-----------------------------------------------------------------------------
(* Refinement of the abstract life cycle.                                   *)

\* The phases change by a transition of the table, a creation, an activation
\* or a removal whenever one object is replaced in one of these ways.
LEMMA WriteImplements ==
  ASSUME NEW p \in Procs, NEW n \in Keys, NEW obj \in Objects \cup {Absent},
         crd \in [Keys -> Objects \cup {Absent}], Write(p, n, obj),
         \/ obj = Absent
         \/ obj # Absent /\ crd[n] = Absent /\ obj.phase = NoPhase
         \/ obj # Absent /\ crd[n] # Absent /\ obj.phase = crd[n].phase
         \/ obj # Absent /\ crd[n] # Absent /\ crd[n].phase = NoPhase /\ obj.phase = "Active"
         \/ obj # Absent /\ crd[n] # Absent /\ ValidTransition(crd[n].phase, obj.phase)
  PROVE  [Lifecycle!Next]_[k \in Keys |-> IF crd[k] = Absent THEN Absent ELSE crd[k].phase]
<1> DEFINE P == [k \in Keys |-> IF crd[k] = Absent THEN Absent ELSE crd[k].phase]
           ph == IF obj = Absent THEN Absent ELSE obj.phase
<1>1. P' = [P EXCEPT ![n] = ph]
  BY DEF Write
<1>2. P[n] = IF crd[n] = Absent THEN Absent ELSE crd[n].phase
  OBVIOUS
<1>3. CASE obj = Absent
  <2>1. CASE crd[n] = Absent
    BY <1>1, <1>2, <1>3, <2>1
  <2>2. CASE crd[n] # Absent
    <3>1. P[n] # Absent
      BY <1>2, <2>2, ServiceAssumption DEF Objects
    <3>2. Lifecycle!Remove(n)
      BY <1>1, <1>3, <3>1 DEF Lifecycle!Remove
    <3> QED
      BY <3>2 DEF Lifecycle!Next
  <2> QED
    BY <2>1, <2>2
<1>4. CASE obj # Absent /\ crd[n] = Absent /\ obj.phase = NoPhase
  <2>1. Lifecycle!Create(n)
    BY <1>1, <1>2, <1>4 DEF Lifecycle!Create, Lifecycle!NoPhase, NoPhase
  <2> QED
    BY <2>1 DEF Lifecycle!Next
<1>5. CASE obj # Absent /\ crd[n] # Absent /\ obj.phase = crd[n].phase
  BY <1>1, <1>2, <1>5
<1>6. CASE obj # Absent /\ crd[n] # Absent /\ crd[n].phase = NoPhase /\ obj.phase = "Active"
  <2>1. Lifecycle!Activate(n)
    BY <1>1, <1>2, <1>6 DEF Lifecycle!Activate, Lifecycle!NoPhase, NoPhase
  <2> QED
    BY <2>1 DEF Lifecycle!Next
<1>7. CASE obj # Absent /\ crd[n] # Absent /\ ValidTransition(crd[n].phase, obj.phase)
  <2>1. obj.phase \in Phases
    BY <1>7 DEF ValidTransition, validTransitions, Phases
  <2>2. Lifecycle!ValidTransition(P[n], obj.phase)
    BY <1>2, <1>7 DEF ValidTransition, validTransitions, Lifecycle!ValidTransition, Lifecycle!validTransitions
  <2>3. Lifecycle!Transition(n)
    BY <1>1, <1>7, <2>1, <2>2 DEF Lifecycle!Transition, Lifecycle!Phases, Phases
  <2> QED
    BY <2>3 DEF Lifecycle!Next
<1> QED
  BY <1>3, <1>4, <1>5, <1>6, <1>7

\* Every step either leaves the objects alone or is such a replacement.
LEMMA NextImplements ==
  ASSUME Inv, [Next]_vars
  PROVE  [Lifecycle!Next]_[k \in Keys |-> IF crd[k] = Absent THEN Absent ELSE crd[k].phase]
<1> DEFINE P == [k \in Keys |-> IF crd[k] = Absent THEN Absent ELSE crd[k].phase]
           Simulates == [Lifecycle!Next]_P
<1>1. ASSUME UNCHANGED crd PROVE Simulates
  BY <1>1
<1>2. ASSUME NEW p \in Procs, CallStep(p) \/ FaultStep(p), ~UNCHANGED crd
      PROVE  Simulates
  <2> DEFINE n == call[p].name
             W(obj) == obj \in Objects \cup {Absent} /\ Write(p, n, obj)
  <2>0. ~At(p, "idle")
    BY <1>2 DEF CallStep, FaultStep, CreateCRD, CreateStatus, CreateDelegate, CreateRollback,
                CreateDone, UpdateGet, UpdateStatus, UpdateReget, UpdateLabel, UpdateDone,
                DeleteRead, DeleteCRD, DeleteDone, AppendGet, AppendTouch, RequestFails,
                ReplyLost, At
  <2>1. n \in Keys /\ crd \in [Keys -> Objects \cup {Absent}]
    BY <2>0, CallFacts
  <2>2. \/ CreateCRD(p) \/ CreateStatus(p) \/ CreateRollback(p) \/ UpdateStatus(p)
        \/ UpdateLabel(p) \/ DeleteCRD(p) \/ AppendTouch(p) \/ ReplyLost(p)
    BY <1>2 DEF CallStep, FaultStep, CreateDelegate, CreateDone, UpdateGet, UpdateReget,
                UpdateDone, DeleteRead, DeleteDone, AppendGet, RequestFails, NoWrite
  <2>3. \/ Write(p, n, Absent)
        \/ ~Exists(p) /\ Write(p, n, NewObject)
        \/ At(p, "createStatus") /\ Fresh(p) /\ Write(p, n, Activated(crd[n]))
        \/ At(p, "status") /\ Fresh(p) /\ WritePhase(p)
        \/ At(p, "label") /\ Fresh(p) /\ Write(p, n, [crd[n] EXCEPT !.label = call[p].to])
        \/ At(p, "appendTouch") /\ Write(p, n, crd[n])
    BY <1>2, <2>2 DEF CreateCRD, CreateStatus, CreateRollback, UpdateStatus, UpdateLabel,
                      DeleteCRD, AppendTouch, ReplyLost, WriteLabel, WriteBack, Refused, NoWrite
  <2>4. CASE Write(p, n, Absent)
    BY <2>1, <2>4, WriteImplements
  <2>5. CASE ~Exists(p) /\ Write(p, n, NewObject)
    <3>1. crd[n] = Absent /\ NewObject.phase = NoPhase
      BY <2>5 DEF Exists, NewObject
    <3> QED
      BY <2>1, <2>5, <3>1, NewObjectConsistent, WriteImplements
  <2>6. CASE At(p, "createStatus") /\ Fresh(p) /\ Write(p, n, Activated(crd[n]))
    <3>1. Exists(p) /\ crd[n].phase = NoPhase
      BY <2>0, <2>6, CallFacts DEF CopyUpToDate
    <3>2. Activated(crd[n]) \in Objects /\ Activated(crd[n]).phase = "Active"
      <4>1. Activated(crd[n]) \in Objects
        BY <2>0, <3>1, CallFacts, WrittenConsistent
      <4>2. Activated(crd[n]).phase = "Active"
        BY <2>0, <3>1, CallFacts DEF Activated, Objects
      <4> QED
        BY <4>1, <4>2
    <3>3. Activated(crd[n]) # Absent /\ crd[n] # Absent
      BY <3>1, <3>2, ServiceAssumption DEF Exists
    <3> QED
      BY <2>1, <2>6, <3>1, <3>2, <3>3, WriteImplements
  <2>7. CASE At(p, "status") /\ Fresh(p) /\ WritePhase(p)
    <3> DEFINE obj == SetPhase(crd[n], call[p].from, call[p].to)
    <3>1. Exists(p) /\ crd[n].phase = call[p].from /\ ValidTransition(crd[n].phase, call[p].to)
      BY <2>0, <2>7, CallFacts DEF CopyUpToDate
    <3>2. obj \in Objects /\ obj.phase = call[p].to
      <4>1. obj \in Objects
        BY <2>0, <3>1, CallFacts, WrittenConsistent
      <4>2. obj.phase = call[p].to
        BY <2>0, <3>1, CallFacts DEF SetPhase, Objects
      <4> QED
        BY <4>1, <4>2
    <3>3. obj # Absent /\ crd[n] # Absent
      BY <3>1, <3>2, ServiceAssumption DEF Exists
    <3>4. Write(p, n, obj)
      BY <2>7 DEF WritePhase
    <3> QED
      BY <2>1, <3>1, <3>2, <3>3, <3>4, WriteImplements
  <2>8. CASE At(p, "label") /\ Fresh(p) /\ Write(p, n, [crd[n] EXCEPT !.label = call[p].to])
    <3> DEFINE obj == [crd[n] EXCEPT !.label = call[p].to]
    <3>1. Exists(p)
      BY <2>0, <2>8, CallFacts DEF CopyUpToDate, At
    <3>2. obj \in Objects /\ obj.phase = crd[n].phase
      <4>1. obj \in Objects
        BY <2>0, <3>1, CallFacts, WrittenConsistent
      <4>2. obj.phase = crd[n].phase
        BY <2>0, <3>1, CallFacts DEF Objects
      <4> QED
        BY <4>1, <4>2
    <3>3. obj # Absent /\ crd[n] # Absent
      BY <3>1, <3>2, ServiceAssumption DEF Exists
    <3> QED
      BY <2>1, <2>8, <3>2, <3>3, WriteImplements
  <2>9. CASE At(p, "appendTouch") /\ Write(p, n, crd[n])
    BY <1>1, <2>1, <2>9 DEF Write
  <2> QED
    BY <2>3, <2>4, <2>5, <2>6, <2>7, <2>8, <2>9
<1>3. ASSUME NEW p \in Procs, ClientStep(p) PROVE UNCHANGED crd
  BY <1>3 DEF ClientStep, BeginCreate, BeginUpdatePhase, BeginDelete, BeginAppend, ClientCall, NoWrite
<1>4. ASSUME NEW r \in Replicas, Restart(r) PROVE UNCHANGED crd
  BY <1>4 DEF Restart
<1>5. ASSUME UNCHANGED vars PROVE UNCHANGED crd
  BY <1>5 DEF vars
<1>6. CASE UNCHANGED crd
  BY <1>1, <1>6
<1>7. CASE ~UNCHANGED crd
  BY <1>2, <1>3, <1>4, <1>5, <1>7 DEF Next
<1> QED
  BY <1>6, <1>7

\* The session service implements the abstract life cycle: whatever calls of
\* all replicas interleave and fail, a phase changes along the table and a
\* terminal phase is left by the deletion of its object only.
THEOREM Refinement == Spec => ImplementsLifecycle
<1>1. Init => Lifecycle!Init
  BY DEF Init, Lifecycle!Init
<1>2. Inv /\ [Next]_vars => [Lifecycle!Next]_[k \in Keys |-> IF crd[k] = Absent THEN Absent ELSE crd[k].phase]
  BY NextImplements
<1> QED
  BY <1>1, <1>2, Invariance, PTL DEF Spec, ImplementsLifecycle, Lifecycle!Spec

==============================================================================
