-------------------------- MODULE RemediationProofs --------------------------
(* Theorems about the tools of the Kubernetes API, for any number of         *)
(* replicas and callers and any length of time.                              *)
EXTENDS RemediationTools, FiniteSetTheorems, WellFoundedInduction, TLAPS

\* First-order and set reasoning is Zenon's; a leaf with arithmetic, sequences or
\* the fields of records cites SMT.
USE ZenonT(30)

-----------------------------------------------------------------------------
(* Types.                                                                   *)

Phases == {"absent", "unfinished", "Completed", "Cancelled"}

Objs == [phase : Phases, by : Replicas \cup {"nobody", "late"}]

Flights == [pc : {"none", "check", "create"}, leader : Callers \cup {"nobody"}, name : Names]

CallRecs ==
  [pc : {"idle", "leading", "following", "told", "cancelling", "watching"},
   live : SUBSET Names, rr : Names, queue : Seq(Phases), open : BOOLEAN]

Creating == {"leading", "following"}

\* The types of the variables.
Typed ==
  /\ now \in Names /\ late \subseteq Names /\ long \in BOOLEAN
  /\ rr \in [Names -> Objs]
  /\ flight \in [Replicas -> Flights]
  /\ call \in [Callers -> CallRecs]

\* The records that stand for nothing.
LEMMA Nothing ==
  /\ 0 \in Names /\ Absent \in Objs /\ NoFlight \in Flights /\ Idle \in CallRecs
  /\ NoFlight.pc = "none" /\ Idle.pc = "idle" /\ Absent.phase = "absent"
<1>1. 0 \in Names
  BY RemediationAssumption, SMT DEF Names
<1>2. Absent \in Objs /\ Absent.phase = "absent"
  BY DEF Absent, Objs, Phases
<1>3. NoFlight \in Flights /\ NoFlight.pc = "none"
  BY <1>1 DEF NoFlight, Flights
<1>4. Idle \in CallRecs /\ Idle.pc = "idle"
  <2>1. <<>> \in Seq(Phases)
    BY SMT
  <2>2. QED
    BY <1>1, <2>1 DEF Idle, CallRecs
<1>5. QED
  BY <1>1, <1>2, <1>3, <1>4

\* A change of an object reaches the watches and the creations under way.
LEMMA NotifyCalls ==
  ASSUME NEW calls \in [Callers -> CallRecs], NEW n \in Names, NEW obj \in Objs
  PROVE  /\ Notify(n, obj, calls) \in [Callers -> CallRecs]
         /\ \A c \in Callers :
              /\ Notify(n, obj, calls)[c].pc = calls[c].pc
              /\ Notify(n, obj, calls)[c].rr = calls[c].rr
              /\ Notify(n, obj, calls)[c].live =
                   IF calls[c].pc \in Creating /\ obj.phase = "unfinished" THEN calls[c].live \cup {n}
                   ELSE calls[c].live
<1> DEFINE told(k) == IF k.pc = "watching" /\ k.rr = n /\ k.open
                      THEN IF Len(k.queue) < MaxLag
                           THEN [k EXCEPT !.queue = Append(@, obj.phase)]
                           ELSE [k EXCEPT !.open = FALSE]
                      ELSE IF k.pc \in {"leading", "following"} /\ obj.phase = "unfinished"
                      THEN [k EXCEPT !.live = @ \cup {n}]
                      ELSE k
<1>1. Notify(n, obj, calls) = [c \in Callers |-> told(calls[c])]
  BY DEF Notify
<1>2. ASSUME NEW k \in CallRecs
      PROVE  /\ told(k) \in CallRecs /\ told(k).pc = k.pc /\ told(k).rr = k.rr
             /\ told(k).live = IF k.pc \in Creating /\ obj.phase = "unfinished" THEN k.live \cup {n} ELSE k.live
  <2> DEFINE q == Append(k.queue, obj.phase)
             l == k.live \cup {n}
  <2>1. q \in Seq(Phases) /\ l \in SUBSET Names
    BY SMT DEF CallRecs, Objs
  <2>2. told(k) = IF k.pc = "watching" /\ k.rr = n /\ k.open
                  THEN IF Len(k.queue) < MaxLag THEN [k EXCEPT !.queue = q] ELSE [k EXCEPT !.open = FALSE]
                  ELSE IF k.pc \in {"leading", "following"} /\ obj.phase = "unfinished" THEN [k EXCEPT !.live = l]
                  ELSE k
    OBVIOUS
  <2> HIDE DEF q, told
  <2>3. CASE told(k) = [k EXCEPT !.queue = q] /\ k.pc = "watching"
    BY <2>1, <2>3 DEF CallRecs, Creating
  <2>4. CASE told(k) = [k EXCEPT !.open = FALSE] /\ k.pc = "watching"
    BY <2>4 DEF CallRecs, Creating
  <2>5. CASE told(k) = [k EXCEPT !.live = l] /\ k.pc \in Creating /\ obj.phase = "unfinished"
    BY <2>1, <2>5 DEF CallRecs, Creating
  <2>6. CASE told(k) = k /\ ~(k.pc \in Creating /\ obj.phase = "unfinished")
    BY <2>6
  <2>7. QED
    BY <2>2, <2>3, <2>4, <2>5, <2>6 DEF Creating
<1> HIDE DEF told
<1>3. QED
  BY <1>1, <1>2

\* The result of a flight reaches the leader and those that follow it.
LEMMA LandCalls ==
  ASSUME Typed, NEW calls \in [Callers -> CallRecs], NEW p \in Replicas, NEW n \in Names,
         Land(p, n, calls)
  PROVE  /\ flight' = [flight EXCEPT ![p] = NoFlight]
         /\ call' \in [Callers -> CallRecs]
         /\ \A c \in Callers :
              IF replica[c] = p /\ calls[c].pc \in Creating
              THEN call'[c].pc = "told" /\ call'[c].rr = n /\ call'[c].live = calls[c].live \cap {n}
              ELSE call'[c] = calls[c]
<1> DEFINE landed(k) == [k EXCEPT !.pc = "told", !.rr = n, !.live = @ \cap {n}]
<1>1. /\ flight' = [flight EXCEPT ![p] = NoFlight]
      /\ call' = [c \in Callers |-> IF replica[c] = p /\ calls[c].pc \in Creating
                                    THEN landed(calls[c]) ELSE calls[c]]
  BY DEF Land, Creating
<1>2. ASSUME NEW k \in CallRecs
      PROVE  landed(k) \in CallRecs /\ landed(k).pc = "told" /\ landed(k).rr = n /\ landed(k).live = k.live \cap {n}
  BY DEF CallRecs
<1> HIDE DEF landed
<1>3. QED
  BY <1>1, <1>2

\* Its error ends their calls.
LEMMA LandErrorCalls ==
  ASSUME Typed, NEW p \in Replicas, LandError(p)
  PROVE  /\ flight' = [flight EXCEPT ![p] = NoFlight]
         /\ call' \in [Callers -> CallRecs]
         /\ \A c \in Callers :
              call'[c] = IF replica[c] = p /\ call[c].pc \in Creating THEN Idle ELSE call[c]
  BY Nothing DEF LandError, Typed, Creating

-----------------------------------------------------------------------------
(* The inductive invariant.                                                 *)

\* Of the objects: a replica about to create has no unfinished one.
ObjectsInv ==
  /\ \A p \in Replicas : flight[p].pc = "create" =>
       \A n \in Names : Unfinished(n) => rr[n].by # p
  /\ \A n \in Names : Unfinished(n) => rr[n].by # "nobody"
  /\ OnePerReplica

\* Of the calls: a flight has its leader, who and whose followers know all requests
\* that were active since it began.
CallsInv ==
  /\ \A p \in Replicas : flight[p].pc # "none" =>
       /\ flight[p].leader \in Callers
       /\ replica[flight[p].leader] = p /\ call[flight[p].leader].pc = "leading"
  /\ \A c \in Callers : call[c].pc \in Creating => Active \subseteq call[c].live
  /\ ToldWasActive

RRInv == Typed /\ ObjectsInv /\ CallsInv

\* A name is active while its object exists and has not ended.
LEMMA ActiveNames ==
  /\ \A n \in Names : n \in Active <=> rr[n] # Absent /\ ~IsTerminalPhase(rr[n].phase)
  /\ \A n \in Names : Unfinished(n) => n \in Active
  BY Nothing DEF Active, Exists, Unfinished, IsTerminalPhase

\* The invariant holds at the start.
LEMMA InitRR == RRInit => RRInv
<1> SUFFICES ASSUME RRInit PROVE RRInv
  OBVIOUS
<1>1. Typed
  BY Nothing DEF RRInit, Typed
<1>2. ObjectsInv
  BY Nothing DEF RRInit, ObjectsInv, OnePerReplica, Unfinished
<1>3. CallsInv
  BY Nothing DEF RRInit, CallsInv, ToldWasActive, At, Creating
<1>4. QED
  BY <1>1, <1>2, <1>3 DEF RRInv

\* A step of one caller that does not create and is told nothing.
LEMMA OwnKeeps ==
  ASSUME RRInv, NEW c \in Callers, NEW k \in CallRecs, call' = [call EXCEPT ![c] = k],
         call[c].pc \notin Creating, k.pc \notin Creating \cup {"told"},
         UNCHANGED <<now, long, rr, late, flight>>
  PROVE  RRInv'
<1>1. \A d \in Callers : call'[d] = IF d = c THEN k ELSE call[d]
  BY DEF RRInv, Typed
<1>2. Typed'
  BY DEF RRInv, Typed
<1>3. ObjectsInv'
  BY DEF RRInv, ObjectsInv, OnePerReplica, Unfinished
<1>4. Active' = Active
  BY DEF Active, Exists
<1>5. CallsInv'
  BY <1>1, <1>4, SMT DEF RRInv, CallsInv, ToldWasActive, At, Creating
<1>6. QED
  BY <1>2, <1>3, <1>5 DEF RRInv

\* The steps of the callers beside the creation and the patch of a cancellation.
LEMMA CallersKeep ==
  ASSUME RRInv, NEW c \in Callers,
         \/ Told(c) \/ CancelGet(c) \/ CancelFails(c) \/ HandleWatch(c)
         \/ ReceiveEvent(c) \/ SeeClosed(c) \/ CloseWatch(c) \/ SeeDone(c)
  PROVE  RRInv'
<1>1. call[c] \in CallRecs /\ rr \in [Names -> Objs]
  BY DEF RRInv, Typed
<1>2. ASSUME Return(c), call[c].pc \notin Creating, UNCHANGED <<now, long, rr, late, flight>>
      PROVE  RRInv'
  BY <1>2, Nothing, OwnKeeps DEF Return, Creating
<1>3. CASE Told(c) \/ CancelFails(c) \/ SeeClosed(c) \/ SeeDone(c)
  BY <1>2, <1>3 DEF Told, CancelFails, SeeClosed, SeeDone, At, Creating
<1>4. CASE CancelGet(c)
  <2>1. PICK n \in Names : call' = [call EXCEPT ![c].pc = "cancelling", ![c].rr = n]
    BY <1>4 DEF CancelGet
  <2> DEFINE k == [call[c] EXCEPT !.pc = "cancelling", !.rr = n]
  <2>2. call' = [call EXCEPT ![c] = k]
    BY <2>1
  <2>3. k \in CallRecs /\ k.pc = "cancelling"
    BY <1>1 DEF CallRecs
  <2> HIDE DEF k
  <2>4. QED
    BY <1>4, <2>2, <2>3, OwnKeeps DEF CancelGet, At, Creating
<1>5. CASE HandleWatch(c)
  <2>1. PICK n \in Names : call' = [call EXCEPT ![c] =
          [Idle EXCEPT !.pc = "watching", !.rr = n, !.open = TRUE,
                       !.queue = IF Exists(n) THEN <<rr[n].phase>> ELSE <<>>]]
    BY <1>5 DEF HandleWatch
  <2> DEFINE q == IF Exists(n) THEN <<rr[n].phase>> ELSE <<>>
             k == [Idle EXCEPT !.pc = "watching", !.rr = n, !.open = TRUE, !.queue = q]
  <2>2. q \in Seq(Phases) /\ call' = [call EXCEPT ![c] = k]
    <3>1. rr[n].phase \in Phases
      BY <1>1 DEF Objs
    <3>2. QED
      BY <2>1, <3>1, SMT
  <2> HIDE DEF q
  <2>3. k \in CallRecs /\ k.pc = "watching"
    BY <2>2, Nothing DEF CallRecs
  <2> HIDE DEF k
  <2>4. QED
    BY <1>5, <2>2, <2>3, OwnKeeps DEF HandleWatch, At, Creating
<1>6. CASE ReceiveEvent(c)
  <2> DEFINE q == Tail(call[c].queue)
             k == [call[c] EXCEPT !.queue = q]
  <2>1. call[c].pc = "watching" /\ (Return(c) \/ call' = [call EXCEPT ![c] = k])
    BY <1>6 DEF ReceiveEvent, At
  <2>2. q \in Seq(Phases)
    <3>1. call[c].queue \in Seq(Phases) /\ call[c].queue # <<>>
      BY <1>1, <1>6 DEF ReceiveEvent, CallRecs
    <3>2. QED
      BY <3>1, SMT
  <2> HIDE DEF q
  <2>3. k \in CallRecs /\ k.pc = "watching"
    BY <1>1, <2>1, <2>2 DEF CallRecs
  <2> HIDE DEF k
  <2>4. QED
    BY <1>2, <1>6, <2>1, <2>3, OwnKeeps DEF ReceiveEvent, Creating
<1>7. CASE CloseWatch(c)
  <2> DEFINE k == [call[c] EXCEPT !.open = FALSE]
  <2>1. call[c].pc = "watching" /\ call' = [call EXCEPT ![c] = k]
    BY <1>7 DEF CloseWatch, At
  <2>2. k \in CallRecs /\ k.pc = "watching"
    BY <1>1, <2>1 DEF CallRecs
  <2> HIDE DEF k
  <2>3. QED
    BY <1>7, <2>1, <2>2, OwnKeeps DEF CloseWatch, Creating
<1>8. QED
  BY <1>3, <1>4, <1>5, <1>6, <1>7

\* Writes that leave no new object unfinished, except of creates given up.
LEMMA ObjectsKeep ==
  ASSUME ObjectsInv, UNCHANGED flight,
         \A k \in Names : Unfinished(k)' => rr'[k].by = "late" \/ (Unfinished(k) /\ rr'[k].by = rr[k].by)
  PROVE  ObjectsInv'
<1>1. \A p \in Replicas : p # "late"
  BY RemediationAssumption
<1>2. \A p \in Replicas : flight[p].pc = "create" => \A n \in Names : Unfinished(n)' => rr'[n].by # p
  BY <1>1 DEF ObjectsInv
<1>3. \A n \in Names : Unfinished(n)' => rr'[n].by # "nobody"
  BY DEF ObjectsInv
<1>4. OnePerReplica'
  BY DEF ObjectsInv, OnePerReplica
<1>5. QED
  BY <1>2, <1>3, <1>4 DEF ObjectsInv

\* An object ends, or one is made by a create that was given up.
LEMMA StoreKeeps ==
  ASSUME RRInv, NEW n \in Names, NEW obj \in Objs, NEW calls \in [Callers -> CallRecs],
         \A c \in Callers : calls[c] = call[c] \/ (calls[c] = Idle /\ call[c].pc \notin Creating),
         Store(n, obj, calls), UNCHANGED <<now, long, flight>>, late' \subseteq Names,
         IF obj.phase = "unfinished" THEN obj.by = "late" ELSE IsTerminalPhase(obj.phase)
  PROVE  RRInv'
<1>1. /\ call' \in [Callers -> CallRecs]
      /\ \A c \in Callers : /\ call'[c].pc = calls[c].pc /\ call'[c].rr = calls[c].rr
                            /\ calls[c].live \subseteq call'[c].live
                            /\ calls[c].pc \in Creating /\ obj.phase = "unfinished" => n \in call'[c].live
  <2> DEFINE new == Notify(n, obj, calls)
  <2>1. /\ new \in [Callers -> CallRecs]
        /\ \A c \in Callers :
             /\ new[c].pc = calls[c].pc /\ new[c].rr = calls[c].rr
             /\ new[c].live = IF calls[c].pc \in Creating /\ obj.phase = "unfinished"
                             THEN calls[c].live \cup {n} ELSE calls[c].live
    BY ONLY calls \in [Callers -> CallRecs], n \in Names, obj \in Objs, NotifyCalls, Zenon
  <2>2. call' = new
    BY DEF Store
  <2> HIDE DEF new
  <2>3. QED
    BY <2>1, <2>2
<1>2. \A k \in Names : rr'[k] = IF k = n THEN obj ELSE rr[k]
  BY DEF RRInv, Typed, Store
<1>3. Typed'
  BY <1>1 DEF RRInv, Typed, Store
<1>a. \A k \in Names : Unfinished(k)' => rr'[k].by = "late" \/ (Unfinished(k) /\ rr'[k].by = rr[k].by)
  <2>1. obj.phase = "unfinished" => obj.by = "late"
    OBVIOUS
  <2>2. QED
    BY <1>2, <2>1 DEF Unfinished
<1>4. ObjectsInv'
  BY <1>a, ObjectsKeep DEF RRInv
<1>5. \A k \in Active' : k \in Active \/ (k = n /\ obj.phase = "unfinished")
  BY <1>2 DEF Active, Exists
<1>6. \A c \in Callers : call'[c].pc \in Creating \cup {"told"} =>
        call[c].pc = call'[c].pc /\ call[c].rr = call'[c].rr /\ call[c].live \subseteq call'[c].live
  BY <1>1, Nothing DEF Creating
<1>7. \A c \in Callers : call[c].pc \in Creating =>
        call'[c].pc = call[c].pc /\ (obj.phase = "unfinished" => n \in call'[c].live)
  BY <1>1
<1>8. CallsInv'
  <2>1. \A p \in Replicas : flight'[p].pc # "none" =>
          /\ flight'[p].leader \in Callers
          /\ replica[flight'[p].leader] = p /\ call'[flight'[p].leader].pc = "leading"
    BY <1>7 DEF RRInv, CallsInv, Creating
  <2>2. \A c \in Callers : call'[c].pc \in Creating => Active' \subseteq call'[c].live
    BY <1>5, <1>6, <1>7 DEF RRInv, CallsInv
  <2>3. ToldWasActive'
    BY <1>6 DEF RRInv, CallsInv, ToldWasActive, At
  <2>4. QED
    BY <2>1, <2>2, <2>3 DEF CallsInv
<1>9. QED
  BY <1>3, <1>4, <1>8 DEF RRInv

\* The steps that store an object beside the creation, or remove one.
LEMMA ServerKeeps ==
  ASSUME RRInv, \/ \E c \in Callers : CancelPatch(c)
                \/ \E n \in Names : HandleLate(n) \/ Complete(n) \/ Collect(n)
                \/ Tick
  PROVE  RRInv'
<1> USE Nothing
<1>1. ASSUME NEW c \in Callers, CancelPatch(c) PROVE RRInv'
  <2> DEFINE n == call[c].rr
             ended == [call EXCEPT ![c] = Idle]
             obj == [rr[n] EXCEPT !.phase = CancelPhase]
  <2>1. n \in Names /\ rr[n] \in Objs /\ call[c].pc = "cancelling"
    BY <1>1 DEF RRInv, Typed, CallRecs, CancelPatch, At
  <2>2. CASE Exists(n)
    <3>1. Store(n, obj, ended) /\ UNCHANGED <<now, long, late, flight>>
      BY <1>1, <2>2 DEF CancelPatch
    <3>2. obj \in Objs /\ obj.phase = "Cancelled" /\ IsTerminalPhase(obj.phase)
      BY <2>1 DEF Objs, Phases, CancelPhase, IsTerminalPhase
    <3>3. /\ ended \in [Callers -> CallRecs]
          /\ \A d \in Callers : ended[d] = call[d] \/ (ended[d] = Idle /\ call[d].pc \notin Creating)
      BY <2>1 DEF RRInv, Typed, Creating
    <3> HIDE DEF n, ended, obj
    <3>4. QED
      BY <2>1, <3>1, <3>2, <3>3, StoreKeeps DEF RRInv, Typed
  <2>3. CASE ~Exists(n)
    BY <1>1, <2>1, <2>3, OwnKeeps DEF CancelPatch, Creating
  <2>4. QED
    BY <2>2, <2>3
<1>2. ASSUME NEW n \in Names, Complete(n) PROVE RRInv'
  <2> DEFINE obj == [rr[n] EXCEPT !.phase = "Completed"]
  <2>1. obj \in Objs /\ obj.phase = "Completed" /\ IsTerminalPhase(obj.phase)
    BY DEF RRInv, Typed, Objs, Phases, IsTerminalPhase
  <2>2. Store(n, obj, call) /\ UNCHANGED <<now, long, late, flight>>
    BY <1>2 DEF Complete
  <2> HIDE DEF obj
  <2>3. QED
    BY <2>1, <2>2, StoreKeeps DEF RRInv, Typed
<1>3. ASSUME UNCHANGED <<long, flight, call>>, now' \in Names, late' \subseteq Names,
             rr' \in [Names -> Objs], \A n \in Names : rr'[n] \in {rr[n], Absent}
      PROVE  RRInv'
  <2>1. Typed'
    BY <1>3 DEF RRInv, Typed
  <2>2. \A n \in Names : rr'[n] # rr[n] => rr'[n].phase = "absent"
    BY <1>3
  <2>a. \A n \in Names : Unfinished(n)' => rr'[n].by = "late" \/ (Unfinished(n) /\ rr'[n].by = rr[n].by)
    BY <2>2 DEF Unfinished
  <2>3. ObjectsInv'
    BY <1>3, <2>a, ObjectsKeep DEF RRInv
  <2>4. Active' \subseteq Active
    BY <1>3 DEF Active, Exists
  <2>5. CallsInv'
    BY <1>3, <2>4 DEF RRInv, CallsInv, ToldWasActive, At
  <2>6. QED
    BY <2>1, <2>3, <2>5 DEF RRInv
<1>4. ASSUME NEW n \in Names, HandleLate(n) PROVE RRInv'
  <2> DEFINE obj == [phase |-> "unfinished", by |-> "late"]
  <2>1. late' \subseteq Names /\ UNCHANGED <<now, long, flight>>
    BY <1>4 DEF HandleLate, RRInv, Typed
  <2>2. obj \in Objs /\ obj.phase = "unfinished" /\ obj.by = "late"
    BY DEF Objs, Phases
  <2>3. UNCHANGED <<rr, call>> \/ Store(n, obj, call)
    BY <1>4 DEF HandleLate
  <2> HIDE DEF obj
  <2>4. CASE UNCHANGED <<rr, call>>
    BY <1>3, <2>1, <2>4 DEF RRInv, Typed
  <2>5. CASE Store(n, obj, call)
    BY <2>1, <2>2, <2>5, StoreKeeps DEF RRInv, Typed
  <2>6. QED
    BY <2>3, <2>4, <2>5
<1>5. ASSUME NEW n \in Names, Collect(n) PROVE RRInv'
  BY <1>3, <1>5 DEF Collect, RRInv, Typed
<1>6. ASSUME Tick PROVE RRInv'
  BY <1>3, <1>6, RemediationAssumption, SMT DEF Tick, RRInv, Typed, Names
<1>7. QED
  BY <1>1, <1>2, <1>4, <1>5, <1>6


-----------------------------------------------------------------------------
(* The creation.                                                            *)

\* A set of names that is not empty has a first.
LEMMA FirstIsIn == ASSUME NEW S, S \subseteq Names, S # {} PROVE First(S) \in S
<1>1. S \subseteq Nat
  BY RemediationAssumption, SMT DEF Names
<1>2. PICK x \in S : \A y \in S : <<y, x>> \notin OpToRel(<, Nat)
  BY <1>1, NatLessThanWellFounded, WFMin
<1>3. ASSUME NEW y \in S PROVE x <= y
  <2>1. x \in Nat /\ y \in Nat /\ <<y, x>> \in Nat \X Nat
    BY <1>1
  <2>2. ~(y < x)
    BY <1>2, <2>1, Zenon DEF OpToRel
  <2>3. QED
    BY <2>1, <2>2, SMT
<1>4. QED
  BY <1>3 DEF First

\* A caller leads a new flight, or follows the one under way.
LEMMA DoKeeps ==
  ASSUME RRInv, NEW c \in Callers, HandleCreateRR(c)
  PROVE  RRInv'
<1> DEFINE p == replica[c]
<1>1. /\ p \in Replicas /\ call[c] \in CallRecs /\ call[c].pc = "idle" /\ flight[p] \in Flights
      /\ UNCHANGED <<now, long, rr, late>>
  BY RemediationAssumption DEF RRInv, Typed, HandleCreateRR, At
<1>2. Active' = Active /\ Active \in SUBSET Names
  BY <1>1 DEF Active, Exists
<1>3. CASE flight[p].pc = "none"
  <2> DEFINE f == [pc |-> "check", leader |-> c, name |-> 0]
             k == [call[c] EXCEPT !.pc = "leading", !.live = Active]
  <2>1. flight' = [flight EXCEPT ![p] = f] /\ call' = [call EXCEPT ![c] = k]
    BY <1>3 DEF HandleCreateRR, Do
  <2>2. f \in Flights /\ f.pc = "check" /\ f.leader = c
    BY Nothing DEF Flights
  <2>3. k \in CallRecs /\ k.pc = "leading" /\ k.live = Active
    BY <1>1, <1>2 DEF CallRecs
  <2> HIDE DEF f, k, p
  <2>4. \A q \in Replicas : flight'[q] = IF q = p THEN f ELSE flight[q]
    BY <1>1, <2>1 DEF RRInv, Typed
  <2>5. \A d \in Callers : call'[d] = IF d = c THEN k ELSE call[d]
    BY <2>1 DEF RRInv, Typed
  <2>6. Typed'
    BY <1>1, <2>1, <2>2, <2>3 DEF RRInv, Typed
  <2>7. ObjectsInv'
    BY <1>1, <2>2, <2>4 DEF RRInv, ObjectsInv, OnePerReplica, Unfinished
  <2>8. CallsInv'
    BY <1>1, <1>2, <2>2, <2>3, <2>4, <2>5, SMT DEF RRInv, CallsInv, ToldWasActive, At, Creating, p
  <2>9. QED
    BY <2>6, <2>7, <2>8 DEF RRInv
<1>4. CASE flight[p].pc # "none"
  <2> DEFINE l == call[flight[p].leader].live
             k == [call[c] EXCEPT !.pc = "following", !.live = l]
  <2>1. flight' = flight /\ call' = [call EXCEPT ![c] = k]
    BY <1>4 DEF HandleCreateRR, Do
  <2>2. l \in SUBSET Names /\ Active \subseteq l
    BY <1>1, <1>4 DEF RRInv, Typed, CallsInv, Creating, CallRecs
  <2> HIDE DEF l
  <2>3. k \in CallRecs /\ k.pc = "following" /\ k.live = l
    BY <1>1, <2>2 DEF CallRecs
  <2> HIDE DEF k, p
  <2>4. \A d \in Callers : call'[d] = IF d = c THEN k ELSE call[d]
    BY <2>1 DEF RRInv, Typed
  <2>5. Typed'
    BY <1>1, <2>1, <2>3 DEF RRInv, Typed
  <2>6. ObjectsInv'
    BY <1>1, <2>1 DEF RRInv, ObjectsInv, OnePerReplica, Unfinished
  <2>7. CallsInv'
    BY <1>1, <1>2, <2>1, <2>2, <2>3, <2>4, SMT DEF RRInv, CallsInv, ToldWasActive, At, Creating
  <2>8. QED
    BY <2>5, <2>6, <2>7 DEF RRInv
<1>5. QED
  BY <1>3, <1>4

\* A flight lands with a name that its calls know to have been active.
LEMMA LandKeeps ==
  ASSUME RRInv, NEW p \in Replicas, NEW n \in Names, NEW calls \in [Callers -> CallRecs],
         Land(p, n, calls), UNCHANGED <<now, long, late>>, Typed',
         ObjectsInv',
         \A c \in Callers :
           /\ calls[c].pc = call[c].pc /\ calls[c].rr = call[c].rr
           /\ call[c].pc \in Creating => n \in calls[c].live /\ Active' \subseteq calls[c].live
           /\ call[c].live \subseteq calls[c].live
  PROVE  RRInv'
<1>1. /\ flight' = [flight EXCEPT ![p] = NoFlight]
      /\ \A c \in Callers :
           IF replica[c] = p /\ calls[c].pc \in Creating
           THEN call'[c].pc = "told" /\ call'[c].rr = n /\ call'[c].live = calls[c].live \cap {n}
           ELSE call'[c] = calls[c]
  BY LandCalls DEF RRInv
<1>2. \A q \in Replicas : flight'[q] = IF q = p THEN NoFlight ELSE flight[q]
  BY <1>1 DEF RRInv, Typed
<1>3. CallsInv'
  <2>1. \A q \in Replicas : flight'[q].pc # "none" =>
          /\ flight'[q].leader \in Callers
          /\ replica[flight'[q].leader] = q /\ call'[flight'[q].leader].pc = "leading"
    BY <1>1, <1>2, Nothing, SMT DEF RRInv, CallsInv
  <2>2. \A c \in Callers : call'[c].pc \in Creating => Active' \subseteq call'[c].live
    BY <1>1 DEF Creating
  <2>3. ToldWasActive'
    BY <1>1, SMT DEF RRInv, CallsInv, ToldWasActive, At, Creating
  <2>4. QED
    BY <2>1, <2>2, <2>3 DEF CallsInv
<1>4. QED
  BY <1>3 DEF RRInv

\* A flight ends with an error.
LEMMA LandErrorKeeps ==
  ASSUME RRInv, NEW p \in Replicas, LandError(p), UNCHANGED <<now, long, rr>>, late' \subseteq Names
  PROVE  RRInv'
<1>1. /\ flight' = [flight EXCEPT ![p] = NoFlight]
      /\ call' \in [Callers -> CallRecs]
      /\ \A c \in Callers :
           call'[c] = IF replica[c] = p /\ call[c].pc \in Creating THEN Idle ELSE call[c]
  BY LandErrorCalls DEF RRInv
<1>2. \A q \in Replicas : flight'[q] = IF q = p THEN NoFlight ELSE flight[q]
  BY <1>1 DEF RRInv, Typed
<1>3. Typed'
  BY <1>1, Nothing DEF RRInv, Typed
<1>4. ObjectsInv'
  BY <1>2, Nothing DEF RRInv, ObjectsInv, OnePerReplica, Unfinished
<1>5. Active' = Active
  BY DEF Active, Exists
<1>6. CallsInv'
  BY <1>1, <1>2, <1>5, Nothing, SMT DEF RRInv, CallsInv, ToldWasActive, At, Creating
<1>7. QED
  BY <1>3, <1>4, <1>6 DEF RRInv


\* The check of existing requests: the flight lands, or goes on with none active.
LEMMA CheckKeeps ==
  ASSUME RRInv, NEW p \in Replicas, CheckExisting(p)
  PROVE  RRInv'
<1>1. UNCHANGED <<now, long, rr, late>> /\ Active' = Active /\ Active \subseteq Names
  BY DEF CheckExisting, Active, Exists
<1>2. CASE Existing # {}
  <2> DEFINE n == First(Existing)
  <2>1. n \in Active /\ Land(p, n, call)
    BY <1>1, <1>2, FirstIsIn DEF CheckExisting, Existing
  <2> HIDE DEF n
  <2>2. flight' = [flight EXCEPT ![p] = NoFlight] /\ call' \in [Callers -> CallRecs]
    BY <1>1, <2>1, LandCalls DEF RRInv, Typed
  <2>3. Typed'
    BY <1>1, <2>2, Nothing DEF RRInv, Typed
  <2>4. \A q \in Replicas : flight'[q] = IF q = p THEN NoFlight ELSE flight[q]
    BY <2>2 DEF RRInv, Typed
  <2>5. ObjectsInv'
    BY <1>1, <2>4, Nothing DEF RRInv, ObjectsInv, OnePerReplica, Unfinished
  <2>6. \A c \in Callers : call[c].pc \in Creating => n \in call[c].live /\ Active' \subseteq call[c].live
    BY <1>1, <2>1 DEF RRInv, CallsInv
  <2>7. QED
    BY <1>1, <2>1, <2>3, <2>5, <2>6, LandKeeps DEF RRInv, Typed
<1>3. CASE Existing = {}
  <2> DEFINE f == [flight[p] EXCEPT !.pc = "create", !.name = rrName]
  <2>1. flight' = [flight EXCEPT ![p] = f] /\ call' = call /\ flight[p].pc = "check"
    BY <1>3 DEF CheckExisting
  <2>2. rrName \in Names /\ flight[p] \in Flights
    BY Nothing DEF rrName, RRInv, Typed
  <2>3. f \in Flights /\ f.pc = "create" /\ f.leader = flight[p].leader
    BY <2>2 DEF Flights
  <2> HIDE DEF f
  <2>4. \A q \in Replicas : flight'[q] = IF q = p THEN f ELSE flight[q]
    BY <2>1 DEF RRInv, Typed
  <2>5. Typed'
    BY <1>1, <2>1, <2>3 DEF RRInv, Typed
  <2>6. \A n \in Names : ~Unfinished(n)
    BY <1>3, ActiveNames DEF Existing
  <2>7. ObjectsInv'
    BY <1>1, <2>6 DEF RRInv, ObjectsInv, OnePerReplica, Unfinished
  <2>8. CallsInv'
    BY <1>1, <2>1, <2>3, <2>4, SMT DEF RRInv, CallsInv, ToldWasActive, At
  <2>9. QED
    BY <2>5, <2>7, <2>8 DEF RRInv
<1>4. QED
  BY <1>2, <1>3

\* The create: the replica had no unfinished request, and now has this one.
LEMMA CreateKeeps ==
  ASSUME RRInv, NEW p \in Replicas, Create(p)
  PROVE  RRInv'
<1> DEFINE n == flight[p].name
           made == [phase |-> "unfinished", by |-> p]
           calls == Notify(n, made, call)
<1>1. /\ n \in Names /\ flight[p].pc = "create" /\ UNCHANGED <<now, long, late>>
      /\ call \in [Callers -> CallRecs]
  BY DEF Create, RRInv, Typed, Flights
<1>2. made \in Objs /\ made.phase = "unfinished" /\ made.by = p
  BY DEF Objs, Phases
<1>3. CASE Exists(n)
  BY <1>1, <1>3, LandErrorKeeps DEF Create, RRInv, Typed
<1>4. CASE ~Exists(n)
  <2>1. rr' = [rr EXCEPT ![n] = made] /\ Land(p, n, calls)
    BY <1>4 DEF Create
  <2> HIDE DEF n, made
  <2>2. /\ calls \in [Callers -> CallRecs]
        /\ \A c \in Callers : /\ calls[c].pc = call[c].pc /\ calls[c].rr = call[c].rr
                              /\ calls[c].live = IF call[c].pc \in Creating
                                                 THEN call[c].live \cup {n} ELSE call[c].live
    <3>1. /\ calls \in [Callers -> CallRecs]
          /\ \A c \in Callers :
               /\ calls[c].pc = call[c].pc /\ calls[c].rr = call[c].rr
               /\ calls[c].live = IF call[c].pc \in Creating /\ made.phase = "unfinished"
                                  THEN call[c].live \cup {n} ELSE call[c].live
      <4>1. n \in Names /\ made \in Objs /\ call \in [Callers -> CallRecs]
        BY <1>1, <1>2
      <4>2. QED
        BY <4>1, NotifyCalls
    <3> HIDE DEF calls
    <3>2. QED
      BY <1>2, <3>1
  <2> HIDE DEF calls
  <2>3. flight' = [flight EXCEPT ![p] = NoFlight] /\ call' \in [Callers -> CallRecs]
    BY <1>1, <2>1, <2>2, LandCalls DEF RRInv
  <2>4. Typed'
    BY <1>1, <1>2, <2>1, <2>3, Nothing DEF RRInv, Typed
  <2>5. \A q \in Replicas : flight'[q] = IF q = p THEN NoFlight ELSE flight[q]
    BY <2>3 DEF RRInv, Typed
  <2>6. \A k \in Names : rr'[k] = IF k = n THEN made ELSE rr[k]
    BY <2>1 DEF RRInv, Typed
  <2>7. ObjectsInv'
    <3>1. \A q \in Replicas : flight'[q].pc = "create" => q # p /\ flight[q].pc = "create"
      BY <2>5, Nothing
    <3>2. \A k \in Names : Unfinished(k)' => k = n \/ (Unfinished(k) /\ rr[k].by # p /\ rr'[k] = rr[k])
      BY <1>1, <2>6 DEF RRInv, ObjectsInv, Unfinished
    <3>3. rr'[n].by = p /\ p # "nobody"
      BY <1>1, <1>2, <2>6, RemediationAssumption
    <3>4. \A q \in Replicas : flight'[q].pc = "create" =>
            \A k \in Names : Unfinished(k)' => rr'[k].by # q
      BY <3>1, <3>2, <3>3 DEF RRInv, ObjectsInv
    <3>5. \A k \in Names : Unfinished(k)' => rr'[k].by # "nobody"
      BY <3>2, <3>3 DEF RRInv, ObjectsInv
    <3>6. OnePerReplica'
      BY <3>2, <3>3 DEF RRInv, ObjectsInv, OnePerReplica
    <3>7. QED
      BY <3>4, <3>5, <3>6 DEF ObjectsInv
  <2>8. \A k \in Active' : k \in Active \/ k = n
    BY <2>6 DEF Active, Exists
  <2>9. \A c \in Callers :
          /\ call[c].pc \in Creating => n \in calls[c].live /\ Active' \subseteq calls[c].live
          /\ call[c].live \subseteq calls[c].live
    BY <2>2, <2>8 DEF RRInv, CallsInv
  <2>10. \A c \in Callers :
           /\ calls[c].pc = call[c].pc /\ calls[c].rr = call[c].rr
           /\ call[c].pc \in Creating => n \in calls[c].live /\ Active' \subseteq calls[c].live
           /\ call[c].live \subseteq calls[c].live
    BY <2>2, <2>9
  <2>11. n \in Names /\ UNCHANGED <<now, long, late>> /\ Land(p, n, calls) /\ calls \in [Callers -> CallRecs]
    BY <1>1, <2>1, <2>2
  <2>12. QED
    BY <2>4, <2>7, <2>10, <2>11, LandKeeps
<1>5. QED
  BY <1>3, <1>4

\* Every step keeps the invariant.
LEMMA RRStep == RRInv /\ [RRNext]_rrVars => RRInv'
<1> SUFFICES ASSUME RRInv, [RRNext]_rrVars PROVE RRInv'
  OBVIOUS
<1>1. ASSUME NEW p \in Replicas, CreateFails(p) PROVE RRInv'
  <2>1. LandError(p) /\ UNCHANGED <<now, long, rr>> /\ late' \subseteq Names
    BY <1>1 DEF CreateFails, RRInv, Typed, Flights
  <2>2. QED
    BY <2>1, LandErrorKeeps
<1>2. CASE UNCHANGED rrVars
  BY <1>2 DEF rrVars, RRInv, Typed, ObjectsInv, OnePerReplica, Unfinished, CallsInv, ToldWasActive,
              At, Active, Exists
<1>3. CASE RRNext
  BY <1>1, <1>3, DoKeeps, CallersKeep, ServerKeeps, CheckKeeps, CreateKeeps DEF RRNext
<1>4. QED
  BY <1>2, <1>3


-----------------------------------------------------------------------------
(* The theorems.                                                            *)

\* The invariant of the requests holds whatever the other tools do.
LEMMA RRInvariant == ToolsSpec => []RRInv
<1>1. ToolsInit => RRInv
  BY InitRR DEF ToolsInit
<1>2. RRInv /\ [ToolsNext]_toolVars => RRInv'
  <2>1. [ToolsNext]_toolVars => [RRNext]_rrVars
    BY DEF ToolsNext, toolVars
  <2>2. QED
    BY <2>1, RRStep
<1>3. QED
  BY <1>1, <1>2, PTL DEF ToolsSpec

\* rrCreateGroup and the check of existing requests keep a replica to one unfinished
\* request of its own for the target, however its callers race.
THEOREM OneRequestPerReplica == ToolsSpec => []OnePerReplica
<1>1. RRInv => OnePerReplica
  BY DEF RRInv, ObjectsInv
<1>2. QED
  BY <1>1, RRInvariant, PTL

\* The request that af_create_rr reports was active at some time since the flight
\* whose result the caller shares began.
THEOREM ToldOfAnActiveRequest == ToolsSpec => []ToldWasActive
<1>1. RRInv => ToldWasActive
  BY DEF RRInv, CallsInv
<1>2. QED
  BY <1>1, RRInvariant, PTL

\* kubernaut_cancel_remediation, which patches without a precondition, brings no
\* request back that has ended.
THEOREM EndIsFinal == ToolsSpec => EndedStaysEnded
<1> DEFINE Ended(n) == IsTerminalPhase(rr[n].phase)
           Final == \A n \in Names : IsTerminalPhase(rr[n].phase) =>
                      IsTerminalPhase(rr'[n].phase) \/ rr'[n] = Absent
<1>1. RRInv /\ [RRNext]_rrVars => [Final]_rrVars
  <2> SUFFICES ASSUME RRInv, RRNext, NEW n \in Names, Ended(n) PROVE Ended(n)' \/ rr'[n] = Absent
    OBVIOUS
  <2>1. rr[n] \in Objs /\ rr[n] # Absent /\ rr[n].phase # "unfinished"
    BY Nothing DEF RRInv, Typed, IsTerminalPhase
  <2>2. ASSUME UNCHANGED rr PROVE Ended(n)'
    BY <2>2
  <2>3. ASSUME NEW k \in Names, NEW obj, rr' = [rr EXCEPT ![k] = obj],
               \/ ~Exists(k) \/ obj = Absent \/ rr[k].phase = "unfinished"
               \/ \E o \in Objs : obj = [o EXCEPT !.phase = CancelPhase]
        PROVE  Ended(n)' \/ rr'[n] = Absent
    <3>1. rr'[n] = IF n = k THEN obj ELSE rr[n]
      BY <2>3 DEF RRInv, Typed
    <3>2. \A o \in Objs : IsTerminalPhase([o EXCEPT !.phase = CancelPhase].phase)
      BY DEF Objs, IsTerminalPhase, CancelPhase
    <3>3. QED
      BY <2>1, <2>3, <3>1, <3>2 DEF Exists
  <2>4. ASSUME NEW c \in Callers, CancelPatch(c) PROVE Ended(n)' \/ rr'[n] = Absent
    <3>1. call[c].rr \in Names /\ rr[call[c].rr] \in Objs
      BY DEF RRInv, Typed, CallRecs
    <3>2. QED
      BY <2>2, <2>3, <2>4, <3>1 DEF CancelPatch, Store
  <2>5. ASSUME NEW p \in Replicas, Create(p) PROVE Ended(n)' \/ rr'[n] = Absent
    <3>1. flight[p].name \in Names
      BY DEF RRInv, Typed, Flights
    <3>2. QED
      BY <2>2, <2>3, <2>5, <3>1 DEF Create
  <2>6. ASSUME NEW k \in Names, HandleLate(k) \/ Complete(k) \/ Collect(k)
        PROVE  Ended(n)' \/ rr'[n] = Absent
    BY <2>2, <2>3, <2>6 DEF HandleLate, Complete, Collect, Store
  <2> HIDE DEF Ended
  <2>7. ASSUME NEW c \in Callers,
               \/ HandleCreateRR(c) \/ Told(c) \/ CancelGet(c) \/ CancelFails(c)
               \/ HandleWatch(c) \/ ReceiveEvent(c) \/ SeeClosed(c) \/ CloseWatch(c) \/ SeeDone(c)
        PROVE  Ended(n)'
    BY <2>2, <2>7 DEF HandleCreateRR, Told, CancelGet, CancelFails, HandleWatch, ReceiveEvent,
                      SeeClosed, CloseWatch, SeeDone
  <2>8. ASSUME NEW p \in Replicas, CheckExisting(p) \/ CreateFails(p) PROVE Ended(n)'
    BY <2>2, <2>8 DEF CheckExisting, CreateFails
  <2>9. QED
    BY <2>2, <2>4, <2>5, <2>6, <2>7, <2>8 DEF RRNext, Tick
<1>2. [ToolsNext]_toolVars => [RRNext]_rrVars
  BY DEF ToolsNext, toolVars
<1>3. QED
  BY <1>1, <1>2, RRInvariant, PTL DEF ToolsSpec, EndedStaysEnded

\* Call record k, in a state where the objects are objs, has the end of what it watches
\* in its channel.
Informed(k, objs) ==
  k.pc = "watching" /\ k.open /\ IsTerminalPhase(objs[k.rr].phase)
    => \E i \in 1 .. Len(k.queue) : Ends(k.queue[i])

WatchInv == \A c \in Callers : Informed(call[c], rr)

\* A change of an object informs the watches on it.
LEMMA StoreInforms ==
  ASSUME Typed, WatchInv, NEW n \in Names, NEW obj \in Objs, rr' = [rr EXCEPT ![n] = obj],
         NEW calls \in [Callers -> CallRecs], NEW c \in Callers, calls[c] = call[c] \/ calls[c] = Idle
  PROVE  Informed(Notify(n, obj, calls)[c], rr')
<1>1. PICK k : k = Notify(n, obj, calls)[c]
  OBVIOUS
<1>2. k \in CallRecs /\ k.pc = calls[c].pc /\ k.rr = calls[c].rr
  BY <1>1, NotifyCalls
<1> SUFFICES ASSUME k.pc = "watching", k.open, IsTerminalPhase(rr'[k.rr].phase)
             PROVE  \E i \in 1 .. Len(k.queue) : Ends(k.queue[i])
  BY <1>1 DEF Informed
<1>3. calls[c] = call[c] /\ call[c] \in CallRecs /\ call[c].pc = "watching"
  BY <1>2, Nothing DEF Typed
<1>4. k = IF call[c].rr = n /\ call[c].open
          THEN IF Len(call[c].queue) < MaxLag THEN [call[c] EXCEPT !.queue = Append(@, obj.phase)]
                                              ELSE [call[c] EXCEPT !.open = FALSE]
          ELSE call[c]
  BY <1>1, <1>3 DEF Notify
<1>5. rr'[k.rr] = IF k.rr = n THEN obj ELSE rr[k.rr]
  BY <1>2 DEF Typed, CallRecs
<1>6. CASE k = call[c] /\ call[c].rr # n
  BY <1>5, <1>6 DEF WatchInv, Informed
<1>7. CASE call[c].rr = n /\ call[c].open
  <2> DEFINE q == Append(call[c].queue, obj.phase)
  <2>1. call[c].queue \in Seq(Phases) /\ obj.phase \in Phases
    BY <1>3 DEF CallRecs, Objs
  <2>2. Len(q) \in 1 .. Len(q) /\ q[Len(q)] = obj.phase
    BY <2>1, SMT
  <2>3. k = [call[c] EXCEPT !.queue = q] \/ k = [call[c] EXCEPT !.open = FALSE]
    BY <1>4, <1>7
  <2> HIDE DEF q
  <2>4. k.queue = q
    BY <1>3, <2>3 DEF CallRecs
  <2>5. Ends(obj.phase)
    BY <1>2, <1>3, <1>5, <1>7 DEF Ends
  <2>6. QED
    BY <2>2, <2>4, <2>5
<1>8. CASE k = call[c] /\ ~call[c].open
  BY <1>8
<1>9. QED
  BY <1>4, <1>6, <1>7, <1>8

\* Every step of the tools, the controller and the API server leaves every watch
\* informed.
LEMMA WatchStep ==
  ASSUME RRInv, WatchInv, [RRNext]_rrVars
  PROVE  WatchInv'
<1>0. Typed /\ \A c \in Callers : Informed(call[c], rr)
  BY DEF RRInv, WatchInv
<1> SUFFICES ASSUME NEW c \in Callers PROVE Informed(call'[c], rr')
  BY DEF WatchInv
<1>1. call[c] \in CallRecs /\ call[c].rr \in Names /\ Informed(call[c], rr)
  BY <1>0 DEF Typed, CallRecs
\* The call is not one of a watch, or its channel is closed.
<1>2. call'[c].pc # "watching" \/ ~call'[c].open => Informed(call'[c], rr')
  BY DEF Informed
\* Nothing happens to the call, and its request does not end.
<1>3. call'[c] = call[c] /\ (rr' = rr \/ ~IsTerminalPhase(rr'[call[c].rr].phase)) => Informed(call'[c], rr')
  BY <1>1 DEF Informed
<1>4. ASSUME NEW d \in Callers, Return(d) \/ call' = [call EXCEPT ![d] = Idle] PROVE call'[c] = call[c] \/ call'[c] = Idle
  BY <1>0, <1>4 DEF Return, Typed
<1>5. CASE UNCHANGED rrVars
  BY <1>3, <1>5 DEF rrVars
<1>6. ASSUME NEW d \in Callers, HandleCreateRR(d) \/ CancelGet(d) PROVE Informed(call'[c], rr')
  <2>1. rr' = rr
    BY <1>6 DEF HandleCreateRR, CancelGet
  <2>2. CASE c # d
    <3>1. call'[c] = call[c]
      BY <1>0, <1>6, <2>2 DEF HandleCreateRR, Do, CancelGet, Typed
    <3>2. QED
      BY <1>3, <2>1, <3>1
  <2>3. CASE c = d
    <3>1. call'[c].pc \in {"leading", "following", "cancelling"}
      BY <1>0, <1>1, <1>6, <2>3, SMT DEF HandleCreateRR, Do, CancelGet, Typed, CallRecs
    <3>2. QED
      BY <1>2, <3>1
  <2>4. QED
    BY <2>2, <2>3
<1>7. ASSUME NEW d \in Callers, Told(d) \/ CancelFails(d) \/ SeeClosed(d) \/ SeeDone(d)
      PROVE  Informed(call'[c], rr')
  <2>1. rr' = rr /\ Return(d)
    BY <1>7 DEF Told, CancelFails, SeeClosed, SeeDone
  <2>2. QED
    BY <1>2, <1>3, <1>4, <2>1, Nothing
<1>8. ASSUME NEW d \in Callers, CancelPatch(d) PROVE Informed(call'[c], rr')
  <2> DEFINE ended == [call EXCEPT ![d] = Idle]
             n == call[d].rr
             obj == [rr[n] EXCEPT !.phase = CancelPhase]
  <2>1. /\ ended \in [Callers -> CallRecs] /\ (ended[c] = call[c] \/ ended[c] = Idle)
        /\ n \in Names /\ rr[n] \in Objs
    BY <1>0, Nothing DEF Typed, CallRecs
  <2>2. obj \in Objs
    BY <2>1 DEF Objs, Phases, CancelPhase
  <2>3. CASE rr' = [rr EXCEPT ![n] = obj] /\ call' = Notify(n, obj, ended)
    <3> HIDE DEF obj, ended, n
    <3>1. QED
      BY <1>0, <2>1, <2>2, <2>3, StoreInforms DEF WatchInv
  <2>4. CASE call' = ended /\ rr' = rr
    BY <1>2, <1>3, <2>1, <2>4, Nothing
  <2>5. QED
    BY <1>8, <2>3, <2>4 DEF CancelPatch, Store
<1>9. ASSUME NEW d \in Callers, HandleWatch(d) PROVE Informed(call'[c], rr')
  <2>1. PICK n \in Names : call' = [call EXCEPT ![d] =
           [Idle EXCEPT !.pc = "watching", !.rr = n, !.open = TRUE,
                        !.queue = IF Exists(n) THEN <<rr[n].phase>> ELSE <<>>]]
    BY <1>9 DEF HandleWatch
  <2>2. rr' = rr
    BY <1>9 DEF HandleWatch
  <2>3. CASE c # d
    <3>1. call'[c] = call[c]
      BY <1>0, <2>1, <2>3 DEF Typed
    <3>2. QED
      BY <1>3, <2>2, <3>1
  <2>4. CASE c = d
    <3> DEFINE q == IF Exists(n) THEN <<rr[n].phase>> ELSE <<>>
    <3>1. call'[c].rr = n /\ call'[c].queue = q
      <4> HIDE DEF q
      <4>1. call' = [call EXCEPT ![d] = [Idle EXCEPT !.pc = "watching", !.rr = n, !.open = TRUE, !.queue = q]]
        BY <2>1 DEF q
      <4>2. QED
        BY <1>0, <2>4, <4>1 DEF Typed, Idle
    <3>2. ASSUME IsTerminalPhase(rr[n].phase) PROVE Len(q) = 1 /\ Ends(q[1])
      <4>1. Exists(n)
        BY <3>2, SMT DEF Exists, Absent, IsTerminalPhase
      <4>2. q = <<rr[n].phase>>
        BY <4>1
      <4>3. QED
        BY <3>2, <4>2 DEF Ends
    <3> HIDE DEF q
    <3>3. ASSUME IsTerminalPhase(rr[n].phase) PROVE \E i \in 1 .. Len(q) : Ends(q[i])
      <4>1. 1 \in 1 .. 1
        BY SMT
      <4> QED BY <3>2, <3>3, <4>1
    <3>4. PICK k : k = call'[c]
      OBVIOUS
    <3>5. k.rr = n /\ k.queue = q
      BY <3>1, <3>4
    <3>6. Informed(k, rr')
      BY <2>2, <3>3, <3>5 DEF Informed
    <3>7. QED
      BY <3>4, <3>6
  <2>5. QED
    BY <2>3, <2>4
<1>10. ASSUME NEW d \in Callers, ReceiveEvent(d) PROVE Informed(call'[c], rr')
  <2> DEFINE q == call[c].queue
  <2>1. rr' = rr /\ call[d].queue # <<>>
    BY <1>10 DEF ReceiveEvent
  <2>2. CASE Return(d)
    BY <1>2, <1>3, <1>4, <2>1, <2>2, Nothing
  <2>3. CASE ~Return(d)
    <3>1. ~Ends(Head(call[d].queue)) /\ call' = [call EXCEPT ![d].queue = Tail(@)]
      BY <1>10, <2>3 DEF ReceiveEvent
    <3>2. CASE c # d
      <4>1. call'[c] = call[c]
        BY <1>0, <3>1, <3>2 DEF Typed
      <4>2. QED
        BY <1>3, <2>1, <4>1
    <3>3. CASE c = d
      <4>1. q \in Seq(Phases) /\ q # <<>>
        BY <1>1, <2>1, <3>3 DEF CallRecs
      <4>2. /\ Head(q) = q[1] /\ Len(q) \in Nat /\ Len(Tail(q)) = Len(q) - 1
            /\ \A i \in 1 .. Len(q) - 1 : Tail(q)[i] = q[i + 1]
        BY <4>1, SMT
      <4>3. /\ call'[c].pc = call[c].pc /\ call'[c].open = call[c].open /\ call'[c].rr = call[c].rr
            /\ call'[c].queue = Tail(q)
        BY <1>0, <1>1, <3>1, <3>3 DEF Typed, CallRecs
      <4>4. ASSUME NEW i \in 1 .. Len(q), Ends(q[i]) PROVE \E j \in 1 .. Len(Tail(q)) : Ends(Tail(q)[j])
        <5>1. i # 1
          BY <3>1, <3>3, <4>2, <4>4
        <5>2. i - 1 \in 1 .. Len(q) - 1 /\ (i - 1) + 1 = i
          BY <4>2, <5>1, SMT
        <5>3. Tail(q)[i - 1] = q[i]
          BY <4>2, <5>2
        <5>4. QED
          BY <4>2, <4>4, <5>2, <5>3
      <4>5. QED
        BY <1>1, <2>1, <4>3, <4>4 DEF Informed
    <3>4. QED
      BY <3>2, <3>3
  <2>4. QED
    BY <2>2, <2>3
<1>11. ASSUME NEW d \in Callers, CloseWatch(d) PROVE Informed(call'[c], rr')
  <2>1. rr' = rr /\ call' = [call EXCEPT ![d].open = FALSE]
    BY <1>11 DEF CloseWatch
  <2>2. call'[c] = call[c] \/ ~call'[c].open
    BY <1>0, <1>1, <2>1 DEF Typed, CallRecs
  <2>3. QED
    BY <1>2, <1>3, <2>1, <2>2
<1>12. ASSUME NEW p \in Replicas, LandError(p), rr' = rr PROVE Informed(call'[c], rr')
  <2>1. call'[c] = Idle \/ call'[c] = call[c]
    BY <1>12 DEF LandError
  <2>2. QED
    BY <1>2, <1>3, <1>12, <2>1, Nothing
<1>13. ASSUME NEW p \in Replicas, CheckExisting(p) \/ CreateFails(p) PROVE Informed(call'[c], rr')
  <2>1. rr' = rr
    BY <1>13 DEF CheckExisting, CreateFails
  <2>2. CASE CheckExisting(p) /\ Existing # {}
    <3>1. Land(p, First(Existing), call) /\ First(Existing) \in Names
      BY <2>2, FirstIsIn DEF CheckExisting, Existing, Active
    <3>2. call'[c].pc = "told" \/ call'[c] = call[c]
      BY <1>0, <3>1, LandCalls DEF Typed
    <3>3. QED
      BY <1>2, <1>3, <2>1, <3>2
  <2>3. CASE ~(CheckExisting(p) /\ Existing # {})
    BY <1>3, <1>12, <1>13, <2>1, <2>3 DEF CheckExisting, CreateFails
  <2>4. QED
    BY <2>2, <2>3
<1>14. ASSUME NEW p \in Replicas, Create(p) PROVE Informed(call'[c], rr')
  <2> DEFINE made == [phase |-> "unfinished", by |-> p]
  <2>1. PICK n : n = flight[p].name
    OBVIOUS
  <2>2. n \in Names /\ made \in Objs /\ call \in [Callers -> CallRecs]
    BY <1>0, <2>1 DEF Typed, Flights, Objs, Phases
  <2>3. CASE LandError(p) /\ rr' = rr
    BY <1>12, <2>3
  <2>4. CASE rr' = [rr EXCEPT ![n] = made] /\ Land(p, n, Notify(n, made, call))
    <3> HIDE DEF made
    <3>1. Notify(n, made, call) \in [Callers -> CallRecs]
      BY <2>2, NotifyCalls
    <3>2. call'[c].pc = "told" \/ call'[c] = Notify(n, made, call)[c]
      BY <1>0, <2>2, <2>4, <3>1, LandCalls
    <3>3. Informed(Notify(n, made, call)[c], rr')
      BY <1>0, <2>2, <2>4, StoreInforms DEF WatchInv
    <3>4. QED
      BY <1>2, <3>2, <3>3
  <2>5. QED
    BY <1>14, <2>1, <2>3, <2>4 DEF Create
<1>15. ASSUME NEW n \in Names, NEW obj \in Objs, Store(n, obj, call) PROVE Informed(call'[c], rr')
  BY <1>0, <1>15, StoreInforms DEF WatchInv, Store, Typed
<1>16. ASSUME NEW n \in Names, HandleLate(n) \/ Complete(n) PROVE Informed(call'[c], rr')
  <2>1. rr[n] \in Objs /\ [phase |-> "unfinished", by |-> "late"] \in Objs
    BY <1>0 DEF Typed, Objs, Phases
  <2>2. [rr[n] EXCEPT !.phase = "Completed"] \in Objs
    BY <2>1 DEF Objs, Phases
  <2>3. \/ UNCHANGED <<rr, call>> \/ Store(n, [phase |-> "unfinished", by |-> "late"], call)
        \/ Store(n, [rr[n] EXCEPT !.phase = "Completed"], call)
    BY <1>16 DEF HandleLate, Complete
  <2>4. QED
    BY <1>3, <1>15, <2>1, <2>2, <2>3
<1>17. ASSUME NEW n \in Names, Collect(n) PROVE Informed(call'[c], rr')
  <2>1. call' = call /\ rr' = [rr EXCEPT ![n] = Absent]
    BY <1>17 DEF Collect
  <2>2. rr'[call[c].rr] = rr[call[c].rr] \/ rr'[call[c].rr] = Absent
    BY <1>0, <1>1, <2>1 DEF Typed
  <2>3. ~IsTerminalPhase(Absent.phase)
    BY Nothing DEF IsTerminalPhase
  <2>4. QED
    BY <1>1, <2>1, <2>2, <2>3 DEF Informed
<1>18. CASE Tick
  BY <1>3, <1>18 DEF Tick
<1>19. QED
  BY <1>5, <1>6, <1>7, <1>8, <1>9, <1>10, <1>11, <1>13, <1>14, <1>16, <1>17, <1>18 DEF RRNext

\* kubernaut_watch misses no end of a request, however far it lags behind: while its
\* channel is open, the event that ends it is there.
THEOREM WatchesMissNoEnd == ToolsSpec => []WatchMissesNoEnd
<1>1. ToolsInit => WatchInv
  BY Nothing DEF ToolsInit, RRInit, WatchInv, Informed
<1>2. RRInv /\ WatchInv /\ [ToolsNext]_toolVars => WatchInv'
  <2>1. [ToolsNext]_toolVars => [RRNext]_rrVars
    BY DEF ToolsNext, toolVars
  <2>2. QED
    BY <2>1, WatchStep
<1>3. RRInv /\ WatchInv => WatchMissesNoEnd
  <2> SUFFICES ASSUME RRInv, WatchInv, NEW c \in Callers, At(c, "watching"), call[c].open,
                      IsTerminalPhase(rr[call[c].rr].phase)
               PROVE  \E i \in DOMAIN call[c].queue : Ends(call[c].queue[i])
    BY DEF WatchMissesNoEnd
  <2>1. call[c].queue \in Seq(Phases)
    BY DEF RRInv, Typed, CallRecs
  <2>2. DOMAIN call[c].queue = 1 .. Len(call[c].queue)
    BY <2>1, SMT
  <2>3. QED
    BY <2>2 DEF WatchInv, Informed, At
<1>4. QED
  BY <1>1, <1>2, <1>3, RRInvariant, PTL DEF ToolsSpec

-----------------------------------------------------------------------------
(* Owner chains.                                                            *)

\* A set of numbers that is not empty has a least one.
LEMMA Least ==
  ASSUME NEW S, S \subseteq Nat, S # {}
  PROVE  \E x \in S : \A y \in S : x <= y
<1>1. PICK x \in S : \A y \in S : <<y, x>> \notin OpToRel(<, Nat)
  BY NatLessThanWellFounded, WFMin
<1>2. ASSUME NEW y \in S PROVE x <= y
  <2>1. x \in Nat /\ y \in Nat /\ <<y, x>> \in Nat \X Nat
    OBVIOUS
  <2>2. ~(y < x)
    BY <1>1, <2>1, Zenon DEF OpToRel
  <2> QED BY <2>1, <2>2, SMT
<1> QED BY <1>2

\* pickOwnerRef returns what the one reference that counts says.
LEMMA PickedIsOwner ==
  ASSUME NEW list \in Seq(OwnerRefs), NEW o, o # NoOwner
  PROVE  pickOwnerRef(list) = o <=> \E j \in DOMAIN list : list[j].to = o /\ IsOwner(list, j)
<1> DEFINE C == {j \in DOMAIN list : list[j].controller}
           first == CHOOSE j \in C : \A k \in C : j <= k
<1>1. DOMAIN list = 1 .. Len(list) /\ Len(list) \in Nat
  BY SMT
<1>2. CASE list = <<>>
  <2>1. DOMAIN list = {}
    BY <1>1, <1>2, Len(<<>>) = 0, SMT
  <2>2. pickOwnerRef(list) = NoOwner
    BY <1>2 DEF pickOwnerRef
  <2> QED BY <2>1, <2>2
<1>3. CASE list # <<>> /\ C = {}
  <2>1. pickOwnerRef(list) = list[1].to /\ 1 \in DOMAIN list
    BY <1>1, <1>3, SMT DEF pickOwnerRef
  <2>2. \A j \in DOMAIN list : IsOwner(list, j) <=> j = 1
    BY <1>1, <1>3 DEF IsOwner
  <2> QED BY <2>1, <2>2
<1>4. CASE list # <<>> /\ C # {}
  <2>1. C \subseteq Nat
    BY <1>1, SMT
  <2>2. first \in C /\ \A k \in C : first <= k
    BY <1>4, <2>1, Least
  <2>3. pickOwnerRef(list) = list[first].to /\ first \in DOMAIN list
    BY <1>4, <2>2 DEF pickOwnerRef
  <2>4. ASSUME NEW j \in DOMAIN list
        PROVE  IsOwner(list, j) <=> j = first
    <3> HIDE DEF first
    <3> QED BY <1>1, <1>4, <2>1, <2>2, SMT DEF IsOwner
  <2> QED BY <2>3, <2>4
<1> QED BY <1>2, <1>3, <1>4

OwnerOf(o) == pickOwnerRef(refs[o])

\* Known objects that are there have lists of references.
OwnersTyped ==
  /\ refs \in [Known -> RefLists \cup {missing}]
  /\ walk \in {"idle", "on", "done", "error"}
  /\ chain \in Seq(Known)

\* The chain is a path, written with OwnerOf.
ChainIsPath ==
  /\ chain # <<>> => chain[1] = start
  /\ \A i \in 1 .. Len(chain) : refs[chain[i]] # missing
  /\ \A i \in 1 .. Len(chain) - 1 : OwnerOf(chain[i]) = chain[i + 1]
  /\ \A i, j \in 1 .. Len(chain) : chain[i] = chain[j] => i = j
  /\ Len(chain) <= maxOwnerDepth

Last == chain[Len(chain)]

\* There is nothing to read after the chain.
AtEnd ==
  \/ Len(chain) = maxOwnerDepth
  \/ OwnerOf(Last) \notin Known
  \/ OwnerOf(Last) \in Known /\ refs[OwnerOf(Last)] = missing
  \/ \E i \in 1 .. Len(chain) : chain[i] = OwnerOf(Last)

OwnerInv ==
  /\ OwnersTyped
  /\ ChainIsPath
  /\ walk = "on" => current = IF chain = <<>> THEN start ELSE OwnerOf(Last)
  /\ walk = "done" => chain # <<>>
  /\ walk = "done" /\ ~failed => AtEnd
  /\ walk = "error" => chain = <<>>
  /\ walk = "error" /\ ~failed => start \notin Known \/ refs[start] = missing

\* Nothing has been read at the start.
LEMMA InitOwner == OwnerInit => OwnerInv
  BY OwnerAssumption, SMT DEF OwnerInit, OwnerInv, OwnersTyped, ChainIsPath

\* Every step of a walk keeps OwnerInv.
LEMMA OwnerStep == OwnerInv /\ [OwnerNext]_ownerVars => OwnerInv'
<1> SUFFICES ASSUME OwnerInv, [OwnerNext]_ownerVars
             PROVE  OwnerInv'
  OBVIOUS
<1>a. maxOwnerDepth \in Nat /\ maxOwnerDepth >= 1 /\ NoOwner \notin Known
  BY OwnerAssumption, SMT
<1>0. Len(chain) \in Nat /\ (Len(chain) = 0 <=> chain = <<>>) /\ DOMAIN chain = 1 .. Len(chain)
  BY SMT DEF OwnerInv, OwnersTyped
<1>1. CASE UNCHANGED ownerVars
  <2>1. UNCHANGED <<refs, start, current, chain, walk, failed>>
    BY <1>1 DEF ownerVars
  <2>2. OwnersTyped' /\ ChainIsPath'
    BY <2>1, SMT DEF OwnerInv, OwnersTyped, ChainIsPath, OwnerOf
  <2> QED BY <2>1, <2>2 DEF OwnerInv, AtEnd, Last, OwnerOf
<1>2. CASE HandleResolveOwner
  BY <1>2, <1>a, SMT DEF HandleResolveOwner, OwnerInv, OwnersTyped, ChainIsPath
<1>3. CASE EndWalk
  <2>1. chain # <<>> /\ Len(chain) <= maxOwnerDepth
    BY <1>0, <1>a, <1>3, SMT DEF EndWalk, Over, Range, OwnerInv, ChainIsPath
  <2>2. AtEnd
    <3>1. current = OwnerOf(Last)
      BY <1>3, <2>1 DEF EndWalk, OwnerInv
    <3>2. Len(chain) >= maxOwnerDepth => Len(chain) = maxOwnerDepth
      <4>1. \A a, b \in Nat : a <= b /\ a >= b => a = b
        BY SMT
      <4> QED BY <1>0, <1>a, <2>1, <4>1
    <3>3. current \in Range(chain) => \E i \in 1 .. Len(chain) : chain[i] = current
      BY <1>0 DEF Range
    <3> QED BY <1>3, <3>1, <3>2, <3>3 DEF EndWalk, Over, AtEnd
  <2> QED BY <1>3, <2>1, <2>2 DEF EndWalk, OwnerInv, OwnersTyped, ChainIsPath, AtEnd, Last, OwnerOf
<1>4. CASE HopFails
  <2>1. CASE chain = <<>>
    <3>1. walk = "on" /\ walk' = "error" /\ UNCHANGED <<refs, start, chain>>
      BY <1>4, <2>1 DEF HopFails, Reads
    <3>2. ~failed' => start \notin Known \/ refs[start] = missing
      BY <1>4, <2>1, <3>1 DEF HopFails, OwnerInv
    <3> QED BY <2>1, <3>1, <3>2, SMT DEF OwnerInv, OwnersTyped, ChainIsPath, OwnerOf
  <2>2. CASE chain # <<>>
    <3>1. /\ walk = "on" /\ current \in Known /\ walk' = "done" /\ failed' = (refs[current] # missing)
          /\ UNCHANGED <<refs, start, current, chain>>
      BY <1>4, <2>2 DEF HopFails, Reads
    <3>2. ~failed' => AtEnd
      BY <2>2, <3>1 DEF OwnerInv, AtEnd
    <3> QED BY <2>2, <3>1, <3>2 DEF OwnerInv, OwnersTyped, ChainIsPath, AtEnd, Last, OwnerOf
  <2> QED BY <2>1, <2>2
<1>5. CASE Hop
  <2> DEFINE n == Len(chain) + 1
             ch == Append(chain, current)
  <2>1. /\ walk = "on" /\ current \in Known /\ refs[current] # missing /\ Len(chain) < maxOwnerDepth
        /\ \A i \in 1 .. Len(chain) : chain[i] # current
        /\ chain' = ch /\ UNCHANGED <<refs, start, failed>>
    BY <1>0, <1>a, <1>5, SMT DEF Hop, Reads, Over, Range, OwnerInv, OwnersTyped
  <2>2. /\ ch \in Seq(Known) /\ Len(ch) = n /\ ch # <<>> /\ ch[n] = current
        /\ \A i \in 1 .. Len(chain) : ch[i] = chain[i]
    BY <1>0, <2>1, SMT DEF OwnerInv, OwnersTyped
  <2>3. /\ n \in Nat \ {0} /\ n - 1 = Len(chain) /\ n <= maxOwnerDepth
        /\ \A i \in 1 .. n : i = n \/ i \in 1 .. Len(chain)
        /\ \A i \in 1 .. n - 1 : i = n - 1 \/ i \in 1 .. Len(chain) - 1
    <3>1. PICK l \in Nat : l = Len(chain) /\ n = l + 1 /\ l < maxOwnerDepth
      BY <1>0, <2>1
    <3> HIDE DEF n
    <3> QED BY <1>a, <3>1, SMT
  <2>4. Last' = current /\ OwnerOf(Last)' = OwnerOf(current)
    BY <2>1, <2>2 DEF Last, OwnerOf
  <2>5. current = IF chain = <<>> THEN start ELSE OwnerOf(Last)
    BY <2>1 DEF OwnerInv
  <2>6. ChainIsPath'
    <3> HIDE DEF ch, n
    <3>1. ch[1] = start
      BY <1>0, <2>2, <2>3, <2>5, SMT DEF OwnerInv, ChainIsPath
    <3>2. \A i \in 1 .. n : refs[ch[i]] # missing
      BY <2>1, <2>2, <2>3, SMT DEF OwnerInv, ChainIsPath
    <3>3. ASSUME NEW i \in 1 .. n - 1 PROVE OwnerOf(ch[i]) = ch[i + 1]
      <4>1. CASE i = n - 1
        <5>1. i = Len(chain) /\ i + 1 = n /\ i \in 1 .. Len(chain) /\ chain # <<>>
          BY <1>0, <2>3, <4>1, SMT
        <5> QED BY <2>2, <2>5, <5>1 DEF Last
      <4>2. CASE i \in 1 .. Len(chain) - 1
        <5>1. i \in 1 .. Len(chain) /\ i + 1 \in 1 .. Len(chain)
          BY <1>0, <4>2, SMT
        <5> QED BY <2>2, <4>2, <5>1 DEF OwnerInv, ChainIsPath
      <4> QED BY <2>3, <4>1, <4>2
    <3>4. \A i, j \in 1 .. n : ch[i] = ch[j] => i = j
      BY <2>1, <2>2, <2>3, SMT DEF OwnerInv, ChainIsPath
    <3> QED BY <2>1, <2>2, <2>3, <3>1, <3>2, <3>3, <3>4 DEF ChainIsPath, OwnerOf
  <2>7. OwnersTyped' /\ walk' \in {"on", "done"} /\ chain' # <<>>
    BY <1>5, <2>1, <2>2 DEF Hop, OwnerInv, OwnersTyped
  <2>8. walk' = "on" => current' = OwnerOf(current)
    BY <1>5, <2>1 DEF Hop, OwnerOf
  <2>9. walk' = "done" => OwnerOf(current) = NoOwner
    BY <1>5, <2>1 DEF Hop, OwnerOf
  <2>10. walk' = "done" => AtEnd'
    BY <1>a, <2>4, <2>9 DEF AtEnd
  <2> QED BY <2>4, <2>6, <2>7, <2>8, <2>10 DEF OwnerInv
<1> QED BY <1>1, <1>2, <1>3, <1>4, <1>5 DEF OwnerNext

\* A path, written with OwnerOf.
LEMMA PathSteps ==
  ASSUME OwnersTyped, NEW p \in Paths
  PROVE  /\ Len(p) \in 0 .. maxOwnerDepth /\ DOMAIN p = 1 .. Len(p) /\ (p = <<>> <=> Len(p) = 0)
         /\ p # <<>> => p[1] = start
         /\ \A i \in 1 .. Len(p) : p[i] \in Known /\ refs[p[i]] # missing
         /\ \A i \in 1 .. Len(p) - 1 : OwnerOf(p[i]) = p[i + 1]
         /\ \A i, j \in 1 .. Len(p) : p[i] = p[j] => i = j
<1>1. IsPath(p) /\ \E m \in 0 .. maxOwnerDepth : p \in [1 .. m -> Resources]
  BY DEF Paths
<1>2. PICK m \in 0 .. maxOwnerDepth : p \in [1 .. m -> Resources]
  BY <1>1
<1>3. p \in Seq(Resources) /\ Len(p) = m /\ m \in Nat
  BY <1>2, OwnerAssumption, SMT
<1>4. ASSUME NEW i \in 1 .. Len(p) - 1 PROVE OwnerOf(p[i]) = p[i + 1]
  <2>1. i \in DOMAIN p /\ i + 1 \in DOMAIN p
    BY <1>3, SMT
  <2>2. p[i] \in Known /\ refs[p[i]] # missing /\ p[i + 1] \in Known
    BY <1>1, <2>1 DEF IsPath
  <2>3. refs[p[i]] \in Seq(OwnerRefs) /\ p[i + 1] # NoOwner
    BY <2>2, OwnerAssumption DEF OwnersTyped
  <2>4. \E j \in DOMAIN refs[p[i]] : refs[p[i]][j].to = p[i + 1] /\ IsOwner(refs[p[i]], j)
    BY <1>1 DEF IsPath
  <2> QED BY <2>3, <2>4, PickedIsOwner DEF OwnerOf
<1>5. DOMAIN p = 1 .. Len(p) /\ (p = <<>> <=> Len(p) = 0)
  BY <1>3, SMT
<1> QED BY <1>1, <1>2, <1>3, <1>4, <1>5 DEF IsPath, IsInjective

\* The chain is one of the paths.
LEMMA ChainAmongPaths == OwnersTyped /\ ChainIsPath => chain \in Paths
<1> SUFFICES ASSUME OwnersTyped, ChainIsPath
             PROVE  chain \in Paths
  OBVIOUS
<1>1. chain \in Seq(Known) /\ Len(chain) \in 0 .. maxOwnerDepth /\ DOMAIN chain = 1 .. Len(chain)
  BY OwnerAssumption, SMT DEF OwnersTyped, ChainIsPath
<1>2. chain \in [1 .. Len(chain) -> Resources]
  BY <1>1, OwnerAssumption, SMT
<1>3. ASSUME NEW i \in 1 .. Len(chain) - 1
      PROVE  \E j \in DOMAIN refs[chain[i]] :
               refs[chain[i]][j].to = chain[i + 1] /\ IsOwner(refs[chain[i]], j)
  <2>1. i \in DOMAIN chain /\ i + 1 \in DOMAIN chain
    BY <1>1, SMT
  <2>2. chain[i] \in Known /\ refs[chain[i]] # missing /\ chain[i + 1] \in Known
    BY <1>1, <2>1, SMT DEF ChainIsPath
  <2>3. refs[chain[i]] \in Seq(OwnerRefs) /\ chain[i + 1] # NoOwner
    BY <2>2, OwnerAssumption DEF OwnersTyped
  <2>4. pickOwnerRef(refs[chain[i]]) = chain[i + 1]
    BY DEF ChainIsPath, OwnerOf
  <2> QED BY <2>3, <2>4, PickedIsOwner
<1>4. IsPath(chain)
  BY <1>1, <1>3, SMT DEF IsPath, IsInjective, ChainIsPath
<1> QED BY <1>1, <1>2, <1>4, SMT DEF Paths

\* A path and the chain have the same resources at the same places.
LEMMA PathsAgree ==
  ASSUME OwnersTyped, ChainIsPath, NEW p \in Paths, NEW i \in 1 .. Len(p), i <= Len(chain)
  PROVE  p[i] = chain[i]
<1> DEFINE S == {k \in 1 .. Len(p) : k <= Len(chain) /\ p[k] # chain[k]}
<1>0. /\ Len(p) \in Nat /\ Len(chain) \in Nat
      /\ (p = <<>> <=> Len(p) = 0) /\ (chain = <<>> <=> Len(chain) = 0)
  BY PathSteps, SMT DEF OwnersTyped
<1>1. SUFFICES ASSUME p[i] # chain[i] PROVE FALSE
  OBVIOUS
<1>2. S # {} /\ S \subseteq Nat
  BY <1>0, <1>1, SMT
<1>3. PICK k \in S : \A y \in S : k <= y
  BY <1>2, Least
<1>4. k \in Nat /\ k # 1 /\ k >= 1
  BY <1>0, <1>3, PathSteps, SMT DEF ChainIsPath
<1>5. /\ k - 1 \in 1 .. Len(p) - 1 /\ k - 1 \in 1 .. Len(chain) - 1 /\ (k - 1) + 1 = k
      /\ k - 1 \notin S /\ k - 1 \in 1 .. Len(p) /\ k - 1 <= Len(chain)
  BY <1>0, <1>3, <1>4, SMT
<1>6. p[k - 1] = chain[k - 1]
  BY <1>5
<1>7. OwnerOf(p[k - 1]) = p[k] /\ OwnerOf(chain[k - 1]) = chain[k]
  BY <1>5, PathSteps, SMT DEF ChainIsPath
<1> QED BY <1>3, <1>6, <1>7

\* Where the walk ends there is no longer path.
LEMMA NoLongerPath ==
  ASSUME OwnersTyped, ChainIsPath, chain # <<>>, AtEnd, NEW p \in Paths
  PROVE  Len(p) <= Len(chain)
<1> DEFINE n == Len(chain)
<1>1. SUFFICES ASSUME ~(Len(p) <= n) PROVE FALSE
  OBVIOUS
<1>2. n \in Nat /\ n >= 1 /\ Len(p) \in Nat /\ Len(p) <= maxOwnerDepth
  BY PathSteps, OwnerAssumption, SMT DEF OwnersTyped
<1>3. /\ n \in 1 .. Len(p) - 1 /\ n + 1 \in 1 .. Len(p) /\ n \in 1 .. Len(p)
      /\ \A i \in 1 .. n : i \in 1 .. Len(p) /\ i <= Len(chain)
  BY <1>1, <1>2, SMT
<1>4. \A i \in 1 .. n : p[i] = chain[i]
  BY <1>3, PathsAgree
<1>5. p[n + 1] = OwnerOf(Last)
  <2>1. p[n] = chain[n]
    BY <1>3, PathsAgree, SMT
  <2> QED BY <1>3, <2>1, PathSteps DEF Last
<1>6. p[n + 1] \in Known /\ refs[p[n + 1]] # missing
  BY <1>3, PathSteps
<1>7. n # maxOwnerDepth
  BY <1>1, <1>2, OwnerAssumption
<1>8. PICK i \in 1 .. n : chain[i] = p[n + 1]
  BY <1>5, <1>6, <1>7 DEF AtEnd
<1>9. p[i] = p[n + 1] /\ i \in 1 .. Len(p)
  BY <1>3, <1>4, <1>8
<1>10. i = n + 1
  BY <1>3, <1>9, PathSteps
<1> QED BY <1>2, <1>8, <1>10, SMT

\* OwnerInv implies the property.
LEMMA LongestByInv == OwnerInv => ChainIsLongestPath
<1> SUFFICES ASSUME OwnerInv
             PROVE  ChainIsLongestPath
  OBVIOUS
<1>1. OwnersTyped /\ ChainIsPath
  BY DEF OwnerInv
<1>2. ASSUME walk = "error", ~failed
      PROVE  Paths = {<<>>}
  <2>1. chain = <<>> /\ (start \notin Known \/ refs[start] = missing)
    BY <1>2 DEF OwnerInv
  <2>2. ASSUME NEW p \in Paths PROVE p = <<>>
    <3>1. Len(p) \in Nat /\ (p # <<>> => p[1] = start /\ 1 \in 1 .. Len(p))
      BY <1>1, PathSteps, SMT
    <3> QED BY <1>1, <2>1, <3>1, PathSteps, SMT
  <2> QED BY <1>1, <2>1, <2>2, ChainAmongPaths
<1> QED BY <1>1, <1>2, ChainAmongPaths, NoLongerPath DEF OwnerInv, ChainIsLongestPath

\* For any owner references, any depth and any failures: the chain that
\* af_resolve_owner returns is the longest path of owners from the resource, unless a
\* request failed, and an error means that the resource itself cannot be read.
THEOREM ChainsAreLongest == ToolsSpec => []ChainIsLongestPath
<1>1. ToolsInit => OwnerInv
  BY InitOwner DEF ToolsInit
<1>2. [ToolsNext]_toolVars => [OwnerNext]_ownerVars
  BY DEF ToolsNext, toolVars
<1>3. ToolsSpec => ToolsInit /\ [][ToolsNext]_toolVars
  BY PTL DEF ToolsSpec
<1> QED BY <1>1, <1>2, <1>3, OwnerStep, LongestByInv, PTL

-----------------------------------------------------------------------------
(* Lists.                                                                   *)

\* A turn of the loop that removes items, with k left, and all turns from n down.
LoopTurn(f, items, k) == IF k <= 1 \/ Fits(items, k) THEN k ELSE f[k - 1]
Loop(f, items, n) == f = [k \in 0 .. n |-> LoopTurn(f, items, k)]

\* The loop can be run from any number of items.
LEMMA LoopExists ==
  ASSUME NEW items, NEW n \in Nat
  PROVE  \E f : Loop(f, items, n)
<1> DEFINE Bad == {k \in Nat : ~\E f : Loop(f, items, k)}
<1> SUFFICES ASSUME Bad # {} PROVE FALSE
  OBVIOUS
<1>1. PICK k \in Bad : \A j \in Bad : k <= j
  BY Least, Bad \subseteq Nat
<1>2. CASE k = 0
  <2> DEFINE g == [i \in 0 .. 0 |-> i]
  <2>1. g = [i \in 0 .. 0 |-> LoopTurn(g, items, i)]
    BY SMT DEF LoopTurn
  <2> HIDE DEF g
  <2> QED BY <1>2, <2>1 DEF Loop
<1>3. CASE k # 0
  <2>1. k \in Nat /\ k - 1 \in Nat /\ k - 1 \notin Bad
    BY <1>1, <1>3, SMT
  <2>2. PICK f : Loop(f, items, k - 1)
    BY <2>1
  <2> DEFINE g == [i \in 0 .. k |-> IF i = k THEN LoopTurn(f, items, k) ELSE f[i]]
  <2>3. \A i \in 0 .. k - 1 : g[i] = f[i]
    BY <2>1, SMT
  <2>4. \A i \in 0 .. k - 1 : f[i] = LoopTurn(f, items, i)
    BY <2>2 DEF Loop
  <2>5. ASSUME NEW i \in 0 .. k PROVE LoopTurn(g, items, i) = LoopTurn(f, items, i)
    <3>1. ~(i <= 1) => i - 1 \in 0 .. k - 1
      BY <2>1, SMT
    <3>2. ~(i <= 1) => g[i - 1] = f[i - 1]
      BY <2>3, <3>1
    <3> HIDE DEF g
    <3> QED BY <3>2 DEF LoopTurn
  <2>6. \A i \in 0 .. k : g[i] = LoopTurn(g, items, i)
    BY <2>1, <2>4, <2>5, SMT
  <2>7. g = [i \in 0 .. k |-> g[i]]
    OBVIOUS
  <2> HIDE DEF g
  <2>8. Loop(g, items, k)
    BY <2>6, <2>7 DEF Loop
  <2> QED BY <2>8
<1> QED BY <1>2, <1>3

\* m is where the loop should stop when it starts with k items: the most that fit, or
\* one.
Stops(items, k, m) ==
  /\ m \in 0 .. k
  /\ m > 1 => Fits(items, m)
  /\ \A j \in m + 1 .. k : ~Fits(items, j)
  /\ m = 0 => k = 0
  /\ Fits(items, k) => m = k

\* The loop stops there.
LEMMA LoopStops ==
  ASSUME NEW items, NEW n \in Nat, NEW f, Loop(f, items, n)
  PROVE  Stops(items, n, f[n])
<1> DEFINE Bad == {k \in 0 .. n : ~Stops(items, k, f[k])}
<1> SUFFICES ASSUME Bad # {} PROVE FALSE
  BY SMT
<1>0. Bad \subseteq Nat
  BY SMT
<1>1. PICK k \in Bad : \A j \in Bad : k <= j
  BY <1>0, Least
<1>2. k \in 0 .. n /\ ~Stops(items, k, f[k]) /\ f[k] = LoopTurn(f, items, k)
  BY DEF Loop
<1>3. ~(k <= 1 \/ Fits(items, k))
  BY <1>2, SMT DEF LoopTurn, Stops
<1>4. k - 1 \in 0 .. n /\ k - 1 \notin Bad
  BY <1>1, <1>2, <1>3, SMT
<1>5. Stops(items, k - 1, f[k - 1]) /\ f[k] = f[k - 1]
  BY <1>2, <1>3, <1>4 DEF LoopTurn
<1>6. Stops(items, k, f[k])
  BY <1>2, <1>3, <1>5, SMT DEF Stops
<1> QED BY <1>2, <1>6

\* TrimSliceToFit keeps the items up to that place.
LEMMA TrimStops ==
  ASSUME NEW items \in Seq(Objects)
  PROVE  \E m : Stops(items, Len(items), m) /\ TrimSliceToFit(items) = SubSeq(items, 1, m)
<1> DEFINE n == Len(items)
           left == CHOOSE f : f = [k \in 0 .. n |-> LoopTurn(f, items, k)]
<1>1. TrimSliceToFit(items) = SubSeq(items, 1, left[n])
  BY DEF TrimSliceToFit, LoopTurn
<1>2. n \in Nat
  BY SMT
<1>3. \E f : f = [k \in 0 .. n |-> LoopTurn(f, items, k)]
  BY <1>2, LoopExists DEF Loop
<1>4. left = [k \in 0 .. n |-> LoopTurn(left, items, k)]
  BY <1>3
<1> HIDE DEF left
<1>5. Loop(left, items, n)
  BY <1>4 DEF Loop
<1> QED BY <1>1, <1>2, <1>5, LoopStops

\* Two lists without an object in common make a list without repetitions.
LEMMA Joined ==
  ASSUME NEW s \in Seq(Objects), NEW u \in Seq(Objects), IsInjective(s), IsInjective(u),
         Range(s) \cap Range(u) = {}
  PROVE  s \o u \in Seq(Objects) /\ IsInjective(s \o u) /\ Range(s \o u) = Range(s) \cup Range(u)
<1> DEFINE t == s \o u
<1>1. /\ t \in Seq(Objects) /\ DOMAIN t = 1 .. Len(s) + Len(u) /\ Len(s) \in Nat /\ Len(u) \in Nat
      /\ DOMAIN s = 1 .. Len(s) /\ DOMAIN u = 1 .. Len(u)
  BY SMT
<1>2. \A i \in DOMAIN s : i \in DOMAIN t /\ t[i] = s[i]
  BY SMT
<1>3. \A i \in DOMAIN u : i + Len(s) \in DOMAIN t /\ t[i + Len(s)] = u[i]
  BY SMT
<1>4. \A i \in DOMAIN t : i \in DOMAIN s \/ (i - Len(s) \in DOMAIN u /\ t[i] = u[i - Len(s)])
  <2> SUFFICES ASSUME NEW i \in DOMAIN t, i \notin DOMAIN s
               PROVE  i - Len(s) \in DOMAIN u /\ t[i] = u[i - Len(s)]
    OBVIOUS
  <2>1. i \in Nat /\ i > Len(s) /\ i <= Len(s) + Len(u)
    BY <1>1, SMT
  <2>2. i - Len(s) \in DOMAIN u /\ (i - Len(s)) + Len(s) = i
    BY <1>1, <2>1, SMT
  <2> QED BY <1>3, <2>2
<1>5. \A i \in DOMAIN s, j \in DOMAIN u : s[i] # u[j]
  BY DEF Range
<1> HIDE DEF t
<1>6. Range(t) = Range(s) \cup Range(u)
  <2>1. Range(t) \subseteq Range(s) \cup Range(u)
    BY <1>2, <1>4 DEF Range
  <2>2. Range(s) \subseteq Range(t) /\ Range(u) \subseteq Range(t)
    BY <1>2, <1>3 DEF Range
  <2> QED BY <2>1, <2>2
<1>7. IsInjective(t)
  <2> SUFFICES ASSUME NEW i \in DOMAIN t, NEW j \in DOMAIN t, t[i] = t[j]
               PROVE  i = j
    BY DEF IsInjective
  <2>1. i \in Int /\ j \in Int
    BY <1>1, SMT
  <2>2. i - Len(s) = j - Len(s) => i = j
    BY <1>1, <2>1, SMT
  <2> QED BY <1>2, <1>4, <1>5, <2>2, SMT DEF IsInjective
<1> QED BY <1>1, <1>6, <1>7 DEF t

\* What the API server returns lists the objects, each once.
LEMMA ListingLists ==
  ASSUME NEW S, S \subseteq Objects, NEW items \in Listings(S)
  PROVE  items \in Seq(Objects) /\ IsInjective(items) /\ Range(items) = S
<1>1. IsFiniteSet(S) /\ Cardinality(S) \in Nat
  BY ListAssumption, FS_Subset, FS_CardinalityType
<1>2. /\ items \in [1 .. Cardinality(S) -> S] /\ IsInjective(items)
      /\ \A o \in S : \E i \in 1 .. Cardinality(S) : items[i] = o
  BY DEF Listings, Bijection, Injection, Surjection
<1>3. items \in Seq(Objects)
  BY <1>1, <1>2, SMT
<1>4. Range(items) = S
  BY <1>2 DEF Range
<1> QED BY <1>2, <1>3, <1>4

ListKinds == {"Deployment", "StatefulSet", "Pod", "RemediationRequest"}

QueryRecs ==
  [pc : {"idle", "list", "answered"}, tool : {"none", "workloads", "Pod", "RemediationRequest"},
   filter : BOOLEAN, todo : Seq(ListKinds), all : Seq(Objects), result : Seq(Objects),
   truncated : BOOLEAN]

\* The kinds that have been listed.
Listed == Range(Requests(query.tool)) \ Range(query.todo)

\* The requests that are left are the last ones of the tool.
TodoOK(tool, todo) ==
  \/ tool = "workloads" /\ todo \in {<<"Deployment", "StatefulSet">>, <<"StatefulSet">>, <<>>}
  \/ tool \in {"Pod", "RemediationRequest"} /\ todo \in {<<tool>>, <<>>}

\* Of the kinds listed so far, the list has every object that was there throughout,
\* and only objects that were there at some time, each once.
CollectedOK ==
  /\ always \subseteq there /\ there \subseteq ever
  /\ IsInjective(query.all)
  /\ \A o \in Range(query.all) : o \in Asked(ever) /\ Kind[o] \in Listed
  /\ \A o \in Asked(always) : Kind[o] \in Listed => o \in Range(query.all)

AnswerOK(q) ==
  IF q.tool = "RemediationRequest" THEN q.result = q.all
  ELSE \E m : /\ Stops(q.all, Len(q.all), m) /\ q.result = SubSeq(q.all, 1, m)
              /\ q.truncated = ~Fits(q.all, Len(q.all))

ListInv ==
  /\ there \subseteq Objects /\ ever \subseteq Objects
  /\ query \in QueryRecs
  /\ query.pc # "idle" => TodoOK(query.tool, query.todo) /\ CollectedOK
  /\ query.pc = "answered" => query.todo = <<>> /\ AnswerOK(query)

\* A request takes the first kind that has not been listed.
LEMMA NextKind ==
  ASSUME NEW tool, NEW todo, TodoOK(tool, todo), todo # <<>>
  PROVE  LET done(t) == Range(Requests(tool)) \ Range(t)
         IN  /\ done(Tail(todo)) = done(todo) \cup {Head(todo)}
             /\ Head(todo) \in Range(Requests(tool)) /\ Head(todo) \notin done(todo)
             /\ TodoOK(tool, Tail(todo)) /\ Tail(todo) \in Seq(ListKinds)
<1>1. /\ Range(<<>>) = {}
      /\ \A a : Range(<<a>>) = {a} /\ Head(<<a>>) = a /\ Tail(<<a>>) = <<>>
      /\ \A a, b : Range(<<a, b>>) = {a, b} /\ Head(<<a, b>>) = a /\ Tail(<<a, b>>) = <<b>>
  BY SMT DEF Range
<1>2. CASE tool = "workloads" /\ todo = <<"Deployment", "StatefulSet">>
  <2>1. Requests(tool) = todo /\ Head(todo) = "Deployment" /\ Tail(todo) = <<"StatefulSet">>
    BY <1>1, <1>2 DEF Requests
  <2>2. Range(todo) = {"Deployment", "StatefulSet"} /\ Range(Tail(todo)) = {"StatefulSet"}
    BY <1>1, <1>2, <2>1
  <2>3. TodoOK(tool, Tail(todo)) /\ <<"StatefulSet">> \in Seq(ListKinds)
    BY <1>2, <2>1, SMT DEF TodoOK, ListKinds
  <2> QED BY <2>1, <2>2, <2>3
<1>3. CASE tool = "workloads" /\ todo = <<"StatefulSet">>
  <2>1. /\ Requests(tool) = <<"Deployment", "StatefulSet">>
        /\ Head(todo) = "StatefulSet" /\ Tail(todo) = <<>>
    BY <1>1, <1>3 DEF Requests
  <2>2. Range(Requests(tool)) = {"Deployment", "StatefulSet"} /\ Range(todo) = {"StatefulSet"}
    BY <1>1, <1>3, <2>1, SMT
  <2>3. TodoOK(tool, Tail(todo)) /\ <<>> \in Seq(ListKinds)
    BY <1>3, <2>1, SMT DEF TodoOK
  <2> QED BY <1>1, <2>1, <2>2, <2>3
<1>4. CASE tool \in {"Pod", "RemediationRequest"} /\ todo = <<tool>>
  <2>1. Requests(tool) = todo /\ Head(todo) = tool /\ Tail(todo) = <<>> /\ Range(todo) = {tool}
    BY <1>1, <1>4 DEF Requests
  <2>2. TodoOK(tool, <<>>) /\ <<>> \in Seq(ListKinds)
    BY <1>4, SMT DEF TodoOK
  <2> QED BY <1>1, <2>1, <2>2
<1> QED BY <1>2, <1>3, <1>4 DEF TodoOK

\* At the start, and between calls, nothing is asked.
LEMMA InitList == ListInit => ListInv
<1>1. NoQuery \in QueryRecs /\ NoQuery.pc = "idle"
  <2>1. <<>> \in Seq(ListKinds) /\ <<>> \in Seq(Objects)
    BY SMT
  <2> QED BY <2>1 DEF NoQuery, QueryRecs
<1> QED BY <1>1 DEF ListInit, ListInv

\* A call begins.
LEMMA HandleListKeeps == ListInv /\ HandleList => ListInv'
<1> SUFFICES ASSUME ListInv, HandleList
             PROVE  ListInv'
  OBVIOUS
<1>1. PICK tool \in {"workloads", "Pod", "RemediationRequest"}, filter \in BOOLEAN :
        query' = [NoQuery EXCEPT !.pc = "list", !.tool = tool, !.filter = filter,
                                 !.todo = Requests(tool)]
  BY DEF HandleList
<1>2. Requests(tool) \in Seq(ListKinds) /\ TodoOK(tool, Requests(tool))
  <2>1. CASE tool = "workloads"
    <3>1. Requests(tool) = <<"Deployment", "StatefulSet">>
      BY <2>1 DEF Requests
    <3>2. <<"Deployment", "StatefulSet">> \in Seq(ListKinds)
      BY SMT DEF ListKinds
    <3> QED BY <2>1, <3>1, <3>2 DEF TodoOK
  <2>2. CASE tool # "workloads"
    <3>1. Requests(tool) = <<tool>> /\ tool \in ListKinds
      BY <2>2 DEF Requests, ListKinds
    <3>2. <<tool>> \in Seq(ListKinds)
      BY <3>1, SMT
    <3> QED BY <2>2, <3>1, <3>2 DEF TodoOK
  <2> QED BY <2>1, <2>2
<1> DEFINE todo == Requests(tool)
<1> HIDE DEF todo
<1>3. /\ query' \in QueryRecs /\ query'.pc = "list" /\ query'.tool = tool /\ query'.todo = todo
      /\ query'.all = <<>>
  <2>1. query' = [pc |-> "list", tool |-> tool, filter |-> filter, todo |-> todo, all |-> <<>>,
                  result |-> <<>>, truncated |-> FALSE]
    BY <1>1 DEF NoQuery, todo
  <2>2. todo \in Seq(ListKinds) /\ <<>> \in Seq(Objects)
    BY <1>2, SMT DEF todo
  <2> QED BY <2>1, <2>2 DEF QueryRecs
<1>4. Listed' = {} /\ Range(<<>>) = {} /\ IsInjective(<<>>)
  BY <1>3, SMT DEF Listed, Range, IsInjective, todo
<1>5. CollectedOK'
  BY <1>3, <1>4 DEF CollectedOK, HandleList
<1> QED BY <1>2, <1>3, <1>5 DEF ListInv, HandleList, todo

\* One kind is listed.
LEMMA ListKeeps == ListInv /\ List => ListInv'
<1> SUFFICES ASSUME ListInv, List
             PROVE  ListInv'
  OBVIOUS
<1> DEFINE h == Head(query.todo)
           S == Selected(there, h)
           rest == Tail(query.todo)
<1>1. PICK items \in Listings(S) :
        query' = [query EXCEPT !.all = Collected(items), !.todo = rest]
  BY DEF List
<1>2. query.pc = "list" /\ query.todo # <<>> /\ UNCHANGED <<there, always, ever>>
  BY DEF List
<1>3. query \in QueryRecs /\ TodoOK(query.tool, query.todo) /\ CollectedOK
  BY <1>2 DEF ListInv
<1>4. items \in Seq(Objects) /\ IsInjective(items) /\ Range(items) = S
  BY ListingLists DEF ListInv, Selected
<1>5. /\ Range(Requests(query.tool)) \ Range(rest) = Listed \cup {h}
      /\ h \in Range(Requests(query.tool)) /\ h \notin Listed
      /\ TodoOK(query.tool, rest) /\ rest \in Seq(ListKinds)
  BY <1>2, <1>3, NextKind DEF Listed
<1>6. \A o : o \in S <=> o \in there /\ Kind[o] = h /\ (query.filter => Matches[o])
  BY DEF Selected
<1> HIDE DEF h, S, rest
<1>7. query.all \in Seq(Objects) /\ IsInjective(query.all) /\ Range(query.all) \cap S = {}
  <2>1. query.all \in Seq(Objects)
    BY <1>3 DEF QueryRecs
  <2>2. IsInjective(query.all) /\ \A o \in Range(query.all) : Kind[o] \in Listed
    BY <1>3 DEF CollectedOK
  <2> QED BY <1>5, <1>6, <2>1, <2>2
<1>8. /\ Collected(items) \in Seq(Objects) /\ IsInjective(Collected(items))
      /\ Range(Collected(items)) = Range(query.all) \cup S
  BY <1>4, <1>7, Joined DEF Collected
<1> DEFINE all == Collected(items)
<1> HIDE DEF all
<1>9. /\ query' \in QueryRecs /\ query'.pc = "list" /\ query'.tool = query.tool
      /\ query'.filter = query.filter /\ query'.all = all /\ query'.todo = rest
  BY <1>1, <1>2, <1>3, <1>5, <1>8 DEF QueryRecs, all
<1>10. Listed' = Listed \cup {h}
  BY <1>5, <1>9 DEF Listed
<1>11. /\ \A o \in Asked(ever) : o \in Asked(ever)'
       /\ \A o \in Asked(always)' : o \in Asked(always)
       /\ \A o \in S : o \in Asked(ever)' /\ Kind[o] = h
       /\ \A o \in Asked(always)' : Kind[o] = h => o \in S
  BY <1>2, <1>3, <1>5, <1>6, <1>9 DEF Asked, CollectedOK
<1>12. CollectedOK'
  <2>1. \A o \in Range(all) : o \in Asked(ever)' /\ Kind[o] \in Listed'
    BY <1>3, <1>8, <1>10, <1>11 DEF CollectedOK, all
  <2>2. \A o \in Asked(always)' : Kind[o] \in Listed' => o \in Range(all)
    BY <1>3, <1>8, <1>10, <1>11 DEF CollectedOK, all
  <2> QED BY <1>2, <1>3, <1>8, <1>9, <2>1, <2>2 DEF CollectedOK, all
<1> QED BY <1>2, <1>5, <1>9, <1>12 DEF ListInv

\* The answer is trimmed.
LEMMA ListAnswerKeeps == ListInv /\ ListAnswer => ListInv'
<1> SUFFICES ASSUME ListInv, ListAnswer
             PROVE  ListInv'
  OBVIOUS
<1> DEFINE items == query.all
           result == IF Trims THEN TrimSliceToFit(items) ELSE items
           truncated == Trims /\ ~Fits(items, Len(items))
<1>1. /\ query.pc = "list" /\ query.todo = <<>> /\ UNCHANGED <<there, always, ever>>
      /\ query' = [query EXCEPT !.pc = "answered", !.result = result, !.truncated = truncated]
  BY DEF ListAnswer
<1>2. query \in QueryRecs /\ TodoOK(query.tool, query.todo) /\ CollectedOK /\ items \in Seq(Objects)
  BY <1>1 DEF ListInv, QueryRecs
<1>3. PICK m : Stops(items, Len(items), m) /\ TrimSliceToFit(items) = SubSeq(items, 1, m)
  BY <1>2, TrimStops
<1>4. result \in Seq(Objects) /\ truncated \in BOOLEAN
  BY <1>2, <1>3, SMT DEF Stops
<1>5. /\ Trims => result = SubSeq(items, 1, m) /\ truncated = ~Fits(items, Len(items))
      /\ ~Trims => result = items
  BY <1>3
<1> HIDE DEF result, truncated
<1>6. /\ query' \in QueryRecs /\ query'.pc = "answered" /\ query'.tool = query.tool
      /\ query'.filter = query.filter /\ query'.all = items /\ query'.todo = query.todo
      /\ query'.result = result /\ query'.truncated = truncated
  BY <1>1, <1>2, <1>4 DEF QueryRecs
<1>7. CollectedOK'
  BY <1>1, <1>2, <1>6 DEF CollectedOK, Asked, Listed
<1>8. AnswerOK(query')
  BY <1>3, <1>5, <1>6 DEF AnswerOK, Trims
<1> QED BY <1>1, <1>2, <1>6, <1>7, <1>8 DEF ListInv

\* Every step keeps ListInv.
LEMMA ListStep == ListInv /\ [ListNext]_listVars => ListInv'
<1> SUFFICES ASSUME ListInv, [ListNext]_listVars
             PROVE  ListInv'
  OBVIOUS
<1>1. CASE UNCHANGED listVars
  BY <1>1 DEF ListInv, CollectedOK, Asked, Listed, listVars
<1>2. CASE ListFails \/ ListEnds
  <2>1. NoQuery \in QueryRecs /\ NoQuery.pc = "idle"
    BY SMT DEF NoQuery, QueryRecs
  <2> QED BY <1>2, <2>1 DEF ListFails, ListEnds, ListInv
<1>3. ASSUME NEW o \in Objects, Appear(o)
      PROVE  ListInv'
  BY <1>3 DEF Appear, ListInv, CollectedOK, Asked, Listed
<1>4. ASSUME NEW o \in Objects, Vanish(o)
      PROVE  ListInv'
  BY <1>4 DEF Vanish, ListInv, CollectedOK, Asked, Listed
<1> QED BY <1>1, <1>2, <1>3, <1>4, HandleListKeeps, ListKeeps, ListAnswerKeeps DEF ListNext

\* ListInv implies the property.
LEMMA CompleteByInv == ListInv => AnswerIsComplete
<1> SUFFICES ASSUME ListInv, query.pc = "answered"
             PROVE  AnswerIsComplete
  BY DEF AnswerIsComplete
<1> DEFINE all == query.all
           n == Len(all)
<1>1. query \in QueryRecs /\ CollectedOK /\ query.todo = <<>> /\ AnswerOK(query)
  BY DEF ListInv
<1>2. all \in Seq(Objects) /\ n \in Nat /\ DOMAIN all = 1 .. n /\ query.truncated \in BOOLEAN
  BY <1>1, SMT DEF QueryRecs
<1>3. Range(query.todo) = {}
  BY <1>1, SMT DEF Range
<1>4. /\ Range(all) \subseteq Asked(ever) /\ Asked(always) \subseteq Range(all)
      /\ IsInjective(all)
  BY <1>1, <1>3 DEF CollectedOK, Listed, Asked
<1>5. CASE ~Trims
  BY <1>1, <1>4, <1>5 DEF AnswerIsComplete, AnswerOK, Trims
<1>6. CASE Trims
  <2>1. PICK m : /\ Stops(all, n, m) /\ query.result = SubSeq(all, 1, m)
                 /\ query.truncated = ~Fits(all, n)
    BY <1>1, <1>6 DEF AnswerOK, Trims
  <2> HIDE DEF all
  <2>2. m \in 0 .. n
    BY <2>1 DEF Stops
  <2>3. /\ Len(query.result) = m /\ DOMAIN query.result = 1 .. m
        /\ \A i \in 1 .. m : i \in DOMAIN all /\ query.result[i] = all[i]
    <3>1. m \in Nat /\ m <= n /\ n = Len(all)
      BY <1>2, <2>2, SMT
    <3> HIDE DEF n
    <3>2. Len(SubSeq(all, 1, m)) = m /\ DOMAIN SubSeq(all, 1, m) = 1 .. m
      BY <1>2, <3>1, SMT
    <3>3. \A i \in 1 .. m : SubSeq(all, 1, m)[i] = all[i]
      BY <1>2, <3>1, SMT
    <3>4. \A i \in 1 .. m : i \in DOMAIN all
      BY <1>2, <3>1, SMT
    <3> QED BY <2>1, <3>2, <3>3, <3>4
  <2>4. IsInjective(query.result) /\ Range(query.result) \subseteq Range(all)
    BY <1>4, <2>3, SMT DEF IsInjective, Range
  <2>5. m = n => query.result = all
    BY <1>2, <2>1, SMT
  <2>6. Fits(all, n) => m = n
    BY <2>1 DEF Stops
  <2>7. n = 0 => all = <<>>
    BY <1>2, SMT
  <2>8. query.truncated \/ query.result = all
    BY <1>2, <2>1, <2>5, <2>6
  <2>9. /\ m <= n /\ query.result = SubSeq(all, 1, m) /\ (m > 1 => Fits(all, m))
        /\ \A k \in m + 1 .. n : ~Fits(all, k)
        /\ m = 0 => all = <<>>
    <3>1. m = 0 => n = 0
      BY <2>1 DEF Stops
    <3> HIDE DEF n
    <3> QED BY <1>2, <2>1, <2>2, <2>7, <3>1, SMT DEF Stops
  <2>10. ~Fits(all, m) => query.truncated
    BY <1>2, <2>1, <2>5, <2>6, <2>8
  <2> QED BY <1>4, <2>3, <2>4, <2>8, <2>9, <2>10 DEF AnswerIsComplete, all
<1> QED BY <1>5, <1>6

\* For any objects, coming and going at any time: the answer of a list tool has each
\* object at most once, none that was not there, and all that were there throughout
\* the call unless it says that it is truncated; it is trimmed no more than needed.
THEOREM AnswersAreComplete == ToolsSpec => []AnswerIsComplete
<1>1. ToolsInit => ListInv
  BY InitList DEF ToolsInit
<1>2. [ToolsNext]_toolVars => [ListNext]_listVars
  BY DEF ToolsNext, toolVars
<1>3. ToolsSpec => ToolsInit /\ [][ToolsNext]_toolVars
  BY PTL DEF ToolsSpec
<1> QED BY <1>1, <1>2, <1>3, ListStep, CompleteByInv, PTL

==============================================================================
