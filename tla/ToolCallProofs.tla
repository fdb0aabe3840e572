--------------------------- MODULE ToolCallProofs ---------------------------
(* Theorems about the limiters, for any number of goroutines, any size of   *)
(* buckets, any number of slots and any age of eviction that lets a bucket  *)
(* fill up, and about the requests behind them, for any number of requests, *)
(* users, tools and roles and any size of the semaphore.                    *)
EXTENDS AgentTools, FiniteSetTheorems, TLAPS

\* First-order and set reasoning is Zenon's; a leaf with arithmetic, sequences or
\* the fields of records cites SMT.
USE ZenonT(30)

-----------------------------------------------------------------------------
(* Buckets.                                                                 *)

\* The types of the bucket and of its ideal.
BucketTyped ==
  /\ entry \in [has : BOOLEAN, tokens : 0 .. Burst, age : 0 .. MaxAge + 1]
  /\ ideal \in Int /\ ideal <= Burst

\* The inductive invariant: the ideal bucket is never behind the one in the map, nor
\* behind one that was emptied when the entry was last seen; without an entry it is
\* full.
BucketInv ==
  /\ BucketTyped
  /\ entry.has => ideal >= entry.tokens /\ ideal >= Least(entry.age, Burst)
  /\ ~entry.has => ideal = Burst

\* It holds at the start.
LEMMA InitBucket == RateInit => BucketInv
  BY RateAssumption, SMT DEF RateInit, BucketInv, BucketTyped, NoEntry

\* A grant takes a token from both buckets, a refusal from none.
LEMMA AllowBucket == ASSUME NEW ok \in BOOLEAN, BucketInv, Allow(ok) PROVE BucketInv'
<1> DEFINE tokensLeft == IF ok THEN Tokens - 1 ELSE 0
<1>1. Tokens \in 0 .. Burst /\ ideal >= Tokens
  BY RateAssumption, SMT DEF BucketInv, BucketTyped, Tokens
<1>2. ok => Tokens > 0
  BY DEF Allow
<1>3. tokensLeft \in 0 .. Burst
  BY <1>1, <1>2, RateAssumption, SMT
<1>4. ideal' \in Int /\ ideal' <= Burst /\ ideal' >= tokensLeft
  BY <1>1, <1>2, RateAssumption, SMT DEF Allow, BucketInv, BucketTyped
<1> HIDE DEF tokensLeft
<1>5. entry' = [has |-> TRUE, tokens |-> tokensLeft, age |-> 0]
  BY DEF Allow, tokensLeft
<1>6. QED
  BY <1>3, <1>4, <1>5, RateAssumption, SMT DEF BucketInv, BucketTyped, Least

\* The entry is evicted when the ideal bucket is full.
LEMMA CleanupBucket == ASSUME BucketInv, cleanup PROVE BucketInv'
  BY RateAssumption, SMT DEF BucketInv, BucketTyped, cleanup, NoEntry, Least

\* Both buckets gain the same.
LEMMA TickBucket == ASSUME BucketInv, Tick PROVE BucketInv'
  BY RateAssumption, SMT DEF BucketInv, BucketTyped, Tick, Least

\* Slots do not touch buckets, but to mark the entry of a user as seen.
LEMMA SlotBucket == ASSUME NEW w \in Workers, BucketInv, SlotStep(w) PROVE BucketInv'
<1>1. CASE AcquireSession(w)
  <2>1. entry' = [entry EXCEPT !.has = TRUE, !.age = 0] /\ ideal' = ideal
    BY <1>1 DEF AcquireSession
  <2> DEFINE t == entry.tokens
  <2>2. entry' = [has |-> TRUE, tokens |-> t, age |-> 0]
    BY <2>1 DEF BucketInv, BucketTyped
  <2>3. t \in 0 .. Burst /\ ideal >= t /\ ideal <= Burst /\ ideal \in Int
    BY RateAssumption, SMT DEF BucketInv, BucketTyped, Least
  <2> HIDE DEF t
  <2>4. /\ entry' \in [has : BOOLEAN, tokens : 0 .. Burst, age : 0 .. MaxAge + 1]
        /\ entry'.has /\ entry'.tokens = t /\ entry'.age = 0
    BY <2>2, <2>3, RateAssumption, SMT
  <2>5. QED
    BY <2>1, <2>3, <2>4, RateAssumption, SMT DEF BucketInv, BucketTyped, Least
<1>2. CASE ~AcquireSession(w)
  <2>1. UNCHANGED <<entry, ideal>>
    BY <1>2 DEF SlotStep, LLMAcquire, Load, CompareAndSwap, ReleaseSession, LLMRelease, Unload, SwapBack
  <2>2. QED
    BY <2>1 DEF BucketInv, BucketTyped
<1>3. QED
  BY <1>1, <1>2

\* What a key is granted with evictions, it would be granted without them.
THEOREM EvictionGrantsNothing == RateSpec => []NoExtraGrants
<1>1. BucketInv /\ [RateNext]_rateVars => BucketInv'
  <2> SUFFICES ASSUME BucketInv, [RateNext]_rateVars PROVE BucketInv'
    OBVIOUS
  <2>1. CASE RateNext
    BY <2>1, AllowBucket, CleanupBucket, TickBucket, SlotBucket DEF RateNext
  <2>2. CASE UNCHANGED rateVars
    BY <2>2 DEF rateVars, BucketInv, BucketTyped
  <2>3. QED
    BY <2>1, <2>2
<1>2. BucketInv => NoExtraGrants
  BY RateAssumption, SMT DEF BucketInv, BucketTyped, NoExtraGrants
<1>3. QED
  BY InitBucket, <1>1, <1>2, PTL DEF RateSpec
-----------------------------------------------------------------------------
(* Slots.                                                                   *)

Inside == {"in", "unload", "unswap"}

\* The types of the counter and of the goroutines.
SlotTyped ==
  /\ tier \in Buckets \cup Slots
  /\ count \in 0 .. MaxSlots
  /\ slot \in [Workers -> [pc : {"out", "load", "swap"} \cup Inside, current : 0 .. MaxSlots]]

\* The inductive invariant: the counter is exact, a goroutine about to count up has
\* read a value below the limit, and the entry of a user is in the map while a slot
\* is held or about to be taken.
SlotInv ==
  /\ SlotTyped
  /\ count = Cardinality(Holders)
  /\ \A w \in Workers : At(w, "swap") => slot[w].current < MaxSlots
  /\ tier = "session" /\ count > 0 => entry.has
  /\ \A w \in Workers : tier = "session" /\ slot[w].pc \in {"load", "swap"} =>
                           entry.has /\ entry.age = 0

\* Holders are finitely many, and at least one when there is one.
LEMMA HoldersFinite ==
  /\ IsFiniteSet(Holders) /\ Cardinality(Holders) \in Nat
  /\ \A w \in Holders : Cardinality(Holders) > 0
<1>1. IsFiniteSet(Holders)
  BY RateAssumption, FS_Subset DEF Holders
<1>2. Cardinality(Holders) \in Nat
  BY <1>1, FS_CardinalityType
<1>3. ASSUME NEW w \in Holders PROVE Cardinality(Holders) > 0
  BY <1>1, <1>2, <1>3, FS_EmptySet, SMT
<1>4. QED
  BY <1>1, <1>2, <1>3

\* What a step of one goroutine does to the number of holders.
LEMMA GoHolders ==
  ASSUME SlotTyped, NEW w \in Workers, NEW pc, NEW c, Go(w, pc, c)
  PROVE  /\ (w \in Holders <=> pc \in Inside) => Cardinality(Holders') = Cardinality(Holders)
         /\ w \notin Holders /\ pc \in Inside => Cardinality(Holders') = Cardinality(Holders) + 1
         /\ w \in Holders /\ pc \notin Inside => Cardinality(Holders') = Cardinality(Holders) - 1
<1>1. \A v \in Workers : v \in Holders' <=> IF v = w THEN pc \in Inside ELSE v \in Holders
  BY DEF Go, SlotTyped, Holders, Inside
<1>2. Holders \subseteq Workers /\ Holders' \subseteq Workers
  BY DEF Holders
<1>3. CASE (w \in Holders <=> pc \in Inside)
  <2>1. Holders' = Holders
    BY <1>1, <1>2, <1>3
  <2>2. QED
    BY <2>1, <1>3
<1>4. CASE w \notin Holders /\ pc \in Inside
  <2>1. Holders' = Holders \cup {w}
    BY <1>1, <1>2, <1>4
  <2>2. QED
    BY <2>1, <1>4, HoldersFinite, FS_AddElement
<1>5. CASE w \in Holders /\ pc \notin Inside
  <2>1. Holders' = Holders \ {w}
    BY <1>1, <1>2, <1>5
  <2>2. QED
    BY <2>1, <1>5, HoldersFinite, FS_RemoveElement
<1>6. QED
  BY <1>3, <1>4, <1>5

\* The slots at the start.
LEMMA InitSlot == RateInit => SlotInv
<1> SUFFICES ASSUME RateInit PROVE SlotInv
  OBVIOUS
<1>1. SlotTyped /\ \A w \in Workers : slot[w].pc = "out"
  BY RateAssumption, SMT DEF RateInit, SlotTyped, OutOfSlot
<1>2. Holders = {}
  BY <1>1 DEF Holders
<1>3. Cardinality(Holders) = 0
  BY <1>2, FS_EmptySet
<1>4. QED
  BY <1>1, <1>3, SMT DEF SlotInv, RateInit, At

\* Calls of Allow, evictions and time leave the slots alone.
LEMMA BucketSlot ==
  ASSUME BucketTyped, SlotInv, (\E ok \in BOOLEAN : Allow(ok)) \/ cleanup \/ Tick
  PROVE  SlotInv'
<1>1. UNCHANGED <<tier, count, slot>>
  BY DEF Allow, cleanup, Tick
<1>2. SlotTyped' /\ Holders' = Holders /\ \A w \in Workers : At(w, "swap")' => slot'[w].current < MaxSlots
  BY <1>1 DEF SlotInv, SlotTyped, Holders, At
<1>3. tier = "session" /\ count > 0 => entry'.has
  <2>1. CASE \E ok \in BOOLEAN : Allow(ok)
    BY <2>1 DEF Allow, Buckets
  <2>2. CASE cleanup
    BY <2>2, RateAssumption, SMT DEF cleanup, SlotInv, SlotTyped
  <2>3. CASE Tick
    BY <2>3 DEF Tick, SlotInv
  <2>4. QED
    BY <2>1, <2>2, <2>3
<1>4. ASSUME NEW w \in Workers, tier = "session", slot[w].pc \in {"load", "swap"}
      PROVE  entry'.has /\ entry'.age = 0
  <2>1. entry.has /\ entry.age = 0
    BY <1>4 DEF SlotInv
  <2>2. CASE \E ok \in BOOLEAN : Allow(ok)
    BY <2>2, <1>4 DEF Allow, Buckets
  <2>3. CASE cleanup
    BY <2>1, <2>3, RateAssumption, SMT DEF cleanup
  <2>4. CASE Tick
    BY <1>4, <2>4 DEF Tick, NobodyInside
  <2>5. QED
    BY <2>2, <2>3, <2>4
<1>5. QED
  BY <1>1, <1>2, <1>3, <1>4 DEF SlotInv

\* A step that neither takes nor returns a slot.
LEMMA KeepSlot ==
  ASSUME SlotInv, NEW w \in Workers, NEW pc \in {"out", "load", "swap"} \cup Inside,
         NEW c \in 0 .. MaxSlots, Go(w, pc, c), UNCHANGED <<tier, entry, count>>,
         w \in Holders <=> pc \in Inside, pc = "swap" => c < MaxSlots,
         tier = "session" /\ pc \in {"load", "swap"} => entry.has /\ entry.age = 0
  PROVE  SlotInv'
<1>1. SlotTyped' /\ slot' = [slot EXCEPT ![w] = [pc |-> pc, current |-> c]]
  BY DEF SlotInv, SlotTyped, Go
<1>2. Cardinality(Holders') = Cardinality(Holders)
  BY GoHolders DEF SlotInv
<1>3. \A v \in Workers : slot'[v] = IF v = w THEN [pc |-> pc, current |-> c] ELSE slot[v]
  BY <1>1 DEF SlotInv, SlotTyped
<1>4. QED
  BY <1>1, <1>2, <1>3, SMT DEF SlotInv, At

\* The entry of the user is found or made, and seen now.
LEMMA AcquireSlot ==
  ASSUME BucketTyped, SlotInv, NEW w \in Workers, AcquireSession(w)
  PROVE  SlotInv'
<1>1. /\ Go(w, "load", 0) /\ UNCHANGED <<tier, count>> /\ slot[w].pc = "out"
      /\ entry'.has /\ entry'.age = 0
  BY DEF AcquireSession, BucketTyped, At
<1>2. SlotTyped' /\ slot' = [slot EXCEPT ![w] = [pc |-> "load", current |-> 0]]
  BY <1>1, RateAssumption, SMT DEF SlotInv, SlotTyped, Go
<1>3. Cardinality(Holders') = Cardinality(Holders)
  <2>1. w \notin Holders /\ "load" \notin Inside
    BY <1>1 DEF Holders, Inside
  <2>2. QED
    BY <1>1, <2>1, GoHolders DEF SlotInv
<1>4. \A v \in Workers : slot'[v] = IF v = w THEN [pc |-> "load", current |-> 0] ELSE slot[v]
  BY <1>2 DEF SlotInv, SlotTyped
<1>5. QED
  BY <1>1, <1>2, <1>3, <1>4, SMT DEF SlotInv, At

\* The comparison fails, or the counter is counted up by the goroutine that now
\* holds a slot.
LEMMA CompareAndSwapSlot ==
  ASSUME SlotInv, NEW w \in Workers, CompareAndSwap(w)
  PROVE  SlotInv'
<1>1. w \notin Holders /\ slot[w].pc = "swap" /\ "load" \notin Inside /\ "in" \in Inside
  BY DEF CompareAndSwap, At, Holders, Inside
<1>2. CASE count # slot[w].current
  <2>1. Go(w, "load", 0) /\ UNCHANGED <<tier, entry, count>>
    BY <1>2 DEF CompareAndSwap
  <2>2. QED
    BY <1>1, <2>1, KeepSlot, RateAssumption, SMT DEF SlotInv
<1>3. CASE count = slot[w].current
  <2>1. Go(w, "in", 0) /\ count' = count + 1 /\ UNCHANGED <<tier, entry>>
    BY <1>3 DEF CompareAndSwap
  <2>2. Cardinality(Holders') = Cardinality(Holders) + 1
    BY <1>1, <2>1, GoHolders DEF SlotInv
  <2>3. count' \in 0 .. MaxSlots
    BY <1>1, <1>3, <2>1, RateAssumption, SMT DEF SlotInv, SlotTyped, At
  <2>4. SlotTyped' /\ slot' = [slot EXCEPT ![w] = [pc |-> "in", current |-> 0]]
    BY <1>1, <2>1, <2>3, RateAssumption, SMT DEF SlotInv, SlotTyped, Go
  <2>5. \A v \in Workers : slot'[v] = IF v = w THEN [pc |-> "in", current |-> 0] ELSE slot[v]
    BY <2>4 DEF SlotInv, SlotTyped
  <2>6. tier = "session" => entry.has
    BY <1>1 DEF SlotInv
  <2>7. QED
    BY <2>1, <2>2, <2>4, <2>5, <2>6, SMT DEF SlotInv, At
<1>4. QED
  BY <1>2, <1>3

\* The comparison fails, or the counter is counted down by a goroutine that held a
\* slot.
LEMMA SwapBackSlot ==
  ASSUME SlotInv, NEW w \in Workers, SwapBack(w)
  PROVE  SlotInv'
<1>1. w \in Holders /\ "unload" \in Inside /\ "out" \notin Inside
  BY DEF SwapBack, At, Holders, Inside
<1>2. CASE count # slot[w].current
  <2>1. Go(w, "unload", 0) /\ UNCHANGED <<tier, entry, count>>
    BY <1>2 DEF SwapBack
  <2>2. QED
    BY <1>1, <2>1, KeepSlot, RateAssumption, SMT
<1>3. CASE count = slot[w].current
  <2>1. Go(w, "out", 0) /\ count' = count - 1 /\ UNCHANGED <<tier, entry>>
    BY <1>3 DEF SwapBack
  <2>2. Cardinality(Holders') = Cardinality(Holders) - 1
    BY <1>1, <2>1, GoHolders DEF SlotInv
  <2>3. count' \in 0 .. MaxSlots
    BY <1>1, <2>1, HoldersFinite, RateAssumption, SMT DEF SlotInv, SlotTyped
  <2>4. SlotTyped' /\ slot' = [slot EXCEPT ![w] = [pc |-> "out", current |-> 0]]
    BY <2>1, <2>3, RateAssumption, SMT DEF SlotInv, SlotTyped, Go
  <2>5. \A v \in Workers : slot'[v] = IF v = w THEN [pc |-> "out", current |-> 0] ELSE slot[v]
    BY <2>4 DEF SlotInv, SlotTyped
  <2>6. tier = "session" => entry.has
    BY <1>1, HoldersFinite DEF SlotInv
  <2>7. QED
    BY <2>1, <2>2, <2>4, <2>5, <2>6, SMT DEF SlotInv, At
<1>4. QED
  BY <1>2, <1>3

\* The other steps of a goroutine.
LEMMA ReadingSlot ==
  ASSUME SlotInv, NEW w \in Workers,
         LLMAcquire(w) \/ Load(w) \/ ReleaseSession(w) \/ LLMRelease(w) \/ Unload(w)
  PROVE  SlotInv'
<1> USE RateAssumption
<1>1. CASE LLMAcquire(w)
  <2>1. w \notin Holders /\ "load" \notin Inside /\ tier # "session"
    BY <1>1 DEF LLMAcquire, At, Holders, Inside
  <2>2. QED
    BY <1>1, <2>1, KeepSlot, SMT DEF LLMAcquire
<1>2. CASE Load(w)
  <2>1. w \notin Holders /\ "out" \notin Inside /\ "swap" \notin Inside
    BY <1>2 DEF Load, At, Holders, Inside
  <2>2. count \in 0 .. MaxSlots /\ (tier = "session" => entry.has /\ entry.age = 0)
    BY <1>2 DEF Load, At, SlotInv, SlotTyped
  <2>3. CASE count >= MaxSlots
    BY <1>2, <2>1, <2>3, KeepSlot, SMT DEF Load
  <2>4. CASE ~(count >= MaxSlots)
    <3>1. count < MaxSlots /\ Go(w, "swap", count) /\ UNCHANGED <<tier, entry, count>>
      BY <1>2, <2>2, <2>4, SMT DEF Load
    <3>2. QED
      BY <2>1, <2>2, <3>1, KeepSlot
  <2>5. QED
    BY <2>3, <2>4
<1>3. CASE ReleaseSession(w) \/ LLMRelease(w)
  <2>1. w \in Holders /\ "unload" \in Inside
    BY <1>3 DEF ReleaseSession, LLMRelease, At, Holders, Inside
  <2>2. tier = "session" => entry.has
    BY <2>1, HoldersFinite DEF SlotInv
  <2>3. Go(w, "unload", 0) /\ UNCHANGED <<tier, entry, count>>
    BY <1>3, <2>2 DEF ReleaseSession, LLMRelease
  <2>4. QED
    BY <2>1, <2>3, KeepSlot, SMT
<1>4. CASE Unload(w)
  <2>1. w \in Holders /\ "unswap" \in Inside
    BY <1>4 DEF Unload, At, Holders, Inside
  <2>2. count \in 0 .. MaxSlots /\ ~(count <= 0)
    BY <2>1, HoldersFinite, SMT DEF SlotInv, SlotTyped
  <2>3. Go(w, "unswap", count) /\ UNCHANGED <<tier, entry, count>>
    BY <1>4, <2>2 DEF Unload
  <2>4. QED
    BY <2>1, <2>2, <2>3, KeepSlot
<1>5. QED
  BY <1>1, <1>2, <1>3, <1>4

\* A step of a goroutine that takes or returns a slot.
LEMMA StepSlot ==
  ASSUME BucketTyped, SlotInv, NEW w \in Workers, SlotStep(w)
  PROVE  SlotInv'
  BY AcquireSlot, CompareAndSwapSlot, SwapBackSlot, ReadingSlot DEF SlotStep

\* The compare-and-swap loops of AcquireSession, ReleaseSession and LLMSemaphore lose
\* no count and pass no limit, however many goroutines race, and the cleanup loop
\* never evicts the entry of a user who holds a slot.
THEOREM SlotsExact == RateSpec => []SlotsCounted
<1> DEFINE Inv == BucketInv /\ SlotInv
<1>1. RateInit => Inv
  BY InitBucket, InitSlot
<1>2. Inv /\ [RateNext]_rateVars => Inv'
  <2> SUFFICES ASSUME BucketInv, SlotInv, [RateNext]_rateVars PROVE BucketInv' /\ SlotInv'
    OBVIOUS
  <2>1. BucketTyped
    BY DEF BucketInv
  <2>2. CASE \E w \in Workers : SlotStep(w)
    BY <2>1, <2>2, StepSlot, SlotBucket
  <2>3. CASE (\E ok \in BOOLEAN : Allow(ok)) \/ cleanup \/ Tick
    <3>1. BucketInv'
      BY <2>3, AllowBucket, CleanupBucket, TickBucket
    <3>2. SlotInv'
      BY <2>1, <2>3, BucketSlot
    <3>3. QED
      BY <3>1, <3>2
  <2>4. CASE UNCHANGED rateVars
    BY <2>4 DEF rateVars, BucketInv, BucketTyped, SlotInv, SlotTyped, Holders, At
  <2>5. QED
    BY <2>2, <2>3, <2>4 DEF RateNext
<1>3. Inv => SlotsCounted
  BY RateAssumption, SMT DEF SlotInv, SlotTyped, SlotsCounted
<1>4. QED
  BY <1>1, <1>2, <1>3, PTL DEF RateSpec

-----------------------------------------------------------------------------
(* Requests to the tools and to the agent.                                  *)

InUse == {"running", "returned"}
InTask == {"turn", "start", "tooling", "after"}
Early == {"idle", "auth", "authenticated", "mcp", "allowed", "acquire", "a2a", "told"} \cup InTask
Stages == Early \cup InUse \cup {"waiting", "finished"}
Ran == {"ok", "error", "odd", "panic"}
Labels == {"denied", "rate_limited", "throttled", "success", "timeout", "error", "panic"}
Events == {"MCPToolDenied", "MCPToolFailed", "MCPToolInvoked"}

CallRecord ==
  [pc : Stages, user : Identities \cup {NoIdentity}, tool : Tools \cup {NoCall.tool},
   expired : BOOLEAN, result : Ran \cup {"none"}, labels : Seq(Labels), events : Seq(Events)]

\* A call that has been counted and audited once.
Once(r) ==
  /\ Len(r.labels) = 1 /\ Len(r.events) = 1
  /\ r.events[1] = "MCPToolInvoked" <=> r.result = "ok"
  /\ r.events[1] = "MCPToolDenied" <=> r.labels[1] = "denied"

Silent(r) == r.labels = <<>> /\ r.events = <<>>

\* What has been reported of a call at each stage: nothing before the tool returns,
\* and nothing of a panic before the deferred calls.
Reports(r) ==
  /\ r.pc \in Early \cup {"waiting", "running"} => Silent(r) /\ r.result = "none"
  /\ r.pc = "returned" => r.result \in Ran /\ IF r.result = "panic" THEN Silent(r) ELSE Once(r)
  /\ r.pc = "finished" => Once(r)

CallsInv == call \in [Calls -> CallRecord] /\ \A c \in Calls : Reports(call[c])

\* Call c moves on to r, and no other call moves.
Moves(c, r) == r \in CallRecord /\ Reports(r) /\ call' = [call EXCEPT ![c] = r]

\* What a move does to the calls.
LEMMA MovesCalls ==
  ASSUME CallsInv, NEW c \in Calls, NEW r, Moves(c, r)
  PROVE  CallsInv' /\ \A d \in Calls : call'[d] = IF d = c THEN r ELSE call[d]
  BY DEF CallsInv, Moves

\* The record of a call that is over or was refused.
LEMMA NoCallRecord == NoCall \in CallRecord /\ Reports(NoCall) /\ NoCall.pc = "idle"
  BY SMT DEF NoCall, CallRecord, Reports, Silent, Stages, Early

\* A step from one stage to another before the tool returns.
LEMMA StepMoves ==
  ASSUME CallsInv, NEW c \in Calls, NEW pc \in Early \cup {"waiting", "running"},
         call[c].pc \in Early \cup {"waiting", "running"}, Step(c, pc)
  PROVE  \E r : Moves(c, r) /\ r.pc = pc
<1> DEFINE q == call[c]
           r == [q EXCEPT !.pc = pc]
<1>1. q \in CallRecord /\ Silent(q) /\ q.result = "none" /\ call' = [call EXCEPT ![c] = r]
  BY DEF CallsInv, Reports, Step
<1> HIDE DEF q
<1>2. r \in CallRecord /\ r.pc = pc /\ Silent(r) /\ r.result = "none"
  BY <1>1 DEF CallRecord, Silent, Stages, InUse
<1> HIDE DEF r
<1>3. Reports(r)
  BY <1>2 DEF Reports, Early, InTask
<1>4. QED
  BY <1>1, <1>2, <1>3 DEF Moves

\* The stages of a request that has nothing of the semaphore and no task.
InFront == {"idle", "auth", "authenticated", "mcp", "allowed", "acquire", "a2a", "finished"}

\* The record of a call at stage pc with its one report.
WithReport(q, pc, result, label, event) ==
  [pc |-> pc, user |-> q.user, tool |-> q.tool, expired |-> q.expired, result |-> result,
   labels |-> <<label>>, events |-> <<event>>]

\* One report is a report.
LEMMA WithReportRecord ==
  ASSUME NEW q \in CallRecord, NEW pc \in Stages, NEW result \in Ran \cup {"none"},
         NEW label \in Labels, NEW event \in Events,
         event = "MCPToolInvoked" <=> result = "ok",
         event = "MCPToolDenied" <=> label = "denied"
  PROVE  LET r == WithReport(q, pc, result, label, event)
         IN  r \in CallRecord /\ r.pc = pc /\ r.result = result /\ Once(r)
<1> DEFINE l == <<label>>
           e == <<event>>
           r == WithReport(q, pc, result, label, event)
<1>1. /\ l \in Seq(Labels) /\ Len(l) = 1 /\ l[1] = label
      /\ e \in Seq(Events) /\ Len(e) = 1 /\ e[1] = event
  BY SMT
<1> HIDE DEF l, e
<1>2. r = [pc |-> pc, user |-> q.user, tool |-> q.tool, expired |-> q.expired, result |-> result,
           labels |-> l, events |-> e]
  BY DEF WithReport, l, e
<1> HIDE DEF r
<1>3. r \in CallRecord
  BY <1>1, <1>2 DEF CallRecord
<1>4. r.pc = pc /\ r.result = result /\ r.labels = l /\ r.events = e
  BY <1>2
<1>5. Once(r)
  BY <1>1, <1>4 DEF Once
<1>6. QED
  BY <1>3, <1>4, <1>5 DEF r

\* The first report of a call.
LEMMA ReportedIs ==
  ASSUME NEW c, call[c] \in CallRecord, Silent(call[c]), NEW label, NEW event
  PROVE  Reported(c, label, event) = WithReport(call[c], call[c].pc, call[c].result, label, event)
<1> DEFINE q == call[c]
<1>1. Append(q.labels, label) = <<label>> /\ Append(q.events, event) = <<event>>
  BY SMT DEF Silent
<1> HIDE DEF q
<1>2. Reported(c, label, event) = [q EXCEPT !.labels = <<label>>, !.events = <<event>>]
  BY <1>1 DEF Reported, q
<1>3. q \in CallRecord
  BY DEF q
<1>4. Reported(c, label, event) = WithReport(q, q.pc, q.result, label, event)
  BY <1>2, <1>3 DEF CallRecord, WithReport
<1>5. QED
  BY <1>4 DEF q

\* A call that is refused has been reported once.
LEMMA FinishMoves ==
  ASSUME CallsInv, NEW c \in Calls, call[c].pc \in Early \cup {"waiting"},
         NEW label \in {"denied", "rate_limited", "throttled"},
         NEW event \in {"MCPToolDenied", "MCPToolFailed"}, event = "MCPToolDenied" <=> label = "denied",
         Finish(c, label, event)
  PROVE  \E r : Moves(c, r) /\ r.pc = "finished"
<1> DEFINE q == call[c]
           r == WithReport(q, "finished", "none", label, event)
<1>1. q \in CallRecord /\ Silent(q) /\ q.result = "none"
  BY DEF CallsInv, Reports
<1>2. call' = [call EXCEPT ![c] = r]
  <2>1. Reported(c, label, event) = WithReport(q, q.pc, "none", label, event)
    BY <1>1, ReportedIs
  <2>2. [WithReport(q, q.pc, "none", label, event) EXCEPT !.pc = "finished"] = r
    BY SMT DEF WithReport
  <2>3. QED
    BY <2>1, <2>2 DEF Finish
<1> HIDE DEF q
<1>3. /\ "finished" \in Stages /\ "none" \in Ran \cup {"none"} /\ label \in Labels
      /\ event \in Events /\ event # "MCPToolInvoked"
  BY DEF Stages, Labels, Events
<1>4. r \in CallRecord /\ r.pc = "finished" /\ Once(r)
  BY <1>1, <1>3, WithReportRecord, SMT
<1> HIDE DEF r
<1>5. Reports(r)
  BY <1>4 DEF Reports, Early, InTask
<1>6. QED
  BY <1>2, <1>4, <1>5 DEF Moves

\* A tool that returns is reported once, and one that panics not yet.
LEMMA ReturnMoves ==
  ASSUME CallsInv, NEW c \in Calls, Return(c)
  PROVE  \E r : Moves(c, r) /\ r.pc = "returned"
<1> DEFINE q == call[c]
           Back(r) == CASE r = "ok" -> Reported(c, "success", "MCPToolInvoked")
                        [] r = "error" /\ q.expired -> Reported(c, "timeout", "MCPToolFailed")
                        [] r = "error" /\ ~q.expired -> Reported(c, "error", "MCPToolFailed")
                        [] r = "odd" -> Reported(c, "error", "MCPToolFailed")
                        [] r = "panic" -> q
<1>1. q \in CallRecord /\ Silent(q) /\ q.expired \in BOOLEAN
  BY DEF CallsInv, Reports, Return, Stage, CallRecord
<1>2. PICK res \in Ran : call' = [call EXCEPT ![c] = [Back(res) EXCEPT !.pc = "returned", !.result = res]]
  BY DEF Return, Results, Ran
<1>3. SUFFICES ASSUME NEW r, r = [Back(res) EXCEPT !.pc = "returned", !.result = res]
               PROVE  r \in CallRecord /\ r.pc = "returned" /\ r.result = res
                      /\ IF res = "panic" THEN Silent(r) ELSE Once(r)
  BY <1>2, <1>3 DEF Moves, Reports, Early, InTask
<1>4. ASSUME res # "panic"
      PROVE  \E label \in Labels, event \in Events :
               /\ Back(res) = Reported(c, label, event)
               /\ event = "MCPToolInvoked" <=> res = "ok"
               /\ event = "MCPToolDenied" <=> label = "denied"
  <2>1. CASE res = "ok"
    <3>1. Back(res) = Reported(c, "success", "MCPToolInvoked")
      BY <2>1
    <3>2. QED
      BY <2>1, <3>1 DEF Labels, Events
  <2>2. CASE res = "error" /\ q.expired
    <3>1. Back(res) = Reported(c, "timeout", "MCPToolFailed")
      BY <2>2
    <3>2. QED
      BY <2>2, <3>1 DEF Labels, Events
  <2>3. CASE (res = "error" /\ ~q.expired) \/ res = "odd"
    <3>1. Back(res) = Reported(c, "error", "MCPToolFailed")
      BY <2>3
    <3>2. QED
      BY <2>3, <3>1 DEF Labels, Events
  <2>4. QED
    BY <1>4, <2>1, <2>2, <2>3 DEF Ran
<1>5. "returned" \in Stages /\ res \in Ran \cup {"none"}
  BY DEF Stages, InUse
<1>6. CASE res = "panic"
  <2>1. Back(res) = q
    BY <1>6
  <2> HIDE DEF q, Back
  <2>2. r = [pc |-> "returned", user |-> q.user, tool |-> q.tool, expired |-> q.expired,
             result |-> res, labels |-> q.labels, events |-> q.events]
    BY <1>1, <1>3, <2>1 DEF CallRecord
  <2>3. QED
    BY <1>1, <1>5, <1>6, <2>2 DEF CallRecord, Silent
<1>7. CASE res # "panic"
  <2>1. PICK label \in Labels, event \in Events :
               /\ Back(res) = Reported(c, label, event)
               /\ event = "MCPToolInvoked" <=> res = "ok"
               /\ event = "MCPToolDenied" <=> label = "denied"
    BY <1>4, <1>7
  <2> HIDE DEF Back
  <2>2. Back(res) = WithReport(q, q.pc, q.result, label, event)
    BY <1>1, <2>1, ReportedIs
  <2> HIDE DEF q
  <2>3. r = WithReport(q, "returned", res, label, event)
    <3> DEFINE y == WithReport(q, "returned", q.result, label, event)
    <3>1. [Back(res) EXCEPT !.pc = "returned"] = y
      BY <2>2, SMT DEF WithReport
    <3>2. [y EXCEPT !.result = res] = WithReport(q, "returned", res, label, event)
      BY SMT DEF WithReport
    <3>3. QED
      BY <1>3, <3>1, <3>2
  <2>4. QED
    BY <1>1, <1>5, <1>7, <2>1, <2>3, WithReportRecord, SMT
<1>8. QED
  BY <1>6, <1>7

\* The middleware, the refusals of wrapTool and the end of a call.
LEMMA FrontMoves ==
  ASSUME CallsInv, NEW c \in Calls,
         \/ PreAuth(c) \/ Authenticate(c) \/ PostAuth(c, "mcp") \/ PostAuth(c, "a2a")
         \/ CheckRBAC(c) \/ LimitTool(c) \/ Answer(c)
  PROVE  /\ call[c].pc \in InFront /\ waiters' = waiters
         /\ \E r : Moves(c, r) /\ r.pc \in InFront
<1> USE DEF Stage
<1>1. CASE PreAuth(c)
  <2>1. call[c].pc = "idle" /\ waiters' = waiters /\ (Step(c, "auth") \/ Step(c, "idle"))
    BY <1>1 DEF PreAuth
  <2>2. QED
    BY <2>1, StepMoves, SMT DEF Early, InFront
<1>2. CASE Authenticate(c)
  <2>1. call[c].pc = "auth" /\ waiters' = waiters
    BY <1>2 DEF Authenticate
  <2>2. CASE Step(c, "idle")
    BY <2>1, <2>2, StepMoves, SMT DEF Early, InFront
  <2>3. CASE \E u \in Identities \cup {NoIdentity} :
               call' = [call EXCEPT ![c].pc = "authenticated", ![c].user = u]
    <3>1. PICK u \in Identities \cup {NoIdentity} :
               call' = [call EXCEPT ![c].pc = "authenticated", ![c].user = u]
      BY <2>3
    <3> DEFINE q == call[c]
               r == [q EXCEPT !.pc = "authenticated", !.user = u]
    <3>2. q \in CallRecord /\ Silent(q) /\ q.result = "none"
      BY <2>1 DEF CallsInv, Reports, Early
    <3>3. call' = [call EXCEPT ![c] = r]
      BY <3>1 DEF CallsInv
    <3> HIDE DEF q
    <3>4. r \in CallRecord /\ r.pc = "authenticated" /\ Silent(r) /\ r.result = "none"
      BY <3>2 DEF CallRecord, Silent, Stages, Early
    <3> HIDE DEF r
    <3>5. Reports(r)
      BY <3>4 DEF Reports, Early, InTask
    <3>6. QED
      BY <2>1, <3>3, <3>4, <3>5 DEF Moves, InFront
  <2>4. QED
    BY <1>2, <2>2, <2>3 DEF Authenticate
<1>3. ASSUME NEW h \in {"mcp", "a2a"}, PostAuth(c, h)
      PROVE  /\ call[c].pc \in InFront /\ waiters' = waiters
             /\ \E r : Moves(c, r) /\ r.pc \in InFront
  <2>1. call[c].pc = "authenticated" /\ waiters' = waiters
    BY <1>3 DEF PostAuth
  <2>2. CASE call' = [call EXCEPT ![c] = NoCall]
    BY <2>1, <2>2, NoCallRecord DEF Moves, InFront
  <2>3. CASE Step(c, h)
    BY <2>1, <2>3, StepMoves, SMT DEF Early, InFront
  <2>4. QED
    BY <1>3, <2>2, <2>3 DEF PostAuth, Step
<1>4. CASE CheckRBAC(c)
  <2>1. call[c].pc = "mcp" /\ waiters' = waiters
    BY <1>4 DEF CheckRBAC
  <2>2. CASE Finish(c, "denied", "MCPToolDenied")
    BY <2>1, <2>2, FinishMoves DEF Early, InFront
  <2>3. CASE \E t \in Tools : call' = [call EXCEPT ![c].pc = "allowed", ![c].tool = t]
    <3>1. PICK t \in Tools : call' = [call EXCEPT ![c].pc = "allowed", ![c].tool = t]
      BY <2>3
    <3> DEFINE q == call[c]
               r == [q EXCEPT !.pc = "allowed", !.tool = t]
    <3>2. q \in CallRecord /\ Silent(q) /\ q.result = "none"
      BY <2>1 DEF CallsInv, Reports, Early
    <3>3. call' = [call EXCEPT ![c] = r]
      BY <3>1 DEF CallsInv
    <3> HIDE DEF q
    <3>4. r \in CallRecord /\ r.pc = "allowed" /\ Silent(r) /\ r.result = "none"
      BY <3>2 DEF CallRecord, Silent, Stages, Early
    <3> HIDE DEF r
    <3>5. Reports(r)
      BY <3>4 DEF Reports, Early, InTask
    <3>6. QED
      BY <2>1, <3>3, <3>4, <3>5 DEF Moves, InFront
  <2>4. QED
    BY <1>4, <2>2, <2>3 DEF CheckRBAC
<1>5. CASE LimitTool(c)
  <2>1. call[c].pc = "allowed" /\ waiters' = waiters
    BY <1>5 DEF LimitTool
  <2>2. CASE Finish(c, "rate_limited", "MCPToolFailed")
    BY <2>1, <2>2, FinishMoves DEF Early, InFront
  <2>3. CASE call' = [call EXCEPT ![c].pc = "acquire", ![c].user = NoIdentity]
    <3> DEFINE q == call[c]
               r == [q EXCEPT !.pc = "acquire", !.user = NoIdentity]
    <3>2. q \in CallRecord /\ Silent(q) /\ q.result = "none"
      BY <2>1 DEF CallsInv, Reports, Early
    <3>3. call' = [call EXCEPT ![c] = r]
      BY <2>3 DEF CallsInv
    <3> HIDE DEF q
    <3>4. r \in CallRecord /\ r.pc = "acquire" /\ Silent(r) /\ r.result = "none"
      BY <3>2 DEF CallRecord, Silent, Stages, Early
    <3> HIDE DEF r
    <3>5. Reports(r)
      BY <3>4 DEF Reports, Early, InTask
    <3>6. QED
      BY <2>1, <3>3, <3>4, <3>5 DEF Moves, InFront
  <2>4. QED
    BY <1>5, <2>2, <2>3 DEF LimitTool
<1>6. CASE Answer(c)
  BY <1>6, NoCallRecord DEF Answer, Moves, InFront
<1>7. QED
  BY <1>1, <1>2, <1>3, <1>4, <1>5, <1>6

\* A deadline passes.
LEMMA ExpireMoves ==
  ASSUME CallsInv, NEW c \in Calls, Expire(c)
  PROVE  /\ call[c].pc \in {"waiting", "running"} /\ waiters' = waiters
         /\ \E r : Moves(c, r) /\ r.pc = call[c].pc
<1> DEFINE q == call[c]
           r == [q EXCEPT !.expired = TRUE]
<1>1. /\ q \in CallRecord /\ Silent(q) /\ q.result = "none"
      /\ q.pc \in {"waiting", "running"} /\ waiters' = waiters
  BY DEF CallsInv, Reports, Expire
<1>2. call' = [call EXCEPT ![c] = r]
  BY DEF CallsInv, Expire
<1> HIDE DEF q
<1>3. r \in CallRecord /\ r.pc = q.pc /\ Silent(r) /\ r.result = "none"
  BY <1>1 DEF CallRecord, Silent
<1> HIDE DEF r
<1>4. Reports(r)
  BY <1>1, <1>3 DEF Reports, Early, InTask
<1>5. QED
  BY <1>1, <1>2, <1>3, <1>4 DEF Moves, q

-----------------------------------------------------------------------------
(* The semaphore.                                                           *)

Waiting == {c \in Calls : call[c].pc = "waiting"}

\* The inductive invariant: the queue holds the waiting calls, each once, and is empty
\* unless all slots are in use.
SemaphoreInv ==
  /\ waiters \in Seq(Calls)
  /\ \A i, j \in 1 .. Len(waiters) : waiters[i] = waiters[j] => i = j
  /\ {waiters[i] : i \in 1 .. Len(waiters)} = Waiting
  /\ Cardinality(Using) <= GetMaxConcurrentTools
  /\ waiters # <<>> => Cardinality(Using) = GetMaxConcurrentTools

\* At least one tool may run.
LEMMA LimitType == GetMaxConcurrentTools \in Nat \ {0}
  BY ToolAssumption, SMT DEF GetMaxConcurrentTools

\* What a move does to the calls that use and that wait for the semaphore.
LEMMA MovesUse ==
  ASSUME CallsInv, NEW c \in Calls, NEW r, Moves(c, r)
  PROVE  /\ Using' = IF r.pc \in InUse THEN Using \cup {c} ELSE Using \ {c}
         /\ Waiting' = IF r.pc = "waiting" THEN Waiting \cup {c} ELSE Waiting \ {c}
  BY MovesCalls, SMT DEF Using, Waiting, InUse

\* Calls that use the semaphore are finitely many.
LEMMA UsingFinite ==
  /\ IsFiniteSet(Using) /\ Cardinality(Using) \in Nat
  /\ \A c : c \notin Using => Cardinality(Using \cup {c}) = Cardinality(Using) + 1
  /\ \A c \in Using : Cardinality(Using \ {c}) = Cardinality(Using) - 1
<1>1. IsFiniteSet(Using)
  BY ToolAssumption, FS_Subset DEF Using
<1>2. QED
  BY <1>1, FS_CardinalityType, FS_AddElement, FS_RemoveElement

\* A step outside the semaphore, or inside it.
LEMMA SemaphoreKept ==
  ASSUME CallsInv, SemaphoreInv, NEW c \in Calls, NEW r, Moves(c, r), waiters' = waiters,
         r.pc \in InUse <=> call[c].pc \in InUse,
         r.pc = "waiting" <=> call[c].pc = "waiting"
  PROVE  SemaphoreInv'
<1>1. Using' = Using /\ Waiting' = Waiting
  BY MovesUse DEF Using, Waiting, InUse
<1>2. QED
  BY <1>1 DEF SemaphoreInv

\* A slot is taken when one is free and nobody waits; else the call waits.
LEMMA AcquireKeeps ==
  ASSUME CallsInv, SemaphoreInv, NEW c \in Calls, Acquire(c)
  PROVE  /\ SemaphoreInv' /\ call[c].pc = "acquire"
         /\ \E r : Moves(c, r) /\ r.pc \in {"running", "waiting"}
<1>1. call[c].pc = "acquire" /\ c \notin Using /\ c \notin Waiting
  BY DEF Acquire, Stage, Using, Waiting
<1>2. CASE Cardinality(Using) < GetMaxConcurrentTools /\ waiters = <<>>
  <2>1. PICK r : Moves(c, r) /\ r.pc = "running"
    BY <1>1, <1>2, StepMoves DEF Acquire, Early
  <2>2. Using' = Using \cup {c} /\ Waiting' = Waiting /\ waiters' = waiters
    BY <1>1, <1>2, <2>1, MovesUse, SMT DEF InUse, Acquire
  <2>3. Cardinality(Using') = Cardinality(Using) + 1
    BY <1>1, <2>2, UsingFinite
  <2>4. SemaphoreInv'
    BY <1>2, <2>2, <2>3, UsingFinite, LimitType, SMT DEF SemaphoreInv, GetMaxConcurrentTools
  <2>5. QED
    BY <1>1, <2>1, <2>4
<1>3. CASE ~(Cardinality(Using) < GetMaxConcurrentTools /\ waiters = <<>>)
  <2>1. PICK r : Moves(c, r) /\ r.pc = "waiting"
    BY <1>1, <1>3, StepMoves DEF Acquire, Early
  <2>2. Using' = Using /\ Waiting' = Waiting \cup {c} /\ waiters' = Append(waiters, c)
    BY <1>1, <1>3, <2>1, MovesUse DEF InUse, Acquire
  <2>3. Cardinality(Using) = GetMaxConcurrentTools
    BY <1>3, UsingFinite, LimitType, SMT DEF SemaphoreInv
  <2>4. \A i \in 1 .. Len(waiters) : waiters[i] # c
    BY <1>1 DEF SemaphoreInv
  <2>5. /\ waiters' \in Seq(Calls) /\ Len(waiters') = Len(waiters) + 1
        /\ \A i \in 1 .. Len(waiters') : waiters'[i] = IF i = Len(waiters) + 1 THEN c ELSE waiters[i]
    BY <2>2, SMT DEF SemaphoreInv
  <2>6. \A i, j \in 1 .. Len(waiters') : waiters'[i] = waiters'[j] => i = j
    BY <2>4, <2>5, SMT DEF SemaphoreInv
  <2>7. {waiters'[i] : i \in 1 .. Len(waiters')} = Waiting'
    BY <2>2, <2>5, SMT DEF SemaphoreInv
  <2>8. SemaphoreInv'
    BY <2>2, <2>3, <2>5, <2>6, <2>7, LimitType DEF SemaphoreInv, GetMaxConcurrentTools
  <2>9. QED
    BY <1>1, <2>1, <2>8
<1>4. QED
  BY <1>2, <1>3

\* The elements of a concatenation.
LEMMA ConcatFacts ==
  ASSUME NEW S, NEW a \in Seq(S), NEW b \in Seq(S)
  PROVE  /\ a \o b \in Seq(S) /\ Len(a \o b) = Len(a) + Len(b)
         /\ \A k \in 1 .. Len(a) + Len(b) : (a \o b)[k] = IF k <= Len(a) THEN a[k] ELSE b[k - Len(a)]
BY SMT

\* A sequence without its i-th element.
LEMMA RemoveAtFacts ==
  ASSUME NEW S, NEW q \in Seq(S), NEW i \in 1 .. Len(q)
  PROVE  /\ RemoveAt(q, i) \in Seq(S) /\ Len(RemoveAt(q, i)) = Len(q) - 1
         /\ \A k \in 1 .. Len(q) - 1 : RemoveAt(q, i)[k] = IF k < i THEN q[k] ELSE q[k + 1]
<1> DEFINE a == SubSeq(q, 1, i - 1)
           b == SubSeq(q, i + 1, Len(q))
<1>1. a \in Seq(S) /\ Len(a) = i - 1 /\ \A k \in 1 .. i - 1 : a[k] = q[k]
  BY SMT
<1>2. b \in Seq(S) /\ Len(b) = Len(q) - i /\ \A k \in 1 .. Len(q) - i : b[k] = q[i + k]
  BY SMT
<1>3. RemoveAt(q, i) = a \o b
  BY DEF RemoveAt
<1> HIDE DEF a, b
<1>4. /\ a \o b \in Seq(S) /\ Len(a \o b) = Len(a) + Len(b)
      /\ \A k \in 1 .. Len(a) + Len(b) : (a \o b)[k] = IF k <= Len(a) THEN a[k] ELSE b[k - Len(a)]
  BY <1>1, <1>2, ConcatFacts, Zenon
<1>5. Len(q) \in Nat /\ Len(a) + Len(b) = Len(q) - 1
  BY <1>1, <1>2, SMT
<1>6. ASSUME NEW k \in 1 .. Len(q) - 1 PROVE (a \o b)[k] = IF k < i THEN q[k] ELSE q[k + 1]
  <2>1. (a \o b)[k] = IF k <= Len(a) THEN a[k] ELSE b[k - Len(a)]
    BY <1>4, <1>5
  <2>2. CASE k < i
    BY <1>1, <2>1, <2>2, SMT
  <2>3. CASE ~(k < i)
    <3>1. Len(a) = i - 1 /\ ~(k <= Len(a)) /\ k - (i - 1) \in 1 .. Len(q) - i /\ i + (k - (i - 1)) = k + 1
      BY <1>1, <1>5, <2>3, SMT
    <3>2. b[k - (i - 1)] = q[i + (k - (i - 1))]
      BY <1>2, <3>1
    <3> QED BY <2>1, <2>3, <3>1, <3>2
  <2> QED BY <2>2, <2>3
<1>7. QED
  BY <1>3, <1>4, <1>5, <1>6

\* A call that gives up leaves the queue, and nobody else does.
LEMMA ThrottleKeeps ==
  ASSUME CallsInv, SemaphoreInv, NEW c \in Calls, Throttle(c)
  PROVE  /\ SemaphoreInv' /\ call[c].pc = "waiting"
         /\ \E r : Moves(c, r) /\ r.pc = "finished"
<1>1. call[c].pc = "waiting" /\ Finish(c, "throttled", "MCPToolFailed")
  BY DEF Throttle, Stage
<1>2. PICK r : Moves(c, r) /\ r.pc = "finished"
  BY <1>1, FinishMoves
<1>3. Using' = Using /\ Waiting' = Waiting \ {c}
  BY <1>1, <1>2, MovesUse DEF InUse, Using
<1>4. PICK i \in 1 .. Len(waiters) : waiters[i] = c /\ waiters' = RemoveAt(waiters, i)
  BY SMT DEF Throttle, SemaphoreInv
<1>5. /\ waiters' \in Seq(Calls) /\ Len(waiters') = Len(waiters) - 1
      /\ \A k \in 1 .. Len(waiters') : waiters'[k] = IF k < i THEN waiters[k] ELSE waiters[k + 1]
  BY <1>4, RemoveAtFacts DEF SemaphoreInv
<1>6. \A k, l \in 1 .. Len(waiters') : waiters'[k] = waiters'[l] => k = l
  BY <1>5, SMT DEF SemaphoreInv
<1>7. {waiters'[k] : k \in 1 .. Len(waiters')} = Waiting'
  <2>1. ASSUME NEW d \in Waiting' PROVE \E k \in 1 .. Len(waiters') : waiters'[k] = d
    <3>1. PICK j \in 1 .. Len(waiters) : waiters[j] = d
      BY <1>3, <2>1 DEF SemaphoreInv
    <3>2. j # i
      BY <1>3, <1>4, <2>1, <3>1
    <3>3. CASE j < i
      BY <1>5, <3>1, <3>3, SMT DEF SemaphoreInv
    <3>4. CASE j > i
      <4>1. j - 1 \in 1 .. Len(waiters') /\ waiters'[j - 1] = d
        BY <1>5, <3>1, <3>4, SMT DEF SemaphoreInv
      <4>2. QED
        BY <4>1
    <3>5. QED
      BY <3>2, <3>3, <3>4, SMT
  <2>2. ASSUME NEW k \in 1 .. Len(waiters') PROVE waiters'[k] \in Waiting'
    <3>1. PICK j \in 1 .. Len(waiters) : waiters'[k] = waiters[j] /\ j # i
      BY <1>5, <2>2, SMT DEF SemaphoreInv
    <3>2. waiters[j] \in Waiting /\ waiters[j] # c
      BY <1>4, <3>1 DEF SemaphoreInv
    <3>3. QED
      BY <1>3, <3>1, <3>2
  <2>3. QED
    BY <2>1, <2>2
<1>8. waiters' # <<>> => waiters # <<>>
  BY <1>4, SMT DEF SemaphoreInv
<1>9. SemaphoreInv'
  BY <1>3, <1>5, <1>6, <1>7, <1>8, LimitType DEF SemaphoreInv, GetMaxConcurrentTools
<1>10. QED
  BY <1>1, <1>2, <1>9

\* The first of the queue is woken and uses the slot that was returned.
LEMMA ReleaseKeeps ==
  ASSUME CallsInv, SemaphoreInv, NEW c \in Calls, Release(c)
  PROVE  /\ CallsInv' /\ SemaphoreInv' /\ call[c].pc = "returned" /\ call'[c].pc = "finished"
         /\ \A d \in Calls \ {c} : \/ call'[d] = call[d]
                                   \/ call[d].pc = "waiting" /\ call'[d].pc = "running"
<1> DEFINE q == call[c]
           own == IF q.result = "panic" THEN Reported(c, "panic", "MCPToolFailed") ELSE q
           r == [own EXCEPT !.pc = "finished"]
<1>1. call[c].pc = "returned" /\ q \in CallRecord /\ Reports(q) /\ c \in Using /\ c \notin Waiting
  BY DEF Release, Stage, CallsInv, Using, Waiting
<1>2. r \in CallRecord /\ r.pc = "finished" /\ Reports(r)
  <2>1. CASE q.result = "panic"
    <3>1. own = WithReport(q, q.pc, q.result, "panic", "MCPToolFailed")
      BY <1>1, <2>1, ReportedIs DEF Reports
    <3> HIDE DEF q
    <3>2. r = WithReport(q, "finished", q.result, "panic", "MCPToolFailed")
      BY <3>1, SMT DEF WithReport
    <3>3. /\ q.result \in Ran \cup {"none"} /\ "finished" \in Stages
          /\ "panic" \in Labels /\ "MCPToolFailed" \in Events
      BY <2>1 DEF Ran, Stages, Labels, Events
    <3>4. r \in CallRecord /\ r.pc = "finished" /\ Once(r)
      BY <1>1, <2>1, <3>2, <3>3, WithReportRecord, SMT
    <3> HIDE DEF r
    <3>5. QED
      BY <3>4 DEF Reports, Early, InTask
  <2>2. CASE q.result # "panic"
    <3>1. own = q /\ Once(q)
      BY <1>1, <2>2 DEF Reports
    <3> HIDE DEF q, own
    <3>2. r \in CallRecord /\ r.pc = "finished" /\ Once(r)
      BY <1>1, <3>1 DEF CallRecord, Once, Stages
    <3> HIDE DEF r
    <3>3. QED
      BY <3>2 DEF Reports, Early, InTask
  <2>3. QED
    BY <2>1, <2>2
<1>3. CASE waiters = <<>>
  <2>1. Moves(c, r) /\ waiters' = waiters
    BY <1>2, <1>3 DEF Release, Moves
  <2> HIDE DEF r
  <2>2. Using' = Using \ {c} /\ Waiting' = Waiting
    BY <1>1, <1>2, <2>1, MovesUse DEF InUse
  <2>3. Cardinality(Using') = Cardinality(Using) - 1
    BY <1>1, <2>2, UsingFinite
  <2>4. SemaphoreInv'
    BY <1>3, <2>1, <2>2, <2>3, UsingFinite, LimitType, SMT DEF SemaphoreInv, GetMaxConcurrentTools
  <2>5. QED
    BY <1>1, <1>2, <2>1, <2>4, MovesCalls
<1>4. CASE waiters # <<>>
  <2> DEFINE h == Head(waiters)
             w == [call[h] EXCEPT !.pc = "running"]
  <2>1. /\ h \in Calls /\ h = waiters[1] /\ h \in Waiting /\ h # c
        /\ 1 \in 1 .. Len(waiters) /\ Len(waiters) \in Nat
    BY <1>1, <1>4, SMT DEF SemaphoreInv
  <2>2. call' = [[call EXCEPT ![c] = r] EXCEPT ![h].pc = "running"] /\ waiters' = Tail(waiters)
    BY <1>4 DEF Release
  <2> HIDE DEF r, q, own, h
  <2>3. w \in CallRecord /\ w.pc = "running" /\ Reports(w)
    <3> DEFINE p == call[h]
    <3>1. p \in CallRecord /\ Silent(p) /\ p.result = "none"
      BY <2>1 DEF CallsInv, Reports, Waiting
    <3> HIDE DEF p
    <3>2. w \in CallRecord /\ w.pc = "running" /\ Silent(w) /\ w.result = "none"
      BY <3>1 DEF CallRecord, Silent, Stages, InUse, p
    <3> HIDE DEF w
    <3>3. QED
      BY <3>2 DEF Reports, Early, InTask
  <2>4. \A d \in Calls : call'[d] = IF d = c THEN r ELSE IF d = h THEN w ELSE call[d]
    BY <2>1, <2>2 DEF CallsInv
  <2>5. call' \in [Calls -> CallRecord]
    <3> HIDE DEF w
    <3>1. DOMAIN call' = Calls /\ call' = [d \in Calls |-> call'[d]]
      BY <2>2 DEF CallsInv
    <3>2. QED
      BY <1>2, <2>3, <2>4, <3>1 DEF CallsInv
  <2> HIDE DEF w
  <2>6. CallsInv'
    BY <1>2, <2>3, <2>4, <2>5 DEF CallsInv
  <2>7. Using' = (Using \ {c}) \cup {h} /\ Waiting' = Waiting \ {h}
    BY <1>1, <1>2, <2>1, <2>3, <2>4, SMT DEF Using, Waiting
  <2>8. Cardinality(Using') = Cardinality(Using)
    <3>1. IsFiniteSet(Using \ {c}) /\ Cardinality(Using \ {c}) = Cardinality(Using) - 1
      BY <1>1, UsingFinite, FS_RemoveElement
    <3>2. h \notin Using \ {c}
      BY <2>1 DEF Waiting, Using
    <3>3. QED
      BY <2>7, <3>1, <3>2, UsingFinite, FS_AddElement, SMTT(30)
  <2>9. /\ waiters' \in Seq(Calls) /\ Len(waiters') = Len(waiters) - 1
        /\ \A i \in 1 .. Len(waiters') : waiters'[i] = waiters[i + 1]
    BY <1>4, <2>2, SMT DEF SemaphoreInv
  <2>10. \A i, j \in 1 .. Len(waiters') : waiters'[i] = waiters'[j] => i = j
    BY <2>9, SMTT(30) DEF SemaphoreInv
  <2>11. {waiters'[i] : i \in 1 .. Len(waiters')} = Waiting'
    <3>1. ASSUME NEW d \in Waiting' PROVE \E k \in 1 .. Len(waiters') : waiters'[k] = d
      <4>1. PICK j \in 1 .. Len(waiters) : waiters[j] = d
        BY <2>7, <3>1 DEF SemaphoreInv
      <4>2. j - 1 \in 1 .. Len(waiters') /\ waiters'[j - 1] = d
        BY <2>1, <2>7, <2>9, <3>1, <4>1, SMT
      <4>3. QED
        BY <4>2
    <3>2. ASSUME NEW k \in 1 .. Len(waiters') PROVE waiters'[k] \in Waiting'
      <4>1. k + 1 \in 1 .. Len(waiters) /\ waiters'[k] = waiters[k + 1] /\ k + 1 # 1
        BY <2>1, <2>9, SMT
      <4>2. waiters[k + 1] \in Waiting /\ waiters[k + 1] # h
        BY <2>1, <4>1 DEF SemaphoreInv
      <4>3. QED
        BY <2>7, <4>1, <4>2
    <3>3. QED
      BY <3>1, <3>2
  <2>12. SemaphoreInv'
    BY <1>4, <2>8, <2>9, <2>10, <2>11, LimitType DEF SemaphoreInv, GetMaxConcurrentTools
  <2>13. QED
    BY <1>1, <1>2, <2>1, <2>3, <2>4, <2>6, <2>12 DEF Waiting
<1>5. QED
  BY <1>3, <1>4

-----------------------------------------------------------------------------
(* Tasks of the agent, and the start times of its tools.                    *)

Ends == {"A2ATaskCompleted", "A2ATaskFailed"}

\* The events of a task at stage pc.
TrailAt(pc, events) ==
  /\ pc \in InTask => events = <<"A2ATaskStarted">>
  /\ pc = "told" => \E e \in Ends : events = <<"A2ATaskStarted", e>>
  /\ pc \notin InTask \cup {"told"} => events = <<>>

\* The start time of a tool at stage pc that was started since ticks ago.
StartAt(pc, start, since) ==
  /\ start # NoStart => pc \in {"tooling", "after"}
  /\ pc = "tooling" => start = since \/ (start = NoStart /\ since = Old)

\* The inductive invariant of tasks: the events and the start time fit the stage.
TaskInv ==
  /\ DOMAIN trail = Calls
  /\ starts \in [Calls -> {NoStart} \cup (0 .. Old)]
  /\ took \in [Calls -> 0 .. Old]
  /\ \A c \in Calls : TrailAt(call[c].pc, trail[c]) /\ StartAt(call[c].pc, starts[c], took[c])

\* What is said of a tool call before the callbacks that follow it, and with what they
\* add.
Granted(failed) == [verdict |-> "granted", failed |-> failed, events |-> <<>>, labels |-> <<>>]
Refused ==
  {[verdict |-> "forbidden", failed |-> FALSE, events |-> <<"RBACDenied">>, labels |-> <<>>],
   [verdict |-> "unauthorized", failed |-> FALSE, events |-> <<>>, labels |-> <<>>]}
Open == {Granted(TRUE), Granted(FALSE)} \cup Refused
Followed ==
  {[verdict |-> "granted", failed |-> TRUE, events |-> <<"ToolInvoked">>, labels |-> <<"error">>],
   [verdict |-> "granted", failed |-> FALSE, events |-> <<"ToolInvoked">>, labels |-> <<"success">>],
   [verdict |-> "forbidden", failed |-> FALSE, events |-> <<"RBACDenied", "ToolInvoked">>,
    labels |-> <<"success">>],
   [verdict |-> "unauthorized", failed |-> FALSE, events |-> <<"ToolInvoked">>,
    labels |-> <<"success">>]}

\* The report of the tool call of a task at stage pc with these events.
ReportAt(pc, r, events) ==
  /\ pc \in {"start", "tooling"} => r = Granted(FALSE)
  /\ pc = "after" => r \in Open
  /\ pc = "turn" => r \in {NoReport} \cup Refused \cup Followed
  /\ pc = "told" => \/ r = NoReport
                    \/ r = Granted(FALSE) /\ events = <<"A2ATaskStarted", "A2ATaskFailed">>
  /\ pc \notin InTask \cup {"told"} => r = NoReport

\* The inductive invariant of reports: what has been said fits the stage.
ReportInv ==
  /\ DOMAIN report = Calls
  /\ \A c \in Calls : ReportAt(call[c].pc, report[c], trail[c])

\* Steps of other requests, and of a request outside its task.
LEMMA TaskKept ==
  ASSUME TaskInv, ReportInv, UNCHANGED agentOnly,
         \A d \in Calls : \/ call'[d].pc = call[d].pc
                          \/ /\ call[d].pc \notin InTask \cup {"told"}
                             /\ call'[d].pc \notin InTask \cup {"told"}
  PROVE  TaskInv' /\ ReportInv'
<1> SUFFICES ASSUME NEW d \in Calls
             PROVE  /\ TrailAt(call'[d].pc, trail[d]) /\ StartAt(call'[d].pc, starts[d], took[d])
                    /\ ReportAt(call'[d].pc, report[d], trail[d])
  BY DEF TaskInv, ReportInv, agentOnly
<1>1. /\ TrailAt(call[d].pc, trail[d]) /\ StartAt(call[d].pc, starts[d], took[d])
      /\ ReportAt(call[d].pc, report[d], trail[d])
  BY DEF TaskInv, ReportInv
<1>2. CASE call'[d].pc = call[d].pc
  BY <1>1, <1>2
<1>3. CASE call[d].pc \notin InTask \cup {"told"} /\ call'[d].pc \notin InTask \cup {"told"}
  <2>1. TrailAt(call'[d].pc, trail[d]) /\ StartAt(call'[d].pc, starts[d], took[d])
    BY <1>1, <1>3 DEF TrailAt, StartAt, InTask
  <2>2. ReportAt(call'[d].pc, report[d], trail[d])
    BY <1>1, <1>3 DEF ReportAt, InTask
  <2>3. QED
    BY <2>1, <2>2
<1>4. QED
  BY <1>2, <1>3

\* Request c moves to stage pc inside its task, with the events and the start time
\* that fit the stage.
TaskMove(c, pc) ==
  /\ call[c].pc \in InTask \cup {"a2a", "told"} /\ waiters' = waiters
  /\ \/ pc \in InTask \cup {"told"} /\ Step(c, pc)
     \/ pc = "idle" /\ call' = [call EXCEPT ![c] = NoCall]
  /\ DOMAIN trail' = Calls /\ TrailAt(pc, trail'[c])
  /\ starts' \in [Calls -> {NoStart} \cup (0 .. Old)] /\ took' \in [Calls -> 0 .. Old]
  /\ StartAt(pc, starts'[c], took'[c])
  /\ \A d \in Calls \ {c} : trail'[d] = trail[d] /\ starts'[d] = starts[d] /\ took'[d] = took[d]

\* They keep the invariants.
LEMMA TaskStepKeeps ==
  ASSUME CallsInv, SemaphoreInv, TaskInv, NEW c \in Calls, NEW pc, TaskMove(c, pc)
  PROVE  CallsInv' /\ SemaphoreInv' /\ TaskInv'
<1>1. PICK r : Moves(c, r) /\ r.pc = pc
  <2>1. CASE pc \in InTask \cup {"told"} /\ Step(c, pc)
    BY <2>1, StepMoves DEF TaskMove, Early
  <2>2. CASE pc = "idle" /\ call' = [call EXCEPT ![c] = NoCall]
    BY <2>2, NoCallRecord DEF Moves
  <2>3. QED
    BY <2>1, <2>2 DEF TaskMove
<1>2. CallsInv' /\ \A d \in Calls : call'[d] = IF d = c THEN r ELSE call[d]
  BY <1>1, MovesCalls
<1>3. SemaphoreInv'
  <2>1. /\ r.pc \notin InUse \cup {"waiting"} /\ call[c].pc \notin InUse \cup {"waiting"}
        /\ waiters' = waiters
    BY <1>1 DEF InUse, InTask, TaskMove
  <2>2. QED
    BY <1>1, <2>1, SemaphoreKept
<1>4. QED
  BY <1>1, <1>2, <1>3 DEF TaskInv, TaskMove

\* Two elements.
LEMMA AppendToOne == ASSUME NEW a, NEW b PROVE Append(<<a>>, b) = <<a, b>>
<1> DEFINE S == {a, b}
           s == <<a>>
           t == <<a, b>>
<1>1. s \in Seq(S) /\ b \in S
  BY SMT
<1>2. Len(s) = 1 /\ s[1] = a
  OBVIOUS
<1>3. t \in Seq(S) /\ Len(t) = 2 /\ t[1] = a /\ t[2] = b
  BY SMT
<1> HIDE DEF S, s, t
<1>4. /\ Append(s, b) \in Seq(S) /\ Len(Append(s, b)) = Len(s) + 1
      /\ \A i \in 1 .. Len(s) + 1 : Append(s, b)[i] = IF i = Len(s) + 1 THEN b ELSE s[i]
  BY <1>1, SMT
<1>5. Append(s, b) = t
  BY <1>1, <1>2, <1>3, <1>4, SMT
<1>6. QED
  BY <1>5 DEF s, t

\* The callbacks around a task and around its tools.
LEMMA AgentStepKeeps ==
  ASSUME CallsInv, SemaphoreInv, TaskInv, NEW c \in Calls,
         \/ BeforeExecute(c) \/ AnswerTask(c) \/ Guard(c) \/ beforeMetrics(c) \/ ToolReturns(c)
         \/ AfterTool(c) \/ Abandon(c) \/ \E failed \in BOOLEAN : AfterExecute(c, failed)
  PROVE  CallsInv' /\ SemaphoreInv' /\ TaskInv'
<1> USE DEF Stage
<1> DEFINE Rest == /\ DOMAIN trail' = Calls /\ starts' \in [Calls -> {NoStart} \cup (0 .. Old)]
                   /\ took' \in [Calls -> 0 .. Old]
                   /\ \A d \in Calls \ {c} : /\ trail'[d] = trail[d] /\ starts'[d] = starts[d]
                                             /\ took'[d] = took[d]
<1>1. TrailAt(call[c].pc, trail[c]) /\ StartAt(call[c].pc, starts[c], took[c])
  BY DEF TaskInv
<1>2. 0 \in 0 .. Old
  BY AgentAssumption, SMT DEF Old
<1>3. CASE BeforeExecute(c)
  <2>1. call[c].pc = "a2a" /\ Step(c, "turn") /\ waiters' = waiters
    BY <1>3 DEF BeforeExecute
  <2>2. trail[c] = <<>> /\ starts[c] = NoStart
    BY <1>1, <2>1 DEF TrailAt, StartAt, InTask
  <2>3. Rest /\ trail'[c] = Append(trail[c], "A2ATaskStarted") /\ starts'[c] = starts[c] /\ took'[c] = took[c]
    BY <1>3 DEF BeforeExecute, TaskEvent, TaskInv
  <2>4. TrailAt("turn", trail'[c]) /\ StartAt("turn", starts'[c], took'[c])
    <3>1. trail'[c] = <<"A2ATaskStarted">>
      <4>1. Append(<<>>, "A2ATaskStarted") = <<"A2ATaskStarted">>
        BY SMT
      <4> QED BY <2>2, <2>3, <4>1
    <3>2. TrailAt("turn", trail'[c])
      BY <3>1 DEF TrailAt, InTask
    <3> QED BY <2>2, <2>3, <3>2 DEF StartAt, InTask
  <2>5. TaskMove(c, "turn")
    BY <2>1, <2>3, <2>4 DEF TaskMove, InTask
  <2>6. QED
    BY <2>5, TaskStepKeeps
<1>4. ASSUME NEW failed \in BOOLEAN, AfterExecute(c, failed)
      PROVE  CallsInv' /\ SemaphoreInv' /\ TaskInv'
  <2> DEFINE e == IF failed THEN "A2ATaskFailed" ELSE "A2ATaskCompleted"
  <2>1. call[c].pc = "turn" /\ Step(c, "told") /\ waiters' = waiters /\ call[c].pc \in InTask
    BY <1>4 DEF AfterExecute, InTask
  <2>2. trail[c] = <<"A2ATaskStarted">> /\ starts[c] = NoStart
    BY <1>1, <2>1 DEF TrailAt, StartAt
  <2>3. Rest /\ trail'[c] = Append(trail[c], e) /\ starts'[c] = starts[c] /\ took'[c] = took[c]
    BY <1>4 DEF AfterExecute, TaskEvent, TaskInv
  <2>4. e \in Ends
    BY DEF Ends
  <2> HIDE DEF e
  <2>5. trail'[c] = <<"A2ATaskStarted", e>>
    BY <2>2, <2>3, AppendToOne
  <2>6. TrailAt("told", trail'[c]) /\ StartAt("told", starts'[c], took'[c])
    BY <2>2, <2>3, <2>4, <2>5 DEF TrailAt, StartAt, InTask
  <2>7. TaskMove(c, "told")
    BY <2>1, <2>3, <2>6 DEF TaskMove, InTask
  <2>8. QED
    BY <2>7, TaskStepKeeps
<1>5. CASE AnswerTask(c)
  <2>1. call[c].pc = "told" /\ call' = [call EXCEPT ![c] = NoCall] /\ waiters' = waiters
    BY <1>5 DEF AnswerTask
  <2>2. Rest /\ trail'[c] = <<>> /\ starts'[c] = starts[c] /\ took'[c] = took[c]
    BY <1>5 DEF AnswerTask, TaskInv
  <2>3. TrailAt("idle", trail'[c]) /\ StartAt("idle", starts'[c], took'[c])
    BY <1>1, <2>1, <2>2 DEF TrailAt, StartAt, InTask
  <2>4. TaskMove(c, "idle")
    BY <2>1, <2>2, <2>3 DEF TaskMove, InTask
  <2>5. QED
    BY <2>4, TaskStepKeeps
<1>6. CASE Guard(c)
  <2>1. PICK pc \in {"start", "turn", "after"} : call[c].pc = "turn" /\ Step(c, pc) /\ waiters' = waiters
    BY <1>6 DEF Guard
  <2>2. Rest /\ trail'[c] = trail[c] /\ starts'[c] = starts[c] /\ took'[c] = took[c]
    BY <1>6 DEF Guard, TaskInv
  <2>3. TrailAt(pc, trail'[c]) /\ StartAt(pc, starts'[c], took'[c]) /\ call[c].pc \in InTask
    BY <1>1, <2>1, <2>2 DEF TrailAt, StartAt, InTask
  <2>4. TaskMove(c, pc)
    BY <2>1, <2>2, <2>3 DEF TaskMove, InTask
  <2>5. QED
    BY <2>4, TaskStepKeeps
<1>7. CASE beforeMetrics(c)
  <2>1. call[c].pc = "start" /\ Step(c, "tooling") /\ waiters' = waiters
    BY <1>7 DEF beforeMetrics
  <2>2. Rest /\ trail'[c] = trail[c] /\ starts'[c] = 0 /\ took'[c] = 0
    BY <1>2, <1>7 DEF beforeMetrics, TaskInv
  <2>3. TrailAt("tooling", trail'[c]) /\ call[c].pc \in InTask
    BY <1>1, <2>1, <2>2 DEF TrailAt, InTask
  <2>4. StartAt("tooling", starts'[c], took'[c])
    BY <2>2 DEF StartAt
  <2>5. TaskMove(c, "tooling")
    BY <2>1, <2>2, <2>3, <2>4 DEF TaskMove, InTask
  <2>6. QED
    BY <2>5, TaskStepKeeps
<1>8. CASE ToolReturns(c)
  <2>1. call[c].pc = "tooling" /\ Step(c, "after") /\ waiters' = waiters
    BY <1>8 DEF ToolReturns
  <2>2. Rest /\ trail'[c] = trail[c] /\ starts'[c] = starts[c] /\ took'[c] = took[c]
    BY <1>8 DEF ToolReturns, TaskInv
  <2>3. TrailAt("after", trail'[c]) /\ StartAt("after", starts'[c], took'[c]) /\ call[c].pc \in InTask
    BY <1>1, <2>1, <2>2 DEF TrailAt, StartAt, InTask
  <2>4. TaskMove(c, "after")
    BY <2>1, <2>2, <2>3 DEF TaskMove, InTask
  <2>5. QED
    BY <2>4, TaskStepKeeps
<1>9. CASE AfterTool(c)
  <2>1. call[c].pc = "after" /\ Step(c, "turn") /\ waiters' = waiters
    BY <1>9 DEF AfterTool
  <2>2. Rest /\ trail'[c] = trail[c] /\ starts'[c] = NoStart /\ took'[c] = 0
    BY <1>2, <1>9 DEF AfterTool, TaskInv
  <2>3. TrailAt("turn", trail'[c]) /\ StartAt("turn", starts'[c], took'[c]) /\ call[c].pc \in InTask
    BY <1>1, <2>1, <2>2 DEF TrailAt, StartAt, InTask
  <2>4. TaskMove(c, "turn")
    BY <2>1, <2>2, <2>3 DEF TaskMove, InTask
  <2>5. QED
    BY <2>4, TaskStepKeeps
<1>10. CASE Abandon(c)
  <2>1. call[c].pc = "tooling" /\ Step(c, "told") /\ waiters' = waiters
    BY <1>10 DEF Abandon
  <2>2. Rest /\ trail'[c] = Append(trail[c], "A2ATaskFailed") /\ starts'[c] = NoStart /\ took'[c] = 0
    BY <1>2, <1>10 DEF Abandon, TaskEvent, TaskInv
  <2>3. trail[c] = <<"A2ATaskStarted">> /\ call[c].pc \in InTask
    BY <1>1, <2>1 DEF TrailAt, InTask
  <2>4. trail'[c] = <<"A2ATaskStarted", "A2ATaskFailed">>
    BY <2>2, <2>3, AppendToOne
  <2>5. TrailAt("told", trail'[c]) /\ StartAt("told", starts'[c], took'[c])
    BY <2>2, <2>4 DEF TrailAt, StartAt, InTask, Ends
  <2>6. TaskMove(c, "told")
    BY <2>1, <2>2, <2>3, <2>5 DEF TaskMove, InTask
  <2>7. QED
    BY <2>6, TaskStepKeeps
<1>11. QED
  BY <1>3, <1>4, <1>5, <1>6, <1>7, <1>8, <1>9, <1>10

\* The sweep takes a start time only of a tool that has run for longer than SweepAge.
LEMMA SweepKeeps ==
  ASSUME TaskInv, sweep
  PROVE  TaskInv'
<1>1. /\ UNCHANGED <<call, took, trail>>
      /\ starts' = [c \in Calls |-> IF starts[c] = Old THEN NoStart ELSE starts[c]]
  BY DEF sweep
<1>2. Old \in Nat /\ NoStart \notin 0 .. Old
  BY AgentAssumption, SMT DEF Old, NoStart
<1>3. starts' \in [Calls -> {NoStart} \cup (0 .. Old)]
  BY <1>1 DEF TaskInv
<1>4. ASSUME NEW c \in Calls PROVE StartAt(call[c].pc, starts'[c], took[c])
  <2>1. StartAt(call[c].pc, starts[c], took[c])
    BY DEF TaskInv
  <2>2. CASE starts[c] = Old
    BY <1>1, <1>2, <2>1, <2>2 DEF StartAt
  <2>3. CASE starts[c] # Old
    BY <1>1, <2>1, <2>3
  <2>4. QED
    BY <2>2, <2>3
<1>5. QED
  BY <1>1, <1>3, <1>4 DEF TaskInv

\* Start times and the time a tool has run grow alike.
LEMMA ElapseKeeps ==
  ASSUME TaskInv, AgentElapse
  PROVE  TaskInv'
<1>1. /\ UNCHANGED <<call, trail>>
      /\ starts' = [c \in Calls |-> IF starts[c] = NoStart THEN NoStart ELSE Older(starts[c])]
      /\ took' = [c \in Calls |-> IF Stage(c, "tooling") THEN Older(took[c]) ELSE took[c]]
  BY DEF AgentElapse
<1>2. Old \in Nat /\ \A a \in 0 .. Old : Older(a) \in 0 .. Old /\ Older(a) # NoStart
  BY AgentAssumption, SMT DEF Old, Older, Least, NoStart
<1>3. Older(Old) = Old
  BY AgentAssumption, SMT DEF Old, Older, Least
<1>4. starts' \in [Calls -> {NoStart} \cup (0 .. Old)] /\ took' \in [Calls -> 0 .. Old]
  BY <1>1, <1>2 DEF TaskInv
<1>5. ASSUME NEW c \in Calls PROVE StartAt(call[c].pc, starts'[c], took'[c])
  <2>1. /\ StartAt(call[c].pc, starts[c], took[c])
        /\ starts[c] \in {NoStart} \cup (0 .. Old) /\ took[c] \in 0 .. Old
    BY DEF TaskInv
  <2>2. starts'[c] # NoStart => starts[c] # NoStart
    BY <1>1
  <2>3. ASSUME call[c].pc = "tooling"
        PROVE  starts'[c] = took'[c] \/ (starts'[c] = NoStart /\ took'[c] = Old)
    <3>1. took'[c] = Older(took[c])
      BY <1>1, <2>3 DEF Stage
    <3>2. CASE starts[c] = NoStart
      <4>1. NoStart \notin 0 .. Old
        BY <1>2, SMT DEF NoStart
      <4>2. took[c] = Old
        BY <2>1, <2>3, <3>2, <4>1 DEF StartAt
      <4>3. QED
        BY <1>1, <1>3, <3>1, <3>2, <4>2
    <3>3. CASE starts[c] # NoStart
      BY <1>1, <2>1, <2>3, <3>1, <3>3 DEF StartAt
    <3>4. QED
      BY <3>2, <3>3
  <2>4. QED
    BY <2>1, <2>2, <2>3 DEF StartAt
<1>6. QED
  BY <1>1, <1>4, <1>5 DEF TaskInv

\* Request c goes to stage pc, and r is the report of its tool call.
LEMMA ReportStep ==
  ASSUME ReportInv, NEW c \in Calls, NEW pc, NEW r, NEW e,
         \A d \in Calls : call'[d].pc = IF d = c THEN pc ELSE call[d].pc,
         DOMAIN report' = Calls, DOMAIN trail = Calls,
         \A d \in Calls : report'[d] = IF d = c THEN r ELSE report[d],
         \A d \in Calls : trail'[d] = IF d = c THEN e ELSE trail[d],
         ReportAt(pc, r, e)
  PROVE  ReportInv'
  BY DEF ReportInv

\* Nothing happens to tasks.
LEMMA ReportSame == ASSUME ReportInv, UNCHANGED <<call, trail, report>> PROVE ReportInv'
  BY DEF ReportInv

\* The stages after a step of one request.
LEMMA StepStages ==
  ASSUME CallsInv, NEW c \in Calls, NEW pc,
         Step(c, pc) \/ (pc = "idle" /\ call' = [call EXCEPT ![c] = NoCall])
  PROVE  \A d \in Calls : call'[d].pc = IF d = c THEN pc ELSE call[d].pc
<1>1. call \in [Calls -> CallRecord]
  BY DEF CallsInv
<1>2. CASE Step(c, pc)
  BY <1>1, <1>2, SMT DEF Step, CallRecord
<1>3. CASE pc = "idle" /\ call' = [call EXCEPT ![c] = NoCall]
  BY <1>1, <1>3 DEF NoCall
<1>4. QED
  BY <1>2, <1>3

\* The callbacks after a tool call add an event and a label.
LEMMA AfterReports ==
  ASSUME NEW r \in Open
  PROVE  Invoked(r) \in Followed
<1>1. /\ Append(<<>>, "ToolInvoked") = <<"ToolInvoked">>
      /\ Append(<<>>, "success") = <<"success">> /\ Append(<<>>, "error") = <<"error">>
  BY SMT
<1>2. Append(<<"RBACDenied">>, "ToolInvoked") = <<"RBACDenied", "ToolInvoked">>
  BY AppendToOne
<1>3. resultLabel(TRUE) = "error" /\ resultLabel(FALSE) = "success"
  BY DEF resultLabel
<1>4. ASSUME NEW f \in BOOLEAN, r = Granted(f) PROVE Invoked(r) \in Followed
  <2>1. r.verdict = "granted" /\ r.failed = f /\ r.events = <<>> /\ r.labels = <<>>
    BY <1>4 DEF Granted
  <2>2. Invoked(r) = [verdict |-> "granted", failed |-> f, events |-> <<"ToolInvoked">>,
                      labels |-> <<resultLabel(f)>>]
    BY <1>1, <1>3, <2>1 DEF Invoked
  <2>3. QED
    BY <1>3, <2>2, Zenon DEF Followed
<1>5. CASE r \in Refused
  <2>1. /\ r.failed = FALSE /\ r.labels = <<>>
        /\ \/ r.verdict = "forbidden" /\ r.events = <<"RBACDenied">>
           \/ r.verdict = "unauthorized" /\ r.events = <<>>
    BY <1>5, SMT DEF Refused
  <2>2. QED
    BY <1>1, <1>2, <1>3, <2>1, Zenon DEF Followed, Invoked
<1>6. QED
  BY <1>4, <1>5 DEF Open

\* The callbacks around a task and around its tools say what fits the stage.
LEMMA AgentStepReports ==
  ASSUME CallsInv, TaskInv, ReportInv, NEW c \in Calls,
         \/ BeforeExecute(c) \/ AnswerTask(c) \/ Guard(c) \/ beforeMetrics(c) \/ ToolReturns(c)
         \/ AfterTool(c) \/ Abandon(c) \/ \E failed \in BOOLEAN : AfterExecute(c, failed)
  PROVE  ReportInv'
<1> USE DEF Stage
<1> DEFINE Moved(pc) == \A d \in Calls : call'[d].pc = IF d = c THEN pc ELSE call[d].pc
           Says(r) == /\ DOMAIN report' = Calls
                      /\ \A d \in Calls : report'[d] = IF d = c THEN r ELSE report[d]
           Tells(e) == \A d \in Calls : trail'[d] = IF d = c THEN e ELSE trail[d]
<1>1. ReportAt(call[c].pc, report[c], trail[c]) /\ TrailAt(call[c].pc, trail[c])
  BY DEF ReportInv, TaskInv
<1>2. DOMAIN report = Calls /\ DOMAIN trail = Calls
  BY DEF ReportInv, TaskInv
<1>3. ASSUME NEW pc, NEW r, NEW e, Moved(pc), Says(r), Tells(e), ReportAt(pc, r, e)
      PROVE  ReportInv'
  BY <1>2, <1>3, ReportStep
<1>4. CASE BeforeExecute(c)
  <2>1. call[c].pc = "a2a" /\ Moved("turn")
    BY <1>4, StepStages DEF BeforeExecute
  <2>2. Says(report[c]) /\ Tells(Append(trail[c], "A2ATaskStarted"))
    BY <1>2, <1>4 DEF BeforeExecute, TaskEvent
  <2>3. report[c] = NoReport
    BY <1>1, <2>1 DEF ReportAt, InTask
  <2>4. ReportAt("turn", report[c], Append(trail[c], "A2ATaskStarted"))
    BY <2>3 DEF ReportAt, InTask
  <2>5. QED
    BY <1>3, <2>1, <2>2, <2>4, SMT
<1>5. ASSUME NEW failed \in BOOLEAN, AfterExecute(c, failed) PROVE ReportInv'
  <2> DEFINE e == Append(trail[c], IF failed THEN "A2ATaskFailed" ELSE "A2ATaskCompleted")
  <2>1. Moved("told")
    BY <1>5, StepStages DEF AfterExecute
  <2>2. Says(NoReport) /\ Tells(e)
    BY <1>2, <1>5 DEF AfterExecute, TaskEvent
  <2>3. ReportAt("told", NoReport, e)
    BY DEF ReportAt, InTask
  <2>4. QED
    BY <1>3, <2>1, <2>2, <2>3, SMT
<1>6. CASE AnswerTask(c)
  <2>1. Moved("idle")
    <3>1. call' = [call EXCEPT ![c] = NoCall]
      BY <1>6 DEF AnswerTask
    <3>2. QED
      BY <3>1, StepStages
  <2>2. Says(NoReport) /\ Tells(<<>>)
    BY <1>2, <1>6 DEF AnswerTask
  <2>3. ReportAt("idle", NoReport, <<>>)
    BY DEF ReportAt, InTask
  <2>4. QED
    BY <1>3, <2>1, <2>2, <2>3, SMT
<1>7. CASE Guard(c)
  <2>1. Tells(trail[c])
    BY <1>2, <1>7 DEF Guard
  <2>2. CASE Step(c, "start") /\ report' = [report EXCEPT ![c] = Report("granted", <<>>)]
    <3>1. PICK r : r = Report("granted", <<>>) /\ r = Granted(FALSE)
      BY DEF Report, Granted
    <3>2. Moved("start")
      BY <2>2, StepStages
    <3>3. Says(r)
      BY <1>2, <2>2, <3>1
    <3>4. ReportAt("start", r, trail[c])
      BY <3>1 DEF ReportAt, InTask
    <3>5. QED
      BY <1>3, <2>1, <3>2, <3>3, <3>4, SMT
  <2>3. ASSUME NEW after \in {"turn", "after"}, Step(c, after),
               report' = [report EXCEPT ![c] = Refusal(call[c].user)]
        PROVE  ReportInv'
    <3>1. Refusal(call[c].user) \in Refused
      BY DEF Refusal, Report, Refused
    <3>2. Moved(after) /\ Says(Refusal(call[c].user))
      BY <1>2, <2>3, StepStages
    <3>3. ReportAt(after, Refusal(call[c].user), trail[c])
      BY <3>1 DEF ReportAt, InTask, Open
    <3>4. QED
      BY <1>3, <2>1, <3>2, <3>3, SMT
  <2>4. QED
    BY <1>7, <2>2, <2>3 DEF Guard
<1>8. CASE beforeMetrics(c)
  <2>1. call[c].pc = "start" /\ Moved("tooling")
    BY <1>8, StepStages DEF beforeMetrics
  <2>2. Says(report[c]) /\ Tells(trail[c])
    BY <1>2, <1>8 DEF beforeMetrics
  <2>3. ReportAt("tooling", report[c], trail[c])
    BY <1>1, <2>1 DEF ReportAt, InTask
  <2>4. QED
    BY <1>3, <2>1, <2>2, <2>3, SMT
<1>9. CASE ToolReturns(c)
  <2>1. PICK failed \in BOOLEAN : report' = [report EXCEPT ![c].failed = failed]
    BY <1>9 DEF ToolReturns
  <2>2. call[c].pc = "tooling" /\ Moved("after") /\ Tells(trail[c])
    BY <1>2, <1>9, StepStages DEF ToolReturns
  <2>3. report[c] = Granted(FALSE)
    BY <1>1, <2>2 DEF ReportAt
  <2>4. [Granted(FALSE) EXCEPT !.failed = failed] = Granted(failed)
    <3>1. ASSUME NEW e, NEW f, NEW g
          PROVE  [[verdict |-> "granted", failed |-> f, events |-> e, labels |-> e] EXCEPT !.failed = g] =
                   [verdict |-> "granted", failed |-> g, events |-> e, labels |-> e]
      BY SMT
    <3>2. QED
      BY <3>1, Zenon DEF Granted
  <2>5. Says(Granted(failed))
    BY <1>2, <2>1, <2>3, <2>4
  <2>6. ReportAt("after", Granted(failed), trail[c])
    BY DEF ReportAt, InTask, Open
  <2>7. QED
    BY <1>3, <2>2, <2>5, <2>6, SMT
<1>10. CASE AfterTool(c)
  <2> DEFINE r == Invoked(report[c])
  <2>1. call[c].pc = "after" /\ Moved("turn") /\ Tells(trail[c])
    BY <1>2, <1>10, StepStages DEF AfterTool
  <2>2. report[c] \in Open
    BY <1>1, <2>1 DEF ReportAt
  <2>3. r \in Followed
    BY <2>2, AfterReports
  <2>4. Says(r)
    BY <1>2, <1>10 DEF AfterTool
  <2> HIDE DEF r
  <2>5. ReportAt("turn", r, trail[c])
    BY <2>3 DEF ReportAt, InTask
  <2>6. QED
    BY <1>3, <2>1, <2>4, <2>5, SMT
<1>11. CASE Abandon(c)
  <2>1. call[c].pc = "tooling" /\ Moved("told")
    BY <1>11, StepStages DEF Abandon
  <2>2. Says(report[c]) /\ Tells(Append(trail[c], "A2ATaskFailed"))
    BY <1>2, <1>11 DEF Abandon, TaskEvent
  <2>3. report[c] = Granted(FALSE) /\ trail[c] = <<"A2ATaskStarted">>
    BY <1>1, <2>1 DEF ReportAt, TrailAt, InTask
  <2>4. Append(trail[c], "A2ATaskFailed") = <<"A2ATaskStarted", "A2ATaskFailed">>
    BY <2>3, AppendToOne
  <2>5. ReportAt("told", report[c], Append(trail[c], "A2ATaskFailed"))
    BY <2>3, <2>4 DEF ReportAt, InTask
  <2>6. QED
    BY <1>3, <2>1, <2>2, <2>5, SMT
<1>12. QED
  BY <1>4, <1>5, <1>6, <1>7, <1>8, <1>9, <1>10, <1>11

\* The inductive invariant of the requests.
AgentInv == CallsInv /\ SemaphoreInv /\ TaskInv /\ ReportInv

\* It holds at the start.
LEMMA InitAgent == AgentInit => AgentInv
<1> SUFFICES ASSUME AgentInit PROVE AgentInv
  OBVIOUS
<1>1. CallsInv /\ \A c \in Calls : call[c].pc = "idle"
  BY NoCallRecord DEF AgentInit, ToolInit, CallsInv
<1>2. SemaphoreInv
  <2>1. Using = {} /\ Waiting = {} /\ waiters = <<>>
    BY <1>1 DEF Using, Waiting, AgentInit, ToolInit
  <2>2. Cardinality(Using) = 0
    BY <2>1, FS_EmptySet
  <2>3. QED
    BY <2>1, <2>2, LimitType, SMT DEF SemaphoreInv
<1>3. TaskInv
  <2>1. /\ DOMAIN trail = Calls /\ starts \in [Calls -> {NoStart} \cup (0 .. Old)]
        /\ took \in [Calls -> 0 .. Old]
        /\ \A c \in Calls : trail[c] = <<>> /\ starts[c] = NoStart
    BY AgentAssumption, SMT DEF AgentInit, Old
  <2>2. QED
    BY <1>1, <2>1 DEF TaskInv, TrailAt, StartAt, InTask
<1>4. ReportInv
  BY <1>1 DEF AgentInit, ReportInv, ReportAt, InTask
<1>5. QED
  BY <1>1, <1>2, <1>3, <1>4 DEF AgentInv

\* Every step keeps it.
LEMMA AgentNextInv == AgentInv /\ [AgentNext]_agentVars => AgentInv'
<1> SUFFICES ASSUME CallsInv, SemaphoreInv, TaskInv, ReportInv, [AgentNext]_agentVars
             PROVE  CallsInv' /\ SemaphoreInv' /\ TaskInv' /\ ReportInv'
  BY DEF AgentInv
<1>1. ASSUME NEW c \in Calls, NEW r, Moves(c, r), SemaphoreInv', UNCHANGED agentOnly,
             \/ r.pc = call[c].pc
             \/ {r.pc, call[c].pc} \subseteq InFront \cup {"waiting", "running", "returned"}
      PROVE  CallsInv' /\ SemaphoreInv' /\ TaskInv' /\ ReportInv'
  <2>1. CallsInv' /\ \A d \in Calls : call'[d] = IF d = c THEN r ELSE call[d]
    BY <1>1, MovesCalls
  <2>2. TaskInv' /\ ReportInv'
    <3>1. \A pc \in InFront \cup {"waiting", "running", "returned"} : pc \notin InTask \cup {"told"}
      BY DEF InFront, InTask
    <3>2. QED
      BY <1>1, <2>1, <3>1, TaskKept
  <2>3. QED
    BY <1>1, <2>1, <2>2
<1>2. ASSUME NEW c \in Calls, UNCHANGED agentOnly,
             \/ PreAuth(c) \/ Authenticate(c) \/ PostAuth(c, "mcp") \/ PostAuth(c, "a2a")
             \/ CheckRBAC(c) \/ LimitTool(c) \/ Answer(c)
      PROVE  CallsInv' /\ SemaphoreInv' /\ TaskInv' /\ ReportInv'
  <2>1. PICK r : Moves(c, r) /\ r.pc \in InFront /\ call[c].pc \in InFront /\ waiters' = waiters
    BY <1>2, FrontMoves
  <2>2. SemaphoreInv'
    BY <2>1, SemaphoreKept DEF InFront, InUse
  <2>3. QED
    BY <1>1, <1>2, <2>1, <2>2
<1>3. ASSUME NEW c \in Calls, UNCHANGED agentOnly, Acquire(c)
      PROVE  CallsInv' /\ SemaphoreInv' /\ TaskInv' /\ ReportInv'
  <2>1. PICK r : Moves(c, r) /\ r.pc \in {"running", "waiting"}
    BY <1>3, AcquireKeeps
  <2>2. SemaphoreInv' /\ call[c].pc = "acquire"
    BY <1>3, AcquireKeeps
  <2>3. QED
    BY <1>1, <1>3, <2>1, <2>2 DEF InFront
<1>4. ASSUME NEW c \in Calls, UNCHANGED agentOnly, Throttle(c)
      PROVE  CallsInv' /\ SemaphoreInv' /\ TaskInv' /\ ReportInv'
  <2>1. PICK r : Moves(c, r) /\ r.pc = "finished"
    BY <1>4, ThrottleKeeps
  <2>2. SemaphoreInv' /\ call[c].pc = "waiting"
    BY <1>4, ThrottleKeeps
  <2>3. QED
    BY <1>1, <1>4, <2>1, <2>2 DEF InFront
<1>5. ASSUME NEW c \in Calls, UNCHANGED agentOnly, Expire(c)
      PROVE  CallsInv' /\ SemaphoreInv' /\ TaskInv' /\ ReportInv'
  <2>1. PICK r : Moves(c, r) /\ r.pc = call[c].pc
    BY <1>5, ExpireMoves
  <2>2. SemaphoreInv'
    BY <1>5, <2>1, ExpireMoves, SemaphoreKept
  <2>3. QED
    BY <1>1, <1>5, <2>1, <2>2
<1>6. ASSUME NEW c \in Calls, UNCHANGED agentOnly, Return(c)
      PROVE  CallsInv' /\ SemaphoreInv' /\ TaskInv' /\ ReportInv'
  <2>1. PICK r : Moves(c, r) /\ r.pc = "returned"
    BY <1>6, ReturnMoves
  <2>2. call[c].pc = "running" /\ waiters' = waiters
    BY <1>6 DEF Return, Stage
  <2>3. SemaphoreInv'
    BY <2>1, <2>2, SemaphoreKept DEF InUse
  <2>4. QED
    BY <1>1, <1>6, <2>1, <2>2, <2>3
<1>7. ASSUME NEW c \in Calls, UNCHANGED agentOnly, Release(c)
      PROVE  CallsInv' /\ SemaphoreInv' /\ TaskInv' /\ ReportInv'
  <2>1. /\ CallsInv' /\ SemaphoreInv' /\ call[c].pc = "returned" /\ call'[c].pc = "finished"
        /\ \A d \in Calls \ {c} : \/ call'[d] = call[d]
                                  \/ call[d].pc = "waiting" /\ call'[d].pc = "running"
    BY <1>7, ReleaseKeeps
  <2>2. QED
    BY <1>7, <2>1, TaskKept DEF InTask
<1>8. ASSUME UNCHANGED <<call, waiters>>
      PROVE  CallsInv' /\ SemaphoreInv'
  BY <1>8, SMT DEF CallsInv, SemaphoreInv, Using, Waiting, GetMaxConcurrentTools
<1>9. CASE LimiterStep /\ UNCHANGED agentOnly
  BY <1>8, <1>9, TaskKept DEF LimiterStep
<1>10. CASE sweep
  BY <1>8, <1>10, SweepKeeps, ReportSame DEF sweep
<1>11. CASE AgentElapse
  BY <1>8, <1>11, ElapseKeeps, ReportSame DEF AgentElapse
<1>12. CASE UNCHANGED agentVars
  BY <1>8, <1>12, TaskKept DEF agentVars, agentOnly
<1>13. QED
  BY <1>2, <1>3, <1>4, <1>5, <1>6, <1>7, <1>9, <1>10, <1>11, <1>12, AgentStepKeeps,
     AgentStepReports DEF AgentNext, RunTask, Proceed

\* The invariant of every behaviour of the requests.
THEOREM AgentInvariance == AgentSpec => []AgentInv
<1>1. AgentInit => AgentInv
  BY InitAgent
<1>2. AgentInv /\ [AgentNext]_agentVars => AgentInv'
  BY AgentNextInv
<1>3. QED
  BY <1>1, <1>2, PTL DEF AgentSpec

\* The semaphore of wrapTool: for any number of calls and any limit, no slot leaks or
\* is handed out twice, and no call waits while a slot is free.
THEOREM SemaphoreSlotsConserved == AgentSpec => []SlotsConserved
<1>1. AgentInv => SlotsConserved
  <2> SUFFICES ASSUME AgentInv PROVE SlotsConserved
    OBVIOUS
  <2>1. SemaphoreInv
    BY DEF AgentInv
  <2>2. Range(waiters) = {waiters[i] : i \in 1 .. Len(waiters)}
    BY <2>1, SMT DEF SemaphoreInv, Range
  <2>3. QED
    BY <2>1, <2>2 DEF SemaphoreInv, SlotsConserved, Waiting, Stage
<1>2. QED
  BY <1>1, AgentInvariance, PTL

\* Reports that fit the stage are reports of a call that is over.
LEMMA SaidReports ==
  ASSUME NEW r \in {NoReport} \cup Refused \cup Followed PROVE Said(r)
<1>1. CASE r = NoReport
  BY <1>1 DEF NoReport, Report, Said
<1>2. CASE r \in Refused
  BY <1>2, SMT DEF Refused, Said
<1>3. CASE r \in Followed
  BY <1>3, SMT DEF Followed, Said, resultLabel
<1>4. QED
  BY <1>1, <1>2, <1>3

\* Metrics and audit of wrapTool, of the callbacks around the tools of the agent, and
\* of those around its tasks: every tool call and every task is reported exactly once,
\* whether its tool returns, fails, panics or is given up; the only calls of which
\* nothing is said are those of a task that is reported as failed, and those refused
\* because the request has no identity.
THEOREM AllReportedOnce == AgentSpec => []EverythingReported
<1>1. AgentInv => EverythingReported
  <2> SUFFICES ASSUME AgentInv, NEW c \in Calls
               PROVE  /\ Stage(c, "finished") =>
                           /\ Len(call[c].labels) = 1 /\ Len(call[c].events) = 1
                           /\ Last(call[c].events) = "MCPToolInvoked" <=> call[c].result = "ok"
                           /\ Last(call[c].events) = "MCPToolDenied" <=> Last(call[c].labels) = "denied"
                      /\ Stage(c, "turn") => Said(report[c])
                      /\ Stage(c, "told") =>
                           /\ Len(trail[c]) = 2
                           /\ Head(trail[c]) = "A2ATaskStarted"
                           /\ Last(trail[c]) \in {"A2ATaskCompleted", "A2ATaskFailed"}
                           /\ Unsaid(report[c]) => Last(trail[c]) = "A2ATaskFailed"
    BY DEF EverythingReported, ReportedOnce
  <2>1. ASSUME Stage(c, "finished")
        PROVE  /\ Len(call[c].labels) = 1 /\ Len(call[c].events) = 1
               /\ Last(call[c].events) = "MCPToolInvoked" <=> call[c].result = "ok"
               /\ Last(call[c].events) = "MCPToolDenied" <=> Last(call[c].labels) = "denied"
    BY <2>1 DEF AgentInv, CallsInv, Reports, Once, Stage, Last
  <2>2. ReportAt(call[c].pc, report[c], trail[c])
    BY DEF AgentInv, ReportInv
  <2>3. ASSUME Stage(c, "turn") PROVE Said(report[c])
    BY <2>2, <2>3, SaidReports DEF ReportAt, Stage
  <2>4. ASSUME Stage(c, "told")
        PROVE  /\ Len(trail[c]) = 2
               /\ Head(trail[c]) = "A2ATaskStarted"
               /\ Last(trail[c]) \in {"A2ATaskCompleted", "A2ATaskFailed"}
               /\ Unsaid(report[c]) => Last(trail[c]) = "A2ATaskFailed"
    <3>1. PICK e \in Ends : trail[c] = <<"A2ATaskStarted", e>>
      BY <2>4 DEF AgentInv, TaskInv, TrailAt, Stage
    <3>2. Len(trail[c]) = 2 /\ Head(trail[c]) = "A2ATaskStarted" /\ Last(trail[c]) = e
      BY <3>1, SMT DEF Last
    <3>3. ~Unsaid(NoReport)
      BY DEF Unsaid, NoReport, Report
    <3>4. CASE report[c] = NoReport
      BY <3>1, <3>2, <3>3, <3>4 DEF Ends
    <3>5. CASE trail[c] = <<"A2ATaskStarted", "A2ATaskFailed">>
      BY <3>2, <3>5, SMT DEF Last
    <3>6. QED
      BY <2>2, <2>4, <3>4, <3>5 DEF ReportAt, Stage
  <2>5. QED
    BY <2>1, <2>3, <2>4
<1>2. QED
  BY <1>1, AgentInvariance, PTL

\* newMetricsToolCallbacks: the map of start times holds those of the tools that run,
\* and the sweep takes none of a tool that takes no longer than its age.
THEOREM StartTimesKept == AgentSpec => []StartsKept
<1>1. AgentInv => StartsKept
  <2> SUFFICES ASSUME AgentInv, NEW c \in Calls
               PROVE  /\ starts[c] # NoStart => call[c].pc \in {"tooling", "after"}
                      /\ Stage(c, "tooling") /\ took[c] <= SweepAge => starts[c] # NoStart
    BY DEF StartsKept
  <2>1. StartAt(call[c].pc, starts[c], took[c]) /\ took[c] \in 0 .. Old
    BY DEF AgentInv, TaskInv
  <2>2. QED
    BY <2>1, AgentAssumption, SMT DEF StartAt, Stage, Old, NoStart
<1>2. QED
  BY <1>1, AgentInvariance, PTL

-----------------------------------------------------------------------------
(* The requests use the limiters as RateSpec allows.                        *)

\* A call of a limiter is a step of the limiter that is followed, or none.
LEMMA LimiterSteps ==
  ASSUME NEW t, NEW k, NEW ok \in BOOLEAN, Limiter(t, k, ok)
  PROVE  [RateNext]_rateVars
  BY DEF Limiter, RateNext

\* Every step of a request.
LEMMA RequestSteps ==
  ASSUME NEW c \in Calls, PreAuth(c) \/ Proceed(c) \/ Expire(c) \/ PostAuth(c, "a2a")
  PROVE  [RateNext]_rateVars
<1>1. CASE PreAuth(c)
  BY <1>1, LimiterSteps DEF PreAuth, AllowIP
<1>2. ASSUME NEW h, PostAuth(c, h) PROVE [RateNext]_rateVars
  BY <1>2, LimiterSteps, SMT DEF PostAuth, AllowRequest
<1>3. CASE LimitTool(c)
  BY <1>3, LimiterSteps DEF LimitTool, AllowToolCall
<1>4. CASE \/ Authenticate(c) \/ CheckRBAC(c) \/ Acquire(c) \/ Throttle(c) \/ Return(c)
           \/ Release(c) \/ Answer(c) \/ Expire(c)
  BY <1>4 DEF Authenticate, CheckRBAC, Acquire, Throttle, Return, Release, Answer, Expire
<1>5. QED
  BY <1>1, <1>2, <1>3, <1>4 DEF Proceed

\* Requests to the tools and to the agent drive the limiters of internal/ratelimit
\* only through steps of RateSpec, so that what holds of the limiters holds of them
\* under requests.
THEOREM RequestsUseLimiters == AgentSpec => RateSpec
<1>1. AgentInit => RateInit
  BY DEF AgentInit, ToolInit
<1>2. [AgentNext]_agentVars => [RateNext]_rateVars
  <2> SUFFICES ASSUME [AgentNext]_agentVars PROVE [RateNext]_rateVars
    OBVIOUS
  <2>1. ASSUME NEW c \in Calls, PreAuth(c) \/ Proceed(c) \/ Expire(c) \/ PostAuth(c, "a2a")
        PROVE  [RateNext]_rateVars
    BY <2>1, RequestSteps
  <2>2. ASSUME NEW c \in Calls,
               \/ BeforeExecute(c) \/ AnswerTask(c) \/ Guard(c) \/ beforeMetrics(c) \/ ToolReturns(c)
               \/ AfterTool(c) \/ Abandon(c) \/ \E failed \in BOOLEAN : AfterExecute(c, failed)
        PROVE  [RateNext]_rateVars
    BY <2>2 DEF BeforeExecute, AnswerTask, Guard, beforeMetrics, ToolReturns, AfterTool, Abandon,
                AfterExecute
  <2>3. CASE LimiterStep \/ AgentElapse
    BY <2>3 DEF LimiterStep, AgentElapse, RateNext
  <2>4. CASE sweep
    BY <2>4 DEF sweep
  <2>5. CASE UNCHANGED agentVars
    BY <2>5 DEF agentVars, rateVars
  <2>6. QED
    BY <2>1, <2>2, <2>3, <2>4, <2>5 DEF AgentNext, RunTask
<1>3. QED
  BY <1>1, <1>2, PTL DEF AgentSpec, RateSpec

\* Under requests of any users to any tools, eviction grants nothing and the counters
\* of slots are exact.
THEOREM LimitersHoldUnderRequests == AgentSpec => [](NoExtraGrants /\ SlotsCounted)
  BY RequestsUseLimiters, EvictionGrantsNothing, SlotsExact, PTL

=============================================================================
