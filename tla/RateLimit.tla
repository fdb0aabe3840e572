------------------------------ MODULE RateLimit ------------------------------
(***************************************************************************)
(* internal/ratelimit: token buckets per client address and per user, and  *)
(* slots for the sessions of a user and for calls to the language model.   *)
(*                                                                         *)
(* Limiters of different kinds and keys share nothing, so a behaviour      *)
(* follows one limiter, of kind tier, and leaves the others open.  A tick  *)
(* is the time in which a bucket gains one token.  Computing takes no      *)
(* time: a goroutine is not held up for MaxAge inside an operation, so an  *)
(* entry that was just looked up is not evicted before it is used.         *)
(***************************************************************************)
EXTENDS Integers, FiniteSets

CONSTANTS
  Workers,   \* goroutines that take and return slots
  Burst,     \* size of a bucket
  MaxAge,    \* ticks without use after which an entry may be evicted
  MaxSlots   \* maxConcurrentSessions, or maxLLMConcurrency

\* A bucket left alone for MaxAge is full: 2 and 60 seconds against 10 minutes.
ASSUME RateAssumption ==
  /\ Burst \in Nat \ {0} /\ MaxAge \in Nat /\ MaxSlots \in Nat
  /\ Burst <= MaxAge
  /\ IsFiniteSet(Workers)

VARIABLES
  tier,   \* the kind of limiter that is followed
  entry,  \* its entry in the map of its limiter: present, tokens, ticks since lastSeen
  ideal,  \* history: tokens of a bucket with the same grants that is never evicted
  count,  \* the counter of slots in use
  slot    \* slot[w]: where w is with its slot, and the counter it read

rateVars == <<tier, entry, ideal, count, slot>>

Buckets == {"ip", "request", "tool"}
Slots == {"session", "llm"}

NoEntry == [has |-> FALSE, tokens |-> 0, age |-> 0]
OutOfSlot == [pc |-> "out", current |-> 0]

RateInit ==
  /\ tier \in Buckets \cup Slots
  /\ entry = NoEntry
  /\ ideal = Burst
  /\ count = 0
  /\ slot = [w \in Workers |-> OutOfSlot]

-----------------------------------------------------------------------------
(* Token buckets: Allow, AllowRequest and AllowToolCall.                    *)

\* A missing entry is created with a full bucket; lastSeen becomes now.
Tokens == IF entry.has THEN entry.tokens ELSE Burst

\* One call of Allow on the bucket that is followed.  It is granted iff ok.
Allow(ok) ==
  /\ tier \in Buckets
  /\ ok = (Tokens > 0)
  /\ entry' = [has |-> TRUE, tokens |-> IF ok THEN Tokens - 1 ELSE 0, age |-> 0]
  /\ ideal' = IF ok THEN ideal - 1 ELSE ideal
  /\ UNCHANGED <<tier, count, slot>>

-----------------------------------------------------------------------------
(* Slots, taken and returned with compare-and-swap outside the lock.        *)

At(w, pc) == slot[w].pc = pc
Go(w, pc, current) == slot' = [slot EXCEPT ![w] = [pc |-> pc, current |-> current]]

\* Under the lock: find or create the entry, and mark it as seen.
AcquireSession(w) ==
  /\ tier = "session" /\ At(w, "out")
  /\ entry' = [entry EXCEPT !.has = TRUE, !.age = 0]
  /\ Go(w, "load", 0)
  /\ UNCHANGED <<tier, ideal, count>>

LLMAcquire(w) ==
  /\ tier = "llm" /\ At(w, "out")
  /\ Go(w, "load", 0)
  /\ UNCHANGED <<tier, entry, ideal, count>>

\* The counter is read; at the limit the request is refused.
Load(w) ==
  /\ At(w, "load")
  /\ IF count >= MaxSlots THEN Go(w, "out", 0) ELSE Go(w, "swap", count)
  /\ UNCHANGED <<tier, entry, ideal, count>>

\* MUTANT of CompareAndSwap: the counter is stored without the comparison.
StoreBlindly(w) ==
  /\ At(w, "swap")
  /\ count' = slot[w].current + 1 /\ Go(w, "in", 0)
  /\ UNCHANGED <<tier, entry, ideal>>

CompareAndSwap(w) ==
  /\ At(w, "swap")
  /\ IF count = slot[w].current
     THEN count' = count + 1 /\ Go(w, "in", 0)
     ELSE UNCHANGED count /\ Go(w, "load", 0)
  /\ UNCHANGED <<tier, entry, ideal>>

ReleaseSession(w) ==
  /\ tier = "session" /\ At(w, "in")
  /\ Go(w, IF entry.has THEN "unload" ELSE "out", 0)
  /\ UNCHANGED <<tier, entry, ideal, count>>

LLMRelease(w) ==
  /\ tier = "llm" /\ At(w, "in")
  /\ Go(w, "unload", 0)
  /\ UNCHANGED <<tier, entry, ideal, count>>

Unload(w) ==
  /\ At(w, "unload")
  /\ IF count <= 0 THEN Go(w, "out", 0) ELSE Go(w, "unswap", count)
  /\ UNCHANGED <<tier, entry, ideal, count>>

SwapBack(w) ==
  /\ At(w, "unswap")
  /\ IF count = slot[w].current
     THEN count' = count - 1 /\ Go(w, "out", 0)
     ELSE UNCHANGED count /\ Go(w, "unload", 0)
  /\ UNCHANGED <<tier, entry, ideal>>

-----------------------------------------------------------------------------
(* Eviction and time.                                                       *)

\* MUTANT of cleanup: the age of an entry is not looked at.
cleanupAlways ==
  /\ entry.has
  /\ tier = "session" => count = 0
  /\ entry' = NoEntry
  /\ UNCHANGED <<tier, ideal, count, slot>>

\* The ticker of a cleanup loop fires.  Entries of sessions in use stay.
cleanup ==
  /\ entry.has /\ entry.age > MaxAge
  /\ tier = "session" => count = 0
  /\ entry' = NoEntry
  /\ UNCHANGED <<tier, ideal, count, slot>>

NobodyInside == \A w \in Workers : slot[w].pc \in {"out", "in"}

Least(a, b) == IF a < b THEN a ELSE b

Tick ==
  /\ NobodyInside
  /\ entry' = IF entry.has
              THEN [has |-> TRUE, tokens |-> Least(entry.tokens + 1, Burst),
                    age |-> Least(entry.age + 1, MaxAge + 1)]
              ELSE entry
  /\ ideal' = Least(ideal + 1, Burst)
  /\ UNCHANGED <<tier, count, slot>>

SlotStep(w) ==
  \/ AcquireSession(w) \/ LLMAcquire(w) \/ Load(w) \/ CompareAndSwap(w)
  \/ ReleaseSession(w) \/ LLMRelease(w) \/ Unload(w) \/ SwapBack(w)

RateNext ==
  \/ \E ok \in BOOLEAN : Allow(ok)
  \/ \E w \in Workers : SlotStep(w)
  \/ cleanup
  \/ Tick

RateSpec == RateInit /\ [][RateNext]_rateVars

-----------------------------------------------------------------------------
\* Evicting idle entries gives nobody a larger share: what a key was granted a
\* bucket that is never evicted would have granted it as well.
NoExtraGrants == ideal >= 0

\* The goroutines that hold a slot.
Holders == {w \in Workers : slot[w].pc \in {"in", "unload", "unswap"}}

\* The counter counts the slots in use exactly: none is lost in a race of two
\* requests or in the eviction of an entry, and the limit is never passed.
SlotsCounted ==
  /\ count = Cardinality(Holders)
  /\ count <= MaxSlots
  /\ count > 0 /\ tier = "session" => entry.has
==============================================================================
