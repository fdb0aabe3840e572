----------------------------- MODULE AuditBuffer -----------------------------
(***************************************************************************)
(* BufferedEmitter of internal/audit: goroutines put events into a bounded *)
(* channel, one flush loop takes them out, collects them into batches and  *)
(* hands the batches to a writer (the Data Store), and Close ends the loop *)
(* after it has drained the channel.                                       *)
(*                                                                         *)
(* An event is emitted at most once, so an event stands for one call of    *)
(* Emit or EmitBlocking.                                                   *)
(***************************************************************************)
EXTENDS Integers, Sequences, Functions

CONSTANTS
  Events,      \* calls of Emit and EmitBlocking
  bufSize,     \* capacity of the channel (4096)
  batchSize,   \* events per batch (100)
  MaxOutages   \* bound: batches the Data Store fails to take

ASSUME BufferAssumption ==
  /\ bufSize \in Nat \ {0}
  /\ batchSize \in Nat \ {0}
  /\ MaxOutages \in Nat

VARIABLES
  buffer,    \* the channel
  batch,     \* events the flush loop has collected
  loop,      \* where the flush loop is
  done,      \* the done channel is closed
  closer,    \* the call of Close
  emit,      \* emit[e]: how far the call that emits e is
  stored,    \* events the Data Store holds
  logged,    \* events logged in place of a failed write
  outages,   \* failed writes so far
  accepted,  \* history: events put into the channel, in this order
  handed,    \* history: events handed to the writer, in this order
  before     \* history: how many events were accepted before Close

vars == <<buffer, batch, loop, done, closer, emit, stored, logged, outages, accepted, handed, before>>

BufferInit ==
  /\ buffer = <<>>
  /\ batch = <<>>
  /\ loop = "run"
  /\ done = FALSE
  /\ closer = "open"
  /\ emit = [e \in Events |-> "new"]
  /\ stored = {}
  /\ logged = {}
  /\ outages = 0
  /\ accepted = <<>>
  /\ handed = <<>>
  /\ before = 0

flushVars == <<loop, batch, stored, logged, outages, handed>>
closeVars == <<done, closer, before>>

-----------------------------------------------------------------------------
(* Emit and EmitBlocking.  Neither looks at done.                           *)

Room == Len(buffer) < bufSize

Send(e) ==
  /\ buffer' = Append(buffer, e)
  /\ accepted' = Append(accepted, e)
  /\ emit' = [emit EXCEPT ![e] = "accepted"]

Drop(e) ==
  /\ emit' = [emit EXCEPT ![e] = "dropped"]
  /\ UNCHANGED <<buffer, accepted>>

\* A select with a default: drop the event when the channel is full.
TrySend(e) == IF Room THEN Send(e) ELSE Drop(e)

Emit(e) ==
  /\ emit[e] = "new"
  /\ TrySend(e)
  /\ UNCHANGED <<flushVars, closeVars>>

EmitBlocking(e) ==
  /\ emit[e] = "new"
  /\ emit' = [emit EXCEPT ![e] = "waiting"]
  /\ UNCHANGED <<buffer, accepted, flushVars, closeVars>>

\* A waiting EmitBlocking gets its event into the channel, or its context ends;
\* select takes either when both are possible.
EmitBlockingSend(e) ==
  /\ emit[e] = "waiting"
  /\ Room
  /\ Send(e)
  /\ UNCHANGED <<flushVars, closeVars>>

EmitBlockingGivesUp(e) ==
  /\ emit[e] = "waiting"
  /\ Drop(e)
  /\ UNCHANGED <<flushVars, closeVars>>

-----------------------------------------------------------------------------
(* flushLoop.                                                               *)

Take == /\ buffer # <<>>
        /\ batch' = Append(batch, Head(buffer))
        /\ buffer' = Tail(buffer)

LoopFrame == UNCHANGED <<closeVars, emit, accepted>>

Full(b) == Len(b) >= batchSize

Receive ==
  /\ loop = "run"
  /\ Take
  /\ loop' = IF Full(batch') THEN "flush" ELSE "run"
  /\ UNCHANGED <<stored, logged, outages, handed>>
  /\ LoopFrame

\* Mutant: the ticker flushes nothing.
NeverFlush == FALSE

\* The ticker fires with a batch that is not empty.
FlushDue == batch # <<>>

Tick ==
  /\ loop = "run"
  /\ FlushDue
  /\ loop' = "flush"
  /\ UNCHANGED <<buffer, batch, stored, logged, outages, handed>>
  /\ LoopFrame

\* Mutant: the drain starts a batch of its own.
SeeDoneFresh ==
  /\ loop = "run"
  /\ done
  /\ loop' = "drain"
  /\ batch' = <<>>
  /\ UNCHANGED <<buffer, stored, logged, outages, handed>>
  /\ LoopFrame

\* The select may take any of its cases, so this can happen with events waiting.
SeeDone ==
  /\ loop = "run"
  /\ done
  /\ loop' = "drain"
  /\ UNCHANGED <<buffer, batch, stored, logged, outages, handed>>
  /\ LoopFrame

DrainTake ==
  /\ loop = "drain"
  /\ Take
  /\ UNCHANGED <<loop, stored, logged, outages, handed>>
  /\ LoopFrame

\* Mutant: the drain ends without flushing what it has collected.
NoLastFlush == "ended"

LastFlush == IF batch = <<>> THEN "ended" ELSE "lastFlush"

DrainEnds ==
  /\ loop = "drain"
  /\ buffer = <<>>
  /\ loop' = LastFlush
  /\ UNCHANGED <<buffer, batch, stored, logged, outages, handed>>
  /\ LoopFrame

\* flushBatchBackground hands the batch to the writer.  A write that fails may
\* have been carried out all the same; its events are logged and dropped.
WriteSucceeds == /\ stored' = stored \cup Range(batch)
                 /\ UNCHANGED <<logged, outages>>

WriteFails ==
  /\ outages < MaxOutages
  /\ outages' = outages + 1
  /\ logged' = logged \cup Range(batch)
  /\ stored' \in {stored, stored \cup Range(batch)}

Flush ==
  /\ loop \in {"flush", "lastFlush"}
  /\ WriteSucceeds \/ WriteFails
  /\ handed' = handed \o batch
  /\ batch' = <<>>
  /\ loop' = IF loop = "flush" THEN "run" ELSE "ended"
  /\ UNCHANGED buffer
  /\ LoopFrame

-----------------------------------------------------------------------------
(* Close.                                                                   *)

Close ==
  /\ closer = "open"
  /\ done' = TRUE
  /\ closer' = "waiting"
  /\ before' = Len(accepted)
  /\ UNCHANGED <<buffer, emit, accepted, flushVars>>

CloseReturns ==
  /\ closer = "waiting"
  /\ loop = "ended"
  /\ closer' = "closed"
  /\ UNCHANGED <<buffer, emit, accepted, flushVars, done, before>>

\* The caller's context ends first; the flush loop goes on.
CloseTimesOut ==
  /\ closer = "waiting"
  /\ closer' = "timedOut"
  /\ UNCHANGED <<buffer, emit, accepted, flushVars, done, before>>

LoopStep == Receive \/ Tick \/ SeeDone \/ DrainTake \/ DrainEnds \/ Flush

EmitStep(e) == Emit(e) \/ EmitBlocking(e) \/ EmitBlockingSend(e) \/ EmitBlockingGivesUp(e)

CloseStep == Close \/ CloseReturns \/ CloseTimesOut

BufferNext == (\E e \in Events : EmitStep(e)) \/ LoopStep \/ CloseStep

BufferSpec == BufferInit /\ [][BufferNext]_vars

\* The flush loop is a goroutine that never blocks for ever: the ticker fires
\* and a write has a deadline of ten seconds.
FairBufferSpec == BufferSpec /\ WF_vars(LoopStep) /\ WF_vars(CloseReturns)

-----------------------------------------------------------------------------
(* Properties.                                                              *)

\* Types, and two bounds: the channel holds at most bufSize events, and only
\* the drain of Close makes a batch larger than batchSize.
BufferTypeOK ==
  /\ buffer \in Seq(Events) /\ Len(buffer) <= bufSize
  /\ batch \in Seq(Events) /\ (~done => Len(batch) <= batchSize)
  /\ loop \in {"run", "flush", "drain", "lastFlush", "ended"}
  /\ done \in BOOLEAN
  /\ closer \in {"open", "waiting", "closed", "timedOut"}
  /\ emit \in [Events -> {"new", "waiting", "accepted", "dropped"}]
  /\ stored \subseteq Events
  /\ logged \subseteq Events
  /\ outages \in 0..MaxOutages
  /\ accepted \in Seq(Events)
  /\ handed \in Seq(Events)
  /\ before \in Nat

\* Events reach the writer in the order in which they were accepted, each once
\* and none left out, whichever cases the select statements take, when writes
\* fail, and across the drain of Close.
InOrder == accepted = handed \o batch \o buffer

\* When Close returns without an error, every event accepted before the call is
\* in the Data Store or in the log, also those still in the channel or in a
\* batch when Close was called.
CloseFlushes ==
  closer = "closed" => \A i \in 1..before : accepted[i] \in stored \cup logged

\* An event accepted before Close is delivered or logged in the end.
AcceptedIsDelivered ==
  \A e \in Events : (emit[e] = "accepted" /\ ~done) ~> (e \in stored \cup logged)

\* Close comes back, because the loop it waits for sees done and ends.
CloseEnds == (closer = "waiting") ~> (closer \in {"closed", "timedOut"})

\* The flush loop leaves nobody waiting: neither an event nor Close.
BufferMakesProgress == AcceptedIsDelivered /\ CloseEnds

==============================================================================
