---------------------------- MODULE ShutdownProofs ----------------------------
(***************************************************************************)
(* Proofs about the audit buffer and about the shutdown that closes it.    *)
(* They hold for every set of events and of requests, every capacity of    *)
(* the channel, batch size and limit of connections, and any number of     *)
(* failed writes.                                                          *)
(***************************************************************************)
EXTENDS Shutdown, FiniteSetTheorems, TLAPS

\* First-order and set reasoning is Zenon's; a leaf with arithmetic, sequences or
\* the fields of records cites SMT.
USE ZenonT(30)

-----------------------------------------------------------------------------
(* The connection tracker.                                                  *)

\* What TracksStreaming needs: an entry of the map is a streaming request with
\* its id; a request has an id of a client or its own, and its own before it
\* arrives; a streaming request that is not in the map shares its id.
TrackInv ==
  main \in {"serving", "drain"} =>
    /\ req \in [Requests -> {"new", "arrived", "streaming", "ended"}]
    /\ IsFiniteSet(DOMAIN conns)
    /\ MaxConnections > 0 => Cardinality(DOMAIN conns) <= MaxConnections
    /\ connID \in [Requests -> ClientIds \cup Requests]
    /\ \A r \in Requests : connID[r] \in ClientIds \cup {r}
    /\ \A r \in Requests : req[r] = "new" => connID[r] = r
    /\ \A i \in DOMAIN conns :
         conns[i] \in Requests /\ connID[conns[i]] = i /\ req[conns[i]] = "streaming"
    /\ \A r \in Requests :
         req[r] = "streaming" =>
           \/ connID[r] \in DOMAIN conns /\ conns[connID[r]] = r
           \/ \E q \in Requests \ {r} : connID[q] = connID[r]

\* TrackInv holds at first.
LEMMA TrackInit == ShutdownInit => TrackInv
<1> SUFFICES ASSUME ShutdownInit
             PROVE  TrackInv
  OBVIOUS
<1>1. DOMAIN conns = {} /\ req = [r \in Requests |-> "new"] /\ connID = [r \in Requests |-> r]
  BY SMT DEF ShutdownInit
<1>2. IsFiniteSet({}) /\ Cardinality({}) = 0
  BY FS_EmptySet
<1> QED BY <1>1, <1>2, ShutdownAssumption, SMT DEF TrackInv

\* A request arrives.
LEMMA ArriveTracks ==
  ASSUME TrackInv, main \in {"serving", "drain"}, NEW r \in Requests, Arrive(r)
  PROVE  TrackInv'
<1>0. PICK id \in ClientIds \cup {r} : connID' = [connID EXCEPT ![r] = id]
  BY DEF Arrive
<1>1. req' = [req EXCEPT ![r] = "arrived"] /\ req[r] = "new" /\ UNCHANGED <<conns, main>>
  BY DEF Arrive, mainVars
<1>2. connID[r] = r /\ connID \in [Requests -> ClientIds \cup Requests]
  BY <1>1 DEF TrackInv
<1>3. \A q \in Requests \ {r} : connID[q] # r /\ connID'[q] = connID[q] /\ req'[q] = req[q]
  BY <1>0, <1>1, <1>2, ShutdownAssumption, SMT DEF TrackInv
<1>4. \A i \in DOMAIN conns : conns[i] # r
  BY <1>1 DEF TrackInv
<1>5. \A q \in Requests : req'[q] = "streaming" =>
        \/ connID'[q] \in DOMAIN conns /\ conns[connID'[q]] = q
        \/ \E p \in Requests \ {q} : connID'[p] = connID'[q]
  <2> SUFFICES ASSUME NEW q \in Requests, req'[q] = "streaming"
               PROVE  \/ connID'[q] \in DOMAIN conns /\ conns[connID'[q]] = q
                      \/ \E p \in Requests \ {q} : connID'[p] = connID'[q]
    OBVIOUS
  <2>1. q # r /\ req[q] = "streaming"
    BY <1>1 DEF TrackInv
  <2>2. \A p \in Requests \ {q} : connID[p] = connID[q] => p # r
    BY <1>2, <1>3, <2>1
  <2> QED BY <1>3, <2>1, <2>2, SMT DEF TrackInv
<1>6. req' \in [Requests -> {"new", "arrived", "streaming", "ended"}]
  BY <1>1 DEF TrackInv
<1>7. /\ connID' \in [Requests -> ClientIds \cup Requests]
      /\ \A q \in Requests : connID'[q] \in ClientIds \cup {q}
      /\ \A q \in Requests : req'[q] = "new" => connID'[q] = q
  BY <1>0, <1>1, <1>3, SMT DEF TrackInv
<1>8. \A i \in DOMAIN conns :
         conns[i] \in Requests /\ connID'[conns[i]] = i /\ req'[conns[i]] = "streaming"
  BY <1>3, <1>4 DEF TrackInv
<1> QED BY <1>1, <1>5, <1>6, <1>7, <1>8 DEF TrackInv

\* The tracker takes a connection or refuses it.
LEMMA TrackTracks ==
  ASSUME TrackInv, main \in {"serving", "drain"}, NEW r \in Requests, Track(r)
  PROVE  TrackInv'
<1>0. req[r] = "arrived" /\ UNCHANGED <<connID, main>>
  BY DEF Track, mainVars
<1>1. CASE ~Adds
  <2>1. req' = [req EXCEPT ![r] = "ended"] /\ UNCHANGED conns
    BY <1>1 DEF Track
  <2> QED BY <1>0, <2>1, SMT DEF TrackInv
<1>2. CASE Adds
  <2> DEFINE D == DOMAIN conns \cup {connID[r]}
  <2>1. /\ req' = [req EXCEPT ![r] = "streaming"]
        /\ conns' = [i \in D |-> IF i = connID[r] THEN r ELSE conns[i]]
    BY <1>2 DEF Track
  <2>2. /\ IsFiniteSet(DOMAIN conns) /\ req \in [Requests -> {"new", "arrived", "streaming", "ended"}]
        /\ connID[r] \in ClientIds \cup Requests
    BY DEF TrackInv
  <2>3. DOMAIN conns' = D
    BY <2>1
  <2>4. IsFiniteSet(D) /\ (MaxConnections > 0 => Cardinality(D) <= MaxConnections)
    <3>1. IsFiniteSet(D) /\ Cardinality(D) <= Cardinality(DOMAIN conns) + 1
      <4> DEFINE S == DOMAIN conns
                 x == connID[r]
      <4>1. IsFiniteSet(S) /\ Cardinality(S) \in Nat
        BY <2>2, FS_CardinalityType
      <4> HIDE DEF S, x
      <4>2. IsFiniteSet(S \cup {x})
        BY <4>1, FS_AddElement
      <4>3. Cardinality(S \cup {x}) = IF x \in S THEN Cardinality(S) ELSE Cardinality(S) + 1
        BY <4>1, FS_AddElement
      <4> QED BY <4>1, <4>2, <4>3, SMT DEF S, x
    <3>2. Cardinality(DOMAIN conns) \in Nat /\ Cardinality(D) \in Nat
      BY <2>2, <3>1, FS_CardinalityType
    <3> QED BY <1>2, <3>1, <3>2, ShutdownAssumption, SMT DEF Adds
  <2>5. \A i \in D : conns'[i] \in Requests /\ connID[conns'[i]] = i /\ req'[conns'[i]] = "streaming"
    BY <1>0, <2>1, <2>2 DEF TrackInv
  <2>6. \A q \in Requests : req'[q] = "streaming" =>
          \/ connID[q] \in D /\ conns'[connID[q]] = q
          \/ \E p \in Requests \ {q} : connID[p] = connID[q]
    BY <1>0, <2>1, <2>2, SMT DEF TrackInv
  <2> HIDE DEF D
  <2> QED BY <1>0, <2>1, <2>2, <2>3, <2>4, <2>5, <2>6, SMT DEF TrackInv
<1> QED BY <1>1, <1>2

\* A handler returns, and removes the entry with its id.
LEMMA FinishTracks ==
  ASSUME TrackInv, main \in {"serving", "drain"}, NEW r \in Requests, Finish(r)
  PROVE  TrackInv'
<1> DEFINE D == DOMAIN conns \ {connID[r]}
<1>0. /\ req[r] = "streaming" /\ req' = [req EXCEPT ![r] = "ended"] /\ UNCHANGED <<connID, main>>
      /\ conns' = [i \in D |-> conns[i]]
  BY DEF Finish, AfterRemove, Restrict, mainVars
<1>1. /\ IsFiniteSet(DOMAIN conns) /\ req \in [Requests -> {"new", "arrived", "streaming", "ended"}]
  BY DEF TrackInv
<1>2. DOMAIN conns' = D
  BY <1>0
<1>3. IsFiniteSet(D) /\ (MaxConnections > 0 => Cardinality(D) <= MaxConnections)
  <2>1. D \subseteq DOMAIN conns
    OBVIOUS
  <2>2. IsFiniteSet(D) /\ Cardinality(D) <= Cardinality(DOMAIN conns)
    BY <1>1, <2>1, FS_Subset
  <2>3. Cardinality(DOMAIN conns) \in Nat /\ Cardinality(D) \in Nat
    BY <1>1, <2>2, FS_CardinalityType
  <2> QED BY <2>2, <2>3, ShutdownAssumption, SMT DEF TrackInv
<1>4. \A i \in D : conns'[i] \in Requests /\ connID[conns'[i]] = i /\ req'[conns'[i]] = "streaming"
  BY <1>0, <1>1 DEF TrackInv
<1>5. \A q \in Requests : req'[q] = "streaming" =>
        \/ connID[q] \in D /\ conns'[connID[q]] = q
        \/ \E p \in Requests \ {q} : connID[p] = connID[q]
  BY <1>0, <1>1, SMT DEF TrackInv
<1> HIDE DEF D
<1> QED BY <1>0, <1>1, <1>2, <1>3, <1>4, <1>5, SMT DEF TrackInv

\* Every step keeps TrackInv.
LEMMA TrackNext == TrackInv /\ [ShutdownNext]_shutdownVars => TrackInv'
<1> SUFFICES ASSUME TrackInv, [ShutdownNext]_shutdownVars, main' \in {"serving", "drain"}
             PROVE  TrackInv'
  BY DEF TrackInv
<1>0. ~MainStep
  BY DEF MainStep, DrainSnapshot, DrainFrame, DrainCancel, ShutdownListener, ServersDown, CloseAudit,
         AuditClosed, Exit
<1>1. main \in {"serving", "drain"}
  BY <1>0 DEF ShutdownNext, RequestStep, Arrive, Track, Finish, Emits, FlushLoopRuns, Signal, Expire,
              shutdownVars, mainVars
<1>2. CASE \E r \in Requests : RequestStep(r)
  BY <1>1, <1>2, ArriveTracks, TrackTracks, FinishTracks DEF RequestStep
<1>3. CASE UNCHANGED <<req, connID, conns>>
  BY <1>1, <1>3 DEF TrackInv
<1>4. CASE ~\E r \in Requests : RequestStep(r)
  <2>1. UNCHANGED <<req, connID, conns>>
    BY <1>0, <1>4 DEF ShutdownNext, Emits, FlushLoopRuns, Signal, Expire, shutdownVars, requestVars
  <2> QED BY <1>3, <2>1
<1> QED BY <1>2, <1>4

\* For any number of requests, any ids that clients choose and any limit: until
\* DrainAll, the tracker holds streaming requests only, all those whose id is
\* their own, and no more than the limit.
THEOREM TrackerTracks == ShutdownSpec => []TracksStreaming
<1>1. TrackInv => TracksStreaming
  BY SMT DEF TrackInv, TracksStreaming, Range
<1> QED BY <1>1, TrackInit, TrackNext, PTL DEF ShutdownSpec

-----------------------------------------------------------------------------
(* The audit buffer: what is invariant.                                     *)

\* What InOrder and CloseFlushes need: all that was handed over is in the store
\* or the log; when the drain has found the channel empty, the events accepted
\* before Close are handed over or in the last batch; the loop ends with an
\* empty batch; and Close returns after the loop has ended.
Flushed ==
  /\ \A i \in 1..Len(handed) : handed[i] \in stored \cup logged
  /\ before <= Len(accepted)
  /\ loop \in {"lastFlush", "ended"} => before <= Len(handed) + Len(batch)
  /\ loop = "ended" => batch = <<>>
  /\ loop \in {"drain", "lastFlush", "ended"} => done
  /\ done <=> closer # "open"
  /\ ~done => before = 0
  /\ closer = "closed" => loop = "ended"
  /\ loop = "run" /\ ~done => Len(batch) < batchSize

BufferInv == BufferTypeOK /\ InOrder /\ Flushed

-----------------------------------------------------------------------------
(* Sequences.                                                               *)

\* Sequences of one length with the same elements are equal.
LEMMA SameElements ==
  ASSUME NEW S, NEW s \in Seq(S), NEW t \in Seq(S),
         Len(s) = Len(t), \A i \in 1..Len(s) : s[i] = t[i]
  PROVE  s = t
BY SMT

\* To append to the second of two sequences is to append to both.
LEMMA AppendConcat ==
  ASSUME NEW a \in Seq(Events), NEW b \in Seq(Events), NEW e \in Events
  PROVE  Append(a \o b, e) = a \o Append(b, e)
<1> DEFINE lhs == Append(a \o b, e)
           rhs == a \o Append(b, e)
<1>1. lhs \in Seq(Events) /\ rhs \in Seq(Events) /\ Len(lhs) = Len(rhs)
  BY SMT
<1>2. \A i \in 1..Len(lhs) : lhs[i] = rhs[i]
  BY SMT
<1> HIDE DEF lhs, rhs
<1>3. lhs = rhs
  BY <1>1, <1>2, SameElements
<1> QED BY <1>3 DEF lhs, rhs

\* The head of the second of two sequences moves to the end of the first.
LEMMA HeadConcat ==
  ASSUME NEW a \in Seq(Events), NEW b \in Seq(Events), b # <<>>
  PROVE  a \o b = Append(a, Head(b)) \o Tail(b)
<1> DEFINE lhs == a \o b
           rhs == Append(a, Head(b)) \o Tail(b)
<1>0. /\ Head(b) = b[1] /\ b[1] \in Events /\ Tail(b) \in Seq(Events) /\ Len(b) = Len(Tail(b)) + 1
      /\ \A i \in 1..Len(Tail(b)) : Tail(b)[i] = b[i + 1]
  BY SMT
<1>1. lhs \in Seq(Events) /\ rhs \in Seq(Events) /\ Len(lhs) = Len(rhs)
  BY <1>0, SMT
<1>2. \A i \in 1..Len(lhs) : lhs[i] = rhs[i]
  BY <1>0, SMT
<1> HIDE DEF lhs, rhs
<1>3. lhs = rhs
  BY <1>1, <1>2, SameElements
<1> QED BY <1>3 DEF lhs, rhs

\* An event that is appended to the channel comes after all others.
LEMMA AppendLast ==
  ASSUME handed \in Seq(Events), batch \in Seq(Events), buffer \in Seq(Events), NEW e \in Events
  PROVE  Append(handed \o batch \o buffer, e) = handed \o batch \o Append(buffer, e)
<1> DEFINE front == handed \o batch
<1>1. front \in Seq(Events)
  BY SMT
<1> HIDE DEF front
<1>2. Append(front \o buffer, e) = front \o Append(buffer, e)
  BY <1>1, AppendConcat, Zenon
<1> QED BY <1>2, Zenon DEF front

\* Moving the head of the channel to the end of the batch keeps the order.
LEMMA MoveHead ==
  ASSUME handed \in Seq(Events), batch \in Seq(Events), buffer \in Seq(Events), buffer # <<>>
  PROVE  handed \o batch \o buffer = handed \o Append(batch, Head(buffer)) \o Tail(buffer)
<1> DEFINE front == handed \o batch
           head == Head(buffer)
<1>1. front \in Seq(Events) /\ head \in Events
  BY SMT
<1>2. Append(front, head) = handed \o Append(batch, head)
  <2> HIDE DEF head
  <2> QED BY <1>1, AppendConcat, Zenon
<1> HIDE DEF front
<1>3. front \o buffer = Append(front, head) \o Tail(buffer)
  BY <1>1, HeadConcat, Zenon
<1> QED BY <1>2, <1>3, Zenon DEF front

\* The elements of a concatenation are those of its parts.
LEMMA ConcatElements ==
  ASSUME NEW S, NEW h \in Seq(S), NEW b \in Seq(S), NEW T,
         \A i \in 1..Len(h) : h[i] \in T,
         \A i \in 1..Len(b) : b[i] \in T
  PROVE  \A i \in 1..Len(h \o b) : (h \o b)[i] \in T
BY SMT

\* Range has the elements of the batch.
LEMMA RangeElements ==
  ASSUME NEW S, NEW b \in Seq(S)
  PROVE  Range(b) \subseteq S /\ \A i \in 1..Len(b) : b[i] \in Range(b)
BY SMT DEF Range

-----------------------------------------------------------------------------
(* BufferInv is inductive.                                                  *)

\* BufferInv holds when NewBufferedEmitter returns.
LEMMA BufferInitInv == BufferInit => BufferInv
<1> SUFFICES ASSUME BufferInit
             PROVE  BufferInv
  OBVIOUS
<1> USE BufferAssumption
<1>0. <<>> \in Seq(Events) /\ Len(<<>>) = 0 /\ 0 <= bufSize /\ 0 <= batchSize
  BY SMT
<1>1. BufferTypeOK
  <2>1. emit \in [Events -> {"new", "waiting", "accepted", "dropped"}]
    BY DEF BufferInit
  <2>2. /\ buffer \in Seq(Events) /\ Len(buffer) <= bufSize
        /\ batch \in Seq(Events) /\ Len(batch) <= batchSize
    BY <1>0 DEF BufferInit
  <2>3. accepted \in Seq(Events) /\ handed \in Seq(Events)
    BY <1>0 DEF BufferInit
  <2>4. outages \in 0..MaxOutages /\ before \in Nat
    BY SMT DEF BufferInit
  <2>5. /\ loop = "run" /\ done = FALSE /\ closer = "open"
        /\ stored \subseteq Events /\ logged \subseteq Events
    BY DEF BufferInit
  <2> QED BY <2>1, <2>2, <2>3, <2>4, <2>5 DEF BufferTypeOK
<1>2. InOrder
  BY SMT DEF BufferInit, InOrder
<1>3. Flushed
  BY SMT DEF BufferInit, Flushed
<1> QED BY <1>1, <1>2, <1>3 DEF BufferInv

\* An event that is sent is the last of accepted and of the channel.
LEMMA SendInv ==
  ASSUME BufferInv, NEW e \in Events, Room, Send(e), UNCHANGED <<flushVars, closeVars>>
  PROVE  BufferInv'
<1> USE BufferAssumption DEF BufferInv
<1>1. BufferTypeOK'
  BY SMT DEF BufferTypeOK, Send, Room, flushVars, closeVars
<1>2. InOrder'
  <2>1. accepted' = Append(handed \o batch \o buffer, e)
    BY DEF InOrder, Send
  <2>2. handed \in Seq(Events) /\ batch \in Seq(Events) /\ buffer \in Seq(Events)
    BY DEF BufferTypeOK
  <2>3. Append(handed \o batch \o buffer, e) = handed \o batch \o Append(buffer, e)
    BY <2>2, AppendLast, Zenon
  <2> QED BY <2>1, <2>3 DEF InOrder, Send, flushVars
<1>3. Flushed'
  <2>1. Len(accepted') = Len(accepted) + 1
    BY SMT DEF Send, BufferTypeOK
  <2> QED BY <2>1, SMT DEF Flushed, BufferTypeOK, flushVars, closeVars
<1> QED BY <1>1, <1>2, <1>3

\* A step that touches only emit, and keeps its type, disturbs nothing.
LEMMA QuietInv ==
  ASSUME BufferInv, UNCHANGED <<buffer, accepted, flushVars, closeVars>>,
         emit' \in [Events -> {"new", "waiting", "accepted", "dropped"}]
  PROVE  BufferInv'
<1>1. BufferTypeOK'
  BY DEF BufferInv, BufferTypeOK, flushVars, closeVars
<1>2. InOrder' /\ Flushed'
  BY DEF BufferInv, InOrder, Flushed, flushVars, closeVars
<1> QED BY <1>1, <1>2 DEF BufferInv

\* Emit, and the three steps of EmitBlocking.
LEMMA EmitInv ==
  ASSUME BufferInv, NEW e \in Events, EmitStep(e)
  PROVE  BufferInv'
<1>1. CASE Room /\ Send(e) /\ UNCHANGED <<flushVars, closeVars>>
  BY <1>1, SendInv
<1>2. CASE Drop(e) /\ UNCHANGED <<flushVars, closeVars>>
  BY <1>2, QuietInv DEF Drop, BufferInv, BufferTypeOK
<1>3. CASE EmitBlocking(e)
  BY <1>3, QuietInv DEF EmitBlocking, BufferInv, BufferTypeOK
<1> QED BY <1>1, <1>2, <1>3
    DEF EmitStep, Emit, TrySend, EmitBlockingSend, EmitBlockingGivesUp

\* Taking an event out of the channel keeps the order and the number of events
\* not handed over; the bound of the batch is the caller's affair.
LEMMA TakeFacts ==
  ASSUME BufferInv, Take
  PROVE  /\ buffer' \in Seq(Events) /\ Len(buffer') <= bufSize
         /\ batch' \in Seq(Events) /\ Len(batch') = Len(batch) + 1
         /\ handed \o batch \o buffer = handed \o batch' \o buffer'
<1> USE BufferAssumption DEF BufferInv
<1>1. Head(buffer) \in Events /\ Tail(buffer) \in Seq(Events) /\ Len(Tail(buffer)) = Len(buffer) - 1
  BY SMT DEF Take, BufferTypeOK
<1>2. /\ handed \in Seq(Events) /\ batch \in Seq(Events)
      /\ buffer \in Seq(Events) /\ buffer # <<>>
  BY DEF Take, BufferTypeOK
<1>3. handed \o batch \o buffer = handed \o Append(batch, Head(buffer)) \o Tail(buffer)
  BY <1>2, MoveHead, Zenon
<1> QED BY <1>1, <1>3, SMT DEF Take, BufferTypeOK

\* The flush loop receives an event.
LEMMA ReceiveInv ==
  ASSUME BufferInv, Receive
  PROVE  BufferInv'
<1> USE BufferAssumption DEF BufferInv
<1>0. Take /\ loop = "run" /\ loop' = (IF Len(batch') >= batchSize THEN "flush" ELSE "run")
  BY DEF Receive, Full
<1>1. BufferTypeOK'
  BY <1>0, TakeFacts, SMTT(30) DEF Receive, LoopFrame, closeVars, BufferTypeOK, Flushed
<1>2. InOrder'
  BY <1>0, TakeFacts DEF Receive, LoopFrame, closeVars, InOrder
<1>3. Flushed'
  BY <1>0, TakeFacts, SMTT(30) DEF Receive, LoopFrame, closeVars, BufferTypeOK, Flushed
<1> QED BY <1>1, <1>2, <1>3

\* The ticker, the sight of done and the end of the drain move the loop only.
LEMMA LoopMovesInv ==
  ASSUME BufferInv, Tick \/ SeeDone \/ DrainEnds
  PROVE  BufferInv'
<1> USE BufferAssumption DEF BufferInv
<1>0. UNCHANGED <<buffer, batch, stored, logged, outages, handed, closeVars, emit, accepted>>
  BY DEF Tick, SeeDone, DrainEnds, LoopFrame
<1>1. BufferTypeOK' /\ InOrder'
  BY <1>0 DEF Tick, SeeDone, DrainEnds, LastFlush, closeVars, BufferTypeOK, InOrder
<1>2. CASE Tick \/ SeeDone
  <2>1. Flushed'
    BY <1>0, <1>2 DEF Tick, SeeDone, closeVars, BufferTypeOK, Flushed
  <2> QED BY <1>1, <2>1
<1>3. CASE DrainEnds
  <2>1. Len(accepted) = Len(handed) + Len(batch)
    BY <1>3, SMT DEF DrainEnds, InOrder, BufferTypeOK
  <2>2. Flushed'
    BY <1>0, <1>3, <2>1 DEF DrainEnds, LastFlush, closeVars, BufferTypeOK, Flushed
  <2> QED BY <1>1, <2>2
<1> QED BY <1>2, <1>3

\* The drain takes an event.
LEMMA DrainTakeInv ==
  ASSUME BufferInv, DrainTake
  PROVE  BufferInv'
<1> USE BufferAssumption DEF BufferInv
<1>0. Take /\ loop = "drain" /\ loop' = "drain" /\ done
  BY DEF DrainTake, Flushed
<1>1. BufferTypeOK'
  BY <1>0, TakeFacts DEF DrainTake, LoopFrame, closeVars, BufferTypeOK
<1>2. InOrder'
  BY <1>0, TakeFacts DEF DrainTake, LoopFrame, closeVars, InOrder
<1>3. Flushed'
  BY <1>0 DEF DrainTake, LoopFrame, closeVars, Flushed
<1> QED BY <1>1, <1>2, <1>3

\* A batch is handed over and is in the store or the log from then on.
LEMMA FlushInv ==
  ASSUME BufferInv, Flush
  PROVE  BufferInv'
<1> USE BufferAssumption DEF BufferInv
<1>0. /\ handed \in Seq(Events) /\ batch \in Seq(Events) /\ buffer \in Seq(Events)
      /\ handed' = handed \o batch /\ batch' = <<>> /\ loop \in {"flush", "lastFlush"}
      /\ loop' = (IF loop = "flush" THEN "run" ELSE "ended")
      /\ UNCHANGED <<buffer, closeVars, emit, accepted>>
  BY DEF Flush, LoopFrame, BufferTypeOK
<1>1. /\ stored' \cup logged' = stored \cup logged \cup Range(batch)
      /\ stored' \subseteq Events /\ logged' \subseteq Events /\ outages' \in 0..MaxOutages
  BY RangeElements, <1>0, SMT DEF Flush, WriteSucceeds, WriteFails, BufferTypeOK
<1>2. BufferTypeOK'
  BY <1>0, <1>1, SMT DEF BufferTypeOK, closeVars
<1>3. InOrder'
  <2>1. handed \o batch \o <<>> = handed \o batch
    BY <1>0, SMT
  <2> QED BY <1>0, <2>1 DEF InOrder
<1>4. Flushed'
  <2>1. \A i \in 1..Len(handed') : handed'[i] \in stored' \cup logged'
    <3> DEFINE T == stored' \cup logged'
    <3>1. \A i \in 1..Len(handed) : handed[i] \in T
      BY <1>1 DEF Flushed
    <3>2. \A i \in 1..Len(batch) : batch[i] \in T
      BY <1>0, <1>1, RangeElements
    <3> HIDE DEF T
    <3>3. \A i \in 1..Len(handed \o batch) : (handed \o batch)[i] \in T
      BY <1>0, <3>1, <3>2, ConcatElements
    <3> QED BY <1>0, <3>3 DEF T
  <2>2. Len(handed') = Len(handed) + Len(batch) /\ Len(batch') = 0
    BY <1>0, SMT
  <2> QED BY <1>0, <2>1, <2>2, SMT DEF Flushed, BufferTypeOK, closeVars
<1> QED BY <1>2, <1>3, <1>4

\* Close and its two ways to return.
LEMMA CloseInv ==
  ASSUME BufferInv, CloseStep
  PROVE  BufferInv'
<1> USE BufferAssumption DEF BufferInv
<1>0. UNCHANGED <<buffer, emit, accepted, batch, loop, stored, logged, outages, handed>>
  BY DEF CloseStep, Close, CloseReturns, CloseTimesOut, flushVars
<1>1. InOrder'
  BY <1>0 DEF InOrder
<1>2. CASE Close
  <2>1. done' = TRUE /\ closer' = "waiting" /\ before' = Len(accepted) /\ before' \in Nat
    BY <1>2, SMT DEF Close, BufferTypeOK
  <2>2. BufferTypeOK'
    BY <1>0, <2>1 DEF BufferTypeOK
  <2>3. loop \notin {"drain", "lastFlush", "ended"}
    BY <1>2 DEF Close, Flushed
  <2>4. Flushed'
    BY <1>0, <2>1, <2>3, SMT DEF Flushed
  <2> QED BY <1>1, <2>2, <2>4
<1>3. CASE CloseReturns \/ CloseTimesOut
  <2>1. /\ UNCHANGED <<done, before>> /\ done
        /\ closer' \in {"closed", "timedOut"} /\ (closer' = "closed" => loop = "ended")
    BY <1>3 DEF CloseReturns, CloseTimesOut, Flushed
  <2>2. BufferTypeOK'
    BY <1>0, <2>1 DEF BufferTypeOK
  <2>3. Flushed'
    BY <1>0, <2>1 DEF Flushed
  <2> QED BY <1>1, <2>2, <2>3
<1> QED BY <1>2, <1>3 DEF CloseStep

\* Every step preserves BufferInv.
LEMMA BufferNextInv == BufferInv /\ [BufferNext]_vars => BufferInv'
<1> SUFFICES ASSUME BufferInv, [BufferNext]_vars
             PROVE  BufferInv'
  OBVIOUS
<1>1. CASE \E e \in Events : EmitStep(e)
  BY <1>1, EmitInv
<1>2. CASE LoopStep
  BY <1>2, ReceiveInv, LoopMovesInv, DrainTakeInv, FlushInv DEF LoopStep
<1>3. CASE CloseStep
  BY <1>3, CloseInv
<1>4. CASE UNCHANGED vars
  BY <1>4, QuietInv DEF vars, flushVars, closeVars, BufferInv, BufferTypeOK
<1> QED BY <1>1, <1>2, <1>3, <1>4 DEF BufferNext

-----------------------------------------------------------------------------
(* Theorems.                                                                *)

\* BufferInv is an invariant of the buffered emitter.
THEOREM BufferInvariance == BufferSpec => []BufferInv
BY BufferInitInv, BufferNextInv, PTL DEF BufferSpec

\* The channel never holds more than bufSize events, and a batch never more
\* than batchSize before Close.
THEOREM BufferTypeCorrect == BufferSpec => []BufferTypeOK
BY BufferInvariance, PTL DEF BufferInv

\* Emit, the flush loop and its drain keep the order of events and lose none.
THEOREM EventsInOrder == BufferSpec => []InOrder
BY BufferInvariance, PTL DEF BufferInv

\* BufferInv implies that a Close that returned has flushed.
LEMMA InvCloseFlushes == BufferInv => CloseFlushes
<1> SUFFICES ASSUME BufferInv, closer = "closed", NEW i \in 1..before
             PROVE  accepted[i] \in stored \cup logged
  BY DEF CloseFlushes
<1>1. batch = <<>> /\ before <= Len(handed) /\ before \in Nat
  BY SMT DEF BufferInv, Flushed, BufferTypeOK
<1>2. handed \in Seq(Events) /\ buffer \in Seq(Events) /\ i \in 1..Len(handed)
  BY <1>1, SMT DEF BufferInv, BufferTypeOK
<1>3. accepted[i] = handed[i]
  BY <1>1, <1>2, SMT DEF BufferInv, InOrder
<1> QED BY <1>2, <1>3 DEF BufferInv, Flushed

\* A Close that returns without an error has delivered or logged every event
\* that Emit accepted before it.
THEOREM CloseIsComplete == BufferSpec => []CloseFlushes
BY BufferInvariance, InvCloseFlushes, PTL

-----------------------------------------------------------------------------
(* Shutdown: the buffer while requests come and go.                         *)

\* An event that was accepted is among the accepted ones.
AcceptedOnes ==
  \A e \in Events : emit[e] = "accepted" => \E i \in 1..Len(accepted) : accepted[i] = e

Down == {"waitAPI", "close", "closing", "stop", "exited"}

\* The order of the steps of run: no request arrives once the listener is
\* closed; when the servers are down and the deadline has not passed, no request
\* is left; Close is called after that, so that the events of requests are all
\* among those accepted before it.
MainInv ==
  /\ main \in {"serving", "drain", "frames", "wait", "shutdown"} \cup Down
  /\ req \in [Requests -> {"new", "arrived", "streaming", "ended"}]
  /\ main \in Down => ~listening
  /\ main \in Down \ {"waitAPI"} /\ ~expired => \A r \in Requests : ~Live(r)
  /\ main \in {"stop", "exited"} /\ ~expired => closer = "closed"
  /\ main \in {"closing", "stop", "exited"} /\ ~expired =>
       \A e \in RequestEvents :
         emit[e] = "accepted" => \E i \in 1..before : accepted[i] = e

ShutdownInv == BufferInv /\ AcceptedOnes /\ MainInv

\* Each step of the shutdown is one of the buffer, or leaves it alone.
LEMMA ShutdownBufferSteps == [ShutdownNext]_shutdownVars => [BufferNext]_vars
<1> SUFFICES ASSUME [ShutdownNext]_shutdownVars
             PROVE  [BufferNext]_vars
  OBVIOUS
<1> USE DEF BufferNext
<1>1. CASE \E r \in Requests : RequestStep(r)
  BY <1>1 DEF RequestStep, Arrive, Track, Finish
<1>2. CASE \E e \in Events : Emits(e)
  BY <1>2 DEF Emits, EmitStep
<1>3. CASE FlushLoopRuns
  BY <1>3 DEF FlushLoopRuns
<1>4. CASE Signal \/ Expire
  BY <1>4 DEF Signal, Expire
<1>5. CASE MainStep
  BY <1>5 DEF MainStep, DrainSnapshot, DrainFrame, DrainCancel, ShutdownListener, ServersDown,
              CloseAudit, AuditClosed, Exit, CloseStep
<1>6. CASE UNCHANGED shutdownVars
  BY <1>6 DEF shutdownVars
<1> QED BY <1>1, <1>2, <1>3, <1>4, <1>5, <1>6 DEF ShutdownNext

\* The shutdown uses the buffer as its specification says: all that is proved of
\* the buffer holds while requests and the controller emit into it, and while
\* run closes it.
THEOREM ShutdownUsesBuffer == ShutdownSpec => BufferSpec
<1>1. ShutdownInit => BufferInit
  BY DEF ShutdownInit
<1> QED BY <1>1, ShutdownBufferSteps, PTL DEF ShutdownSpec, BufferSpec

\* The accepted events only become more, at the end.
LEMMA AcceptedGrows ==
  ASSUME BufferInv, [BufferNext]_vars
  PROVE  /\ Len(accepted) <= Len(accepted')
         /\ \A i \in 1..Len(accepted) : accepted'[i] = accepted[i]
         /\ \A e \in Events : emit'[e] = "accepted" /\ emit[e] # "accepted"
                                => accepted' = Append(accepted, e)
<1>0. accepted \in Seq(Events) /\ emit \in [Events -> {"new", "waiting", "accepted", "dropped"}]
  BY DEF BufferInv, BufferTypeOK
<1>1. CASE accepted' = accepted /\ emit' = emit
  BY <1>0, <1>1, SMT
<1>2. ASSUME NEW e \in Events, Send(e)
      PROVE  /\ Len(accepted) <= Len(accepted')
             /\ \A i \in 1..Len(accepted) : accepted'[i] = accepted[i]
             /\ \A d \in Events : emit'[d] = "accepted" /\ emit[d] # "accepted"
                                    => accepted' = Append(accepted, d)
  <2>1. accepted' = Append(accepted, e) /\ emit' = [emit EXCEPT ![e] = "accepted"]
    BY <1>2 DEF Send
  <2>2. Len(accepted') = Len(accepted) + 1 /\ \A i \in 1..Len(accepted) : accepted'[i] = accepted[i]
    BY <1>0, <2>1, SMT
  <2> QED BY <1>0, <2>1, <2>2, SMT
<1>3. ASSUME NEW e \in Events, EmitStep(e), ~Send(e)
      PROVE  /\ accepted' = accepted
             /\ \A d \in Events : emit'[d] = "accepted" => emit[d] = "accepted"
  BY <1>0, <1>3 DEF EmitStep, Emit, TrySend, Drop, EmitBlocking, EmitBlockingSend, EmitBlockingGivesUp
<1>4. CASE \E e \in Events : EmitStep(e)
  BY <1>0, <1>2, <1>3, <1>4, SMT
<1>5. CASE LoopStep \/ CloseStep \/ UNCHANGED vars
  BY <1>1, <1>5 DEF LoopStep, Receive, Tick, SeeDone, DrainTake, DrainEnds, Flush, LoopFrame,
                    CloseStep, Close, CloseReturns, CloseTimesOut, vars
<1> QED BY <1>4, <1>5 DEF BufferNext

\* AcceptedOnes is kept by every step of the buffer.
LEMMA AcceptedKept ==
  ASSUME BufferInv, AcceptedOnes, [BufferNext]_vars
  PROVE  AcceptedOnes'
<1> SUFFICES ASSUME NEW e \in Events, emit'[e] = "accepted"
             PROVE  \E i \in 1..Len(accepted') : accepted'[i] = e
  BY DEF AcceptedOnes
<1>0. accepted \in Seq(Events) /\ Len(accepted) \in Nat /\ accepted' \in Seq(Events) /\ Len(accepted') \in Nat
  BY BufferNextInv, SMT DEF BufferInv, BufferTypeOK
<1>1. CASE emit[e] = "accepted"
  <2>1. PICK i \in 1..Len(accepted) : accepted[i] = e
    BY <1>1 DEF AcceptedOnes
  <2>2. i \in 1..Len(accepted') /\ accepted'[i] = e
    BY <1>0, <2>1, AcceptedGrows, SMT
  <2> QED BY <2>2
<1>2. CASE emit[e] # "accepted"
  <2>1. accepted' = Append(accepted, e)
    BY <1>2, AcceptedGrows
  <2>2. Len(accepted') = Len(accepted) + 1 /\ accepted'[Len(accepted) + 1] = e
    BY <1>0, <2>1, SMT
  <2> QED BY <1>0, <2>2, SMT
<1> QED BY <1>1, <1>2

\* Steps of the buffer that keep the step of run, the deadline, the listener and
\* the requests.
LEMMA BufferStepMain ==
  ASSUME ShutdownInv, [BufferNext]_vars, UNCHANGED <<requestVars, mainVars>>, UNCHANGED <<closer, before>>,
         \A e \in RequestEvents : emit'[e] # emit[e] => \E r \in Requests : Live(r)
  PROVE  MainInv'
<1> USE DEF requestVars, mainVars
<1>0. accepted \in Seq(Events) /\ before \in Nat /\ before <= Len(accepted) /\ RequestEvents \subseteq Events
  BY ShutdownAssumption DEF ShutdownInv, BufferInv, BufferTypeOK, Flushed
<1>1. \A i \in 1..before : accepted'[i] = accepted[i]
  BY <1>0, AcceptedGrows, SMT DEF ShutdownInv
<1>2. ASSUME main \in {"closing", "stop", "exited"}, ~expired, NEW e \in RequestEvents, emit'[e] = "accepted"
      PROVE  \E i \in 1..before : accepted'[i] = e
  <2>1. \A r \in Requests : ~Live(r)
    BY <1>2 DEF ShutdownInv, MainInv, Down
  <2>2. emit[e] = "accepted"
    BY <1>2, <2>1
  <2> QED BY <1>1, <1>2, <2>2 DEF ShutdownInv, MainInv
<1> QED BY <1>2 DEF ShutdownInv, MainInv, Live

\* Steps that leave the buffer alone.
LEMMA QuietMain ==
  ASSUME MainInv, UNCHANGED <<emit, accepted, closer, before>>,
         main' \in {"serving", "drain", "frames", "wait", "shutdown"} \cup Down,
         req' \in [Requests -> {"new", "arrived", "streaming", "ended"}],
         main' \in Down => ~listening',
         main' \in Down \ {"waitAPI"} /\ ~expired' => \A r \in Requests : ~Live(r)',
         main' \in {"closing", "stop", "exited"} /\ ~expired' => main \in {"closing", "stop", "exited"} /\ ~expired,
         main' \in {"stop", "exited"} /\ ~expired' => closer = "closed"
  PROVE  MainInv'
BY DEF MainInv

\* Requests, the signal and the deadline keep MainInv.
LEMMA RequestMain ==
  ASSUME ShutdownInv, (\E r \in Requests : RequestStep(r)) \/ Signal \/ Expire
  PROVE  MainInv'
<1>0. MainInv
  BY DEF ShutdownInv
<1>1. ASSUME NEW r \in Requests, RequestStep(r)
      PROVE  MainInv'
  <2>1. UNCHANGED <<emit, accepted, closer, before, main, listening, expired>>
    BY <1>1 DEF RequestStep, Arrive, Track, Finish, vars, mainVars
  <2>2. \/ listening /\ req' = [req EXCEPT ![r] = "arrived"]
        \/ Live(r) /\ \E s \in {"streaming", "ended"} : req' = [req EXCEPT ![r] = s]
    BY <1>1 DEF RequestStep, Arrive, Track, Finish, Live
  <2>3. req \in [Requests -> {"new", "arrived", "streaming", "ended"}]
    BY <1>0 DEF MainInv
  <2>4. req' \in [Requests -> {"new", "arrived", "streaming", "ended"}]
    BY <2>2, <2>3
  <2>5. \A q \in Requests : Live(q)' => listening \/ Live(q)
    BY <2>2, <2>3 DEF Live
  <2> QED BY <1>0, <2>1, <2>4, <2>5, QuietMain DEF MainInv, Down
<1>2. CASE Signal
  <2>1. main' = "drain" /\ UNCHANGED <<emit, accepted, closer, before, req>>
    BY <1>2 DEF Signal, vars, requestVars
  <2> QED BY <1>0, <2>1, QuietMain DEF MainInv, Down
<1>3. CASE Expire
  <2>1. expired' /\ UNCHANGED <<emit, accepted, closer, before, req, main, listening>>
    BY <1>3 DEF Expire, vars, requestVars
  <2> QED BY <1>0, <2>1, QuietMain DEF MainInv
<1> QED BY <1>1, <1>2, <1>3

\* The steps of run keep MainInv.
LEMMA MainMain ==
  ASSUME ShutdownInv, MainStep
  PROVE  MainInv'
<1>0. MainInv
  BY DEF ShutdownInv
<1>1. CASE DrainSnapshot \/ (\E r \in Requests : DrainFrame(r)) \/ DrainCancel
  <2>1. /\ main' \in {"frames", "wait", "shutdown"}
        /\ UNCHANGED <<emit, accepted, closer, before, req>>
    <3>1. CASE DrainSnapshot
      BY <3>1 DEF DrainSnapshot, vars, requestVars
    <3>2. ASSUME NEW r \in Requests, DrainFrame(r)
          PROVE  /\ main' \in {"frames", "wait", "shutdown"}
                 /\ UNCHANGED <<emit, accepted, closer, before, req>>
      BY <3>2 DEF DrainFrame, vars, requestVars
    <3>3. CASE DrainCancel
      BY <3>3 DEF DrainCancel, vars, requestVars
    <3> QED BY <1>1, <3>1, <3>2, <3>3
  <2> QED BY <1>0, <2>1, QuietMain DEF MainInv, Down
<1>2. CASE ShutdownListener
  <2>1. main' = "waitAPI" /\ ~listening' /\ UNCHANGED <<emit, accepted, closer, before, req>>
    BY <1>2 DEF ShutdownListener, vars, requestVars
  <2> QED BY <1>0, <2>1, QuietMain DEF MainInv, Down
<1>3. CASE CloseAudit
  <2>1. /\ before' = Len(accepted) /\ UNCHANGED <<emit, accepted, req, listening, expired>>
        /\ main = "close" /\ main' = "closing"
    BY <1>3 DEF CloseAudit, Close, requestVars
  <2>2. \A e \in RequestEvents : emit[e] = "accepted" => \E i \in 1..Len(accepted) : accepted[i] = e
    BY ShutdownAssumption DEF ShutdownInv, AcceptedOnes
  <2> QED BY <1>0, <2>1, <2>2 DEF MainInv, Down, Live
<1>4. CASE AuditClosed
  <2>1. /\ main = "closing" /\ main' = "stop" /\ (expired \/ closer' = "closed")
        /\ UNCHANGED <<emit, accepted, before, req, listening, expired>>
    BY <1>4 DEF AuditClosed, CloseReturns, CloseTimesOut, requestVars
  <2> QED BY <1>0, <2>1 DEF MainInv, Down, Live
<1>5. CASE ServersDown
  <2>1. /\ main = "waitAPI" /\ main' = "close" /\ ShutdownReturns
        /\ UNCHANGED <<emit, accepted, closer, before, req, listening, expired>>
    BY <1>5 DEF ServersDown, vars, requestVars
  <2>2. ~expired' => \A r \in Requests : ~Live(r)'
    BY <2>1 DEF ShutdownReturns, Live
  <2> QED BY <1>0, <2>1, <2>2, QuietMain DEF MainInv, Down
<1>6. CASE Exit
  <2>1. /\ main = "stop" /\ main' = "exited"
        /\ UNCHANGED <<emit, accepted, closer, before, req, listening, expired>>
    BY <1>6 DEF Exit, vars, requestVars
  <2>2. ~expired => closer = "closed" /\ \A r \in Requests : ~Live(r)
    BY <1>0, <2>1 DEF MainInv, Down
  <2>3. ~expired' => \A r \in Requests : ~Live(r)'
    BY <2>1, <2>2 DEF Live
  <2> QED BY <1>0, <2>1, <2>2, <2>3, QuietMain DEF MainInv, Down
<1> QED BY <1>1, <1>2, <1>3, <1>4, <1>5, <1>6 DEF MainStep

\* Every step of the shutdown keeps ShutdownInv.
LEMMA ShutdownNextInv == ShutdownInv /\ [ShutdownNext]_shutdownVars => ShutdownInv'
<1> SUFFICES ASSUME ShutdownInv, [ShutdownNext]_shutdownVars
             PROVE  ShutdownInv'
  OBVIOUS
<1>0. [BufferNext]_vars
  BY ShutdownBufferSteps
<1>1. BufferInv' /\ AcceptedOnes'
  BY <1>0, BufferNextInv, AcceptedKept DEF ShutdownInv
<1>2. CASE \E e \in Events : Emits(e)
  <2>1. PICK e \in Events : Emits(e)
    BY <1>2
  <2>2. /\ UNCHANGED <<requestVars, mainVars>> /\ UNCHANGED <<closer, before>>
        /\ \A d \in RequestEvents : emit'[d] # emit[d] => \E r \in Requests : Live(r)
    BY <2>1, ShutdownAssumption DEF Emits, Emit, TrySend, Send, Drop, closeVars, ShutdownInv, BufferInv, BufferTypeOK
  <2> QED BY <1>0, <1>1, <2>2, BufferStepMain DEF ShutdownInv
<1>3. CASE FlushLoopRuns \/ UNCHANGED shutdownVars
  <2>1. UNCHANGED <<requestVars, mainVars>> /\ UNCHANGED <<closer, before>> /\ emit' = emit
    BY <1>3 DEF FlushLoopRuns, LoopStep, Receive, Tick, SeeDone, DrainTake, DrainEnds, Flush, LoopFrame,
                closeVars, shutdownVars, vars
  <2> QED BY <1>0, <1>1, <2>1, BufferStepMain DEF ShutdownInv
<1> QED BY <1>1, <1>2, <1>3, RequestMain, MainMain DEF ShutdownNext, ShutdownInv

\* ShutdownInv holds when the servers have been started.
LEMMA ShutdownInitInv == ShutdownInit => ShutdownInv
<1> SUFFICES ASSUME ShutdownInit
             PROVE  ShutdownInv
  OBVIOUS
<1>1. BufferInv
  BY BufferInitInv DEF ShutdownInit
<1>2. AcceptedOnes
  BY DEF ShutdownInit, BufferInit, AcceptedOnes
<1>3. MainInv
  BY DEF ShutdownInit, MainInv, Down
<1> QED BY <1>1, <1>2, <1>3 DEF ShutdownInv

\* ShutdownInv is an invariant of the shutdown.
THEOREM ShutdownInvariance == ShutdownSpec => []ShutdownInv
BY ShutdownInitInv, ShutdownNextInv, PTL DEF ShutdownSpec

\* However many requests emit, and whatever order the select statements of the
\* flush loop take: a process that exits before its deadline has stored or
\* logged every event that a request emitted and Emit accepted.
THEOREM RequestEventsKept == ShutdownSpec => []RequestEventsFlushed
<1>1. ShutdownInv => RequestEventsFlushed
  <2> SUFFICES ASSUME ShutdownInv, main = "exited", ~expired, NEW e \in RequestEvents, emit[e] = "accepted"
               PROVE  e \in stored \cup logged
    BY DEF RequestEventsFlushed
  <2>1. closer = "closed" /\ \E i \in 1..before : accepted[i] = e
    BY DEF ShutdownInv, MainInv
  <2>2. CloseFlushes
    BY InvCloseFlushes DEF ShutdownInv
  <2> QED BY <2>1, <2>2 DEF CloseFlushes
<1> QED BY <1>1, ShutdownInvariance, PTL

==============================================================================
