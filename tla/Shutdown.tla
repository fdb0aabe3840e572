------------------------------- MODULE Shutdown -------------------------------
(***************************************************************************)
(* Graceful shutdown: the end of run in cmd/apifrontend/main.go, with the  *)
(* streaming requests it has to end (trackSSEConnection of                 *)
(* internal/handler and ConnectionTracker of internal/streaming) and the   *)
(* audit buffer it has to flush.  The whole shutdown has one deadline,     *)
(* that of shutCtx.  The process may exit with work undone.                *)
(***************************************************************************)
EXTENDS AuditBuffer, Functions, FiniteSets

CONSTANTS
  Requests,        \* requests of POST /a2a/invoke and POST /mcp
  ClientIds,       \* request ids that clients send in X-Request-ID
  RequestEvents,   \* events emitted by requests; the TTL controller emits the others
  MaxConnections   \* limit of the connection tracker

ASSUME ShutdownAssumption ==
  /\ RequestEvents \subseteq Events
  /\ MaxConnections \in Nat
  /\ ClientIds \cap Requests = {}

VARIABLES
  req,        \* req[r]: how far request r is
  connID,     \* connID[r]: its request id; a generated one is r itself
  conns,      \* the map of the tracker, from ids to requests
  snapshot,   \* the connections DrainAll works on
  told,       \* requests whose connection was sent the shutdown frame
  cancelled,  \* requests whose context DrainAll has cancelled
  listening,  \* the API server accepts connections
  expired,    \* the deadline of shutCtx has passed
  main        \* where run is

requestVars == <<req, connID>>
drainVars == <<snapshot, told, cancelled>>
mainVars == <<main, listening, expired>>
shutdownVars == <<vars, requestVars, conns, drainVars, mainVars>>

ShutdownInit ==
  /\ BufferInit
  /\ req = [r \in Requests |-> "new"]
  /\ connID = [r \in Requests |-> r]
  /\ conns = <<>>
  /\ snapshot = {}
  /\ told = {}
  /\ cancelled = {}
  /\ listening = TRUE
  /\ expired = FALSE
  /\ main = "serving"

Alive == main # "exited"

-----------------------------------------------------------------------------
(* Requests.                                                                *)

\* The request enters the handler chain with the id its client chose or a
\* generated one.
Arrive(r) ==
  /\ listening
  /\ Alive
  /\ req[r] = "new"
  /\ \E id \in ClientIds \cup {r} : connID' = [connID EXCEPT ![r] = id]
  /\ req' = [req EXCEPT ![r] = "arrived"]
  /\ UNCHANGED <<vars, conns, drainVars, mainVars>>

\* A limit of zero means no limit.
Adds == MaxConnections = 0 \/ Cardinality(DOMAIN conns) < MaxConnections

\* trackSSEConnection up to the call of the next handler.
Track(r) ==
  /\ Alive
  /\ req[r] = "arrived"
  /\ IF Adds
       THEN /\ conns' = [i \in DOMAIN conns \cup {connID[r]} |->
                           IF i = connID[r] THEN r ELSE conns[i]]
            /\ req' = [req EXCEPT ![r] = "streaming"]
       ELSE /\ req' = [req EXCEPT ![r] = "ended"]
            /\ UNCHANGED conns
  /\ UNCHANGED <<vars, connID, drainVars, mainVars>>

\* Mutant: the connection stays in the map.
AfterNoRemove(r) == conns

AfterRemove(r) == Restrict(conns, DOMAIN conns \ {connID[r]})

\* The handler returns: it is done, the client is gone, or it was cancelled.
Finish(r) ==
  /\ Alive
  /\ req[r] = "streaming"
  /\ conns' = AfterRemove(r)
  /\ req' = [req EXCEPT ![r] = "ended"]
  /\ UNCHANGED <<vars, connID, drainVars, mainVars>>

Live(r) == req[r] \in {"arrived", "streaming"}

\* Handlers emit events, and so does the TTL controller, which is stopped only
\* when run returns.
Emits(e) ==
  /\ Alive
  /\ e \in RequestEvents => \E r \in Requests : Live(r)
  /\ Emit(e)
  /\ UNCHANGED <<requestVars, conns, drainVars, mainVars>>

FlushLoopRuns ==
  /\ Alive
  /\ LoopStep
  /\ UNCHANGED <<requestVars, conns, drainVars, mainVars>>

-----------------------------------------------------------------------------
(* The end of run.                                                          *)

\* SIGINT or SIGTERM: readiness fails from now on and shutCtx starts to count.
Signal ==
  /\ main = "serving"
  /\ main' = "drain"
  /\ UNCHANGED <<vars, requestVars, conns, drainVars, listening, expired>>

Expire ==
  /\ main \notin {"serving", "exited"}
  /\ ~expired
  /\ expired' = TRUE
  /\ UNCHANGED <<vars, requestVars, conns, drainVars, main, listening>>

\* DrainAll, under the lock: take the connections and empty the map.
DrainSnapshot ==
  /\ main = "drain"
  /\ snapshot' = Range(conns)
  /\ conns' = <<>>
  /\ main' = IF snapshot' = {} THEN "shutdown" ELSE "frames"
  /\ UNCHANGED <<vars, requestVars, told, cancelled, listening, expired>>

\* The frames go out one after the other, in the order of a map iteration.
DrainFrame(r) ==
  /\ main = "frames"
  /\ r \in snapshot \ told
  /\ told' = told \cup {r}
  /\ main' = IF snapshot \subseteq told' THEN "wait" ELSE "frames"
  /\ UNCHANGED <<vars, requestVars, conns, snapshot, cancelled, listening, expired>>

Cancels == snapshot

\* drainWait or shutCtx ends the wait; all connections are cancelled.
DrainCancel ==
  /\ main = "wait"
  /\ cancelled' = cancelled \cup Cancels
  /\ main' = "shutdown"
  /\ UNCHANGED <<vars, requestVars, conns, snapshot, told, listening, expired>>

\* srv.Shutdown closes the listener, and then waits for the requests.
ShutdownListener ==
  /\ main = "shutdown"
  /\ listening' = FALSE
  /\ main' = "waitAPI"
  /\ UNCHANGED <<vars, requestVars, conns, drainVars, expired>>

\* Mutant: the context of the server's shutdown has no deadline.
WaitsForAll == \A r \in Requests : ~Live(r)

\* Mutant: the server is not waited for.
WaitsForNone == TRUE

ShutdownReturns == (\A r \in Requests : ~Live(r)) \/ expired

\* The health and metrics servers follow; they have no long requests.
ServersDown ==
  /\ main = "waitAPI"
  /\ ShutdownReturns
  /\ main' = "close"
  /\ UNCHANGED <<vars, requestVars, conns, drainVars, listening, expired>>

CloseAudit ==
  /\ main = "close"
  /\ Close
  /\ main' = "closing"
  /\ UNCHANGED <<requestVars, conns, drainVars, listening, expired>>

AuditClosed ==
  /\ main = "closing"
  /\ CloseReturns \/ (expired /\ CloseTimesOut)
  /\ main' = "stop"
  /\ UNCHANGED <<requestVars, conns, drainVars, listening, expired>>

\* The limiters and, deferred, the controller manager are stopped; the process
\* exits with whatever goroutines are left.
Exit ==
  /\ main = "stop"
  /\ main' = "exited"
  /\ UNCHANGED <<vars, requestVars, conns, drainVars, listening, expired>>

MainStep ==
  \/ DrainSnapshot
  \/ \E r \in Requests : DrainFrame(r)
  \/ DrainCancel
  \/ ShutdownListener
  \/ ServersDown
  \/ CloseAudit
  \/ AuditClosed
  \/ Exit

RequestStep(r) == Arrive(r) \/ Track(r) \/ Finish(r)

ShutdownNext ==
  \/ \E r \in Requests : RequestStep(r)
  \/ \E e \in Events : Emits(e)
  \/ FlushLoopRuns
  \/ Signal
  \/ Expire
  \/ MainStep

ShutdownSpec == ShutdownInit /\ [][ShutdownNext]_shutdownVars

\* run goes on, the deadline passes, the flush loop runs.  Nothing makes a
\* request end: a handler may wait for a slow backend, or for its client.
FairShutdownSpec ==
  /\ ShutdownSpec
  /\ WF_shutdownVars(MainStep)
  /\ WF_shutdownVars(Expire)
  /\ WF_shutdownVars(FlushLoopRuns)

-----------------------------------------------------------------------------
(* Properties.                                                              *)

\* Until DrainAll empties it, the tracker holds streaming connections only, and
\* it holds every one whose id no other request has: requests that share an id
\* displace and remove only each other.  It never holds more than the limit.
TracksStreaming ==
  main \in {"serving", "drain"} =>
    /\ MaxConnections > 0 => Cardinality(DOMAIN conns) <= MaxConnections
    /\ \A r \in Range(conns) : req[r] = "streaming"
    /\ \A r \in Requests :
         req[r] = "streaming" /\ (\A q \in Requests \ {r} : connID[q] # connID[r])
           => r \in Range(conns)

\* Unless its deadline passes, shutdown loses no event of a request: the audit
\* buffer is closed after the last request, and flushed when the process exits.
RequestEventsFlushed ==
  main = "exited" /\ ~expired =>
    \A e \in RequestEvents : emit[e] = "accepted" => e \in stored \cup logged

\* After the signal the process exits, also when a request never ends.
ShutdownEnds == (main = "drain") ~> (main = "exited")

==============================================================================
