------------------------------ MODULE Shutdown ------------------------------
(***************************************************************************)
(* ControlPlaneShutdown (shutdown.ts) and its use in main.ts: requests and *)
(* jobs that the process tracks, the HTTP server's connections, the drain  *)
(* with its grace period and the finalizers with theirs.  Work may hang,   *)
(* the server may refuse to close and a finalizer may fail or hang.        *)
(***************************************************************************)
EXTENDS FiniteSets

CONSTANTS Requests, Jobs

ShutdownAssumption == Requests \cap Jobs = {} /\ IsFiniteSet(Requests \cup Jobs)

Work == Requests \cup Jobs

VARIABLES
  pc,         \* "up", "draining", "finalizing", "exited" or "terminated"
  accepting,  \* #accepting
  running,    \* work whose operation is not over
  ended,      \* work that is over or was refused
  awaited,    \* #execute's snapshot of #requests and #jobs
  open,       \* requests whose connection is open
  server,     \* "listening", "closing", "closed" or "failed"
  drained,    \* whether the drain ended before its grace period
  finalizer   \* of the database and telemetry: "idle", "closing", "closed" or "failed"

shutdownVars == <<pc, accepting, running, ended, awaited, open, server, drained, finalizer>>

Finalizers == {"database", "telemetry"}

ShutdownInit ==
  /\ pc = "up" /\ accepting = TRUE /\ server = "listening" /\ drained = FALSE
  /\ running = {} /\ ended = {} /\ awaited = {} /\ open = {}
  /\ finalizer = [f \in Finalizers |-> "idle"]

Alive == pc \notin {"exited", "terminated"}

-----------------------------------------------------------------------------

\* A client connects; its request may come much later.
Connect(r) ==
  /\ Alive /\ server = "listening" /\ r \notin open \cup running \cup ended
  /\ open' = open \cup {r}
  /\ UNCHANGED <<pc, accepting, running, ended, awaited, server, drained, finalizer>>

\* Mutant: work is tracked whenever it comes.
TrackedAlways(w) == running' = running \cup {w} /\ UNCHANGED ended

\* runRequest and runJob.
Tracked(w) ==
  IF accepting THEN running' = running \cup {w} /\ UNCHANGED ended
  ELSE ended' = ended \cup {w} /\ UNCHANGED running

\* A request arrives on an open connection, a timer that was not stopped or had
\* fired before starts a job.
WorkArrives(w) ==
  /\ Alive /\ w \notin running \cup ended /\ (w \in Requests => w \in open)
  /\ Tracked(w)
  /\ UNCHANGED <<pc, accepting, awaited, open, server, drained, finalizer>>

Finish(w) ==
  /\ Alive /\ w \in running
  /\ running' = running \ {w} /\ ended' = ended \cup {w}
  /\ UNCHANGED <<pc, accepting, awaited, open, server, drained, finalizer>>

\* An idle connection ends, at the latest by the server's keep-alive timeout; or a
\* client leaves while its request runs, which nothing stops.
Disconnect(r) ==
  /\ Alive /\ r \in open
  /\ open' = open \ {r} /\ ended' = IF r \in running THEN ended ELSE ended \cup {r}
  /\ UNCHANGED <<pc, accepting, running, awaited, server, drained, finalizer>>

\* The first signal: admission ends, timers stop, the server closes its listener
\* and idle connections, and what runs is awaited.  A connection on which a
\* request is being sent is not idle.  Later signals find the promise.
Signal ==
  /\ pc = "up"
  /\ pc' = "draining" /\ accepting' = FALSE /\ server' = "closing"
  /\ awaited' = running
  /\ \E idle \in SUBSET (open \ running) : open' = open \ idle /\ ended' = ended \cup idle
  /\ UNCHANGED <<running, drained, finalizer>>

ServerCloses ==
  /\ Alive /\ server = "closing"
  /\ \/ open = {} /\ server' = "closed"
     \/ server' = "failed"
  /\ UNCHANGED <<pc, accepting, running, ended, awaited, open, drained, finalizer>>

\* Both finalizers start when the drain is over, one way or the other.
Finalize(inTime) ==
  /\ pc = "draining" /\ pc' = "finalizing" /\ drained' = inTime
  /\ finalizer' = [f \in Finalizers |-> "closing"]

Drained ==
  /\ server = "closed" /\ awaited \cap running = {}
  /\ Finalize(TRUE)
  /\ UNCHANGED <<accepting, running, ended, awaited, open, server>>

\* closeAllConnections: sockets go, operations stay.
GraceExpires ==
  /\ Finalize(FALSE)
  /\ open' = {}
  /\ UNCHANGED <<accepting, running, ended, awaited, server>>

FinalizerSettles(f) ==
  /\ Alive /\ finalizer[f] = "closing"
  /\ \E result \in {"closed", "failed"} : finalizer' = [finalizer EXCEPT ![f] = result]
  /\ UNCHANGED <<pc, accepting, running, ended, awaited, open, server, drained>>

\* After a drain the process ends by itself; otherwise it is made to.
Finalized ==
  /\ pc = "finalizing" /\ \A f \in Finalizers : finalizer[f] # "closing"
  /\ pc' = IF drained THEN "exited" ELSE "terminated"
  /\ UNCHANGED <<accepting, running, ended, awaited, open, server, drained, finalizer>>

\* Mutant: only a failed drain bounds the finalizers.
ExpiresUndrained ==
  /\ pc = "finalizing" /\ ~drained /\ pc' = "terminated"
  /\ UNCHANGED <<accepting, running, ended, awaited, open, server, drained, finalizer>>

FinalizerGraceExpires ==
  /\ pc = "finalizing" /\ pc' = "terminated"
  /\ UNCHANGED <<accepting, running, ended, awaited, open, server, drained, finalizer>>

ShutdownNext ==
  \/ \E r \in Requests : Connect(r) \/ Disconnect(r)
  \/ \E w \in Work : WorkArrives(w) \/ Finish(w)
  \/ Signal \/ ServerCloses \/ Drained \/ GraceExpires \/ Finalized \/ FinalizerGraceExpires
  \/ \E f \in Finalizers : FinalizerSettles(f)

ShutdownSpec == ShutdownInit /\ [][ShutdownNext]_shutdownVars

-----------------------------------------------------------------------------

\* The database stays open for every request and job, also those that arrive or
\* finish during the drain, unless the drain ran out of time.
ResourcesOutliveWork == finalizer["database"] # "idle" /\ drained => running = {}

\* A process that is left to end by itself has nothing that could keep it alive
\* or use what was closed: no work, no connection, no listener.
ExitIsClean == pc = "exited" => running = {} /\ open = {} /\ server = "closed"
=============================================================================
