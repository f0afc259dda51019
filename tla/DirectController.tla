-------------------------- MODULE DirectController --------------------------
(***************************************************************************)
(* The worker of one approved session: RunSessionAgent, its DirectController*)
(* with the listener, the expiry timer and one goroutine per connection,   *)
(* the web terminals of the management listener and the extra connections  *)
(* of their clients, and Stop called by the agent and by auditFailure.     *)
(***************************************************************************)
EXTENDS Naturals, FiniteSets

CONSTANTS
    TCP,             \* connections through the listener
    Web,             \* browser terminals
    Extra,           \* further connections opened by a terminal's client
    MaxConnections,  \* the approved limit of the request
    MaxFailures      \* bound on failed audit appends, removals and timeouts

Conn == TCP \cup Web \cup Extra
Stopper == {"agent", "audit"}

VARIABLES
    agent,      \* RunSessionAgent: "new", "serving", "leaving" or "exited"
    webOnly,    \* the grant is for browser terminals only
    marked,     \* the stop marker exists in the state directory
    status,     \* runtime.status
    registered, \* the runtime is in c.sessions
    cancelled,  \* runtime.context is done
    listening,  \* runtime.listener is open
    serve,      \* the accept loop: "none", "accepting" or "done"
    timer,      \* the expiry goroutine: "none", "armed", "removing" or "gone"
    worker,     \* per connection, where its goroutine is
    slot,       \* connections that hold a place of the semaphore
    open,       \* connections whose sockets are open
    known,      \* keys of runtime.connections
    trail,      \* per connection, the acknowledged events that open or end it
    auditFailed,
    stop,       \* per stopper, where Stop is
    reply,      \* per stopper, the status its last Stop returned
    failures

controllerVars == <<agent, webOnly, marked, status, registered, cancelled, listening, serve, timer, worker,
                    slot, open, known, trail, auditFailed, stop, reply, failures>>

processVars == <<agent, webOnly, marked, registered, serve, timer>>
stopVars == <<stop, reply>>
runtimeVars == <<status, cancelled, listening, known, auditFailed>>

Live(c) == worker[c] \notin {"idle", "done", "killed"}

\* connectionWG.
waitForConnections == \A c \in Conn : ~ Live(c)

\* A mutant of CloseAll: only the listener is closed.
CloseListener ==
    /\ cancelled' = TRUE
    /\ listening' = FALSE
    /\ UNCHANGED open

\* The sweep every ending makes under runtime.mu.
CloseAll ==
    /\ cancelled' = TRUE
    /\ listening' = FALSE
    /\ open' = open \ known

addConnection(c) == status = "running"

removeConnection(c) == known' = known \ {c}

-----------------------------------------------------------------------------
\* Restore through startRuntime: the listener cannot be opened, or serves.
startRuntime ==
    /\ agent = "new"
    /\ agent' = "serving"
    /\ status' = "running" /\ registered' = TRUE /\ listening' = TRUE
    /\ serve' = "accepting" /\ timer' = "armed"
    /\ UNCHANGED <<webOnly, marked, cancelled, worker, slot, open, known, trail, auditFailed, failures>>
    /\ UNCHANGED stopVars

\* An expired or invalid grant, or a port that is taken.
Restore ==
    /\ agent = "new"
    /\ agent' = "exited"
    /\ UNCHANGED <<webOnly, marked, status, registered, cancelled, listening, serve, timer, worker, slot,
                   open, known, trail, auditFailed, failures>>
    /\ UNCHANGED stopVars

\* auditFailure: once; it cancels everything and stops the session from a
\* goroutine of its own.
auditFailure ==
    IF registered /\ ~ auditFailed
    THEN /\ auditFailed' = TRUE
         /\ status' = "stopping"
         /\ CloseAll
         /\ stop' = [stop EXCEPT !["audit"] = "called"]
    ELSE UNCHANGED <<auditFailed, status, cancelled, listening, open, stop>>

Bounds == {"backend_connected", "disconnected", "auth_rejected"}

\* A worker appends an event and goes on, or the append fails.
appendEvent(c, event, next, failed) ==
    \/ /\ trail' = [trail EXCEPT ![c] = @ \cup ({event} \cap Bounds)]
       /\ worker' = [worker EXCEPT ![c] = next]
       /\ UNCHANGED <<auditFailed, status, cancelled, listening, stop, open, failures>>
    \/ /\ failures < MaxFailures
       /\ failures' = failures + 1
       /\ auditFailure
       /\ worker' = [worker EXCEPT ![c] = failed]
       /\ UNCHANGED trail

To(c, pc) == worker' = [worker EXCEPT ![c] = pc]

\* The deferred calls of a worker: its sockets, its place and its entry.
Return(c) ==
    /\ worker[c] = "closing"
    /\ To(c, "done")
    /\ open' = open \ {c}
    /\ slot' = slot \ {c}
    /\ removeConnection(c)
    /\ UNCHANGED <<status, cancelled, listening, auditFailed, trail, failures>>
    /\ UNCHANGED processVars /\ UNCHANGED stopVars

Accept(c) ==
    /\ c \in TCP /\ worker[c] = "idle"
    /\ serve = "accepting" /\ listening
    /\ To(c, "attempt")
    /\ open' = open \cup {c}
    /\ UNCHANGED <<slot, trail, failures>>
    /\ UNCHANGED processVars /\ UNCHANGED stopVars /\ UNCHANGED runtimeVars

\* A web-only grant is never usable through the listener.
connectAttempt(c) ==
    /\ worker[c] = "attempt"
    /\ IF c \in TCP /\ webOnly
       THEN To(c, "closing") /\ UNCHANGED <<trail, auditFailed, status, cancelled, listening, stop, open, failures>>
       ELSE appendEvent(c, "connect_attempt", IF c \in TCP THEN "admit" ELSE "dial", "closing")
    /\ UNCHANGED <<slot, known, reply>>
    /\ UNCHANGED processVars

\* Wrong source, no place left, or registered for the sweep.
handleConnection(c) ==
    /\ worker[c] = "admit"
    /\ \/ /\ appendEvent(c, "source_rejected", "closing", "closing")
          /\ UNCHANGED <<slot, known>>
       \/ /\ Cardinality(slot) >= MaxConnections
          /\ appendEvent(c, "capacity_rejected", "closing", "closing")
          /\ UNCHANGED <<slot, known>>
       \/ /\ Cardinality(slot) < MaxConnections
          /\ slot' = slot \cup {c}
          /\ known' = IF addConnection(c) THEN known \cup {c} ELSE known
          /\ To(c, IF addConnection(c) THEN "dial" ELSE "closing")
          /\ UNCHANGED <<open, trail, failures, auditFailed, status, cancelled, listening, stop>>
    /\ UNCHANGED processVars /\ UNCHANGED reply

\* A web terminal registers under runtime.mu; its client may open more.
terminal(c) ==
    /\ c \in Web /\ worker[c] = "idle"
    /\ agent = "serving" /\ registered
    /\ status = "running" /\ timer = "armed"
    /\ Cardinality(slot) < MaxConnections
    /\ slot' = slot \cup {c} /\ known' = known \cup {c} /\ open' = open \cup {c}
    /\ To(c, "start")
    /\ UNCHANGED <<status, cancelled, listening, auditFailed, trail, failures>>
    /\ UNCHANGED processVars /\ UNCHANGED stopVars

\* The first message holds the credentials; a bad one, or none in 15 seconds,
\* ends the terminal.
terminalStart(c) ==
    /\ worker[c] = "start"
    /\ \/ c \in open /\ To(c, "attempt")
       \/ To(c, "closing")
    /\ UNCHANGED <<slot, open, trail, failures>>
    /\ UNCHANGED processVars /\ UNCHANGED stopVars /\ UNCHANGED runtimeVars

extraTerminalConnection(c) ==
    /\ c \in Extra /\ worker[c] = "idle"
    /\ \E w \in Web : worker[w] = "relay"
    /\ status = "running" /\ timer = "armed"
    /\ Cardinality(slot) < MaxConnections
    /\ slot' = slot \cup {c} /\ known' = known \cup {c} /\ open' = open \cup {c}
    /\ To(c, "attempt")
    /\ UNCHANGED <<status, cancelled, listening, auditFailed, trail, failures>>
    /\ UNCHANGED processVars /\ UNCHANGED stopVars

\* The dial is bounded by its timeout and fails once the context is done.
dial(c) ==
    /\ worker[c] = "dial"
    /\ \/ /\ ~ cancelled
          /\ To(c, "dialled")
          /\ UNCHANGED <<trail, failures, auditFailed, status, cancelled, listening, stop, open>>
       \/ appendEvent(c, "backend_failed", "closing", "closing")
    /\ UNCHANGED <<slot, known, reply>>
    /\ UNCHANGED processVars

\* The backend joins the connection only while the session runs.
backendConnected(c) ==
    /\ worker[c] = "dialled"
    /\ IF addConnection(c)
       THEN appendEvent(c, "backend_connected", "relay", "closing")
       ELSE /\ To(c, "closing")
            /\ UNCHANGED <<open, trail, failures, auditFailed, status, cancelled, listening, stop>>
    /\ UNCHANGED <<slot, known, reply>>
    /\ UNCHANGED processVars

\* Serve or the terminal could not record an operation: the session is closed
\* before the connection reports its end.
operationAuditLost(c) ==
    /\ worker[c] = "relay"
    /\ failures < MaxFailures
    /\ failures' = failures + 1
    /\ auditFailure
    /\ To(c, "ending")
    /\ UNCHANGED <<slot, known, trail, reply>>
    /\ UNCHANGED processVars

\* The terminal returned: its end is the last event of the connection.
terminalDisconnected(c) ==
    /\ c \notin TCP /\ worker[c] \in {"relay", "ending"}
    /\ appendEvent(c, "disconnected", "closing", "closing")
    /\ UNCHANGED <<slot, known, reply>>
    /\ UNCHANGED processVars

\* A mutant of disconnected: a relay whose sockets were closed returns at once.
SilentEnd(c) ==
    /\ c \in TCP /\ worker[c] \in {"relay", "ending"}
    /\ IF c \in open THEN appendEvent(c, "disconnected", "closing", "closing")
       ELSE /\ To(c, "closing")
            /\ UNCHANGED <<open, trail, failures, auditFailed, status, cancelled, listening, stop>>
    /\ UNCHANGED <<slot, known, reply>>
    /\ UNCHANGED processVars

\* The relay ends; a native one may be refused, by its negotiation or later.
disconnected(c) ==
    /\ c \in TCP /\ worker[c] \in {"relay", "ending"}
    /\ \/ appendEvent(c, "disconnected", "closing", "closing")
       \/ /\ worker[c] = "relay"
          /\ \/ appendEvent(c, "auth_rejected", "closing", "closing")
             \/ appendEvent(c, "auth_rejected", "ending", "ending")
    /\ UNCHANGED <<slot, known, reply>>
    /\ UNCHANGED processVars

\* What makes a relay end: its sockets are closed, or the context that a terminal
\* watches is done.
Released(c) == c \notin open \/ (cancelled /\ c \notin TCP)

-----------------------------------------------------------------------------
\* The two goroutines of serve.
expire ==
    /\ timer = "armed" /\ ~ cancelled
    /\ status' = IF status = "running" THEN "expired" ELSE status
    /\ CloseAll
    /\ timer' = "removing"
    /\ UNCHANGED <<agent, webOnly, marked, registered, serve, worker, slot, known, trail, auditFailed,
                   failures>>
    /\ UNCHANGED stopVars

removeExposure ==
    /\ \/ timer = "removing"
       \/ timer = "armed" /\ cancelled
    /\ timer' = "gone"
    /\ UNCHANGED <<agent, webOnly, marked, registered, serve, worker, slot, open, trail, failures>>
    /\ UNCHANGED stopVars /\ UNCHANGED runtimeVars

serveReturns ==
    /\ serve = "accepting" /\ ~ listening /\ timer = "gone"
    /\ serve' = "done"
    /\ UNCHANGED <<agent, webOnly, marked, registered, timer, worker, slot, open, trail, failures>>
    /\ UNCHANGED stopVars /\ UNCHANGED runtimeVars

\* Stop: mark and sweep; wait for serve and for the workers; remove; forget.
stopWaits(x) ==
    /\ stop[x] = "called"
    /\ IF ~ registered
       THEN /\ stop' = [stop EXCEPT ![x] = "idle"]
            /\ reply' = [reply EXCEPT ![x] = "not_found"]
            /\ UNCHANGED <<status, cancelled, listening, open>>
       ELSE /\ stop' = [stop EXCEPT ![x] = IF status = "expired" THEN "wait_expired" ELSE "wait"]
            /\ status' = IF status = "expired" THEN status ELSE "stopping"
            /\ CloseAll
            /\ UNCHANGED reply
    /\ UNCHANGED <<worker, slot, known, trail, auditFailed, failures>>
    /\ UNCHANGED processVars

Waiting(x) == stop[x] \in {"wait", "wait_expired"}

stopTimesOut(x) ==
    /\ Waiting(x)
    /\ ~ (serve = "done" /\ waitForConnections)
    /\ failures < MaxFailures
    /\ failures' = failures + 1
    /\ stop' = [stop EXCEPT ![x] = "idle"]
    /\ reply' = [reply EXCEPT ![x] = "error"]
    /\ UNCHANGED <<worker, slot, open, trail>>
    /\ UNCHANGED processVars /\ UNCHANGED runtimeVars

\* A mutant of Stop: it waits for the listener only.
StopListener(x) ==
    /\ Waiting(x)
    /\ serve = "done"
    /\ LET final == IF stop[x] = "wait_expired" THEN "expired" ELSE "closed" IN
       /\ status' = final
       /\ reply' = [reply EXCEPT ![x] = final]
    /\ registered' = FALSE
    /\ stop' = [stop EXCEPT ![x] = "idle"]
    /\ UNCHANGED <<agent, webOnly, marked, cancelled, listening, serve, timer, worker, slot, open, known,
                   trail, auditFailed, failures>>

\* Everything has returned: the exposure is removed and the session taken off the
\* map.  Removing fails for no provider there is: DirectExposureProvider has nothing
\* to undo.
Stop(x) ==
    /\ Waiting(x)
    /\ serve = "done" /\ waitForConnections
    /\ LET final == IF stop[x] = "wait_expired" THEN "expired" ELSE "closed" IN
       /\ status' = final
       /\ reply' = [reply EXCEPT ![x] = final]
    /\ registered' = FALSE
    /\ stop' = [stop EXCEPT ![x] = "idle"]
    /\ UNCHANGED <<agent, webOnly, marked, cancelled, listening, serve, timer, worker, slot, open, known,
                   trail, auditFailed, failures>>

-----------------------------------------------------------------------------
\* The agent's loop, and the calls that reach it.
requestStop ==
    /\ agent = "serving" /\ ~ marked
    /\ marked' = TRUE
    /\ UNCHANGED <<agent, webOnly, registered, serve, timer, worker, slot, open, trail, failures>>
    /\ UNCHANGED stopVars /\ UNCHANGED runtimeVars

\* The ticker, POST /stop and SIGTERM call close, one at a time.
closeAgent ==
    /\ agent = "serving" /\ stop["agent"] = "idle"
    /\ reply["agent"] \in {"none", "error"}
    /\ marked \/ status # "running"
    /\ stop' = [stop EXCEPT !["agent"] = "called"]
    /\ UNCHANGED <<worker, slot, open, trail, failures, reply>>
    /\ UNCHANGED processVars /\ UNCHANGED runtimeVars

\* The loop returns once close succeeded.  It also returns when close failed and
\* the runtime is the host's or the process was signalled, and when a server
\* failed; the deferred Shutdown then sweeps without changing the status.
RunSessionAgent ==
    /\ agent = "serving" /\ stop["agent"] = "idle"
    /\ \/ /\ reply["agent"] \in {"closed", "expired", "not_found"}
          /\ agent' = "exited"
          /\ UNCHANGED <<cancelled, listening, open, failures>>
       \/ /\ reply["agent"] \in {"none", "error"}
          /\ failures < MaxFailures
          /\ failures' = failures + 1
          /\ agent' = "leaving"
          /\ CloseAll
    /\ UNCHANGED <<webOnly, marked, status, registered, serve, timer, worker, slot, known, trail,
                   auditFailed>>
    /\ UNCHANGED stopVars

\* Shutdown waits for every goroutine, up to its timeout; then the process ends.
Shutdown ==
    /\ agent = "leaving"
    /\ \/ serve = "done" /\ waitForConnections /\ UNCHANGED failures
       \/ failures < MaxFailures /\ failures' = failures + 1
    /\ agent' = "exited"
    /\ worker' = [c \in Conn |-> IF Live(c) THEN "killed" ELSE worker[c]]
    /\ listening' = FALSE /\ open' = {} /\ slot' = {} /\ known' = {}
    /\ serve' = "done" /\ timer' = "gone"
    /\ stop' = [x \in Stopper |-> "idle"]
    /\ UNCHANGED <<webOnly, marked, status, registered, cancelled, trail, auditFailed, reply>>

ControllerInit ==
    /\ agent = "new" /\ webOnly \in BOOLEAN /\ marked = FALSE /\ status = "none" /\ registered = FALSE
    /\ cancelled = FALSE /\ listening = FALSE /\ serve = "none" /\ timer = "none"
    /\ worker = [c \in Conn |-> "idle"]
    /\ slot = {} /\ open = {} /\ known = {}
    /\ trail = [c \in Conn |-> {}]
    /\ auditFailed = FALSE
    /\ stop = [x \in Stopper |-> "idle"] /\ reply = [x \in Stopper |-> "none"]
    /\ failures = 0

WorkerStep(c) ==
    \/ connectAttempt(c)
    \/ handleConnection(c)
    \/ terminalStart(c)
    \/ dial(c)
    \/ backendConnected(c)
    \/ operationAuditLost(c)
    \/ terminalDisconnected(c)
    \/ disconnected(c)
    \/ Return(c)

\* The steps that need no one outside: every one but the end of an open relay, a
\* new connection, a stop request, the expiry and the timeouts.
ControllerProgress ==
    \/ \E c \in Conn : (worker[c] \in {"relay", "ending"} => Released(c) \/ worker[c] = "ending") /\ WorkerStep(c)
    \/ removeExposure
    \/ serveReturns
    \/ \E x \in Stopper : stopWaits(x)
    \/ \E x \in Stopper : Stop(x)
    \/ closeAgent
    \/ RunSessionAgent
    \/ Shutdown

ControllerNext ==
    \/ startRuntime
    \/ Restore
    \/ \E c \in Conn : Accept(c)
    \/ \E c \in Conn : terminal(c)
    \/ \E c \in Conn : extraTerminalConnection(c)
    \/ \E c \in Conn : WorkerStep(c)
    \/ expire
    \/ removeExposure
    \/ serveReturns
    \/ \E x \in Stopper : stopWaits(x)
    \/ \E x \in Stopper : stopTimesOut(x)
    \/ \E x \in Stopper : Stop(x)
    \/ requestStop
    \/ closeAgent
    \/ RunSessionAgent
    \/ Shutdown

-----------------------------------------------------------------------------
\* A Stop that reported the session closed, expired or not found leaves no
\* goroutine, no place of the semaphore and no listener behind, whatever was being
\* accepted, dialled or relayed while it ran (direct_controller.go Stop).
StoppedIsQuiet ==
    (\E x \in Stopper : reply[x] \in {"closed", "expired", "not_found"}) =>
        waitForConnections /\ ~ listening /\ slot = {}

\* Every connection whose backend_connected event was acknowledged has an event
\* that ends it, unless the audit itself failed.
ConnectedIsEnded ==
    \A c \in Conn :
        worker[c] = "done" /\ "backend_connected" \in trail[c] =>
            {"disconnected", "auth_rejected"} \cap trail[c] # {} \/ auditFailed

Ending == agent = "leaving" \/ (agent = "serving" /\ status \notin {"none", "running"})
AllReturned == agent = "exited" /\ waitForConnections

\* Once a session expired, was stopped or could not be audited, every goroutine of
\* it returns and the agent exits: no connection escapes the sweep, and no one
\* waits for the one that waits for it.
EndedReturns == Ending ~> AllReturned
=============================================================================
