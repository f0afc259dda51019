--------------------------- MODULE GatewayManager ---------------------------
(***************************************************************************)
(* The shared gateway agent, internal/gatewayagent/manager.go over the     *)
(* state file of store.go and DirectController.  One process serves all    *)
(* sessions of a gateway: a record in memory and in one file, which every  *)
(* save replaces as a whole, and a listener that dies with the process.    *)
(* Calls run concurrently and hold the mutex of the manager only while     *)
(* they read or write records.  The terminal statuses closed, expired and  *)
(* failed are one here, "ended".  Sessions have a source address: Recover  *)
(* refuses a state file with a live record that has none.                  *)
(***************************************************************************)
EXTENDS Naturals

CONSTANTS Session,
          Call,          \* the calls that may run at the same time
          MaxFaults      \* bound: crashes, failed saves and failed stops

VARIABLES driver,        \* "gateway" when this process serves the sessions
          manager,       \* the process: "up", "recovering", "dying", "down"
          memory,        \* memory[s]: status of m.sessions
          file,          \* file[s]: status in the state file
          listener,      \* listener[s]: what the controller holds
          call,          \* call[c]: the step of a call and its session
          overdue,       \* overdue[s]: ExpiresAt has passed
          forgotten,     \* forgotten[s]: the terminal record was pruned
          todo,          \* sessions that Recover still has to look at
          faults

vars == <<driver, manager, memory, file, listener, call, overdue, forgotten, todo, faults>>

NoCall == [pc |-> "idle"]

Init ==
    /\ manager = "up"
    /\ memory = [s \in Session |-> "none"]
    /\ file = [s \in Session |-> "none"]
    /\ listener = [s \in Session |-> "none"]
    /\ call = [c \in Call |-> NoCall]
    /\ overdue = [s \in Session |-> FALSE]
    /\ forgotten = [s \in Session |-> FALSE]
    /\ todo = {}
    /\ faults = 0

-----------------------------------------------------------------------------
\* FileStateStore and saveLocked.

Fault == faults < MaxFaults /\ faults' = faults + 1

\* Every save writes all records.
saveLocked(s, status) ==
    /\ memory' = [memory EXCEPT ![s] = status]
    /\ file' = memory'
    /\ UNCHANGED faults

\* The write fails before the rename or after it; the caller then puts the
\* status `kept` in memory.
SaveFails(s, status, kept) ==
    /\ Fault
    /\ memory' = [memory EXCEPT ![s] = kept]
    /\ \/ UNCHANGED file
       \/ file' = [memory EXCEPT ![s] = status]

\* A save on behalf of another session.  It prunes a terminal record that is past
\* its retention or above the limit; retention outlasts the calls.
recordsForPersistenceLocked(s) ==
    /\ manager \in {"recovering", "up"}
    /\ \/ file' = memory /\ UNCHANGED <<memory, forgotten>>
       \/ /\ memory[s] = "ended" /\ \A c \in Call : call[c].pc = "idle"
          /\ memory' = [memory EXCEPT ![s] = "none"]
          /\ file' = memory'
          /\ forgotten' = [forgotten EXCEPT ![s] = TRUE]
    /\ UNCHANGED <<driver, manager, listener, call, overdue, todo, faults>>

To(c, pc, s) == call' = [call EXCEPT ![c] = [pc |-> pc, s |-> s]]
Return(c) == call' = [call EXCEPT ![c] = NoCall]
At(c, pc) == call[c].pc = pc /\ manager \in {"recovering", "up"}

-----------------------------------------------------------------------------
validateCreateRequest(s) == ~ overdue[s]

\* Start.  An unknown session is recorded before the controller is called; every
\* other status is answered from the record.
Start(c, s) ==
    /\ manager = "up" /\ call[c].pc = "idle"
    /\ validateCreateRequest(s) /\ memory[s] = "none" /\ ~ forgotten[s]
    /\ \/ saveLocked(s, "starting") /\ To(c, "start", s)
       \/ SaveFails(s, "starting", "none") /\ UNCHANGED call
    /\ UNCHANGED <<driver, manager, listener, overdue, forgotten, todo>>

\* The response may be refused, when the session has expired meanwhile.
validateCreateResponse(c, s) == To(c, "started", s) \/ To(c, "undo", s)

\* controller.Start fails and leaves nothing, or serves.
controllerStart(c) ==
    /\ At(c, "start")
    /\ LET s == call[c].s IN
       \/ /\ ~ overdue[s]
          /\ listener' = [listener EXCEPT ![s] = "up"]
          /\ validateCreateResponse(c, s)
       \/ To(c, "undo", s) /\ UNCHANGED listener
    /\ UNCHANGED <<driver, manager, memory, file, overdue, forgotten, todo, faults>>

\* A failed save leaves the record running in memory until finishFailedStart.
StartCompletes(c) ==
    /\ At(c, "started")
    /\ LET s == call[c].s IN
       IF memory[s] # "starting"
       THEN To(c, "undo", s) /\ UNCHANGED <<memory, file, faults>>
       ELSE \/ saveLocked(s, "running") /\ Return(c)
            \/ SaveFails(s, "running", "running") /\ To(c, "undo", s)
    /\ UNCHANGED <<driver, manager, listener, overdue, forgotten, todo>>

\* DirectController.Stop closes the listener first; removing the exposure or
\* waiting for the connections may fail, and the controller keeps its entry.
controllerStop(c, pc, done, failed) ==
    /\ At(c, pc)
    /\ LET s == call[c].s IN
       \/ /\ listener' = [listener EXCEPT ![s] = IF @ = "none" THEN @ ELSE "gone"]
          /\ To(c, done, s)
          /\ UNCHANGED faults
       \/ /\ Fault
          /\ listener' = [listener EXCEPT ![s] = IF @ = "up" THEN "stuck" ELSE @]
          /\ To(c, failed, s)
    /\ UNCHANGED <<driver, manager, memory, file, overdue, forgotten, todo>>

\* finishFailedStart after its Stop.
finishFailedStart(c) ==
    /\ \/ /\ At(c, "undone")
          /\ \/ saveLocked(call[c].s, "ended")
             \/ SaveFails(call[c].s, "ended", "revoke_failed")
       \/ /\ At(c, "undo_failed")
          /\ \/ saveLocked(call[c].s, "revoke_failed")
             \/ SaveFails(call[c].s, "revoke_failed", "revoke_failed")
    /\ Return(c)
    /\ UNCHANGED <<driver, manager, listener, overdue, forgotten, todo>>

-----------------------------------------------------------------------------
\* Stop up to the controller: a tombstone for an unknown session, an error while
\* a start or another stop is in progress.
BeginStop(c, s, previous) ==
    /\ call[c].pc = "idle"
    /\ \/ saveLocked(s, "stopping") /\ To(c, "stop", s)
       \/ SaveFails(s, "stopping", previous) /\ UNCHANGED call
    /\ UNCHANGED <<driver, listener, overdue, forgotten>>

Stop(c, s) ==
    /\ manager = "up"
    /\ memory[s] \in {"none", "running", "revoke_failed"}
    /\ BeginStop(c, s, memory[s])
    /\ UNCHANGED <<manager, todo>>

\* A closure that cannot be saved is retried.
StopCompletes(c) ==
    /\ At(c, "stopped")
    /\ \/ saveLocked(call[c].s, "ended")
       \/ SaveFails(call[c].s, "ended", "revoke_failed")
    /\ Return(c)
    /\ UNCHANGED <<driver, manager, listener, overdue, forgotten, todo>>

markRevokeFailed(c) ==
    /\ At(c, "stop_failed")
    /\ \/ saveLocked(call[c].s, "revoke_failed")
       \/ SaveFails(call[c].s, "revoke_failed", "revoke_failed")
    /\ Return(c)
    /\ UNCHANGED <<driver, manager, listener, overdue, forgotten, todo>>

\* Run calls ReapExpired every few seconds; Stop reads the record again.
ReapExpired(c, s) ==
    /\ \/ memory[s] = "running" /\ overdue[s]
       \/ memory[s] = "revoke_failed"
    /\ Stop(c, s)

-----------------------------------------------------------------------------
\* Get stops an overdue session as ReapExpired does.  It asks the controller about
\* one that was not overdue yet and records, in a later step, that it has ended.
Get(c, s) ==
    /\ manager = "up" /\ call[c].pc = "idle"
    /\ memory[s] = "running"
    /\ listener[s] \in {"none", "gone", "expired"}
    /\ To(c, "lost", s)
    /\ UNCHANGED <<driver, manager, memory, file, listener, overdue, forgotten, todo, faults>>

GetRecords(c) ==
    /\ At(c, "lost")
    /\ IF memory[call[c].s] = "running"
       THEN saveLocked(call[c].s, "ended") \/ SaveFails(call[c].s, "ended", "running")
       ELSE UNCHANGED <<memory, file, faults>>
    /\ Return(c)
    /\ UNCHANGED <<driver, manager, listener, overdue, forgotten, todo>>

-----------------------------------------------------------------------------
Load == memory' = file

\* Recover: the records are loaded and saved once (the process ends when it cannot
\* save), then each one is looked at before anything is served.
Recover ==
    /\ manager = "down"
    /\ Load
    /\ \/ manager' = "recovering" /\ todo' = Session /\ UNCHANGED faults
       \/ Fault /\ manager' = "dying" /\ UNCHANGED todo
    /\ UNCHANGED <<driver, file, listener, call, overdue, forgotten>>

\* An unfinished start or stop is retried as a stop.  A running session is served
\* again unless it is overdue, against the policy, or cannot be restored.
RecoverSession(c, s) ==
    /\ manager = "recovering" /\ s \in todo
    /\ \A d \in Call : call[d].pc = "idle"
    /\ todo' = todo \ {s}
    /\ \/ /\ memory[s] \in {"starting", "stopping", "revoke_failed"}
          /\ BeginStop(c, s, "revoke_failed")
       \/ memory[s] = "running" /\ overdue[s] /\ BeginStop(c, s, "running")
       \/ memory[s] = "running" /\ ~ overdue[s] /\ BeginStop(c, s, "revoke_failed")
       \/ /\ memory[s] = "running" /\ ~ overdue[s]
          /\ listener' = [listener EXCEPT ![s] = "up"]
          /\ UNCHANGED <<driver, memory, file, call, overdue, forgotten, faults>>
       \/ /\ memory[s] \in {"none", "ended"}
          /\ UNCHANGED <<driver, memory, file, listener, call, overdue, forgotten, faults>>
    /\ UNCHANGED manager

Serve ==
    /\ manager = "recovering" /\ todo = {}
    /\ \A c \in Call : call[c].pc = "idle"
    /\ manager' = "up"
    /\ UNCHANGED <<driver, memory, file, listener, call, overdue, forgotten, todo, faults>>

-----------------------------------------------------------------------------
\* The listener closes itself when the session expires.
Expire(s) ==
    /\ memory[s] # "none" /\ ~ overdue[s]
    /\ overdue' = [overdue EXCEPT ![s] = TRUE]
    /\ UNCHANGED <<driver, manager, memory, file, listener, call, forgotten, todo, faults>>

ListenerExpires(s) ==
    /\ listener[s] = "up" /\ overdue[s]
    /\ listener' = [listener EXCEPT ![s] = "expired"]
    /\ UNCHANGED <<driver, manager, memory, file, call, overdue, forgotten, todo, faults>>

\* The listeners die with the process; what it knew is gone when it is down.
Crash ==
    /\ manager \in {"recovering", "up"} /\ Fault
    /\ manager' = "dying"
    /\ listener' = [s \in Session |-> IF listener[s] = "none" THEN "none" ELSE "gone"]
    /\ UNCHANGED <<driver, memory, file, call, overdue, forgotten, todo>>

ProcessEnds ==
    /\ manager = "dying"
    /\ manager' = "down"
    /\ memory' = file
    /\ call' = [c \in Call |-> NoCall]
    /\ todo' = {}
    /\ UNCHANGED <<driver, file, listener, overdue, forgotten, faults>>

Continue(c) ==
    \/ controllerStart(c) \/ StartCompletes(c)
    \/ controllerStop(c, "undo", "undone", "undo_failed") \/ finishFailedStart(c)
    \/ controllerStop(c, "stop", "stopped", "stop_failed")
    \/ StopCompletes(c) \/ markRevokeFailed(c) \/ GetRecords(c)

Recovery ==
    \/ Recover \/ Serve \/ ProcessEnds
    \/ \E c \in Call, s \in Session : RecoverSession(c, s)

On == driver = "gateway"

Next ==
    /\ On
    /\ \/ \E c \in Call, s \in Session : Start(c, s) \/ Stop(c, s) \/ Get(c, s)
       \/ \E c \in Call, s \in Session : ReapExpired(c, s)
       \/ \E c \in Call : Continue(c)
       \/ \E s \in Session : recordsForPersistenceLocked(s)
       \/ \E s \in Session : Expire(s) \/ ListenerExpires(s)
       \/ Recovery \/ Crash

\* Calls continue, the process is restarted and recovers, and Run reaps for ever.
Fairness ==
    /\ WF_vars(On /\ Recovery)
    /\ \A c \in Call : WF_vars(On /\ Continue(c))
    /\ \A s \in Session : SF_vars(On /\ \E c \in Call : ReapExpired(c, s))
=============================================================================
