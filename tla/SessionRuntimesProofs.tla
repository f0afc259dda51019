----------------------- MODULE SessionRuntimesProofs -----------------------
(***************************************************************************)
(* The host controller, the Kubernetes client and the gateway manager      *)
(* implement SessionAgent, for any number of sessions, calls and faults.   *)
(* For each of them: an invariant of what one session's records, calls and *)
(* workload have to do with each other, that every step keeps it, and that *)
(* under it every step of the runtime is, in the eyes of the access        *)
(* service, a step of SessionAgent.  A step touches one session; only the  *)
(* end of a process touches all of them.                                   *)
(***************************************************************************)
EXTENDS SessionRuntimes, TLAPS

USE ZenonT(5), SMTT(10), SMTT(30)

-----------------------------------------------------------------------------
\* The host controller.

HostShape ==
    /\ DOMAIN record = Session /\ DOMAIN disk = Session
    /\ DOMAIN grant = Session /\ DOMAIN spool = Session
    /\ DOMAIN workload = Session /\ DOMAIN launched = Session
    /\ DOMAIN creator = Session /\ DOMAIN closer = Session /\ DOMAIN pruned = Session

HostQuiet(s) == workload[s] # "running" /\ ~ grant[s] /\ ~ spool[s]

\* Memory is ahead of the file by failed writes only.
HostFileFollows(s) ==
    \/ record[s].state = "none" /\ disk[s].state = "none"
    \/ record[s].state \in {"starting", "running"} /\ disk[s].state \in {"none", "starting", "running"}
    \/ /\ record[s].state = "stopping"
       /\ disk[s].state \in {"none", "starting", "running", "stopping"}
    \/ record[s].state = "closed" /\ disk[s].state \in {"stopping", "closed"}

HostCleaning(s) == closer[s].pc \in {"cleanup", "waiting", "drain", "finish"}

HostInv(s) ==
    /\ DOMAIN record[s] = {"state", "acked"} /\ DOMAIN disk[s] = {"state", "acked"}
    /\ disk[s].state \in {"none", "starting", "running", "stopping", "closed"}
    /\ IF controller = "down"
       THEN creator[s] = "idle" /\ closer[s].pc = "idle" /\ record[s].state = "none"
       ELSE HostFileFollows(s)
    /\ creator[s] = "ready" => record[s].state = "none" /\ ~ pruned[s]
    /\ creator[s] = "launch" =>
        record[s].state = "starting" /\ disk[s].state = "starting" /\ ~ launched[s]
    /\ creator[s] \in {"ready", "launch"} => ~ HostCleaning(s)
    /\ HostCleaning(s) =>
        record[s].state \in {"stopping", "closed"} /\ disk[s].state = record[s].state
    /\ closer[s].pc = "finish" \/ record[s].state = "closed" \/ disk[s].state = "closed" \/ pruned[s]
        => HostQuiet(s)
    /\ disk[s].state = "none" /\ ~ pruned[s] => ~ launched[s]
    /\ workload[s] = "running" => launched[s]
    /\ pruned[s] => record[s].state = "none" /\ disk[s].state = "none"

\* What a step of another session leaves alone.
HostFrame(s) ==
    /\ controller' = controller
    /\ HostShape'
    /\ \A t \in Session \ {s} :
        /\ record'[t] = record[t] /\ disk'[t] = disk[t]
        /\ grant'[t] = grant[t] /\ spool'[t] = spool[t]
        /\ workload'[t] = workload[t] /\ launched'[t] = launched[t]
        /\ creator'[t] = creator[t] /\ closer'[t] = closer[t] /\ pruned'[t] = pruned[t]

\* The steps of SessionAgent, as the host's phase and agent make them.
HostMove(s) ==
    \/ HostPhase(s)' = HostPhase(s) /\ HostAgent(s)' = HostAgent(s)
    \/ /\ HostAgent(s)' = HostAgent(s)
       /\ \/ HostPhase(s) = "new" /\ HostPhase(s)' = "granted"
          \/ HostPhase(s) \in {"new", "granted"} /\ HostPhase(s)' = "revoked"
          \/ HostPhase(s) = "revoked" /\ HostPhase(s)' = "settled" /\ HostAgent(s) # "up"
    \/ /\ HostPhase(s)' = HostPhase(s)
       /\ \/ HostPhase(s) = "granted" /\ HostAgent(s) = "none" /\ HostAgent(s)' = "up"
          \/ HostAgent(s) = "up" /\ HostAgent(s)' = "down"

HostAll == HostShape /\ \A s \in Session : HostInv(s)

\* A step of a call: the others' calls stay.
HostCallStep(s) ==
    /\ DOMAIN creator' = Session /\ DOMAIN closer' = Session
    /\ \A t \in Session \ {s} : creator'[t] = creator[t] /\ closer'[t] = closer[t]

\* A step that changes at most the calls of a session, and them within bounds.
LEMMA HostCalls ==
    ASSUME HostShape, NEW s \in Session, HostInv(s), controller' = controller,
           UNCHANGED <<record, disk, grant, spool, workload, launched, pruned>>,
           HostCallStep(s),
           controller # "down" \/ (creator'[s] = "idle" /\ closer'[s].pc = "idle"),
           \/ creator'[s] = creator[s] \/ creator'[s] \notin {"ready", "launch"}
           \/ creator'[s] = "ready" /\ record[s].state = "none" /\ ~ pruned[s],
           creator'[s] \in {"ready", "launch"} => ~ HostCleaning(s),
           \/ closer'[s].pc = closer[s].pc \/ closer'[s].pc \in {"idle", "observed"}
           \/ closer'[s].pc \in {"waiting", "drain"} /\ HostCleaning(s)
    PROVE  HostFrame(s) /\ HostInv(s)' /\ HostMove(s)
<1>1. HostFrame(s)
  BY DEF HostFrame, HostShape, HostCallStep
<1>2. HostMove(s)
  BY DEF HostMove, HostPhase, HostAgent
<1>3. HostFileFollows(s)' = HostFileFollows(s) /\ HostQuiet(s)' = HostQuiet(s)
  BY DEF HostFileFollows, HostQuiet
<1>4. HostCleaning(s)' => HostCleaning(s)
  BY DEF HostCleaning
<1>5. closer'[s].pc = "finish" => closer[s].pc = "finish"
  OBVIOUS
<1>6. HostInv(s)'
  BY <1>3, <1>4, <1>5 DEF HostInv
<1> QED
  BY <1>1, <1>2, <1>6

LEMMA HostQuietCalls ==
    ASSUME HostShape, NEW s \in Session, HostInv(s),
           \/ Host!ensureStarted(s) \/ Host!RefuseLaunch(s) \/ Host!PollAgent(s)
           \/ Host!PollTimeout(s) \/ Host!RequestStop(s) \/ Host!AwaitExit(s)
           \/ Host!CloseFails(s) \/ Host!Reconcile(s)
    PROVE  HostFrame(s) /\ HostInv(s)' /\ HostMove(s)
<1>1. controller' = controller /\ UNCHANGED <<record, disk, grant, spool, workload, launched, pruned>>
  BY DEF Host!ensureStarted, Host!RefuseLaunch, Host!PollAgent, Host!PollTimeout, Host!RequestStop,
         Host!AwaitExit, Host!CloseFails, Host!Reconcile, Host!files
<1>2. HostCallStep(s)
  BY DEF Host!ensureStarted, Host!RefuseLaunch, Host!PollAgent, Host!PollTimeout, Host!RequestStop,
         Host!AwaitExit, Host!CloseFails, Host!Reconcile, Host!ToCreator, Host!ToCloser,
         HostCallStep, HostShape
<1>3. controller # "down"
  BY DEF Host!ensureStarted, Host!RefuseLaunch, Host!PollAgent, Host!PollTimeout, Host!RequestStop,
         Host!AwaitExit, Host!CloseFails, Host!Reconcile, HostInv
<1>4. \/ creator'[s] = creator[s] \/ creator'[s] \notin {"ready", "launch"}
      \/ creator'[s] = "ready" /\ record[s].state = "none" /\ ~ pruned[s]
  BY DEF Host!ensureStarted, Host!RefuseLaunch, Host!PollAgent, Host!PollTimeout, Host!RequestStop,
         Host!AwaitExit, Host!CloseFails, Host!Reconcile, Host!ToCreator, HostShape
<1>5. creator'[s] \in {"ready", "launch"} => ~ HostCleaning(s)
  BY DEF Host!ensureStarted, Host!RefuseLaunch, Host!PollAgent, Host!PollTimeout, Host!RequestStop,
         Host!AwaitExit, Host!CloseFails, Host!Reconcile, Host!ToCreator, Host!Locked, HostShape,
         HostInv, HostCleaning
<1>6. \/ closer'[s].pc = closer[s].pc \/ closer'[s].pc \in {"idle", "observed"}
      \/ closer'[s].pc \in {"waiting", "drain"} /\ HostCleaning(s)
  BY DEF Host!ensureStarted, Host!RefuseLaunch, Host!PollAgent, Host!PollTimeout, Host!RequestStop,
         Host!AwaitExit, Host!CloseFails, Host!Reconcile, Host!ToCloser, HostShape, HostCleaning
<1> QED
  BY <1>1, <1>2, <1>3, <1>4, <1>5, <1>6, HostCalls

\* A write of the record: memory has it, the file may.
LEMMA HostWrites ==
    ASSUME HostShape, NEW s \in Session, NEW r, Host!save(s, r) \/ Host!saveFails(s, r)
    PROVE  /\ DOMAIN record' = Session /\ DOMAIN disk' = Session
           /\ record'[s] = r /\ disk'[s] \in {r, disk[s]}
           /\ Host!save(s, r) => disk'[s] = r
           /\ \A t \in Session \ {s} : record'[t] = record[t] /\ disk'[t] = disk[t]
BY DEF HostShape, Host!save, Host!saveFails

LEMMA HostPersists ==
    ASSUME HostShape, NEW s \in Session, HostInv(s), Host!PersistIntent(s)
    PROVE  HostFrame(s) /\ HostInv(s)' /\ HostMove(s)
<1>1. PICK r : r = [state |-> "starting", acked |-> FALSE]
  BY Zenon
<1>2. /\ record[s].state = "none" /\ disk[s].state = "none" /\ ~ pruned[s] /\ controller # "down"
      /\ ~ HostCleaning(s) /\ ~ launched[s]
  BY DEF Host!PersistIntent, HostInv, HostFileFollows
<1>3. /\ controller' = controller /\ UNCHANGED <<spool, workload, launched, closer, pruned>>
      /\ \/ /\ Host!save(s, r) /\ grant' = [grant EXCEPT ![s] = TRUE]
            /\ creator' = [creator EXCEPT ![s] = "launch"]
         \/ /\ Host!saveFails(s, r) /\ UNCHANGED grant
            /\ creator' = [creator EXCEPT ![s] = "idle"]
  BY <1>1 DEF Host!PersistIntent, Host!ToCreator
<1>4. /\ DOMAIN record' = Session /\ DOMAIN disk' = Session
      /\ record'[s] = r /\ disk'[s] \in {r, disk[s]}
      /\ Host!save(s, r) => disk'[s] = r
      /\ \A t \in Session \ {s} : record'[t] = record[t] /\ disk'[t] = disk[t]
  BY <1>3, HostWrites
<1>5. HostFrame(s)
  BY <1>3, <1>4 DEF HostFrame, HostShape
<1>6. /\ r.state = "starting" /\ DOMAIN r = {"state", "acked"}
      /\ record'[s].state = "starting" /\ disk'[s].state \in {"none", "starting"}
      /\ DOMAIN record'[s] = {"state", "acked"} /\ DOMAIN disk'[s] = {"state", "acked"}
  BY <1>1, <1>2, <1>4 DEF HostInv
<1>7. HostMove(s)
  BY <1>2, <1>3, <1>6 DEF HostMove, HostPhase, HostAgent
<1>8. HostInv(s)'
  <2>1. creator'[s] \in {"launch", "idle"} /\ (creator'[s] = "launch" => disk'[s].state = "starting")
    BY <1>3, <1>4, <1>6 DEF HostShape
  <2>2. HostFileFollows(s)' /\ ~ HostCleaning(s)'
    BY <1>2, <1>3, <1>6 DEF HostFileFollows, HostCleaning
  <2> QED
    BY <1>2, <1>3, <1>6, <2>1, <2>2 DEF HostInv, HostCleaning
<1> QED
  BY <1>5, <1>7, <1>8

LEMMA HostConfirms ==
    ASSUME HostShape, NEW s \in Session, HostInv(s), Host!ConfirmRunning(s)
    PROVE  HostFrame(s) /\ HostInv(s)' /\ HostMove(s)
<1>1. /\ controller' = controller /\ UNCHANGED <<grant, spool, workload, launched, closer, pruned>>
      /\ creator' = [creator EXCEPT ![s] = "idle"] /\ controller # "down"
  BY DEF Host!ConfirmRunning, Host!ToCreator, HostInv
<1>2. CASE UNCHANGED <<record, disk>>
  <2>1. HostCallStep(s) /\ creator'[s] = "idle"
    BY <1>1 DEF HostCallStep, HostShape
  <2> QED
    BY <1>1, <1>2, <2>1, HostCalls
<1>3. CASE ~ UNCHANGED <<record, disk>>
  <2>1. PICK r : /\ r = [record[s] EXCEPT !.state = "running"]
                 /\ Host!save(s, r) \/ Host!saveFails(s, r)
                 /\ record[s].state \in {"starting", "running"}
    BY <1>3 DEF Host!ConfirmRunning, Host!Live
  <2>2. /\ DOMAIN record' = Session /\ DOMAIN disk' = Session
        /\ record'[s] = r /\ disk'[s] \in {r, disk[s]}
        /\ \A t \in Session \ {s} : record'[t] = record[t] /\ disk'[t] = disk[t]
    BY <2>1, HostWrites
  <2>3. HostFrame(s)
    BY <1>1, <2>2 DEF HostFrame, HostShape
  <2>4. /\ disk[s].state \in {"none", "starting", "running"} /\ ~ pruned[s] /\ ~ HostCleaning(s)
    BY <1>1, <2>1 DEF HostInv, HostFileFollows
  <2>5. /\ record'[s].state = "running" /\ disk'[s].state \in {"running", disk[s].state}
        /\ DOMAIN record'[s] = {"state", "acked"} /\ DOMAIN disk'[s] = {"state", "acked"}
    BY <2>1, <2>2 DEF HostInv
  <2>6. HostMove(s)
    BY <1>1, <2>4, <2>5 DEF HostMove, HostPhase, HostAgent
  <2>7. HostFileFollows(s)' /\ ~ HostCleaning(s)' /\ creator'[s] = "idle"
    BY <1>1, <2>4, <2>5 DEF HostFileFollows, HostCleaning, HostShape
  <2>8. HostInv(s)'
    BY <1>1, <2>4, <2>5, <2>7 DEF HostInv, HostCleaning
  <2> QED
    BY <2>3, <2>6, <2>8
<1> QED
  BY <1>2, <1>3

LEMMA HostLaunches ==
    ASSUME HostShape, NEW s \in Session, HostInv(s), Host!Start(s)
    PROVE  HostFrame(s) /\ HostInv(s)' /\ HostMove(s)
<1>1. /\ record[s].state = "starting" /\ disk[s].state = "starting" /\ ~ launched[s]
      /\ ~ HostCleaning(s) /\ workload[s] # "running" /\ ~ pruned[s] /\ controller # "down"
  BY DEF Host!Start, HostInv
<1>2. /\ controller' = controller /\ UNCHANGED <<record, disk, grant, spool, closer, pruned>>
      /\ \E pc \in {"poll", "idle"} : creator' = [creator EXCEPT ![s] = pc]
      /\ \/ /\ workload' = [workload EXCEPT ![s] = "running"]
            /\ launched' = [launched EXCEPT ![s] = TRUE]
         \/ /\ \E w \in {"none", "created"} : workload' = [workload EXCEPT ![s] = w]
            /\ UNCHANGED launched
         \/ UNCHANGED <<workload, launched>>
  BY DEF Host!Start, Host!StartProcess, Host!StartContainer, Host!Launched, Host!ToCreator, Host!files
<1>3. HostFrame(s)
  BY <1>2 DEF HostFrame, HostShape
<1>4. HostMove(s)
  BY <1>1, <1>2 DEF HostMove, HostPhase, HostAgent, HostShape
<1>5. /\ HostFileFollows(s)' /\ ~ HostCleaning(s)' /\ creator'[s] \in {"poll", "idle"}
      /\ workload'[s] = "running" => launched'[s]
  BY <1>1, <1>2 DEF HostFileFollows, HostCleaning, HostShape, HostInv
<1>6. HostInv(s)'
  BY <1>1, <1>2, <1>5 DEF HostInv, HostCleaning
<1> QED
  BY <1>3, <1>4, <1>6

LEMMA HostCloses ==
    ASSUME HostShape, NEW s \in Session, HostInv(s), Host!CloseSession(s)
    PROVE  HostFrame(s) /\ HostInv(s)' /\ HostMove(s)
<1>1. PICK r : r = Host!Stopped(s)
  OBVIOUS
<1>2. /\ controller' = controller /\ controller = "up" /\ ~ pruned[s]
      /\ UNCHANGED <<grant, spool, workload, launched, creator, pruned>>
      /\ creator[s] \notin {"ready", "launch"}
  BY DEF Host!CloseSession, Host!Locked
<1>3. \/ Host!save(s, r) /\ Host!ToCloser(s, "cleanup")
      \/ Host!saveFails(s, r) /\ Host!ToCloser(s, "idle")
  BY <1>1 DEF Host!CloseSession
<1>4. /\ DOMAIN record' = Session /\ DOMAIN disk' = Session
      /\ record'[s] = r /\ disk'[s] \in {r, disk[s]}
      /\ Host!save(s, r) => disk'[s] = r
      /\ \A t \in Session \ {s} : record'[t] = record[t] /\ disk'[t] = disk[t]
  BY <1>3, HostWrites
<1>5. /\ DOMAIN closer' = Session /\ \A t \in Session \ {s} : closer'[t] = closer[t]
      /\ closer'[s].pc \in {"idle", "cleanup"}
      /\ closer'[s].pc = "cleanup" => disk'[s] = r
  BY <1>3, <1>4 DEF Host!ToCloser, HostShape
<1>6. HostFrame(s)
  BY <1>2, <1>4, <1>5 DEF HostFrame, HostShape
<1>7. /\ DOMAIN r = {"state", "acked"}
      /\ r.state = IF record[s].state = "closed" THEN "closed" ELSE "stopping"
  BY <1>1 DEF Host!Stopped, HostInv
<1>8. /\ DOMAIN record'[s] = {"state", "acked"} /\ DOMAIN disk'[s] = {"state", "acked"}
      /\ record'[s].state = r.state /\ disk'[s].state \in {r.state, disk[s].state}
  BY <1>4, <1>7 DEF HostInv
<1>9. HostFileFollows(s)
  BY <1>2 DEF HostInv
<1>10. HostFileFollows(s)'
  BY <1>7, <1>8, <1>9 DEF HostFileFollows
<1>11. disk'[s].state = "closed" => HostQuiet(s)
  BY <1>7, <1>8 DEF HostInv
<1>12. HostMove(s)
  BY <1>2, <1>7, <1>8, <1>9, <1>11 DEF HostMove, HostPhase, HostAgent, HostFileFollows, HostQuiet
<1>13. HostInv(s)'
  <2>1. HostQuiet(s)' = HostQuiet(s)
    BY <1>2 DEF HostQuiet
  <2>2. HostCleaning(s)' => closer'[s].pc = "cleanup"
    BY <1>5 DEF HostCleaning
  <2>3. record'[s].state = "closed" => HostQuiet(s)
    BY <1>7, <1>8 DEF HostInv
  <2> QED
    BY <1>2, <1>5, <1>7, <1>8, <1>10, <1>11, <2>1, <2>2, <2>3 DEF HostInv
<1> QED
  BY <1>6, <1>12, <1>13

LEMMA HostDrains ==
    ASSUME HostShape, NEW s \in Session, HostInv(s), Host!DrainAudit(s)
    PROVE  HostFrame(s) /\ HostInv(s)' /\ HostMove(s)
<1>1. /\ controller' = controller /\ UNCHANGED <<record, disk, launched, creator, pruned>>
      /\ spool' = [spool EXCEPT ![s] = FALSE] /\ grant' = [grant EXCEPT ![s] = FALSE]
      /\ \E w : w \in {workload[s], "none"} /\ workload' = [workload EXCEPT ![s] = w]
      /\ workload[s] # "running" /\ closer[s].pc = "drain"
  BY Zenon DEF Host!DrainAudit, Host!Remove, Host!Running
<1>2. /\ DOMAIN closer' = Session /\ \A t \in Session \ {s} : closer'[t] = closer[t]
      /\ closer'[s].pc = "finish"
  BY DEF Host!DrainAudit, Host!ToCloser, HostShape
<1>3. HostFrame(s)
  BY <1>1, <1>2 DEF HostFrame, HostShape
<1>4. HostQuiet(s)' /\ workload'[s] # "running"
  BY <1>1 DEF HostQuiet, HostShape
<1>5. HostMove(s)
  BY <1>1, <1>4 DEF HostMove, HostPhase, HostAgent
<1>6. HostCleaning(s) /\ HostCleaning(s)' /\ HostFileFollows(s)' = HostFileFollows(s)
  BY <1>1, <1>2 DEF HostCleaning, HostFileFollows
<1>7. HostInv(s)'
  BY <1>1, <1>2, <1>4, <1>6 DEF HostInv
<1> QED
  BY <1>3, <1>5, <1>7

\* FinishClose and AcknowledgeClosure write a closed record.
LEMMA HostWritesClosed ==
    ASSUME HostShape, NEW s \in Session, HostInv(s), controller' = controller, controller # "down",
           UNCHANGED <<grant, spool, workload, launched, creator, pruned>>, HostQuiet(s),
           disk[s].state \in {"stopping", "closed"},
           NEW r, r.state = "closed", DOMAIN r = {"state", "acked"},
           Host!save(s, r) \/ Host!saveFails(s, r),
           DOMAIN closer' = Session, \A t \in Session \ {s} : closer'[t] = closer[t],
           \/ ~ HostCleaning(s)'
           \/ UNCHANGED closer /\ disk[s].state = record[s].state /\ record[s].state = "closed"
    PROVE  HostFrame(s) /\ HostInv(s)' /\ HostMove(s)
<1>1. /\ DOMAIN record' = Session /\ DOMAIN disk' = Session
      /\ record'[s] = r /\ disk'[s] \in {r, disk[s]}
      /\ \A t \in Session \ {s} : record'[t] = record[t] /\ disk'[t] = disk[t]
  BY HostWrites
<1>2. HostFrame(s)
  BY <1>1 DEF HostFrame, HostShape
<1>3. /\ DOMAIN record'[s] = {"state", "acked"} /\ DOMAIN disk'[s] = {"state", "acked"}
      /\ record'[s].state = "closed" /\ disk'[s].state \in {"closed", disk[s].state}
  BY <1>1 DEF HostInv
<1>4. ~ pruned[s] /\ HostAgent(s) # "up"
  BY DEF HostInv, HostAgent, HostQuiet
<1>5. HostMove(s)
  BY <1>3, <1>4 DEF HostMove, HostPhase, HostAgent
<1>6. HostFileFollows(s)' /\ HostQuiet(s)'
  BY <1>3 DEF HostFileFollows, HostQuiet
<1>7. creator[s] \notin {"ready", "launch"}
  BY DEF HostInv, HostFileFollows
<1>8. HostCleaning(s)' => disk'[s].state = "closed"
  BY <1>3
<1>9. HostInv(s)'
  BY <1>3, <1>4, <1>6, <1>7, <1>8 DEF HostInv
<1> QED
  BY <1>2, <1>5, <1>9

LEMMA HostFinishes ==
    ASSUME HostShape, NEW s \in Session, HostInv(s),
           Host!FinishClose(s) \/ Host!AcknowledgeClosure(s)
    PROVE  HostFrame(s) /\ HostInv(s)' /\ HostMove(s)
<1>1. CASE Host!FinishClose(s)
  <2>1. PICK r : r = [record[s] EXCEPT !.state = "closed"]
    BY Zenon
  <2>2. r.state = "closed" /\ DOMAIN r = {"state", "acked"}
    BY <2>1 DEF HostInv
  <2>3. /\ controller' = controller /\ closer[s].pc = "finish"
        /\ UNCHANGED <<grant, spool, workload, launched, creator, pruned>>
        /\ Host!save(s, r) \/ Host!saveFails(s, r)
    BY <1>1, <2>1 DEF Host!FinishClose
  <2>4. /\ DOMAIN closer' = Session /\ \A t \in Session \ {s} : closer'[t] = closer[t]
        /\ closer'[s].pc \in {"prune", "idle"}
    BY <1>1 DEF Host!FinishClose, Host!ToCloser, HostShape
  <2>5. /\ HostCleaning(s) /\ ~ HostCleaning(s)' /\ HostQuiet(s) /\ controller # "down"
    BY <2>3, <2>4 DEF HostCleaning, HostInv
  <2>6. disk[s].state \in {"stopping", "closed"}
    BY <2>5 DEF HostInv
  <2> QED
    BY <2>2, <2>3, <2>4, <2>5, <2>6, HostWritesClosed
<1>2. CASE Host!AcknowledgeClosure(s)
  <2>1. PICK r : r = [record[s] EXCEPT !.acked = TRUE]
    BY Zenon
  <2>2. r.state = "closed" /\ DOMAIN r = {"state", "acked"}
    BY <1>2, <2>1 DEF Host!AcknowledgeClosure, HostInv
  <2>3. /\ controller' = controller /\ controller # "down" /\ record[s].state = "closed"
        /\ UNCHANGED <<grant, spool, workload, launched, creator, closer, pruned>>
        /\ Host!save(s, r) \/ Host!saveFails(s, r)
    BY <1>2, <2>1 DEF Host!AcknowledgeClosure, Host!calls
  <2>4. /\ HostQuiet(s) /\ disk[s].state \in {"stopping", "closed"}
        /\ HostCleaning(s) => disk[s].state = record[s].state
    BY <2>3 DEF HostInv, HostFileFollows
  <2>5. HostCleaning(s)' = HostCleaning(s)
    BY <2>3 DEF HostCleaning
  <2> QED
    BY <2>2, <2>3, <2>4, <2>5, HostWritesClosed DEF HostShape
<1> QED
  BY <1>1, <1>2

LEMMA HostPrunes ==
    ASSUME HostShape, NEW s \in Session, HostInv(s), Host!prune(s)
    PROVE  HostFrame(s) /\ HostInv(s)' /\ HostMove(s)
<1>1. /\ controller' = controller /\ UNCHANGED <<grant, workload, launched, creator>>
      /\ closer[s].pc = "prune" /\ controller # "down"
  BY DEF Host!prune, HostInv
<1>2. /\ DOMAIN closer' = Session /\ \A t \in Session \ {s} : closer'[t] = closer[t]
      /\ closer'[s].pc = "idle"
  BY DEF Host!prune, Host!ToCloser, HostShape
<1>3. CASE UNCHANGED <<record, disk, spool, pruned>>
  <2>1. HostCallStep(s)
    BY <1>1, <1>2 DEF HostCallStep, HostShape
  <2>2. creator'[s] \in {"ready", "launch"} => ~ HostCleaning(s)
    BY <1>1 DEF HostInv
  <2> QED
    BY <1>1, <1>2, <1>3, <2>1, <2>2, HostCalls
<1>4. CASE ~ UNCHANGED <<record, disk, spool, pruned>>
  <2>1. /\ record[s].state = "closed" /\ creator[s] \notin {"ready", "launch"}
        /\ record' = [record EXCEPT ![s] = Host!NoRecord] /\ disk' = [disk EXCEPT ![s] = Host!NoRecord]
        /\ spool' = [spool EXCEPT ![s] = FALSE] /\ pruned' = [pruned EXCEPT ![s] = TRUE]
    BY <1>4 DEF Host!prune, Host!Locked
  <2>2. HostFrame(s)
    BY <1>1, <1>2, <2>1 DEF HostFrame, HostShape
  <2>3. /\ DOMAIN record'[s] = {"state", "acked"} /\ DOMAIN disk'[s] = {"state", "acked"}
        /\ record'[s].state = "none" /\ disk'[s].state = "none" /\ pruned'[s] /\ ~ spool'[s]
    BY <2>1 DEF Host!NoRecord, HostShape
  <2>4. HostQuiet(s) /\ disk[s].state \in {"stopping", "closed"}
    BY <1>1, <2>1 DEF HostInv, HostFileFollows
  <2>5. HostQuiet(s)'
    BY <1>1, <2>3, <2>4 DEF HostQuiet
  <2>6. HostMove(s)
    BY <1>1, <2>3, <2>4 DEF HostMove, HostPhase, HostAgent, HostQuiet, HostInv
  <2>7. HostFileFollows(s)' /\ ~ HostCleaning(s)'
    BY <1>2, <2>3 DEF HostFileFollows, HostCleaning
  <2>8. HostInv(s)'
    BY <1>1, <1>2, <2>1, <2>3, <2>5, <2>7 DEF HostInv, HostQuiet
  <2> QED
    BY <2>2, <2>6, <2>8
<1> QED
  BY <1>3, <1>4

\* The agent and the clocks.
LEMMA HostEnvironment ==
    ASSUME HostShape, NEW s \in Session, HostInv(s), Host!Environment(s)
    PROVE  HostFrame(s) /\ HostInv(s)' /\ HostMove(s)
<1>1. controller' = controller /\ UNCHANGED <<record, disk, grant, launched, creator, closer, pruned>>
  BY DEF Host!Environment, Host!AgentAudits, Host!AgentExits, Host!Expire, Host!StartupTimeoutPasses,
         Host!RetentionPasses, Host!files, Host!calls
<1>2. /\ HostFileFollows(s)' = HostFileFollows(s) /\ HostCleaning(s)' = HostCleaning(s)
  BY <1>1 DEF HostFileFollows, HostCleaning
<1>3. CASE UNCHANGED <<spool, workload>>
  <2>1. HostCallStep(s)
    BY <1>1 DEF HostCallStep, HostShape
  <2>2. HostQuiet(s)' = HostQuiet(s)
    BY <1>1, <1>3 DEF HostQuiet
  <2>3. HostFrame(s) /\ HostMove(s)
    BY <1>1, <1>3 DEF HostFrame, HostShape, HostMove, HostPhase, HostAgent
  <2>4. HostInv(s)'
    BY <1>1, <1>2, <1>3, <2>2 DEF HostInv
  <2> QED
    BY <2>3, <2>4
<1>4. CASE workload[s] = "running" /\ UNCHANGED workload
           /\ \E pending : spool' = [spool EXCEPT ![s] = pending]
  <2>1. HostFrame(s) /\ HostMove(s)
    BY <1>1, <1>4 DEF HostFrame, HostShape, HostMove, HostPhase, HostAgent
  <2>2. ~ HostQuiet(s)
    BY <1>4 DEF HostQuiet
  <2>3. HostInv(s)'
    BY <1>1, <1>2, <1>4, <2>2 DEF HostInv
  <2> QED
    BY <2>1, <2>3
<1>5. CASE workload[s] = "running" /\ UNCHANGED spool
           /\ workload' = [workload EXCEPT ![s] = "exited"]
  <2>1. workload'[s] = "exited" /\ launched[s]
    BY <1>5 DEF HostShape, HostInv
  <2>2. HostFrame(s) /\ HostMove(s)
    BY <1>1, <1>5, <2>1 DEF HostFrame, HostShape, HostMove, HostPhase, HostAgent
  <2>3. ~ HostQuiet(s)
    BY <1>5 DEF HostQuiet
  <2>4. HostInv(s)'
    BY <1>1, <1>2, <2>1, <2>3 DEF HostInv
  <2> QED
    BY <2>2, <2>4
<1> QED
  BY <1>3, <1>4, <1>5 DEF Host!Environment, Host!AgentAudits, Host!AgentExits, Host!Expire,
     Host!StartupTimeoutPasses, Host!RetentionPasses, Host!files, Host!Running

\* The controller closes, ends and starts again: the files stay.
LEMMA HostProcess ==
    ASSUME HostAll, Host!Close \/ Host!ControllerEnds \/ Host!load
    PROVE  HostAll' /\ \A s \in Session : HostMove(s)
<1>1. UNCHANGED <<disk, grant, spool, workload, launched, pruned>>
  BY DEF Host!Close, Host!ControllerEnds, Host!load, Host!files
<1>2. \A s \in Session : HostMove(s)
  BY <1>1 DEF HostMove, HostPhase, HostAgent
<1>3. \A s \in Session : HostQuiet(s)' = HostQuiet(s)
  BY <1>1 DEF HostQuiet
<1>4. CASE Host!Close
  <2>1. UNCHANGED <<record, creator, closer>> /\ controller = "up" /\ controller' = "closed"
    BY <1>4 DEF Host!Close, Host!calls
  <2>2. \A s \in Session : /\ HostFileFollows(s)' = HostFileFollows(s)
                           /\ HostCleaning(s)' = HostCleaning(s)
    BY <1>1, <2>1 DEF HostFileFollows, HostCleaning
  <2>3. \A s \in Session : HostInv(s)'
    BY <1>1, <1>3, <2>1, <2>2 DEF HostAll, HostInv
  <2> QED
    BY <1>1, <1>2, <2>1, <2>3 DEF HostAll, HostShape
<1>5. CASE Host!ControllerEnds
  <2>1. /\ controller' = "down"
        /\ record' = [s \in Session |-> Host!NoRecord] /\ creator' = [s \in Session |-> "idle"]
        /\ closer' = [s \in Session |-> Host!NoCall]
    BY <1>5 DEF Host!ControllerEnds
  <2>2. \A s \in Session : /\ DOMAIN record'[s] = {"state", "acked"} /\ record'[s].state = "none"
                           /\ creator'[s] = "idle" /\ closer'[s].pc = "idle" /\ ~ HostCleaning(s)'
    BY <2>1 DEF Host!NoRecord, Host!NoCall, HostCleaning
  <2>3. \A s \in Session : HostInv(s)'
    BY <1>1, <1>3, <2>1, <2>2 DEF HostAll, HostInv
  <2> QED
    BY <1>1, <1>2, <2>1, <2>3 DEF HostAll, HostShape
<1>6. CASE Host!load
  <2>1. controller = "down" /\ controller' = "up" /\ record' = disk /\ UNCHANGED <<creator, closer>>
    BY <1>6 DEF Host!load, Host!calls
  <2>2. \A s \in Session : HostFileFollows(s)' /\ ~ HostCleaning(s)'
    BY <1>1, <2>1 DEF HostAll, HostInv, HostFileFollows, HostCleaning
  <2>3. \A s \in Session : creator[s] = "idle" /\ closer[s].pc = "idle"
    BY <2>1 DEF HostAll, HostInv
  <2>4. \A s \in Session : HostInv(s)'
    BY <1>1, <1>3, <2>1, <2>2, <2>3 DEF HostAll, HostInv
  <2> QED
    BY <1>1, <1>2, <2>1, <2>4 DEF HostAll, HostShape
<1> QED
  BY <1>4, <1>5, <1>6

\* A step of one session leaves the others where they are.
LEMMA HostOthers ==
    ASSUME HostAll, NEW s \in Session, HostFrame(s), HostInv(s)', HostMove(s)
    PROVE  HostAll' /\ \A t \in Session : HostMove(t)
<1>1. ASSUME NEW t \in Session, t # s
      PROVE  HostInv(t)' /\ HostMove(t)
  <2>1. /\ controller' = controller
        /\ record'[t] = record[t] /\ disk'[t] = disk[t]
        /\ grant'[t] = grant[t] /\ spool'[t] = spool[t]
        /\ workload'[t] = workload[t] /\ launched'[t] = launched[t]
        /\ creator'[t] = creator[t] /\ closer'[t] = closer[t] /\ pruned'[t] = pruned[t]
    BY <1>1 DEF HostFrame
  <2>2. /\ HostQuiet(t)' = HostQuiet(t) /\ HostFileFollows(t)' = HostFileFollows(t)
        /\ HostCleaning(t)' = HostCleaning(t)
    BY <2>1 DEF HostQuiet, HostFileFollows, HostCleaning
  <2>3. HostInv(t)'
    BY <2>1, <2>2 DEF HostAll, HostInv
  <2>4. HostMove(t)
    BY <2>1 DEF HostMove, HostPhase, HostAgent
  <2> QED
    BY <2>3, <2>4
<1> QED
  BY <1>1 DEF HostAll, HostFrame

LEMMA HostStep ==
    ASSUME HostAll, [Next]_vars
    PROVE  HostAll' /\ \A s \in Session : HostMove(s)
<1>1. CASE UNCHANGED hostVars
  <2>1. \A s \in Session : /\ HostQuiet(s)' = HostQuiet(s) /\ HostFileFollows(s)' = HostFileFollows(s)
                           /\ HostCleaning(s)' = HostCleaning(s)
    BY <1>1 DEF hostVars, HostQuiet, HostFileFollows, HostCleaning
  <2>2. \A s \in Session : HostInv(s)'
    BY <1>1, <2>1 DEF hostVars, HostAll, HostInv
  <2>3. \A s \in Session : HostMove(s)
    BY <1>1 DEF hostVars, HostMove, HostPhase, HostAgent
  <2> QED
    BY <1>1, <2>2, <2>3 DEF hostVars, HostAll, HostShape
<1>2. CASE Host!Next
  <2>1. ASSUME NEW s \in Session, Host!Create(s) \/ Host!Clean(s) \/ Host!Environment(s)
        PROVE  HostAll' /\ \A t \in Session : HostMove(t)
    <3>1. HostShape /\ HostInv(s)
      BY DEF HostAll
    <3>2. HostFrame(s) /\ HostInv(s)' /\ HostMove(s)
      BY <2>1, <3>1, HostQuietCalls, HostPersists, HostConfirms, HostLaunches, HostCloses, HostDrains,
         HostFinishes, HostPrunes, HostEnvironment DEF Host!Create, Host!Clean
    <3> QED
      BY <3>2, HostOthers
  <2> QED
    BY <1>2, <2>1, HostProcess DEF Host!Next
<1> QED
  BY <1>1, <1>2 DEF Next, vars

LEMMA HostInitially ==
    ASSUME Init
    PROVE  HostAll /\ \A s \in Session : HostPhase(s) = "new" /\ HostAgent(s) = "none"
<1>1. Host!Init
  BY DEF Init
<1>2. HostShape
  BY <1>1 DEF Host!Init, HostShape
<1>3. ASSUME NEW s \in Session
      PROVE  HostInv(s) /\ HostPhase(s) = "new" /\ HostAgent(s) = "none"
  <2>1. /\ record[s] = [state |-> "none", acked |-> FALSE] /\ disk[s] = [state |-> "none", acked |-> FALSE]
        /\ ~ grant[s] /\ ~ spool[s] /\ workload[s] = "none" /\ ~ launched[s] /\ ~ pruned[s]
        /\ creator[s] = "idle" /\ closer[s] = [pc |-> "idle", acked |-> FALSE] /\ controller = "up"
    BY <1>1 DEF Host!Init, Host!NoRecord, Host!NoCall
  <2> QED
    BY <2>1 DEF HostInv, HostFileFollows, HostCleaning, HostQuiet, HostPhase, HostAgent
<1> QED
  BY <1>2, <1>3 DEF HostAll

LEMMA HostHolds == Spec => []HostAll
<1>1. Init => HostAll
  BY HostInitially
<1>2. HostAll /\ [Next]_vars => HostAll'
  BY HostStep
<1> QED
  BY <1>1, <1>2, PTL DEF Spec

LEMMA HostImplements == Spec => HostPromise!Spec
<1>1. Init => HostPromise!Init
  BY HostInitially DEF HostPromise!Init
<1>2. HostAll /\ [Next]_vars => [HostPromise!Next]_(HostPromise!vars)
  <2> SUFFICES ASSUME HostAll, [Next]_vars
               PROVE  HostPromise!Next
    OBVIOUS
  <2>1. ASSUME NEW s \in Session
        PROVE  \/ HostPromise!Grant(s) \/ HostPromise!Launch(s) \/ HostPromise!Exit(s)
               \/ HostPromise!Revoke(s) \/ HostPromise!Settle(s) \/ HostPromise!Repeat(s)
               \/ HostPromise!Stays(s)
    <3>1. HostMove(s)
      BY HostStep
    <3> QED
      BY <3>1 DEF HostMove, HostPromise!Grant, HostPromise!Launch, HostPromise!Exit,
         HostPromise!Revoke, HostPromise!Settle, HostPromise!Stays, HostPromise!Advance
  <2> QED
    BY <2>1 DEF HostPromise!Next
<1> QED
  BY <1>1, <1>2, HostHolds, PTL DEF Spec, HostPromise!Spec

\* A host record that says closed on disk has nothing left: no workload, no
\* grant, no audit to deliver, whatever failed or crashed before (host.go
\* cleanup).
THEOREM ClosedRecordsAreDrained == Spec => []ClosedIsDrained
<1>1. HostAll => ClosedIsDrained
  BY DEF HostAll, HostInv, HostQuiet, ClosedIsDrained
<1> QED
  BY <1>1, HostHolds, PTL

-----------------------------------------------------------------------------
\* The Kubernetes client.

PodShape ==
    /\ DOMAIN configMap = PodSession /\ DOMAIN pod = PodSession /\ DOMAIN started = PodSession
    /\ DOMAIN drainable = PodSession /\ DOMAIN podPruned = PodSession
    /\ DOMAIN create = Creator /\ \A c \in Creator : DOMAIN create[c] = {"pc", "s"}
    /\ DOMAIN clean = Closer /\ \A x \in Closer : DOMAIN clean[x] = {"pc", "s", "acked"}

\* No call of CreateApprovedSession is in progress.
NoCreator(s) == \A c \in Creator : create[c].s = s => create[c].pc = "idle"

\* A closing call has passed closeRecord.
Deleting(s) == \E x \in Closer : clean[x].s = s /\ clean[x].pc \notin {"idle", "close"}

Revoked(s) == configMap[s].state = "closed" \/ podPruned[s]

PodInv(s) ==
    /\ DOMAIN configMap[s] = {"state", "bound", "acked", "drained"}
    /\ configMap[s].state \in {"none", "active", "closed"}
    /\ configMap[s].drained => configMap[s].state = "closed"
    /\ configMap[s].drained \/ podPruned[s] => pod[s] = "absent" /\ drainable[s]
    /\ podPruned[s] => configMap[s].state = "none"
    /\ drainable[s] => Revoked(s) /\ NoCreator(s)
    /\ Deleting(s) => Revoked(s)
    /\ configMap[s].state = "none" /\ ~ podPruned[s] =>
        pod[s] = "absent" /\ ~ started[s] /\ NoCreator(s)
    /\ configMap[s].state = "active" /\ pod[s] \in {"absent", "pending"} => ~ started[s]
    /\ pod[s] \in {"ready", "terminating"} => started[s]
    /\ pod[s] = "terminating" => configMap[s].state # "active"

PodMove(s) ==
    \/ PodPhase(s)' = PodPhase(s) /\ PodAgent(s)' = PodAgent(s)
    \/ /\ PodAgent(s)' = PodAgent(s)
       /\ \/ PodPhase(s) = "new" /\ PodPhase(s)' = "granted"
          \/ PodPhase(s) \in {"new", "granted"} /\ PodPhase(s)' = "revoked"
          \/ PodPhase(s) = "revoked" /\ PodPhase(s)' = "settled" /\ PodAgent(s) # "up"
    \/ /\ PodPhase(s)' = PodPhase(s)
       /\ \/ PodPhase(s) = "granted" /\ PodAgent(s) = "none" /\ PodAgent(s)' = "up"
          \/ PodPhase(s) = "revoked" /\ PodAgent(s) # "up" /\ PodAgent(s)' = "up"
          \/ PodAgent(s) = "up" /\ PodAgent(s)' = "down"

PodAll == PodShape /\ \A s \in PodSession : PodInv(s)

\* Calls go on or end; none passes ensureRecord or closeRecord.
PodCallsGoOn ==
    /\ DOMAIN create' = Creator /\ \A c \in Creator : DOMAIN create'[c] = {"pc", "s"}
    /\ DOMAIN clean' = Closer /\ \A x \in Closer : DOMAIN clean'[x] = {"pc", "s", "acked"}
    /\ \A t \in PodSession : (NoCreator(t) => NoCreator(t)') /\ (Deleting(t)' => Deleting(t))

PodFrame(s) ==
    /\ PodShape'
    /\ \A t \in PodSession \ {s} :
        /\ configMap'[t] = configMap[t] /\ pod'[t] = pod[t] /\ started'[t] = started[t]
        /\ drainable'[t] = drainable[t] /\ podPruned'[t] = podPruned[t]
        /\ NoCreator(t) => NoCreator(t)'
        /\ Deleting(t)' => Deleting(t)

LEMMA CreateGoesOn ==
    ASSUME PodShape, NEW c \in Creator, create[c].pc # "idle", NEW to, Kube!ToCreate(c, to),
           UNCHANGED clean
    PROVE  PodCallsGoOn
<1>1. /\ DOMAIN create' = Creator /\ \A d \in Creator : DOMAIN create'[d] = {"pc", "s"}
      /\ \A d \in Creator : create'[d].s = create[d].s /\ (d # c => create'[d] = create[d])
  BY DEF PodShape, Kube!ToCreate
<1>2. ASSUME NEW t \in PodSession, NoCreator(t)
      PROVE  NoCreator(t)'
  BY <1>1, <1>2 DEF NoCreator
<1>3. ASSUME NEW t \in PodSession
      PROVE  Deleting(t)' = Deleting(t)
  BY DEF Deleting
<1> QED
  BY <1>1, <1>2, <1>3 DEF PodCallsGoOn, PodShape

LEMMA CleanGoesOn ==
    ASSUME PodShape, NEW x \in Closer, UNCHANGED create,
           \/ \E pc : Kube!ToClean(x, pc) /\ clean[x].pc \notin {"idle", "close"}
           \/ Kube!ToIdle(x)
    PROVE  PodCallsGoOn
<1>1. /\ DOMAIN clean' = Closer /\ \A y \in Closer : DOMAIN clean'[y] = {"pc", "s", "acked"}
      /\ \A y \in Closer : clean'[y].s = clean[y].s /\ (y # x => clean'[y] = clean[y])
  BY DEF PodShape, Kube!ToClean, Kube!ToIdle
<1>2. clean[x].pc \notin {"idle", "close"} \/ clean'[x].pc = "idle"
  BY DEF PodShape, Kube!ToIdle
<1>3. ASSUME NEW t \in PodSession
      PROVE  NoCreator(t)' = NoCreator(t)
  BY DEF NoCreator
<1>4. ASSUME NEW t \in PodSession, Deleting(t)'
      PROVE  Deleting(t)
  BY <1>1, <1>2, <1>4 DEF Deleting
<1> QED
  BY <1>1, <1>3, <1>4 DEF PodCallsGoOn, PodShape

LEMMA PodCallsStay ==
    ASSUME PodShape, UNCHANGED <<create, clean>>
    PROVE  PodCallsGoOn
<1>1. ASSUME NEW t \in PodSession
      PROVE  NoCreator(t)' = NoCreator(t) /\ Deleting(t)' = Deleting(t)
  BY DEF NoCreator, Deleting
<1> QED
  BY <1>1 DEF PodCallsGoOn, PodShape

\* A step of one session leaves the others where they are.
LEMMA PodOthers ==
    ASSUME PodAll, NEW s \in PodSession, PodFrame(s), PodInv(s)', PodMove(s)
    PROVE  PodAll' /\ \A t \in PodSession : PodMove(t)
<1>1. ASSUME NEW t \in PodSession, t # s
      PROVE  PodInv(t)' /\ PodMove(t)
  <2>1. /\ configMap'[t] = configMap[t] /\ pod'[t] = pod[t] /\ started'[t] = started[t]
        /\ drainable'[t] = drainable[t] /\ podPruned'[t] = podPruned[t]
        /\ NoCreator(t) => NoCreator(t)'
        /\ Deleting(t)' => Deleting(t)
    BY <1>1 DEF PodFrame
  <2>2. Revoked(t)' = Revoked(t)
    BY <2>1 DEF Revoked
  <2>3. PodInv(t)'
    BY <2>1, <2>2 DEF PodAll, PodInv
  <2>4. PodMove(t)
    BY <2>1 DEF PodMove, PodPhase, PodAgent, Kube!Settled
  <2> QED
    BY <2>3, <2>4
<1> QED
  BY <1>1 DEF PodAll, PodFrame

\* A step that changes no more than the calls, the Secret, the Service or a clock.
LEMMA PodQuiet ==
    ASSUME PodAll, UNCHANGED <<configMap, pod, started, drainable, podPruned>>, PodCallsGoOn
    PROVE  PodAll' /\ \A t \in PodSession : PodMove(t)
<1>1. ASSUME NEW t \in PodSession
      PROVE  PodInv(t)' /\ PodMove(t)
  <2>1. Revoked(t)' = Revoked(t) /\ (NoCreator(t) => NoCreator(t)') /\ (Deleting(t)' => Deleting(t))
    BY DEF Revoked, PodCallsGoOn
  <2>2. PodInv(t)'
    BY <2>1 DEF PodAll, PodInv
  <2>3. PodMove(t)
    BY DEF PodMove, PodPhase, PodAgent, Kube!Settled
  <2> QED
    BY <2>2, <2>3
<1> QED
  BY <1>1 DEF PodAll, PodShape, PodCallsGoOn

LEMMA PodCreateQuiet ==
    ASSUME PodAll, NEW c \in Creator, NEW s \in PodSession,
           \/ Kube!ensureSecret(c, s) \/ Kube!CheckPod(c, s) \/ Kube!AwaitReady(c, s)
           \/ Kube!ensureService(c, s) \/ Kube!CreateService(c, s) \/ Kube!endpointsReady(c, s)
           \/ Kube!CreateEnds(c)
    PROVE  PodAll' /\ \A t \in PodSession : PodMove(t)
<1>1. create[c].pc # "idle"
  BY DEF Kube!ensureSecret, Kube!CheckPod, Kube!AwaitReady, Kube!ensureService,
         Kube!CreateService, Kube!endpointsReady, Kube!CreateEnds
<1>2. \E to : Kube!ToCreate(c, to)
  BY DEF Kube!ensureSecret, Kube!CheckPod, Kube!AwaitReady, Kube!ensureService,
         Kube!CreateService, Kube!endpointsReady, Kube!CreateEnds
<1>3. UNCHANGED <<configMap, pod, started, drainable, podPruned, clean>>
  BY DEF Kube!ensureSecret, Kube!CheckPod, Kube!AwaitReady, Kube!ensureService,
         Kube!CreateService, Kube!endpointsReady, Kube!CreateEnds, Kube!objects, Kube!clocks
<1> QED
  BY <1>1, <1>2, <1>3, CreateGoesOn, PodQuiet DEF PodAll

LEMMA PodCleanQuiet ==
    ASSUME PodAll, NEW x \in Closer, NEW s \in PodSession,
           \/ Kube!DeleteService(x, s) \/ Kube!AwaitPodGone(x, s) \/ Kube!DeleteSecret(x, s)
           \/ Kube!CleanRefused(x, s) \/ Kube!CleanEnds(x)
           \/ Kube!StopAgent(x, s) /\ UNCHANGED pod
    PROVE  PodAll' /\ \A t \in PodSession : PodMove(t)
<1>1. \/ \E pc : Kube!ToClean(x, pc) /\ clean[x].pc \notin {"idle", "close"}
      \/ Kube!ToIdle(x)
  BY DEF Kube!DeleteService, Kube!AwaitPodGone, Kube!DeleteSecret, Kube!CleanRefused,
         Kube!CleanEnds, Kube!StopAgent
<1>2. UNCHANGED <<configMap, pod, started, drainable, podPruned, create>>
  BY DEF Kube!DeleteService, Kube!AwaitPodGone, Kube!DeleteSecret, Kube!CleanRefused,
         Kube!CleanEnds, Kube!StopAgent, Kube!objects, Kube!clocks
<1> QED
  BY <1>1, <1>2, CleanGoesOn, PodQuiet DEF PodAll

LEMMA PodReconciles ==
    ASSUME PodAll, NEW x \in Closer, NEW s \in PodSession, Kube!Reconcile(x, s)
    PROVE  PodAll' /\ \A t \in PodSession : PodMove(t)
<1>1. UNCHANGED <<configMap, pod, started, drainable, podPruned, create>>
  BY DEF Kube!Reconcile, Kube!objects, Kube!clocks
<1>2. /\ DOMAIN clean' = Closer /\ \A y \in Closer : DOMAIN clean'[y] = {"pc", "s", "acked"}
      /\ clean'[x].pc = "close" /\ \A y \in Closer \ {x} : clean'[y] = clean[y]
  BY DEF Kube!Reconcile, PodAll, PodShape
<1>3. \A t \in PodSession : NoCreator(t)' = NoCreator(t) /\ (Deleting(t)' => Deleting(t))
  BY <1>1, <1>2 DEF NoCreator, Deleting
<1>4. PodCallsGoOn
  BY <1>1, <1>2, <1>3 DEF PodCallsGoOn, PodAll, PodShape
<1> QED
  BY <1>1, <1>4, PodQuiet

LEMMA PodClocks ==
    ASSUME PodAll, NEW s \in PodSession,
           Kube!Expire(s) \/ Kube!BecomeLate(s) \/ Kube!RetentionPasses(s)
    PROVE  PodAll' /\ \A t \in PodSession : PodMove(t)
<1>1. UNCHANGED <<configMap, pod, started, drainable, podPruned, create, clean>>
  BY DEF Kube!Expire, Kube!BecomeLate, Kube!RetentionPasses, Kube!objects
<1> QED
  BY <1>1, PodCallsStay, PodQuiet DEF PodAll

\* The record becomes active: the first request of a creating call.
LEMMA PodRecords ==
    ASSUME PodAll, NEW c \in Creator, NEW s \in PodSession, Kube!ensureRecord(c, s)
    PROVE  PodAll' /\ \A t \in PodSession : PodMove(t)
<1>1. /\ create[c].pc = "idle" /\ ~ podPruned[s] /\ configMap[s].state \in {"none", "active"}
      /\ configMap' = [configMap EXCEPT ![s].state = "active"]
      /\ create' = [create EXCEPT ![c] = [pc |-> "secret", s |-> s]]
      /\ UNCHANGED <<pod, started, drainable, podPruned, clean>>
  BY DEF Kube!ensureRecord, Kube!clocks
<1>2. /\ configMap'[s].state = "active" /\ configMap'[s].acked = configMap[s].acked
      /\ configMap'[s].drained = configMap[s].drained /\ DOMAIN configMap'[s] = DOMAIN configMap[s]
      /\ DOMAIN configMap' = PodSession
  BY <1>1 DEF PodAll, PodShape, PodInv
<1>3. /\ DOMAIN create' = Creator /\ \A d \in Creator : DOMAIN create'[d] = {"pc", "s"}
      /\ create'[c].s = s /\ \A d \in Creator \ {c} : create'[d] = create[d]
  BY <1>1 DEF PodAll, PodShape
<1>4. \A t \in PodSession : Deleting(t)' = Deleting(t) /\ (t # s /\ NoCreator(t) => NoCreator(t)')
  BY <1>1, <1>3 DEF NoCreator, Deleting
<1>5. PodFrame(s)
  BY <1>1, <1>2, <1>3, <1>4 DEF PodFrame, PodAll, PodShape
<1>6. PodInv(s)'
  <2>1. PodInv(s)
    BY DEF PodAll
  <2>2. ~ drainable[s] /\ ~ Deleting(s) /\ ~ configMap[s].drained
    BY <1>1, <2>1 DEF PodInv, Revoked
  <2>3. pod[s] \in {"absent", "pending"} => ~ started[s]
    BY <1>1, <2>1 DEF PodInv
  <2>4. pod[s] # "terminating"
    BY <1>1, <2>1 DEF PodInv
  <2> QED
    BY <1>1, <1>2, <1>4, <2>1, <2>2, <2>3, <2>4 DEF PodInv
<1>7. PodMove(s)
  BY <1>1, <1>2 DEF PodMove, PodPhase, PodAgent, Kube!Settled
<1> QED
  BY <1>5, <1>6, <1>7, PodOthers

\* The record becomes closed: no creating call passes a check from here on.
LEMMA PodCloses ==
    ASSUME PodAll, NEW x \in Closer, NEW s \in PodSession, Kube!closeRecord(x, s)
    PROVE  PodAll' /\ \A t \in PodSession : PodMove(t)
<1>1. /\ ~ podPruned[s] /\ clean[x].pc \in {"idle", "close"}
      /\ configMap' = [configMap EXCEPT ![s].state = "closed"]
      /\ clean' = [clean EXCEPT ![x].pc = "service", ![x].s = s]
      /\ UNCHANGED <<pod, started, drainable, podPruned, create>>
  BY DEF Kube!closeRecord, Kube!clocks
<1>2. /\ configMap'[s].state = "closed" /\ configMap'[s].acked = configMap[s].acked
      /\ configMap'[s].drained = configMap[s].drained /\ DOMAIN configMap'[s] = DOMAIN configMap[s]
      /\ DOMAIN configMap' = PodSession
  BY <1>1 DEF PodAll, PodShape, PodInv
<1>3. /\ DOMAIN clean' = Closer /\ \A y \in Closer : DOMAIN clean'[y] = {"pc", "s", "acked"}
      /\ clean'[x].s = s /\ \A y \in Closer \ {x} : clean'[y] = clean[y]
  BY <1>1 DEF PodAll, PodShape
<1>4. \A t \in PodSession : NoCreator(t)' = NoCreator(t) /\ (t # s /\ Deleting(t)' => Deleting(t))
  BY <1>1, <1>3 DEF NoCreator, Deleting
<1>5. PodFrame(s)
  BY <1>1, <1>2, <1>3, <1>4 DEF PodFrame, PodAll, PodShape
<1>6. PodInv(s)' /\ PodMove(s)
  <2>1. PodInv(s) /\ Revoked(s)'
    BY <1>2 DEF PodAll, Revoked
  <2>2. PodInv(s)'
    BY <1>1, <1>2, <1>4, <2>1 DEF PodInv
  <2>3. PodMove(s)
    BY <1>1, <1>2, <2>1 DEF PodMove, PodPhase, PodAgent, PodInv, Kube!Settled
  <2> QED
    BY <2>2, <2>3
<1> QED
  BY <1>5, <1>6, PodOthers

\* Only the Pod of one session, or its first start, changes.
PodChange(s) ==
    /\ UNCHANGED <<configMap, drainable, podPruned>>
    /\ DOMAIN pod' = PodSession /\ DOMAIN started' = PodSession
    /\ \A t \in PodSession \ {s} : pod'[t] = pod[t] /\ started'[t] = started[t]

LEMMA PodChanges ==
    ASSUME PodAll, NEW s \in PodSession, PodCallsGoOn, PodChange(s),
           \/ /\ pod[s] = "absent" /\ pod'[s] = "pending" /\ started'[s] = started[s]
              /\ ~ NoCreator(s)
           \/ pod'[s] = pod[s] /\ started'[s] = started[s]
           \/ pod[s] = "pending" /\ pod'[s] = "ready" /\ started'[s]
           \/ pod[s] = "ready" /\ pod'[s] = "done" /\ started'[s] = started[s]
           \/ pod[s] = "terminating" /\ pod'[s] = "absent" /\ started'[s] = started[s]
           \/ /\ Deleting(s) /\ started'[s] = started[s]
              /\ pod'[s] = IF pod[s] \in {"ready", "terminating"} THEN "terminating" ELSE "absent"
    PROVE  PodAll' /\ \A t \in PodSession : PodMove(t)
<1>1. PodFrame(s)
  BY DEF PodFrame, PodCallsGoOn, PodChange, PodAll, PodShape
<1>2. PodInv(s) /\ Revoked(s)' = Revoked(s)
  BY DEF PodAll, PodChange, Revoked
<1>3. /\ configMap'[s] = configMap[s] /\ drainable'[s] = drainable[s] /\ podPruned'[s] = podPruned[s]
      /\ NoCreator(s) => NoCreator(s)'
      /\ Deleting(s)' => Deleting(s)
  BY DEF PodChange, PodCallsGoOn
<1>4. PodInv(s)'
  <2>1. Deleting(s) => configMap[s].state = "closed" \/ podPruned[s]
    BY <1>2 DEF PodInv, Revoked
  <2> QED
    BY <1>2, <1>3, <2>1 DEF PodInv
<1>5. PodMove(s)
  BY <1>2, <1>3 DEF PodInv, PodMove, PodPhase, PodAgent, Kube!Settled
<1> QED
  BY <1>1, <1>4, <1>5, PodOthers

\* A Pod is created, even by a call whose check is stale, starts, exits or is
\* deleted.
LEMMA PodLives ==
    ASSUME PodAll, NEW s \in PodSession,
           \/ \E c \in Creator : Kube!CreatePod(c, s)
           \/ \E x \in Closer : Kube!StopAgent(x, s) \/ Kube!DeletePod(x, s)
           \/ Kube!PodStarts(s) \/ Kube!PodExits(s) \/ Kube!PodTerminates(s)
    PROVE  PodAll' /\ \A t \in PodSession : PodMove(t)
<1>1. CASE \E c \in Creator : Kube!CreatePod(c, s)
  <2>1. PICK c \in Creator : Kube!CreatePod(c, s)
    BY <1>1
  <2>2. /\ create[c].pc = "createPod" /\ create[c].s = s /\ Kube!ToCreate(c, "bind")
        /\ pod' = [pod EXCEPT ![s] = IF pod[s] = "absent" THEN "pending" ELSE pod[s]]
        /\ UNCHANGED <<configMap, started, drainable, podPruned, clean>>
    BY <2>1 DEF Kube!CreatePod, Kube!clocks
  <2>3. PodCallsGoOn /\ ~ NoCreator(s)
    BY <2>2, CreateGoesOn DEF PodAll, NoCreator
  <2>4. PodChange(s)
    BY <2>2 DEF PodChange, PodAll, PodShape
  <2>5. \/ pod[s] = "absent" /\ pod'[s] = "pending" /\ started'[s] = started[s]
        \/ pod'[s] = pod[s] /\ started'[s] = started[s]
    BY <2>2 DEF PodAll, PodShape
  <2> QED
    BY <2>3, <2>4, <2>5, PodChanges
<1>2. CASE \E x \in Closer : Kube!DeletePod(x, s)
  <2>1. PICK x \in Closer : Kube!DeletePod(x, s)
    BY <1>2
  <2>2. /\ clean[x].pc = "delete" /\ clean[x].s = s /\ Kube!ToClean(x, "gone")
        /\ pod' = [pod EXCEPT ![s] = IF pod[s] \in {"ready", "terminating"}
                                     THEN "terminating" ELSE "absent"]
        /\ UNCHANGED <<configMap, started, drainable, podPruned, create>>
    BY <2>1 DEF Kube!DeletePod, Kube!clocks
  <2>3. PodCallsGoOn /\ Deleting(s)
    BY <2>2, CleanGoesOn DEF PodAll, Deleting
  <2> QED
    BY <2>2, <2>3, PodChanges DEF PodChange, PodAll, PodShape
<1>3. CASE \E x \in Closer : Kube!StopAgent(x, s)
  <2>1. PICK x \in Closer : Kube!StopAgent(x, s)
    BY <1>3
  <2>2. CASE UNCHANGED pod
    BY <2>1, <2>2, PodCleanQuiet
  <2>3. CASE ~ UNCHANGED pod
    <3>1. /\ clean[x].pc = "pod" /\ Kube!ToClean(x, "delete") /\ pod[s] = "ready"
          /\ pod' = [pod EXCEPT ![s] = "done"]
          /\ UNCHANGED <<configMap, started, drainable, podPruned, create>>
      BY <2>1, <2>3 DEF Kube!StopAgent, Kube!clocks
    <3>2. PodCallsGoOn
      BY <3>1, CleanGoesOn DEF PodAll
    <3> QED
      BY <3>1, <3>2, PodChanges DEF PodChange, PodAll, PodShape
  <2> QED
    BY <2>2, <2>3
<1>4. CASE Kube!PodStarts(s) \/ Kube!PodExits(s) \/ Kube!PodTerminates(s)
  <2>1. UNCHANGED <<configMap, drainable, podPruned, create, clean>>
    BY <1>4 DEF Kube!PodStarts, Kube!PodExits, Kube!PodTerminates, Kube!clocks
  <2>2. PodCallsGoOn
    BY <2>1, PodCallsStay DEF PodAll
  <2>3. PodChange(s)
    BY <1>4, <2>1 DEF PodChange, PodAll, PodShape, Kube!PodStarts, Kube!PodExits, Kube!PodTerminates
  <2>4. \/ pod[s] = "pending" /\ pod'[s] = "ready" /\ started'[s]
        \/ pod[s] = "ready" /\ pod'[s] = "done" /\ started'[s] = started[s]
        \/ pod[s] = "terminating" /\ pod'[s] = "absent" /\ started'[s] = started[s]
    BY <1>4 DEF PodAll, PodShape, Kube!PodStarts, Kube!PodExits, Kube!PodTerminates
  <2> QED
    BY <2>2, <2>3, <2>4, PodChanges
<1> QED
  BY <1>1, <1>2, <1>3, <1>4

\* Only the record of one session, or its clock, changes.
RecordChange(s) ==
    /\ UNCHANGED <<pod, started>>
    /\ DOMAIN configMap' = PodSession /\ DOMAIN drainable' = PodSession
    /\ DOMAIN podPruned' = PodSession
    /\ DOMAIN configMap'[s] = {"state", "bound", "acked", "drained"}
    /\ \A t \in PodSession \ {s} :
        /\ configMap'[t] = configMap[t] /\ drainable'[t] = drainable[t]
        /\ podPruned'[t] = podPruned[t]

LEMMA RecordChanges ==
    ASSUME PodAll, NEW s \in PodSession, PodCallsGoOn, RecordChange(s),
           \/ /\ configMap'[s].state = configMap[s].state /\ podPruned'[s] = podPruned[s]
              /\ configMap'[s].acked = configMap[s].acked
              /\ configMap'[s].drained = configMap[s].drained /\ drainable'[s] = drainable[s]
           \/ /\ configMap'[s].state = configMap[s].state /\ podPruned'[s] = podPruned[s]
              /\ configMap[s].state = "closed" /\ pod[s] = "absent" /\ drainable'[s] = drainable[s]
              /\ configMap'[s].acked
              /\ configMap'[s].drained => configMap[s].drained \/ drainable[s]
              /\ configMap[s].drained => configMap'[s].drained
           \/ /\ Kube!Settled(s) /\ configMap'[s] = Kube!NoRecord /\ podPruned'[s]
              /\ drainable'[s] = drainable[s]
           \/ /\ configMap'[s] = configMap[s] /\ podPruned'[s] = podPruned[s]
              /\ drainable'[s] /\ configMap[s].state = "closed" /\ NoCreator(s)
    PROVE  PodAll' /\ \A t \in PodSession : PodMove(t)
<1>1. PodFrame(s)
  BY DEF PodFrame, PodCallsGoOn, RecordChange, PodAll, PodShape
<1>2. /\ PodInv(s) /\ pod'[s] = pod[s] /\ started'[s] = started[s]
      /\ NoCreator(s) => NoCreator(s)'
      /\ Deleting(s)' => Deleting(s)
      /\ DOMAIN configMap'[s] = {"state", "bound", "acked", "drained"}
  BY DEF PodAll, RecordChange, PodCallsGoOn
<1>3. Revoked(s) => Revoked(s)'
  BY DEF Revoked
<1>4. PodInv(s)' /\ PodMove(s)
  <2>1. CASE /\ configMap'[s].state = configMap[s].state /\ podPruned'[s] = podPruned[s]
             /\ configMap'[s].acked = configMap[s].acked
             /\ configMap'[s].drained = configMap[s].drained /\ drainable'[s] = drainable[s]
    BY <1>2, <1>3, <2>1 DEF PodInv, PodMove, PodPhase, PodAgent, Kube!Settled
  <2>2. CASE /\ configMap'[s].state = configMap[s].state /\ podPruned'[s] = podPruned[s]
             /\ configMap[s].state = "closed" /\ pod[s] = "absent" /\ drainable'[s] = drainable[s]
             /\ configMap'[s].acked
             /\ configMap'[s].drained => configMap[s].drained \/ drainable[s]
             /\ configMap[s].drained => configMap'[s].drained
    <3>1. PodInv(s)'
      BY <1>2, <1>3, <2>2 DEF PodInv
    <3>2. PodMove(s)
      BY <1>2, <2>2 DEF PodInv, PodMove, PodPhase, PodAgent, Kube!Settled
    <3> QED
      BY <3>1, <3>2
  <2>3. CASE /\ Kube!Settled(s) /\ configMap'[s] = Kube!NoRecord /\ podPruned'[s]
             /\ drainable'[s] = drainable[s]
    <3>1. configMap'[s].state = "none" /\ ~ configMap'[s].drained /\ Revoked(s)'
      BY <2>3 DEF Kube!NoRecord, Revoked
    <3>2. PodInv(s)'
      BY <1>2, <2>3, <3>1 DEF PodInv, Kube!Settled
    <3>3. PodMove(s)
      BY <1>2, <2>3 DEF PodMove, PodPhase, PodAgent
    <3> QED
      BY <3>2, <3>3
  <2>4. CASE /\ configMap'[s] = configMap[s] /\ podPruned'[s] = podPruned[s]
             /\ drainable'[s] /\ configMap[s].state = "closed" /\ NoCreator(s)
    <3>1. Revoked(s)'
      BY <2>4 DEF Revoked
    <3> QED
      BY <1>2, <2>4, <3>1 DEF PodInv, PodMove, PodPhase, PodAgent, Kube!Settled
  <2> QED
    BY <2>1, <2>2, <2>3, <2>4
<1> QED
  BY <1>1, <1>4, PodOthers

\* bindPodIdentity, AcknowledgeClosure, the end of the retention and the time after
\* which no creating call is left.
LEMMA PodSettles ==
    ASSUME PodAll, NEW s \in PodSession,
           \/ \E c \in Creator : Kube!bindPodIdentity(c, s)
           \/ \E x \in Closer : Kube!AcknowledgeClosure(x, s)
           \/ Kube!PruneRecord(s) \/ Kube!BecomeDrainable(s)
    PROVE  PodAll' /\ \A t \in PodSession : PodMove(t)
<1>1. CASE \E c \in Creator : Kube!bindPodIdentity(c, s)
  <2>1. PICK c \in Creator : Kube!bindPodIdentity(c, s)
    BY <1>1
  <2>2. /\ create[c].pc = "bind" /\ Kube!ToCreate(c, "ready")
        /\ configMap' = [configMap EXCEPT ![s].bound = TRUE]
        /\ UNCHANGED <<pod, started, drainable, podPruned, clean>>
    BY <2>1 DEF Kube!bindPodIdentity, Kube!clocks
  <2>3. PodCallsGoOn
    BY <2>2, CreateGoesOn DEF PodAll
  <2>4. RecordChange(s)
    BY <2>2 DEF RecordChange, PodAll, PodShape, PodInv
  <2>5. /\ configMap'[s].state = configMap[s].state /\ configMap'[s].acked = configMap[s].acked
        /\ configMap'[s].drained = configMap[s].drained
    BY <2>2 DEF PodAll, PodShape, PodInv
  <2> QED
    BY <2>2, <2>3, <2>4, <2>5, RecordChanges
<1>2. CASE \E x \in Closer : Kube!AcknowledgeClosure(x, s)
  <2>1. PICK x \in Closer : Kube!AcknowledgeClosure(x, s)
    BY <1>2
  <2>2. /\ pod[s] = "absent" /\ configMap[s].state = "closed" /\ Kube!ToIdle(x)
        /\ configMap' = [configMap EXCEPT ![s].acked = TRUE,
                                          ![s].drained = @ \/ drainable[s]]
        /\ UNCHANGED <<pod, started, drainable, podPruned, create>>
    BY <2>1 DEF Kube!AcknowledgeClosure, Kube!clocks
  <2>3. PodCallsGoOn
    BY <2>2, CleanGoesOn DEF PodAll
  <2>4. RecordChange(s)
    BY <2>2 DEF RecordChange, PodAll, PodShape, PodInv
  <2>5. configMap'[s].state = configMap[s].state /\ configMap'[s].acked
    BY <2>2 DEF PodAll, PodShape, PodInv
  <2>6. configMap'[s].drained = (configMap[s].drained \/ drainable[s])
    BY <2>2 DEF PodAll, PodShape, PodInv
  <2> QED
    BY <2>2, <2>3, <2>4, <2>5, <2>6, RecordChanges, Zenon
<1>3. CASE Kube!PruneRecord(s)
  <2>1. /\ Kube!Settled(s) /\ configMap' = [configMap EXCEPT ![s] = Kube!NoRecord]
        /\ podPruned' = [podPruned EXCEPT ![s] = TRUE]
        /\ UNCHANGED <<pod, started, drainable, create, clean>>
    BY <1>3 DEF Kube!PruneRecord, Kube!clocks
  <2>2. PodCallsGoOn
    BY <2>1, PodCallsStay DEF PodAll
  <2>3. RecordChange(s)
    BY <2>1 DEF RecordChange, PodAll, PodShape, Kube!NoRecord
  <2>4. configMap'[s] = Kube!NoRecord /\ podPruned'[s]
    BY <2>1 DEF PodAll, PodShape
  <2> QED
    BY <2>1, <2>2, <2>3, <2>4, RecordChanges, Zenon
<1>4. CASE Kube!BecomeDrainable(s)
  <2>1. /\ configMap[s].state = "closed" /\ drainable' = [drainable EXCEPT ![s] = TRUE]
        /\ UNCHANGED <<configMap, pod, started, podPruned, create, clean>> /\ NoCreator(s)
    BY <1>4 DEF Kube!BecomeDrainable, Kube!objects, NoCreator
  <2>2. PodCallsGoOn
    BY <2>1, PodCallsStay DEF PodAll
  <2>3. RecordChange(s) /\ drainable'[s]
    BY <2>1 DEF RecordChange, PodAll, PodShape, PodInv
  <2> QED
    BY <2>1, <2>2, <2>3, RecordChanges, Zenon
<1> QED
  BY <1>1, <1>2, <1>3, <1>4

LEMMA PodStep ==
    ASSUME PodAll, [Next]_vars
    PROVE  PodAll' /\ \A s \in PodSession : PodMove(s)
<1>1. CASE UNCHANGED podVars
  BY <1>1, PodCallsStay, PodQuiet DEF podVars, PodAll
<1>2. CASE Kube!Next
  <2>1. ASSUME NEW s \in PodSession, NEW c \in Creator, Kube!Create(c, s) \/ Kube!CreateEnds(c)
        PROVE  PodAll' /\ \A t \in PodSession : PodMove(t)
    BY <2>1, PodCreateQuiet, PodRecords, PodLives, PodSettles DEF Kube!Create
  <2>2. ASSUME NEW s \in PodSession, NEW x \in Closer, Kube!Clean(x, s) \/ Kube!CleanEnds(x)
        PROVE  PodAll' /\ \A t \in PodSession : PodMove(t)
    BY <2>2, PodCleanQuiet, PodReconciles, PodCloses, PodLives, PodSettles
       DEF Kube!Clean, Kube!Continue
  <2>3. ASSUME NEW s \in PodSession, Kube!Environment(s)
        PROVE  PodAll' /\ \A t \in PodSession : PodMove(t)
    BY <2>3, PodClocks, PodLives, PodSettles DEF Kube!Environment
  <2>4. ASSUME NEW c \in Creator, Kube!CreateEnds(c)
        PROVE  PodAll' /\ \A t \in PodSession : PodMove(t)
    <3>1. create[c].pc # "idle" /\ Kube!ToCreate(c, "idle")
      BY <2>4 DEF Kube!CreateEnds
    <3>2. UNCHANGED <<configMap, pod, started, drainable, podPruned, clean>>
      BY <2>4 DEF Kube!CreateEnds, Kube!objects, Kube!clocks
    <3> QED
      BY <3>1, <3>2, CreateGoesOn, PodQuiet DEF PodAll
  <2>5. ASSUME NEW x \in Closer, Kube!CleanEnds(x)
        PROVE  PodAll' /\ \A t \in PodSession : PodMove(t)
    <3>1. Kube!ToIdle(x)
      BY <2>5 DEF Kube!CleanEnds
    <3>2. UNCHANGED <<configMap, pod, started, drainable, podPruned, create>>
      BY <2>5 DEF Kube!CleanEnds, Kube!objects, Kube!clocks
    <3> QED
      BY <3>1, <3>2, CleanGoesOn, PodQuiet DEF PodAll
  <2> QED
    BY <1>2, <2>1, <2>2, <2>3, <2>4, <2>5 DEF Kube!Next
<1> QED
  BY <1>1, <1>2 DEF Next, vars

LEMMA PodInitially ==
    ASSUME Init
    PROVE  PodAll /\ \A s \in PodSession : PodPhase(s) = "new" /\ PodAgent(s) = "none"
<1>1. /\ configMap = [s \in PodSession |-> Kube!NoRecord] /\ pod = [s \in PodSession |-> "absent"]
      /\ started = [s \in PodSession |-> FALSE] /\ drainable = [s \in PodSession |-> FALSE]
      /\ podPruned = [s \in PodSession |-> FALSE]
      /\ create \in [Creator -> [pc : {"idle"}, s : PodSession]]
      /\ clean \in [Closer -> [pc : {"idle"}, s : PodSession, acked : {FALSE}]]
  BY Zenon DEF Init, Kube!Init
<1>2. PodShape
  BY <1>1, Zenon DEF PodShape
<1>3. ASSUME NEW s \in PodSession
      PROVE  PodInv(s) /\ PodPhase(s) = "new" /\ PodAgent(s) = "none"
  <2>1. /\ configMap[s] = [state |-> "none", bound |-> FALSE, acked |-> FALSE, drained |-> FALSE]
        /\ pod[s] = "absent" /\ ~ started[s] /\ ~ drainable[s] /\ ~ podPruned[s]
    BY <1>1 DEF Kube!NoRecord
  <2>2. NoCreator(s) /\ ~ Deleting(s)
    BY <1>1, Zenon DEF NoCreator, Deleting
  <2> QED
    BY <2>1, <2>2 DEF PodInv, PodPhase, PodAgent, Kube!Settled
<1> QED
  BY <1>2, <1>3 DEF PodAll

LEMMA PodHolds == Spec => []PodAll
<1>1. Init => PodAll
  BY PodInitially
<1>2. PodAll /\ [Next]_vars => PodAll'
  BY PodStep
<1> QED
  BY <1>1, <1>2, PTL DEF Spec

LEMMA PodImplements == Spec => PodPromise!Spec
<1>1. Init => PodPromise!Init
  BY PodInitially DEF PodPromise!Init
<1>2. PodAll /\ [Next]_vars => [PodPromise!Next]_(PodPromise!vars)
  <2> SUFFICES ASSUME PodAll, [Next]_vars
               PROVE  PodPromise!Next
    OBVIOUS
  <2>1. ASSUME NEW s \in PodSession
        PROVE  \/ PodPromise!Grant(s) \/ PodPromise!Launch(s) \/ PodPromise!Exit(s)
               \/ PodPromise!Revoke(s) \/ PodPromise!Settle(s) \/ PodPromise!Repeat(s)
               \/ PodPromise!Stays(s)
    <3>1. PodMove(s)
      BY PodStep
    <3> QED
      BY <3>1 DEF PodMove, PodPromise!Grant, PodPromise!Launch, PodPromise!Exit,
         PodPromise!Revoke, PodPromise!Settle, PodPromise!Stays, PodPromise!Advance
  <2> QED
    BY <2>1 DEF PodPromise!Next
<1> QED
  BY <1>1, <1>2, PodHolds, PTL DEF Spec, PodPromise!Spec

-----------------------------------------------------------------------------
\* The shared gateway process.

Statuses == {"none", "starting", "running", "stopping", "revoke_failed", "ended"}

ManagerShape ==
    /\ DOMAIN memory = Session /\ DOMAIN file = Session /\ DOMAIN listener = Session
    /\ DOMAIN forgotten = Session /\ DOMAIN call = Call
    /\ \A c \in Call : call[c].pc # "idle" => call[c].s \in Session
    /\ manager = "down" => \A c \in Call : call[c].pc = "idle"

Active(c, s) == call[c].pc # "idle" /\ call[c].s = s

\* What a call knows of its session at the step it has reached.  While the record
\* is starting, the call that starts it is alone.
CallInv(c, s) ==
    /\ memory[s] # "none"
    /\ call[c].pc = "start" => memory[s] = "starting"
    /\ call[c].pc \in {"lost", "stopped", "undone"} => listener[s] # "up"
    /\ memory[s] = "starting" => \A d \in Call : Active(d, s) => d = c

RecordInv(s) ==
    /\ memory[s] \in Statuses /\ file[s] \in Statuses
    /\ file[s] = "none" => memory[s] = "none"
    /\ memory[s] = "none" /\ ~ forgotten[s] => file[s] # "ended"
    /\ memory[s] = "ended" => file[s] = "ended"
    /\ forgotten[s] => {memory[s], file[s]} \cap {"starting", "running"} = {}
    /\ memory[s] = "ended" \/ forgotten[s] \/ manager \in {"dying", "down"} => listener[s] # "up"

ManagerInv(s) == RecordInv(s) /\ \A c \in Call : Active(c, s) => CallInv(c, s)

ManagerMove(s) ==
    \/ ManagerPhase(s)' = ManagerPhase(s) /\ ManagerAgent(s)' = ManagerAgent(s)
    \/ /\ ManagerAgent(s)' = ManagerAgent(s)
       /\ \/ ManagerPhase(s) = "new" /\ ManagerPhase(s)' = "granted"
          \/ ManagerPhase(s) \in {"new", "granted"} /\ ManagerPhase(s)' = "revoked"
          \/ /\ ManagerPhase(s) \in {"granted", "revoked"} /\ ManagerPhase(s)' = "settled"
             /\ ManagerAgent(s) # "up"
          \/ ManagerPhase(s) = "settled" /\ ManagerPhase(s)' = "revoked"
    \/ /\ ManagerPhase(s)' = ManagerPhase(s)
       /\ \/ ManagerPhase(s) = "granted" /\ ManagerAgent(s) # "up" /\ ManagerAgent(s)' = "up"
          \/ ManagerAgent(s) = "up" /\ ManagerAgent(s)' = "down"

ManagerAll == ManagerShape /\ \A s \in Session : ManagerInv(s)

\* Call c, of session s or of none before, is of session s or of none.
CallStep(c, s) ==
    /\ DOMAIN call' = Call
    /\ \A d \in Call \ {c} : call'[d] = call[d]
    /\ call[c].pc = "idle" \/ call[c].s = s
    /\ call'[c].pc = "idle" \/ call'[c].s = s

\* A save writes the records of all sessions: those of the others reach the file.
ManagerFrame(c, s) ==
    /\ manager' = manager
    /\ CallStep(c, s)
    /\ DOMAIN memory' = Session /\ DOMAIN file' = Session /\ DOMAIN listener' = Session
    /\ UNCHANGED forgotten
    /\ \A t \in Session \ {s} :
        /\ memory'[t] = memory[t] /\ file'[t] \in {file[t], memory[t]}
        /\ listener'[t] = listener[t]

\* The record of a session is saved on behalf of another one.
LEMMA SavedByOthers ==
    ASSUME NEW t \in Session, RecordInv(t), manager' = manager, memory'[t] = memory[t],
           file'[t] \in {file[t], memory[t]}, listener'[t] = listener[t],
           forgotten'[t] = forgotten[t]
    PROVE  RecordInv(t)' /\ ManagerMove(t)
<1>1. RecordInv(t)'
  BY DEF RecordInv
<1>2. ManagerAgent(t)' = ManagerAgent(t)
  BY DEF ManagerAgent
<1>3. \/ ManagerPhase(t)' = ManagerPhase(t)
      \/ ManagerPhase(t) = "granted" /\ ManagerPhase(t)' = "revoked"
  BY DEF RecordInv, Statuses, ManagerPhase
<1> QED
  BY <1>1, <1>2, <1>3 DEF ManagerMove

LEMMA ManagerOthers ==
    ASSUME ManagerAll, NEW c \in Call, manager # "down", NEW s \in Session, ManagerFrame(c, s),
           ManagerInv(s)', ManagerMove(s)
    PROVE  ManagerAll' /\ \A t \in Session : ManagerMove(t)
<1>1. ASSUME NEW t \in Session, t # s
      PROVE  ManagerInv(t)' /\ ManagerMove(t)
  <2>1. /\ manager' = manager /\ memory'[t] = memory[t] /\ file'[t] \in {file[t], memory[t]}
        /\ listener'[t] = listener[t] /\ forgotten'[t] = forgotten[t]
    BY <1>1 DEF ManagerFrame
  <2>2. RecordInv(t)' /\ ManagerMove(t)
    BY <2>1, SavedByOthers DEF ManagerAll, ManagerInv
  <2>3. \A d \in Call : Active(d, t)' => Active(d, t) /\ call'[d] = call[d]
    BY <1>1 DEF ManagerFrame, CallStep, Active
  <2>4. ASSUME NEW d \in Call, Active(d, t)'
        PROVE  CallInv(d, t)'
    BY <2>1, <2>3, <2>4 DEF ManagerAll, ManagerInv, CallInv
  <2> QED
    BY <2>2, <2>4 DEF ManagerInv
<1>2. ManagerShape'
  BY DEF ManagerFrame, CallStep, ManagerAll, ManagerShape
<1> QED
  BY <1>1, <1>2 DEF ManagerAll

LEMMA SaveEffects ==
    ASSUME ManagerShape, NEW s \in Session, NEW to, NEW kept,
           Manager!saveLocked(s, to) \/ Manager!SaveFails(s, to, kept)
    PROVE  /\ DOMAIN memory' = Session /\ DOMAIN file' = Session
           /\ \A t \in Session \ {s} : memory'[t] = memory[t] /\ file'[t] \in {file[t], memory[t]}
           /\ \/ memory'[s] = to /\ file'[s] = to
              \/ memory'[s] = kept /\ file'[s] \in {file[s], to}
<1>1. CASE Manager!saveLocked(s, to)
  BY <1>1 DEF Manager!saveLocked, ManagerShape
<1>2. CASE Manager!SaveFails(s, to, kept)
  BY <1>2 DEF Manager!SaveFails, ManagerShape
<1> QED
  BY <1>1, <1>2

LEMMA ToEffects ==
    ASSUME ManagerShape, NEW c \in Call, NEW s, NEW pc,
           Manager!To(c, pc, s) \/ Manager!Return(c) \/ UNCHANGED call
    PROVE  /\ DOMAIN call' = Call /\ \A d \in Call \ {c} : call'[d] = call[d]
           /\ \/ Manager!To(c, pc, s) /\ call'[c].pc = pc /\ call'[c].s = s
              \/ Manager!Return(c) /\ call'[c].pc = "idle"
              \/ UNCHANGED call
  BY DEF ManagerShape, Manager!To, Manager!Return, Manager!NoCall

\* One save, of the status `to` or, when it fails, of `kept` in memory.
Saved(s, to, kept) ==
    \/ memory'[s] = to /\ file'[s] = to
    \/ memory'[s] = kept /\ file'[s] \in {file[s], to}

LEMMA SaveMoves ==
    ASSUME NEW s \in Session, RecordInv(s), manager' = manager, listener'[s] = listener[s],
           forgotten'[s] = forgotten[s],
           \/ memory[s] = "none" /\ ~ forgotten[s] /\ Saved(s, "starting", "none")
           \/ memory[s] = "starting" /\ Saved(s, "running", "running")
           \/ memory[s] # "none" /\ listener[s] # "up" /\ Saved(s, "ended", "revoke_failed")
           \/ memory[s] = "running" /\ listener[s] # "up" /\ Saved(s, "ended", "running")
           \/ memory[s] # "none" /\ Saved(s, "revoke_failed", "revoke_failed")
           \/ /\ memory[s] \in {"none", "running", "revoke_failed"}
              /\ Saved(s, "stopping", memory[s])
           \/ /\ memory[s] \in {"starting", "running", "stopping", "revoke_failed"}
              /\ Saved(s, "stopping", "revoke_failed")
    PROVE  RecordInv(s)' /\ ManagerMove(s)
<1>1. ManagerAgent(s)' = ManagerAgent(s) /\ (listener[s] # "up" => ManagerAgent(s) # "up")
  BY DEF ManagerAgent
<1>2. CASE memory[s] = "none" /\ ~ forgotten[s] /\ Saved(s, "starting", "none")
  BY <1>1, <1>2 DEF Saved, RecordInv, Statuses, ManagerMove, ManagerPhase
<1>3. CASE memory[s] = "starting" /\ Saved(s, "running", "running")
  BY <1>1, <1>3 DEF Saved, RecordInv, Statuses, ManagerMove, ManagerPhase
<1>4. CASE memory[s] # "none" /\ listener[s] # "up" /\ Saved(s, "ended", "revoke_failed")
  <2>1. RecordInv(s)'
    BY <1>4 DEF Saved, RecordInv, Statuses
  <2>2. ManagerMove(s)
    BY <1>1, <1>4 DEF Saved, RecordInv, Statuses, ManagerMove, ManagerPhase
  <2> QED
    BY <2>1, <2>2
<1>5. CASE memory[s] = "running" /\ listener[s] # "up" /\ Saved(s, "ended", "running")
  <2>1. RecordInv(s)'
    BY <1>5 DEF Saved, RecordInv, Statuses
  <2>2. ManagerMove(s)
    BY <1>1, <1>5 DEF Saved, RecordInv, Statuses, ManagerMove, ManagerPhase
  <2> QED
    BY <2>1, <2>2
<1>6. CASE memory[s] # "none" /\ Saved(s, "revoke_failed", "revoke_failed")
  <2>1. RecordInv(s)'
    BY <1>6 DEF Saved, RecordInv, Statuses
  <2>2. ManagerMove(s)
    BY <1>1, <1>6 DEF Saved, RecordInv, Statuses, ManagerMove, ManagerPhase
  <2> QED
    BY <2>1, <2>2
<1>7. CASE /\ memory[s] \in {"none", "running", "revoke_failed"}
           /\ Saved(s, "stopping", memory[s])
  <2>1. RecordInv(s)'
    BY <1>7 DEF Saved, RecordInv, Statuses
  <2>2. ManagerMove(s)
    BY <1>1, <1>7 DEF Saved, RecordInv, Statuses, ManagerMove, ManagerPhase
  <2> QED
    BY <2>1, <2>2
<1>8. CASE /\ memory[s] \in {"starting", "running", "stopping", "revoke_failed"}
           /\ Saved(s, "stopping", "revoke_failed")
  <2>1. RecordInv(s)'
    BY <1>8 DEF Saved, RecordInv, Statuses
  <2>2. ManagerMove(s)
    BY <1>1, <1>8 DEF Saved, RecordInv, Statuses, ManagerMove, ManagerPhase
  <2> QED
    BY <2>1, <2>2
<1> QED
  BY <1>2, <1>3, <1>4, <1>5, <1>6, <1>7, <1>8

\* The calls of a session whose record changes with a step of call c.
LEMMA CallsFollow ==
    ASSUME ManagerAll, NEW c \in Call, NEW s \in Session, CallStep(c, s),
           listener'[s] = listener[s],
           memory[s] = "none" \/ memory'[s] # "none",
           \A d \in Call \ {c} : Active(d, s) => call[d].pc # "start",
           memory'[s] = "starting" => memory[s] = "none",
           call'[c].pc # "idle" => memory'[s] # "none",
           call'[c].pc = "start" => memory'[s] = "starting",
           call'[c].pc \in {"lost", "stopped", "undone"} => listener[s] # "up"
    PROVE  \A d \in Call : Active(d, s)' => CallInv(d, s)'
<1>1. \A d \in Call \ {c} : Active(d, s)' => Active(d, s) /\ call'[d] = call[d]
  BY DEF CallStep, Active
<1>2. \A d \in Call : Active(d, s) => CallInv(d, s)
  BY DEF ManagerAll, ManagerInv
<1>3. memory'[s] = "starting" => \A d \in Call : Active(d, s)' => d = c
  BY <1>1, <1>2 DEF CallInv
<1>4. ASSUME NEW d \in Call \ {c}, Active(d, s)'
      PROVE  CallInv(d, s)'
  BY <1>1, <1>2, <1>3, <1>4 DEF CallInv
<1>5. ASSUME Active(c, s)'
      PROVE  CallInv(c, s)'
  BY <1>3, <1>5 DEF CallInv, Active
<1> QED
  BY <1>4, <1>5

LEMMA NoOtherStart ==
    ASSUME ManagerAll, NEW c \in Call, NEW s \in Session,
           Active(c, s) \/ memory[s] # "starting" \/ (\A d \in Call : call[d].pc = "idle")
    PROVE  \A d \in Call \ {c} : Active(d, s) => call[d].pc # "start"
  BY DEF ManagerAll, ManagerInv, CallInv, Active

\* The step of call c that saves the record of session s.
LEMMA ManagerSaves ==
    ASSUME ManagerAll, NEW c \in Call, NEW s \in Session, NEW to, NEW kept, NEW pc,
           manager' = manager, manager # "down", UNCHANGED <<listener, forgotten>>,
           Manager!saveLocked(s, to) \/ Manager!SaveFails(s, to, kept),
           Manager!To(c, pc, s) \/ Manager!Return(c) \/ UNCHANGED call,
           Active(c, s) \/ (call[c].pc = "idle" /\ memory[s] # "starting")
                        \/ (\A d \in Call : call[d].pc = "idle"),
           \/ memory[s] = "none" /\ ~ forgotten[s] /\ to = "starting" /\ kept = "none"
           \/ memory[s] = "starting" /\ to = "running" /\ kept = "running"
           \/ memory[s] # "none" /\ listener[s] # "up" /\ to = "ended" /\ kept = "revoke_failed"
           \/ memory[s] = "running" /\ listener[s] # "up" /\ to = "ended" /\ kept = "running"
           \/ memory[s] # "none" /\ to = "revoke_failed" /\ kept = "revoke_failed"
           \/ /\ memory[s] \in {"none", "running", "revoke_failed"}
              /\ to = "stopping" /\ kept = memory[s]
           \/ /\ memory[s] \in {"starting", "running", "stopping", "revoke_failed"}
              /\ to = "stopping" /\ kept = "revoke_failed",
           call'[c].pc # "idle" => memory'[s] # "none",
           call'[c].pc = "start" => memory'[s] = "starting",
           call'[c].pc \in {"lost", "stopped", "undone"} => listener[s] # "up"
    PROVE  ManagerAll' /\ \A t \in Session : ManagerMove(t)
<1>1. /\ DOMAIN memory' = Session /\ DOMAIN file' = Session
      /\ \A t \in Session \ {s} : memory'[t] = memory[t] /\ file'[t] \in {file[t], memory[t]}
      /\ Saved(s, to, kept)
  BY SaveEffects, Zenon DEF ManagerAll, Saved
<1>2. CallStep(c, s)
  <2>1. call[c].pc = "idle" \/ call[c].s = s
    BY DEF Active
  <2>2. /\ DOMAIN call' = Call /\ \A d \in Call \ {c} : call'[d] = call[d]
        /\ \/ call'[c].s = s
           \/ call'[c].pc = "idle"
           \/ UNCHANGED call
    BY ToEffects DEF ManagerAll
  <2> QED
    BY <2>1, <2>2 DEF CallStep
<1>3. ManagerFrame(c, s)
  BY <1>1, <1>2 DEF ManagerFrame, ManagerAll, ManagerShape
<1>4. RecordInv(s)' /\ ManagerMove(s)
  <2>1. RecordInv(s)
    BY DEF ManagerAll, ManagerInv
  <2> QED
    BY <1>1, <2>1, SaveMoves
<1>5. \A d \in Call \ {c} : Active(d, s) => call[d].pc # "start"
  BY NoOtherStart
<1>6. memory[s] = "none" \/ memory'[s] # "none"
  BY <1>1 DEF Saved
<1>7. memory'[s] = "starting" => memory[s] = "none"
  BY <1>1 DEF Saved
<1>8. \A d \in Call : Active(d, s)' => CallInv(d, s)'
  BY <1>2, <1>5, <1>6, <1>7, CallsFollow
<1> QED
  BY <1>3, <1>4, <1>8, ManagerOthers DEF ManagerInv

\* Only call c and the listener of its session change.
LEMMA ManagerCalls ==
    ASSUME ManagerAll, NEW c \in Call, NEW s \in Session, NEW pc, manager' = manager,
           manager # "down", UNCHANGED <<memory, file, forgotten>>,
           Manager!To(c, pc, s) \/ Manager!Return(c) \/ UNCHANGED call,
           DOMAIN listener' = Session, \A t \in Session \ {s} : listener'[t] = listener[t],
           \/ listener'[s] = listener[s]
           \/ listener[s] # "none" /\ listener'[s] \notin {"none", "up"}
           \/ listener'[s] = "up" /\ manager \notin {"dying", "down"}
              /\ memory[s] \in {"starting", "running"}
              /\ \A d \in Call : Active(d, s) => d = c,
           call'[c].pc # "idle" =>
            /\ Active(c, s) \/ (call[c].pc = "idle" /\ memory[s] \notin {"none", "starting"})
            /\ call'[c].pc # "start" \/ UNCHANGED call,
           call'[c].pc \in {"lost", "stopped", "undone"} => listener'[s] # "up",
           call[c].pc = "idle" \/ call[c].s = s
    PROVE  ManagerAll' /\ \A t \in Session : ManagerMove(t)
<1>1. CallStep(c, s)
  <2>1. /\ DOMAIN call' = Call /\ \A d \in Call \ {c} : call'[d] = call[d]
        /\ \/ call'[c].s = s
           \/ call'[c].pc = "idle"
           \/ UNCHANGED call
    BY ToEffects DEF ManagerAll
  <2> QED
    BY <2>1 DEF CallStep
<1>2. ManagerFrame(c, s)
  BY <1>1 DEF ManagerFrame, ManagerAll, ManagerShape
<1>3. RecordInv(s) /\ \A d \in Call : Active(d, s) => CallInv(d, s)
  BY DEF ManagerAll, ManagerInv
<1>4. RecordInv(s)'
  BY <1>3, Zenon DEF RecordInv
<1>5. ManagerMove(s)
  <2>1. ManagerPhase(s)' = ManagerPhase(s)
    BY DEF ManagerPhase
  <2>2. listener'[s] = "up" /\ listener[s] # "up" => ManagerPhase(s) = "granted"
    BY <1>3, Zenon DEF ManagerPhase, RecordInv
  <2> QED
    BY <2>1, <2>2 DEF ManagerMove, ManagerAgent
<1>6. \A d \in Call \ {c} : Active(d, s)' => Active(d, s) /\ call'[d] = call[d]
  BY <1>1 DEF CallStep, Active
<1>7. ASSUME NEW d \in Call \ {c}, Active(d, s)'
      PROVE  CallInv(d, s)'
  <2>1. memory[s] = "starting" => \A e \in Call : Active(e, s)' => e = d
    BY <1>3, <1>6, <1>7 DEF CallInv, Active
  <2> QED
    BY <1>3, <1>6, <1>7, <2>1 DEF CallInv
<1>8. ASSUME Active(c, s)'
      PROVE  CallInv(c, s)'
  <2>1. memory[s] # "none" /\ (call'[c].pc = "start" => memory[s] = "starting")
    BY <1>3, <1>8 DEF CallInv, Active
  <2>2. memory[s] = "starting" => \A e \in Call : Active(e, s)' => e = c
    BY <1>3, <1>6, <1>8 DEF CallInv, Active
  <2> QED
    BY <2>1, <2>2 DEF CallInv
<1> QED
  BY <1>2, <1>4, <1>5, <1>7, <1>8, ManagerOthers DEF ManagerInv

\* A call whose step is not idle is a call of its session.
LEMMA CallOfSession ==
    ASSUME ManagerAll, NEW c \in Call, call[c].pc # "idle"
    PROVE  /\ call[c].s \in Session /\ Active(c, call[c].s) /\ CallInv(c, call[c].s)
           /\ memory[call[c].s] # "none" /\ manager # "down"
  BY DEF ManagerAll, ManagerShape, ManagerInv, Active, CallInv

\* Start, and what follows it.
LEMMA ManagerStarts ==
    ASSUME ManagerAll, NEW c \in Call,
           \/ \E s \in Session : Manager!Start(c, s)
           \/ Manager!controllerStart(c) \/ Manager!StartCompletes(c)
    PROVE  ManagerAll' /\ \A t \in Session : ManagerMove(t)
<1>1. CASE \E s \in Session : Manager!Start(c, s)
  <2>1. PICK s \in Session : Manager!Start(c, s)
    BY <1>1
  <2>2. /\ manager = "up" /\ call[c].pc = "idle" /\ memory[s] = "none" /\ ~ forgotten[s]
        /\ UNCHANGED <<manager, listener, forgotten>>
    BY <2>1 DEF Manager!Start
  <2>3. CASE Manager!saveLocked(s, "starting") /\ Manager!To(c, "start", s)
    <3>1. call'[c].pc = "start"
      BY <2>3 DEF Manager!To, ManagerAll, ManagerShape
    <3>2. memory'[s] = "starting"
      BY <2>3 DEF Manager!saveLocked, ManagerAll, ManagerShape
    <3> QED
      BY <2>2, <2>3, <3>1, <3>2, ManagerSaves
  <2>4. CASE Manager!SaveFails(s, "starting", "none") /\ UNCHANGED call
    BY <2>2, <2>4, ManagerSaves
  <2> QED
    BY <2>1, <2>3, <2>4 DEF Manager!Start
<1>2. CASE Manager!controllerStart(c)
  <2>1. /\ call[c].pc = "start" /\ manager \in {"recovering", "up"}
        /\ UNCHANGED <<manager, memory, file, forgotten>>
    BY <1>2 DEF Manager!controllerStart, Manager!At
  <2>2. PICK s \in Session : s = call[c].s
    BY <2>1, CallOfSession
  <2>3. Active(c, s) /\ CallInv(c, s) /\ memory[s] = "starting"
    BY <2>1, <2>2, CallOfSession DEF CallInv
  <2>4. PICK pc \in {"started", "undo"} : Manager!To(c, pc, s)
    BY <1>2, <2>2 DEF Manager!controllerStart, Manager!validateCreateResponse
  <2>5. call'[c].pc \in {"started", "undo"}
    BY <2>4 DEF Manager!To, ManagerAll, ManagerShape
  <2>6. \/ UNCHANGED listener
        \/ listener' = [listener EXCEPT ![s] = "up"]
    BY <1>2, <2>2 DEF Manager!controllerStart
  <2>7. /\ DOMAIN listener' = Session /\ \A t \in Session \ {s} : listener'[t] = listener[t]
        /\ listener'[s] = listener[s] \/ listener'[s] = "up"
    BY <2>6 DEF ManagerAll, ManagerShape
  <2>8. \A d \in Call : Active(d, s) => d = c
    BY <2>3 DEF CallInv
  <2> QED
    BY <2>1, <2>2, <2>3, <2>4, <2>5, <2>7, <2>8, ManagerCalls
<1>3. CASE Manager!StartCompletes(c)
  <2>1. /\ call[c].pc = "started" /\ manager \in {"recovering", "up"}
        /\ UNCHANGED <<manager, listener, forgotten>>
    BY <1>3 DEF Manager!StartCompletes, Manager!At
  <2>2. PICK s \in Session : s = call[c].s
    BY <2>1, CallOfSession
  <2>3. Active(c, s) /\ memory[s] # "none"
    BY <2>1, <2>2, CallOfSession
  <2>4. CASE memory[s] # "starting"
    <3>1. Manager!To(c, "undo", s) /\ UNCHANGED <<memory, file>>
      BY <1>3, <2>2, <2>4 DEF Manager!StartCompletes
    <3>2. call'[c].pc = "undo"
      BY <3>1 DEF Manager!To, ManagerAll, ManagerShape
    <3> QED
      BY <2>1, <2>2, <2>3, <3>1, <3>2, ManagerCalls DEF ManagerAll, ManagerShape
  <2>5. CASE memory[s] = "starting"
    <3>1. \/ Manager!saveLocked(s, "running") /\ Manager!Return(c)
          \/ Manager!SaveFails(s, "running", "running") /\ Manager!To(c, "undo", s)
      BY <1>3, <2>2, <2>5 DEF Manager!StartCompletes
    <3>2. call'[c].pc \in {"idle", "undo"}
      BY <3>1, ToEffects DEF Manager!To, Manager!Return, Manager!NoCall, ManagerAll, ManagerShape
    <3>3. memory'[s] = "running"
      BY <3>1 DEF Manager!saveLocked, Manager!SaveFails, ManagerAll, ManagerShape
    <3> QED
      BY <2>1, <2>3, <2>5, <3>1, <3>2, <3>3, ManagerSaves
  <2> QED
    BY <2>4, <2>5
<1> QED
  BY <1>1, <1>2, <1>3

\* DirectController.Stop, for a stop or for the end of a failed start.
LEMMA ManagerStopsListener ==
    ASSUME ManagerAll, NEW c \in Call,
           \/ Manager!controllerStop(c, "undo", "undone", "undo_failed")
           \/ Manager!controllerStop(c, "stop", "stopped", "stop_failed")
    PROVE  ManagerAll' /\ \A t \in Session : ManagerMove(t)
<1>1. /\ call[c].pc \in {"undo", "stop"} /\ manager \in {"recovering", "up"}
      /\ UNCHANGED <<manager, memory, file, forgotten>>
  BY DEF Manager!controllerStop, Manager!At
<1>2. PICK s \in Session : s = call[c].s
  BY <1>1, CallOfSession
<1>3. Active(c, s)
  BY <1>1, <1>2, CallOfSession
<1>4. PICK pc \in {"undone", "undo_failed", "stopped", "stop_failed"} :
        /\ Manager!To(c, pc, s)
        /\ \/ listener' = [listener EXCEPT ![s] = IF @ = "none" THEN @ ELSE "gone"]
           \/ /\ pc \in {"undo_failed", "stop_failed"}
              /\ listener' = [listener EXCEPT ![s] = IF @ = "up" THEN "stuck" ELSE @]
  BY <1>2 DEF Manager!controllerStop
<1>5. /\ DOMAIN listener' = Session /\ \A t \in Session \ {s} : listener'[t] = listener[t]
      /\ \/ listener'[s] = listener[s]
         \/ listener[s] # "none" /\ listener'[s] \notin {"none", "up"}
      /\ pc \notin {"undo_failed", "stop_failed"} => listener'[s] # "up"
  BY <1>4 DEF ManagerAll, ManagerShape
<1>6. call'[c].pc = pc
  BY <1>4 DEF Manager!To, ManagerAll, ManagerShape
<1> QED
  BY <1>1, <1>2, <1>3, <1>4, <1>5, <1>6, ManagerCalls

\* The outcome of a stop or of a failed start is recorded.
LEMMA ManagerFinishes ==
    ASSUME ManagerAll, NEW c \in Call,
           Manager!finishFailedStart(c) \/ Manager!StopCompletes(c) \/ Manager!markRevokeFailed(c)
    PROVE  ManagerAll' /\ \A t \in Session : ManagerMove(t)
<1>1. /\ call[c].pc \in {"undone", "undo_failed", "stopped", "stop_failed"}
      /\ manager \in {"recovering", "up"} /\ Manager!Return(c)
      /\ UNCHANGED <<manager, listener, forgotten>>
  BY DEF Manager!finishFailedStart, Manager!StopCompletes, Manager!markRevokeFailed, Manager!At
<1>2. PICK s \in Session : s = call[c].s
  BY <1>1, CallOfSession
<1>3. Active(c, s) /\ CallInv(c, s) /\ memory[s] # "none"
  BY <1>1, <1>2, CallOfSession
<1>4. call'[c].pc = "idle"
  BY <1>1 DEF Manager!Return, Manager!NoCall, ManagerAll, ManagerShape
<1>5. CASE call[c].pc \in {"undone", "stopped"}
  <2>1. Manager!saveLocked(s, "ended") \/ Manager!SaveFails(s, "ended", "revoke_failed")
    BY <1>2, <1>5 DEF Manager!finishFailedStart, Manager!StopCompletes, Manager!markRevokeFailed,
       Manager!At
  <2>2. listener[s] # "up"
    BY <1>3, <1>5 DEF CallInv
  <2> QED
    BY <1>1, <1>3, <1>4, <2>1, <2>2, ManagerSaves
<1>6. CASE call[c].pc \in {"undo_failed", "stop_failed"}
  <2>1. \/ Manager!saveLocked(s, "revoke_failed")
        \/ Manager!SaveFails(s, "revoke_failed", "revoke_failed")
    BY <1>2, <1>6 DEF Manager!finishFailedStart, Manager!StopCompletes, Manager!markRevokeFailed,
       Manager!At
  <2> QED
    BY <1>1, <1>3, <1>4, <2>1, ManagerSaves
<1> QED
  BY <1>1, <1>5, <1>6

\* The record is stopping on record, or the stop is refused.
LEMMA ManagerBeginsStop ==
    ASSUME ManagerAll, NEW c \in Call, NEW s \in Session, NEW previous,
           Manager!BeginStop(c, s, previous), manager' = manager, manager # "down",
           \/ memory[s] \in {"none", "running", "revoke_failed"} /\ previous = memory[s]
           \/ /\ memory[s] \in {"starting", "running", "stopping", "revoke_failed"}
              /\ previous = "revoke_failed"
              /\ \A d \in Call : call[d].pc = "idle"
    PROVE  ManagerAll' /\ \A t \in Session : ManagerMove(t)
<1>1. call[c].pc = "idle" /\ UNCHANGED <<listener, forgotten>>
  BY DEF Manager!BeginStop
<1>2. CASE Manager!saveLocked(s, "stopping") /\ Manager!To(c, "stop", s)
  <2>1. call'[c].pc = "stop" /\ memory'[s] = "stopping"
    BY <1>2 DEF Manager!To, Manager!saveLocked, ManagerAll, ManagerShape
  <2> QED
    BY <1>1, <1>2, <2>1, ManagerSaves
<1>3. CASE Manager!SaveFails(s, "stopping", previous) /\ UNCHANGED call
  BY <1>1, <1>3, ManagerSaves
<1> QED
  BY <1>2, <1>3 DEF Manager!BeginStop

LEMMA ManagerStops ==
    ASSUME ManagerAll, NEW c \in Call, NEW s \in Session,
           Manager!Stop(c, s) \/ Manager!ReapExpired(c, s)
    PROVE  ManagerAll' /\ \A t \in Session : ManagerMove(t)
  BY ManagerBeginsStop DEF Manager!Stop, Manager!ReapExpired

\* Get finds a listener gone and records the end in a later step.
LEMMA ManagerGets ==
    ASSUME ManagerAll, NEW c \in Call,
           (\E s \in Session : Manager!Get(c, s)) \/ Manager!GetRecords(c)
    PROVE  ManagerAll' /\ \A t \in Session : ManagerMove(t)
<1>1. CASE \E s \in Session : Manager!Get(c, s)
  <2>1. PICK s \in Session : Manager!Get(c, s)
    BY <1>1
  <2>2. /\ manager = "up" /\ call[c].pc = "idle" /\ memory[s] = "running" /\ listener[s] # "up"
        /\ Manager!To(c, "lost", s) /\ UNCHANGED <<manager, memory, file, listener, forgotten>>
    BY <2>1 DEF Manager!Get
  <2>3. call'[c].pc = "lost"
    BY <2>2 DEF Manager!To, ManagerAll, ManagerShape
  <2> QED
    BY <2>2, <2>3, ManagerCalls DEF ManagerAll, ManagerShape
<1>2. CASE Manager!GetRecords(c)
  <2>1. /\ call[c].pc = "lost" /\ manager \in {"recovering", "up"} /\ Manager!Return(c)
        /\ UNCHANGED <<manager, listener, forgotten>>
    BY <1>2 DEF Manager!GetRecords, Manager!At
  <2>2. PICK s \in Session : s = call[c].s
    BY <2>1, CallOfSession
  <2>3. Active(c, s) /\ listener[s] # "up"
    BY <2>1, <2>2, CallOfSession DEF CallInv
  <2>4. call'[c].pc = "idle"
    BY <2>1 DEF Manager!Return, Manager!NoCall, ManagerAll, ManagerShape
  <2>5. CASE memory[s] = "running"
    <3>1. Manager!saveLocked(s, "ended") \/ Manager!SaveFails(s, "ended", "running")
      BY <1>2, <2>2, <2>5 DEF Manager!GetRecords
    <3> QED
      BY <2>1, <2>3, <2>4, <2>5, <3>1, ManagerSaves
  <2>6. CASE memory[s] # "running"
    <3>1. UNCHANGED <<memory, file>>
      BY <1>2, <2>2, <2>6 DEF Manager!GetRecords
    <3> QED
      BY <2>1, <2>2, <2>3, <2>4, <3>1, ManagerCalls DEF ManagerAll, ManagerShape
  <2> QED
    BY <2>5, <2>6
<1> QED
  BY <1>1, <1>2

\* A step that at most ends the recovery or passes the time.
LEMMA ManagerStutters ==
    ASSUME ManagerAll, UNCHANGED <<memory, file, listener, call, forgotten>>,
           manager' = manager \/ (manager = "recovering" /\ manager' = "up")
    PROVE  ManagerAll' /\ \A t \in Session : ManagerMove(t)
<1>1. ManagerShape'
  BY DEF ManagerAll, ManagerShape
<1>2. ASSUME NEW s \in Session
      PROVE  ManagerInv(s)' /\ ManagerMove(s)
  <2>1. ManagerInv(s)
    BY DEF ManagerAll
  <2>2. RecordInv(s)'
    BY <2>1 DEF ManagerInv, RecordInv
  <2>3. ASSUME NEW c \in Call
        PROVE  Active(c, s)' = Active(c, s) /\ CallInv(c, s)' = CallInv(c, s)
    BY DEF Active, CallInv
  <2>4. ManagerMove(s)
    BY DEF ManagerMove, ManagerPhase, ManagerAgent
  <2> QED
    BY <2>1, <2>2, <2>3, <2>4 DEF ManagerInv
<1> QED
  BY <1>1, <1>2 DEF ManagerAll

\* Listeners close, by themselves or because the process dies.
LEMMA ManagerListenersFall ==
    ASSUME ManagerAll,
           (\E s \in Session : Manager!ListenerExpires(s)) \/ Manager!Crash
    PROVE  ManagerAll' /\ \A t \in Session : ManagerMove(t)
<1>1. UNCHANGED <<memory, file, call, forgotten>>
  BY DEF Manager!ListenerExpires, Manager!Crash
<1>2. /\ DOMAIN listener' = Session
      /\ \A s \in Session : \/ listener'[s] = listener[s]
                            \/ listener[s] # "none" /\ listener'[s] \notin {"none", "up"}
      /\ manager' # "down" \/ manager' = manager
      /\ manager' \in {"dying", "down"} =>
            \/ manager' = manager
            \/ \A s \in Session : listener'[s] # "up"
  BY DEF Manager!ListenerExpires, Manager!Crash, ManagerAll, ManagerShape
<1>3. ManagerShape'
  BY <1>1, <1>2 DEF ManagerAll, ManagerShape
<1>4. ASSUME NEW s \in Session
      PROVE  ManagerInv(s)' /\ ManagerMove(s)
  <2>1. ManagerInv(s)
    BY DEF ManagerAll
  <2>2. RecordInv(s)'
    BY <1>1, <1>2, <2>1 DEF ManagerInv, RecordInv
  <2>3. ASSUME NEW c \in Call, Active(c, s)'
        PROVE  CallInv(c, s)'
    <3>1. \A d \in Call : Active(d, s)' = Active(d, s)
      BY <1>1 DEF Active
    <3> QED
      BY <1>1, <1>2, <2>1, <2>3, <3>1 DEF ManagerInv, CallInv
  <2>4. ManagerMove(s)
    <3>1. ManagerPhase(s)' = ManagerPhase(s)
      BY <1>1 DEF ManagerPhase
    <3> QED
      BY <1>2, <3>1 DEF ManagerMove, ManagerAgent
  <2> QED
    BY <2>2, <2>3, <2>4 DEF ManagerInv
<1> QED
  BY <1>3, <1>4 DEF ManagerAll

\* What a restart finds in the file becomes what the process knows.
LEMMA ManagerLoads ==
    ASSUME ManagerAll, Manager!Recover \/ Manager!ProcessEnds
    PROVE  ManagerAll' /\ \A t \in Session : ManagerMove(t)
<1>1. /\ memory' = file /\ UNCHANGED <<file, listener, forgotten>> /\ manager \in {"dying", "down"}
      /\ DOMAIN call' = Call /\ \A c \in Call : call'[c].pc = "idle"
  BY DEF Manager!Recover, Manager!ProcessEnds, Manager!Load, Manager!NoCall, ManagerAll, ManagerShape
<1>2. ManagerShape'
  BY <1>1 DEF ManagerAll, ManagerShape
<1>3. ASSUME NEW s \in Session
      PROVE  ManagerInv(s)' /\ ManagerMove(s)
  <2>1. /\ RecordInv(s) /\ listener[s] # "up" /\ memory'[s] = file[s] /\ file'[s] = file[s]
        /\ listener'[s] = listener[s] /\ forgotten'[s] = forgotten[s]
    BY <1>1 DEF ManagerAll, ManagerInv, RecordInv
  <2>2. RecordInv(s)'
    BY <2>1 DEF RecordInv
  <2>3. \A c \in Call : ~ Active(c, s)'
    BY <1>1 DEF Active
  <2>4. ManagerMove(s)
    BY <2>1 DEF ManagerMove, ManagerPhase, ManagerAgent, RecordInv, Statuses
  <2> QED
    BY <2>2, <2>3, <2>4 DEF ManagerInv
<1> QED
  BY <1>2, <1>3 DEF ManagerAll

\* A save on behalf of another session, which may prune a terminal record.
LEMMA ManagerPersists ==
    ASSUME ManagerAll, NEW s \in Session, Manager!recordsForPersistenceLocked(s)
    PROVE  ManagerAll' /\ \A t \in Session : ManagerMove(t)
<1>1. UNCHANGED <<manager, listener, call>> /\ manager \in {"recovering", "up"}
  BY DEF Manager!recordsForPersistenceLocked
<1>2. \A t \in Session, c \in Call : Active(c, t)' = Active(c, t)
  BY <1>1 DEF Active
<1>3. CASE file' = memory /\ UNCHANGED <<memory, forgotten>>
  <2>1. ManagerShape'
    BY <1>1, <1>3 DEF ManagerAll, ManagerShape
  <2>2. ASSUME NEW t \in Session
        PROVE  ManagerInv(t)' /\ ManagerMove(t)
    <3>1. RecordInv(t)' /\ ManagerMove(t)
      BY <1>1, <1>3, SavedByOthers DEF ManagerAll, ManagerInv
    <3>2. \A c \in Call : Active(c, t)' => CallInv(c, t)'
      BY <1>1, <1>2, <1>3 DEF ManagerAll, ManagerInv, CallInv
    <3> QED
      BY <3>1, <3>2 DEF ManagerInv
  <2> QED
    BY <2>1, <2>2 DEF ManagerAll
<1>4. CASE /\ memory[s] = "ended" /\ \A c \in Call : call[c].pc = "idle"
           /\ memory' = [memory EXCEPT ![s] = "none"] /\ file' = memory'
           /\ forgotten' = [forgotten EXCEPT ![s] = TRUE]
  <2>1. ManagerShape'
    BY <1>1, <1>4 DEF ManagerAll, ManagerShape
  <2>2. \A t \in Session, c \in Call : ~ Active(c, t)'
    BY <1>1, <1>4 DEF Active
  <2>3. ASSUME NEW t \in Session, t # s
        PROVE  ManagerInv(t)' /\ ManagerMove(t)
    <3>1. memory'[t] = memory[t] /\ file'[t] = memory[t] /\ forgotten'[t] = forgotten[t]
      BY <1>4, <2>3 DEF ManagerAll, ManagerShape
    <3>2. RecordInv(t)' /\ ManagerMove(t)
      BY <1>1, <3>1, SavedByOthers DEF ManagerAll, ManagerInv
    <3> QED
      BY <2>2, <3>2 DEF ManagerInv
  <2>4. ManagerInv(s)' /\ ManagerMove(s)
    <3>1. memory'[s] = "none" /\ file'[s] = "none" /\ forgotten'[s] /\ listener'[s] = listener[s]
      BY <1>1, <1>4 DEF ManagerAll, ManagerShape
    <3>2. listener[s] # "up" /\ file[s] = "ended"
      BY <1>4 DEF ManagerAll, ManagerInv, RecordInv
    <3>3. RecordInv(s)'
      BY <3>1, <3>2 DEF RecordInv, Statuses
    <3>4. ManagerMove(s)
      BY <1>4, <3>1, <3>2 DEF ManagerMove, ManagerPhase, ManagerAgent
    <3> QED
      BY <2>2, <3>3, <3>4 DEF ManagerInv
  <2> QED
    BY <2>1, <2>3, <2>4 DEF ManagerAll
<1> QED
  BY <1>3, <1>4 DEF Manager!recordsForPersistenceLocked

\* Recover looks at a session: it stops it, serves it again or leaves it.
LEMMA ManagerRecovers ==
    ASSUME ManagerAll, NEW c \in Call, NEW s \in Session, Manager!RecoverSession(c, s)
    PROVE  ManagerAll' /\ \A t \in Session : ManagerMove(t)
<1>1. manager = "recovering" /\ manager' = manager /\ \A d \in Call : call[d].pc = "idle"
  BY DEF Manager!RecoverSession
<1>2. CASE \/ memory[s] = "running" /\ Manager!BeginStop(c, s, "running")
           \/ /\ memory[s] \in {"starting", "running", "stopping", "revoke_failed"}
              /\ Manager!BeginStop(c, s, "revoke_failed")
  BY <1>1, <1>2, ManagerBeginsStop
<1>3. CASE /\ memory[s] = "running" /\ listener' = [listener EXCEPT ![s] = "up"]
           /\ UNCHANGED <<memory, file, call, forgotten>>
  <2>1. /\ DOMAIN listener' = Session /\ \A t \in Session \ {s} : listener'[t] = listener[t]
        /\ listener'[s] = "up"
    BY <1>3 DEF ManagerAll, ManagerShape
  <2>2. \A d \in Call : ~ Active(d, s)
    BY <1>1 DEF Active
  <2> QED
    BY <1>1, <1>3, <2>1, <2>2, ManagerCalls
<1>4. CASE UNCHANGED <<memory, file, listener, call, forgotten>>
  BY <1>1, <1>4, ManagerStutters
<1> QED
  BY <1>2, <1>3, <1>4 DEF Manager!RecoverSession

LEMMA ManagerStep ==
    ASSUME ManagerAll, [Next]_vars
    PROVE  ManagerAll' /\ \A s \in Session : ManagerMove(s)
<1>1. CASE UNCHANGED managerVars
  BY <1>1, ManagerStutters DEF managerVars
<1>2. CASE Manager!Next
  <2>1. ASSUME NEW c \in Call, Manager!Continue(c)
        PROVE  ManagerAll' /\ \A s \in Session : ManagerMove(s)
    BY <2>1, ManagerStarts, ManagerStopsListener, ManagerFinishes, ManagerGets DEF Manager!Continue
  <2>2. ASSUME NEW c \in Call, NEW s \in Session,
               \/ Manager!Start(c, s) \/ Manager!Stop(c, s) \/ Manager!Get(c, s)
               \/ Manager!ReapExpired(c, s)
        PROVE  ManagerAll' /\ \A t \in Session : ManagerMove(t)
    BY <2>2, ManagerStarts, ManagerStops, ManagerGets
  <2>3. ASSUME NEW s \in Session, Manager!Expire(s)
        PROVE  ManagerAll' /\ \A t \in Session : ManagerMove(t)
    BY <2>3, ManagerStutters DEF Manager!Expire
  <2>4. ASSUME Manager!Recovery
        PROVE  ManagerAll' /\ \A t \in Session : ManagerMove(t)
    <3>1. ASSUME Manager!Serve
          PROVE  ManagerAll' /\ \A t \in Session : ManagerMove(t)
      BY <3>1, ManagerStutters DEF Manager!Serve
    <3> QED
      BY <2>4, <3>1, ManagerLoads, ManagerRecovers DEF Manager!Recovery
  <2> QED
    BY <1>2, <2>1, <2>2, <2>3, <2>4, ManagerPersists, ManagerListenersFall DEF Manager!Next
<1> QED
  BY <1>1, <1>2 DEF Next, vars

LEMMA ManagerInitially ==
    ASSUME Init
    PROVE  ManagerAll /\ \A s \in Session : ManagerPhase(s) = "new" /\ ManagerAgent(s) = "none"
<1>1. /\ manager = "up" /\ memory = [s \in Session |-> "none"] /\ file = [s \in Session |-> "none"]
      /\ listener = [s \in Session |-> "none"] /\ forgotten = [s \in Session |-> FALSE]
      /\ call = [c \in Call |-> Manager!NoCall]
  BY DEF Init, Manager!Init
<1>2. \A c \in Call : call[c].pc = "idle"
  BY <1>1 DEF Manager!NoCall
<1>3. ManagerShape
  BY <1>1, <1>2 DEF ManagerShape
<1>4. ASSUME NEW s \in Session
      PROVE  ManagerInv(s) /\ ManagerPhase(s) = "new" /\ ManagerAgent(s) = "none"
  BY <1>1, <1>2 DEF ManagerInv, RecordInv, Statuses, Active, ManagerPhase, ManagerAgent
<1> QED
  BY <1>3, <1>4 DEF ManagerAll

LEMMA ManagerImplements == Spec => ManagerPromise!Spec
<1>1. Init => ManagerPromise!Init
  BY ManagerInitially DEF ManagerPromise!Init
<1>2. ManagerAll /\ [Next]_vars => [ManagerPromise!Next]_(ManagerPromise!vars)
  <2> SUFFICES ASSUME ManagerAll, [Next]_vars
               PROVE  ManagerPromise!Next
    OBVIOUS
  <2>1. ASSUME NEW s \in Session
        PROVE  \/ ManagerPromise!Grant(s) \/ ManagerPromise!Launch(s) \/ ManagerPromise!Exit(s)
               \/ ManagerPromise!Revoke(s) \/ ManagerPromise!Settle(s)
               \/ ManagerPromise!Repeat(s) \/ ManagerPromise!Stays(s)
    <3>1. ManagerMove(s) /\ ManagerAgent(s) \in {"none", "up", "down"}
      BY ManagerStep DEF ManagerAgent
    <3> QED
      BY <3>1 DEF ManagerMove, ManagerPromise!Grant, ManagerPromise!Launch, ManagerPromise!Exit,
         ManagerPromise!Revoke, ManagerPromise!Settle, ManagerPromise!Repeat,
         ManagerPromise!Stays, ManagerPromise!Advance
  <2> QED
    BY <2>1 DEF ManagerPromise!Next
<1>3. Init => ManagerAll
  BY ManagerInitially
<1>4. ManagerAll /\ [Next]_vars => ManagerAll'
  BY ManagerStep
<1> QED
  BY <1>1, <1>2, <1>3, <1>4, PTL DEF Spec, ManagerPromise!Spec

-----------------------------------------------------------------------------
\* Every session runtime keeps the promise the access service relies on, for any
\* number of sessions, concurrent calls, crashes and failed writes: an approved
\* grant starts one agent, a revoked one none but a launch already in flight on
\* Kubernetes, and a settled one has none and never will (host.go, client.go and
\* manager.go behind session_runtime.go).
THEOREM RuntimesImplementSessionAgent == Spec => ImplementsSessionAgent
  BY HostImplements, PodImplements, ManagerImplements DEF ImplementsSessionAgent
=============================================================================
