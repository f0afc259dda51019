------------------------ MODULE AccessServiceProofs ------------------------
(***************************************************************************)
(* Type correctness and the safety invariants of AccessService, for every  *)
(* set of sessions, workers and outbox slots and every bound.              *)
(*                                                                         *)
(* Every step moves a session only forwards (StatusForward) and changes    *)
(* the outbox only by settling commands or by filling a slot that nobody   *)
(* works on (CommandsForward).  What a worker knows of its session and its *)
(* command is stable under such steps; what is left for each action is its *)
(* own effect on the revoke commands.                                      *)
(***************************************************************************)
EXTENDS AccessService, TLAPS

USE ZenonT(5), SMTT(10), SMTT(30)

-----------------------------------------------------------------------------
\* Types.

\* What inserting a command does to the outbox (repository/events.go Create):
\* one slot that is neither active nor held by a worker takes the new row.
LEMMA CreateFacts ==
    ASSUME TypeOK, NEW s \in Session, NEW t \in CommandType, Create(Held, s, t)
    PROVE  /\ outbox' \in [EventId -> OutboxRow]
           /\ \E e \in EventId :
                /\ ~IsActive(e) /\ e \notin Held
                /\ outbox'[e] = [status |-> "pending", type |-> t, session |-> s, retry |-> 0]
                /\ \A f \in EventId : f # e => outbox'[f] = outbox[f]
<1>1. PICK e \in FreeSlots(Held) :
        outbox' = [outbox EXCEPT ![e] =
            [status |-> "pending", type |-> t, session |-> s, retry |-> 0]]
  BY Zenon DEF Create
<1>2. e \in EventId /\ ~IsActive(e) /\ e \notin Held
  BY <1>1 DEF FreeSlots
<1>3. [status |-> "pending", type |-> t, session |-> s, retry |-> 0] \in OutboxRow
  BY MaxRetryAssumption DEF OutboxRow, ActiveStatus
<1>4. outbox \in [EventId -> OutboxRow]
  BY DEF TypeOK
<1> QED
  BY <1>1, <1>2, <1>3, <1>4

\* CreateIfNoActive inserts, or finds an active command and changes nothing.
LEMMA CreateIfNoActiveFacts ==
    ASSUME TypeOK, NEW s \in Session, NEW t \in CommandType, CreateIfNoActive(Held, s, t)
    PROVE  /\ outbox' \in [EventId -> OutboxRow]
           /\ \/ outbox' = outbox /\ ActiveCommands(s, t) # {}
              \/ /\ ActiveCommands(s, t) = {}
                 /\ \E e \in EventId :
                      /\ ~IsActive(e) /\ e \notin Held
                      /\ outbox'[e] = [status |-> "pending", type |-> t, session |-> s, retry |-> 0]
                      /\ \A f \in EventId : f # e => outbox'[f] = outbox[f]
<1>1. CASE ActiveCommands(s, t) = {}
  BY <1>1, CreateFacts DEF CreateIfNoActive
<1>2. CASE ActiveCommands(s, t) # {}
  BY <1>2 DEF CreateIfNoActive, TypeOK
<1> QED
  BY <1>1, <1>2

\* Claiming, acknowledging and rescheduling touch one row, and only its status
\* and retry count as long as the command stays active.
LEMMA UpdateFacts ==
    ASSUME TypeOK, NEW e \in EventId, NEW terminal \in BOOLEAN,
           ClaimPending(e) \/ MarkProcessed(e) \/ Reschedule(e, terminal)
    PROVE  /\ outbox' \in [EventId -> OutboxRow]
           /\ \A f \in EventId : f # e => outbox'[f] = outbox[f]
           /\ IsActive(e)' => /\ IsActive(e)
                             /\ outbox'[e].session = outbox[e].session
                             /\ outbox'[e].type = outbox[e].type
<1> USE MaxRetryAssumption
<1>1. outbox \in [EventId -> OutboxRow] /\ outbox[e] \in OutboxRow /\ Settled \in OutboxRow
  BY DEF TypeOK, OutboxRow, Settled, CommandType
<1>2. Settled.status \notin ActiveStatus
  BY DEF Settled, ActiveStatus
<1>3. CASE ClaimPending(e)
  BY <1>1, <1>3 DEF ClaimPending, OutboxRow, ActiveStatus, IsActive
<1>4. CASE MarkProcessed(e)
  BY <1>1, <1>2, <1>4 DEF MarkProcessed, IsActive
<1>5. CASE Reschedule(e, terminal)
  <2> DEFINE n == IF outbox[e].retry < MaxRetry THEN outbox[e].retry + 1 ELSE outbox[e].retry
  <2>1. outbox[e].retry \in 0 .. MaxRetry
    BY <1>1 DEF OutboxRow
  <2>2. n \in 0 .. MaxRetry
    BY <2>1
  <2>3. Retried(outbox[e]) = [outbox[e] EXCEPT !.status = "pending", !.retry = n]
    BY DEF Retried
  <2> HIDE DEF n
  <2>4. /\ Retried(outbox[e]) \in OutboxRow
        /\ Retried(outbox[e]).session = outbox[e].session
        /\ Retried(outbox[e]).type = outbox[e].type
    BY <1>1, <2>2, <2>3, Zenon DEF OutboxRow, ActiveStatus
  <2>5. outbox[e].status = "processing" => IsActive(e)
    BY DEF IsActive, ActiveStatus
  <2> QED
    BY <1>1, <1>2, <1>5, <2>4, <2>5 DEF Reschedule, IsActive
<1> QED
  BY <1>3, <1>4, <1>5

\* The ways a worker moves on keep the type of its job, its command and its
\* session.
LEMMA JobMoves ==
    ASSUME TypeOK, NEW w \in Worker, NEW label \in Label,
           job[w].pc # "idle",
           label \in {"give_up", "intervene"} => IsCommand(w),
           Goto(w, label) \/ Return(w, label) \/ Finish(w)
    PROVE  /\ job' \in [Worker -> Job]
           /\ \A x \in Worker : /\ job'[x].pc # "idle" => job'[x].s \in Session
                                /\ job'[x].pc \in {"give_up", "intervene"} => IsCommand(x)'
<1> USE MaxRetryAssumption, BoundsAssumption
<1>1. job \in [Worker -> Job] /\ job[w] \in Job /\ IdleJob \in Job
  BY DEF TypeOK, Job, IdleJob, Label, CommandType
<1>2. \A x \in Worker : /\ job[x].pc # "idle" => job[x].s \in Session
                        /\ job[x].pc \in {"give_up", "intervene"} => job[x].ev # NoEvent
  BY DEF TypeOK, IsCommand
<1>3. \/ job' = [job EXCEPT ![w] = IdleJob]
      \/ job' = [job EXCEPT ![w] = [job[w] EXCEPT !.pc = label]]
      \/ job' = [job EXCEPT ![w] = [job[w] EXCEPT !.pc = label, !.ver = 0]]
  BY <1>1 DEF Goto, Return, Finish
<1>4. 0 \in 0 .. MaxClaims
  OBVIOUS
<1>5. CASE job' = [job EXCEPT ![w] = IdleJob]
  BY <1>1, <1>2, <1>5 DEF IdleJob, IsCommand
<1>6. ASSUME NEW j \in Job, j.pc = label, j.s = job[w].s, j.ev = job[w].ev,
             job' = [job EXCEPT ![w] = j]
      PROVE  /\ job' \in [Worker -> Job]
             /\ \A x \in Worker : /\ job'[x].pc # "idle" => job'[x].s \in Session
                                  /\ job'[x].pc \in {"give_up", "intervene"} => IsCommand(x)'
  BY <1>1, <1>2, <1>6 DEF IsCommand
<1>7. CASE job' = [job EXCEPT ![w] = [job[w] EXCEPT !.pc = label]]
  <2>1. [job[w] EXCEPT !.pc = label] \in Job
    BY <1>1 DEF Job
  <2> QED
    BY <1>1, <1>6, <1>7, <2>1, Zenon DEF Job
<1>8. CASE job' = [job EXCEPT ![w] = [job[w] EXCEPT !.pc = label, !.ver = 0]]
  <2>1. [job[w] EXCEPT !.pc = label, !.ver = 0] \in Job
    BY <1>1, <1>4, Zenon DEF Job
  <2> QED
    BY <1>1, <1>6, <1>8, <2>1, Zenon DEF Job
<1> QED
  BY <1>3, <1>5, <1>7, <1>8

\* Runtime calls keep the type of the agents.
LEMMA AgentTypes ==
    ASSUME TypeOK, NEW s \in Session, AgentLaunch(s) \/ AgentClosed(s) \/ AgentCloseFailed(s)
    PROVE  agent' \in [Session -> AgentState]
BY DEF TypeOK, AgentState, AgentLaunch, AgentClosed, AgentCloseFailed

\* The type invariant in the parts that the steps change one by one.
CommandsOK == /\ outbox \in [EventId -> OutboxRow]
              /\ \A e \in EventId : IsActive(e) => outbox[e].session \in Session

RowsOK == /\ status \in [Session -> SessionStatus \cup {"none"}]
          /\ version \in [Session -> 0 .. MaxClaims]

AgentsOK == agent \in [Session -> AgentState]

AuthorityOK == /\ cancelled \in [Session -> BOOLEAN]
               /\ catalog \in [Session -> CatalogState]
               /\ expired \in [Session -> BOOLEAN]

JobsOK == /\ job \in [Worker -> Job]
          /\ \A w \in Worker : /\ job[w].pc # "idle" => job[w].s \in Session
                               /\ job[w].pc \in {"give_up", "intervene"} => IsCommand(w)

FaultsOK == faults \in 0 .. MaxFaults

\* The type invariant is the conjunction of its parts, now and after a step.
LEMMA TypeParts ==
    /\ TypeOK <=> CommandsOK /\ RowsOK /\ AgentsOK /\ AuthorityOK /\ JobsOK /\ FaultsOK
    /\ TypeOK' <=> CommandsOK' /\ RowsOK' /\ AgentsOK' /\ AuthorityOK' /\ JobsOK' /\ FaultsOK'
<1>1. TypeOK <=> CommandsOK /\ RowsOK /\ AgentsOK /\ AuthorityOK /\ JobsOK /\ FaultsOK
  BY DEF TypeOK, CommandsOK, RowsOK, AgentsOK, AuthorityOK, JobsOK, FaultsOK
<1>2. TypeOK' <=> CommandsOK' /\ RowsOK' /\ AgentsOK' /\ AuthorityOK' /\ JobsOK' /\ FaultsOK'
  BY DEF TypeOK, CommandsOK, RowsOK, AgentsOK, AuthorityOK, JobsOK, FaultsOK
<1> QED
  BY <1>1, <1>2

\* A part that no step touches keeps its type.
LEMMA UntouchedParts ==
    ASSUME TypeOK
    PROVE  /\ UNCHANGED outbox => CommandsOK'
           /\ UNCHANGED rows => RowsOK'
           /\ UNCHANGED agent => AgentsOK'
           /\ UNCHANGED authority => AuthorityOK'
           /\ UNCHANGED job => JobsOK'
           /\ UNCHANGED faults => FaultsOK'
<1> USE TypeParts
<1>1. UNCHANGED outbox => CommandsOK'
  BY DEF CommandsOK, IsActive
<1>2. UNCHANGED rows => RowsOK'
  BY DEF RowsOK, rows
<1>3. UNCHANGED agent => AgentsOK'
  BY DEF AgentsOK
<1>4. UNCHANGED authority => AuthorityOK'
  BY DEF AuthorityOK, authority
<1>5. UNCHANGED job => JobsOK'
  BY DEF JobsOK, IsCommand
<1>6. UNCHANGED faults => FaultsOK'
  BY DEF FaultsOK
<1> QED
  BY <1>1, <1>2, <1>3, <1>4, <1>5, <1>6

\* The conditional updates of a session row keep its type.
LEMMA RowTypes ==
    ASSUME TypeOK, NEW s \in Session
    PROVE  /\ InsertProvisioning(s) => RowsOK'
           /\ \A v \in 0 .. MaxClaims : \A stale :
                v < MaxClaims /\ ClaimProvisioningOnGateway(s, v, stale) => RowsOK'
           /\ \A v : \A to \in SessionStatus : LeaveProvisioning(s, v, to) => RowsOK'
           /\ \A from : \A to \in SessionStatus : Move(s, from, to) => RowsOK'
<1> USE BoundsAssumption, TypeParts DEF RowsOK
<1>1. InsertProvisioning(s) => RowsOK'
  BY DEF InsertProvisioning, SessionStatus
<1>2. ASSUME NEW v \in 0 .. MaxClaims, NEW stale,
             v < MaxClaims /\ ClaimProvisioningOnGateway(s, v, stale)
      PROVE  RowsOK'
  BY <1>2 DEF ClaimProvisioningOnGateway
<1>3. ASSUME NEW v, NEW to \in SessionStatus, LeaveProvisioning(s, v, to)
      PROVE  RowsOK'
  BY <1>3 DEF LeaveProvisioning
<1>4. ASSUME NEW from, NEW to \in SessionStatus, Move(s, from, to)
      PROVE  RowsOK'
  BY <1>4 DEF Move
<1> QED
  BY <1>1, <1>2, <1>3, <1>4

\* The same for the named updates.
LEMMA NamedRowTypes ==
    ASSUME TypeOK, NEW s \in Session
    PROVE  /\ \A v : \/ MarkDirectRunning(s, v)
                     \/ MarkProvisionFailed(s, v)
                     \/ MarkProvisionRevokeFailed(s, v)
                     => RowsOK'
           /\ BeginRevoke(s) => RowsOK'
           /\ \A to \in {"closed", "expired"} : MarkClosed(s, to) => RowsOK'
           /\ MarkManualIntervention(s) => RowsOK'
<1>1. {"running", "failed", "revoke_failed", "revoking", "closed", "expired",
       "manual_intervention"} \subseteq SessionStatus
  BY DEF SessionStatus
<1>2. /\ \A v : LeaveProvisioning(s, v, "running") => RowsOK'
      /\ \A v : LeaveProvisioning(s, v, "failed") => RowsOK'
      /\ \A v : LeaveProvisioning(s, v, "revoke_failed") => RowsOK'
  BY <1>1, RowTypes
<1>3. \A from : \A to \in {"revoking", "closed", "expired", "manual_intervention"} :
        Move(s, from, to) => RowsOK'
  BY <1>1, RowTypes
<1> QED
  BY <1>2, <1>3 DEF MarkDirectRunning, MarkProvisionFailed, MarkProvisionRevokeFailed,
     BeginRevoke, MarkClosed, MarkManualIntervention

\* Inserting a command keeps the outbox part of the type invariant ...
LEMMA InsertTypes ==
    ASSUME TypeOK, NEW s \in Session, NEW t \in CommandType,
           Create(Held, s, t) \/ CreateIfNoActive(Held, s, t)
    PROVE  CommandsOK'
<1>1. CASE Create(Held, s, t)
  <2>1. PICK x \in EventId :
          /\ outbox' \in [EventId -> OutboxRow]
          /\ outbox'[x] = [status |-> "pending", type |-> t, session |-> s, retry |-> 0]
          /\ \A f \in EventId : f # x => outbox'[f] = outbox[f]
    BY <1>1, CreateFacts
  <2>2. outbox'[x].session = s
    BY <2>1
  <2> QED
    BY <2>1, <2>2, TypeParts DEF CommandsOK, IsActive
<1>2. CASE UNCHANGED outbox
  BY <1>2, UntouchedParts
<1> QED
  BY <1>1, <1>2 DEF CreateIfNoActive

\* ... and so does claiming or settling one.
LEMMA UpdateTypes ==
    ASSUME TypeOK, NEW e \in EventId, NEW terminal \in BOOLEAN,
           ClaimPending(e) \/ MarkProcessed(e) \/ Reschedule(e, terminal)
    PROVE  CommandsOK'
BY UpdateFacts, TypeParts DEF CommandsOK, IsActive

\* The transition shared by cancellation, force-close and RevokeSession.
LEMMA RevokeLocallyTypes ==
    ASSUME TypeOK, NEW s \in Session, RevokeLocally(s)
    PROVE  CommandsOK' /\ RowsOK'
<1>1. "revoke" \in CommandType
  BY DEF CommandType
<1>2. CommandsOK'
  BY <1>1, InsertTypes, UntouchedParts DEF RevokeLocally, QueueRevoke
<1>3. RowsOK'
  BY NamedRowTypes, UntouchedParts DEF RevokeLocally
<1> QED
  BY <1>2, <1>3

-----------------------------------------------------------------------------
\* Users, administrators and the recovery loop keep the types.
LEMMA HandlerTypes ==
    ASSUME TypeOK, NEW s \in Session, HandlerStep(s)
    PROVE  TypeOK'
<1>1. {"provision", "revoke"} \subseteq CommandType
  BY DEF CommandType
<1>2. UNCHANGED job /\ UNCHANGED faults
  BY DEF HandlerStep, FinalApproval, CancelAccessRequest, ForceCloseSession, CloseSession,
     ReapExpired, ReapProvisioning, Disable, Enable, EnqueueRevocation, EnqueueingEnds,
     Expire, AgentEnds
<1>3. JobsOK' /\ FaultsOK'
  BY <1>2, UntouchedParts
<1>4. SUFFICES CommandsOK' /\ RowsOK' /\ AgentsOK' /\ AuthorityOK'
  BY <1>3, TypeParts
<1>b. BeginRevoke(s) => RowsOK'
  BY NamedRowTypes
<1>c. QueueRevoke(s) => CommandsOK'
  BY <1>1, InsertTypes DEF QueueRevoke
<1>5. CASE FinalApproval(s)
  <2>1. RowsOK'
    BY <1>5, RowTypes DEF FinalApproval
  <2> QED
    BY <1>1, <1>5, <2>1, InsertTypes, UntouchedParts DEF FinalApproval
<1>6. CASE CancelAccessRequest(s)
  <2>1. AuthorityOK'
    BY <1>6, TypeParts DEF CancelAccessRequest, AuthorityOK
  <2> QED
    BY <1>6, <2>1, RevokeLocallyTypes, UntouchedParts DEF CancelAccessRequest
<1>7. CASE ForceCloseSession(s)
  BY <1>7, RevokeLocallyTypes, UntouchedParts DEF ForceCloseSession
<1>8. CASE CloseSession(s)
  BY <1>8, <1>b, <1>c, UntouchedParts DEF CloseSession
<1>9. CASE ReapExpired(s)
  BY <1>9, <1>b, <1>c, UntouchedParts DEF ReapExpired
<1>10. CASE ReapProvisioning(s)
  BY <1>1, <1>10, InsertTypes, UntouchedParts DEF ReapProvisioning
<1>11. CASE Disable(s) \/ Enable(s) \/ EnqueueingEnds(s) \/ Expire(s)
  <2>1. AuthorityOK'
    BY <1>11, TypeParts, Zenon DEF Disable, Enable, EnqueueingEnds, Expire, AuthorityOK,
         CatalogState
  <2> QED
    BY <1>11, <2>1, UntouchedParts DEF Disable, Enable, EnqueueingEnds, Expire
<1>12. CASE EnqueueRevocation(s)
  BY <1>12, <1>b, <1>c, UntouchedParts DEF EnqueueRevocation
<1>13. CASE AgentEnds(s)
  <2>1. AgentsOK'
    BY <1>13, TypeParts DEF AgentEnds, AgentsOK, AgentState
  <2> QED
    BY <1>13, <2>1, UntouchedParts DEF AgentEnds
<1> QED
  BY <1>5, <1>6, <1>7, <1>8, <1>9, <1>10, <1>11, <1>12, <1>13 DEF HandlerStep

\* A worker that moves on keeps the job part of the type invariant.
LEMMA MoveTypes ==
    ASSUME TypeOK, NEW w \in Worker, job[w].pc # "idle"
    PROVE  /\ Finish(w) => JobsOK'
           /\ \A label \in Label \ {"give_up", "intervene"} :
                Goto(w, label) \/ Return(w, label) => JobsOK'
           /\ IsCommand(w) => \A label \in Label : Goto(w, label) => JobsOK'
<1>1. "ok" \in Label \ {"give_up", "intervene"}
  BY DEF Label
<1>2. Finish(w) => JobsOK'
  BY <1>1, JobMoves DEF JobsOK
<1>3. ASSUME NEW label \in Label \ {"give_up", "intervene"}, Goto(w, label) \/ Return(w, label)
      PROVE  JobsOK'
  BY <1>3, JobMoves DEF JobsOK
<1>4. ASSUME IsCommand(w), NEW label \in Label, Goto(w, label)
      PROVE  JobsOK'
  BY <1>4, JobMoves DEF JobsOK
<1> QED
  BY <1>2, <1>3, <1>4

\* A worker that fills in its local variables does, too.
LEMMA JobUpdateTypes ==
    ASSUME TypeOK, NEW w \in Worker, NEW j \in Job, j.s \in Session,
           j.pc \notin {"give_up", "intervene"},
           job' = [job EXCEPT ![w] = j]
    PROVE  JobsOK'
BY TypeParts DEF JobsOK, IsCommand

\* Counting a fault, and the two replies of a committed transaction.
LEMMA FaultTypes ==
    ASSUME TypeOK, NEW w \in Worker, NEW lost \in Label \ {"give_up", "intervene"},
           job[w].pc # "idle"
    PROVE  /\ CountFault => FaultsOK'
           /\ Reply(w, lost) => FaultsOK' /\ JobsOK'
<1>1. CountFault => FaultsOK'
  BY BoundsAssumption, TypeParts DEF CountFault, FaultsOK
<1>2. "ok" \in Label \ {"give_up", "intervene"}
  BY DEF Label
<1> QED
  BY <1>1, <1>2, MoveTypes, UntouchedParts DEF Reply

\* ProvisionSession keeps the types.
LEMMA ProvisionTypes ==
    ASSUME TypeOK, NEW w \in Worker, ProvisionStep(w)
    PROVE  TypeOK'
<1> DEFINE s == job[w].s
<1> DEFINE v == job[w].ver
<1> DEFINE Plain == Label \ {"give_up", "intervene"}
<1>1. job[w].pc # "idle"
  BY DEF ProvisionStep, At, LoadProvision, ClaimProvisioning, ClaimMissed, CreateStarts,
     CreateReturns, CreateFails, CompleteProvision, CompleteTooLate, CheckLease, Compensate,
     FailProvision, FailProvisionRevokeFailed
<1>2. job[w] \in Job /\ s \in Session /\ v \in 0 .. MaxClaims
  BY <1>1 DEF TypeOK, Job
<1>3. {"ok", "err", "wait", "final", "lease", "compensate", "fail", "fail_revoke"} \subseteq Plain
  BY DEF Label
<1>4. "revoke" \in CommandType
  BY DEF CommandType
<1>m. /\ \A label \in Plain : Goto(w, label) \/ Return(w, label) => JobsOK'
      /\ Reply(w, "lease") => FaultsOK' /\ JobsOK'
  BY <1>1, <1>3, MoveTypes, FaultTypes
<1>q. /\ QueueRevoke(s) => CommandsOK'
      /\ Create(Held, s, "revoke") => CommandsOK'
  BY <1>2, <1>4, InsertTypes DEF QueueRevoke
<1>r. \/ MarkDirectRunning(s, v)
      \/ MarkProvisionFailed(s, v)
      \/ MarkProvisionRevokeFailed(s, v)
      => RowsOK'
  BY <1>2, NamedRowTypes
<1>g. AgentLaunch(s) \/ AgentClosed(s) \/ AgentCloseFailed(s) => AgentsOK'
  BY <1>2, AgentTypes DEF AgentsOK
<1> HIDE DEF s, v, Plain
<1>5. CASE LoadProvision(w)
  <2>1. ASSUME NEW label \in {"fail", "claim"},
               job' = [job EXCEPT ![w] = [job[w] EXCEPT !.pc = label, !.ver = version[s]]]
        PROVE  JobsOK'
    <3>1. version[s] \in 0 .. MaxClaims
      BY <1>2 DEF TypeOK
    <3>2. label \in Label
      BY <2>1 DEF Label
    <3>3. [job[w] EXCEPT !.pc = label, !.ver = version[s]] \in Job
      BY <1>2, <3>1, <3>2, Zenon DEF Job
    <3>4. /\ [job[w] EXCEPT !.pc = label, !.ver = version[s]].s = s
          /\ [job[w] EXCEPT !.pc = label, !.ver = version[s]].pc = label
      BY <1>2 DEF Job, s
    <3> QED
      BY <1>2, <2>1, <3>3, <3>4, JobUpdateTypes, Zenon
  <2>2. JobsOK'
    BY <1>3, <1>5, <1>m, <2>1 DEF LoadProvision, s
  <2> QED
    BY <1>5, <2>2, TypeParts, UntouchedParts DEF LoadProvision
<1>6. CASE ClaimProvisioning(w)
  <2>1. v < MaxClaims /\ ClaimProvisioningOnGateway(s, v, ~LeaseRenewed(s))
    BY <1>6 DEF ClaimProvisioning, s, v
  <2>2. RowsOK'
    BY <1>2, <2>1, RowTypes
  <2>3. JobsOK'
    <3>1. v + 1 \in 0 .. MaxClaims /\ "launch" \in Label
      BY <1>2, <2>1, BoundsAssumption DEF Label
    <3>2. [job[w] EXCEPT !.pc = "launch", !.ver = v + 1] \in Job
      BY <1>2, <3>1, Zenon DEF Job
    <3>3. /\ [job[w] EXCEPT !.pc = "launch", !.ver = v + 1].s = s
          /\ [job[w] EXCEPT !.pc = "launch", !.ver = v + 1].pc = "launch"
      BY <1>2 DEF Job, s
    <3>4. job' = [job EXCEPT ![w] = [job[w] EXCEPT !.pc = "launch", !.ver = v + 1]]
      BY <1>6 DEF ClaimProvisioning, v
    <3> QED
      BY <1>2, <3>2, <3>3, <3>4, JobUpdateTypes, Zenon
  <2> QED
    BY <1>6, <2>2, <2>3, TypeParts, UntouchedParts DEF ClaimProvisioning
<1>7. CASE ClaimMissed(w)
  BY <1>3, <1>7, <1>m, TypeParts, UntouchedParts DEF ClaimMissed
<1>8. CASE CreateStarts(w)
  BY <1>3, <1>8, <1>m, <1>g, TypeParts, UntouchedParts DEF CreateStarts, s
<1>9. CASE CreateReturns(w)
  BY <1>3, <1>9, <1>m, TypeParts, UntouchedParts DEF CreateReturns
<1>10. CASE CreateFails(w)
  BY <1>3, <1>10, <1>m, TypeParts, UntouchedParts DEF CreateFails
<1>11. CASE CompleteProvision(w)
  <2>1. CommandsOK' /\ RowsOK'
    BY <1>11, <1>q, <1>r, UntouchedParts DEF CompleteProvision, s, v
  <2> QED
    BY <1>11, <1>m, <2>1, TypeParts, UntouchedParts DEF CompleteProvision
<1>12. CASE CompleteTooLate(w)
  BY <1>3, <1>12, <1>m, TypeParts, UntouchedParts DEF CompleteTooLate
<1>13. CASE CheckLease(w)
  BY <1>3, <1>13, <1>m, TypeParts, UntouchedParts DEF CheckLease
<1>14. CASE Compensate(w)
  BY <1>3, <1>14, <1>m, <1>g, TypeParts, UntouchedParts DEF Compensate, s
<1>15. CASE FailProvision(w)
  BY <1>3, <1>15, <1>m, <1>r, TypeParts, UntouchedParts DEF FailProvision, s, v
<1>16. CASE FailProvisionRevokeFailed(w)
  BY <1>3, <1>16, <1>m, <1>r, <1>q, TypeParts, UntouchedParts DEF FailProvisionRevokeFailed, s, v
<1> QED
  BY <1>5, <1>6, <1>7, <1>8, <1>9, <1>10, <1>11, <1>12, <1>13, <1>14, <1>15, <1>16
     DEF ProvisionStep

\* RevokeSession keeps the types.
LEMMA RevokeTypes ==
    ASSUME TypeOK, NEW w \in Worker, RevokeStep(w)
    PROVE  TypeOK'
<1> DEFINE s == job[w].s
<1> DEFINE Plain == Label \ {"give_up", "intervene"}
<1>1. job[w].pc # "idle"
  BY DEF RevokeStep, At, BeginRevokeSession, CloseGatewaySession, SettleRevoke, RecheckRevoke,
     PersistRevokeFailure
<1>2. s \in Session
  BY <1>1 DEF TypeOK
<1>3. {"ok", "unresolved", "err", "close", "settle", "recheck", "persist", "persist_err"}
        \subseteq Plain
  BY DEF Label
<1>4. "revoke" \in CommandType /\ "revoke_failed" \in SessionStatus
  BY DEF CommandType, SessionStatus
<1>m. /\ \A label \in Plain : Goto(w, label) \/ Return(w, label) => JobsOK'
      /\ Reply(w, "recheck") => FaultsOK' /\ JobsOK'
  BY <1>1, <1>3, MoveTypes, FaultTypes
<1>q. QueueRevoke(s) => CommandsOK'
  BY <1>2, <1>4, InsertTypes DEF QueueRevoke
<1>r. /\ RevokeLocally(s) => CommandsOK' /\ RowsOK'
      /\ \A to \in {"closed", "expired"} : MarkClosed(s, to) => RowsOK'
      /\ \A from : Move(s, from, "revoke_failed") => RowsOK'
  BY <1>2, <1>4, NamedRowTypes, RowTypes, RevokeLocallyTypes
<1>g. AgentClosed(s) \/ AgentCloseFailed(s) => AgentsOK'
  BY <1>2, AgentTypes DEF AgentsOK
<1> HIDE DEF s, Plain
<1>5. CASE BeginRevokeSession(w)
  BY <1>3, <1>5, <1>m, <1>r, TypeParts, UntouchedParts DEF BeginRevokeSession, s
<1>6. CASE CloseGatewaySession(w)
  BY <1>3, <1>6, <1>m, <1>g, TypeParts, UntouchedParts DEF CloseGatewaySession, s
<1>7. CASE SettleRevoke(w)
  <2>1. RowsOK' /\ FaultsOK' /\ JobsOK'
    BY <1>3, <1>7, <1>m, <1>r, UntouchedParts DEF SettleRevoke, s
  <2> QED
    BY <1>7, <2>1, TypeParts, UntouchedParts DEF SettleRevoke
<1>8. CASE RecheckRevoke(w)
  BY <1>3, <1>8, <1>m, TypeParts, UntouchedParts DEF RecheckRevoke
<1>9. CASE PersistRevokeFailure(w)
  <2>1. CommandsOK' /\ RowsOK' /\ JobsOK'
    BY <1>3, <1>9, <1>m, <1>q, <1>r, UntouchedParts DEF PersistRevokeFailure, s
  <2> QED
    BY <1>9, <2>1, TypeParts, UntouchedParts DEF PersistRevokeFailure
<1> QED
  BY <1>5, <1>6, <1>7, <1>8, <1>9 DEF RevokeStep

\* Settling a command after its dispatch keeps the types.
LEMMA SettleTypes ==
    ASSUME TypeOK, NEW w \in Worker, SettleStep(w)
    PROVE  TypeOK'
<1>1. job[w].pc # "idle"
  BY Zenon DEF SettleStep, At, AcknowledgeCommand, ReconcileReturns, RetryCommand, RetriesExhausted,
     GiveUpCommand, ManualIntervention
<1>2. job[w].s \in Session /\ job[w].ev \in EventId \cup {NoEvent}
  BY <1>1 DEF TypeOK, Job
<1>3. IsCommand(w) => job[w].ev \in EventId
  BY <1>2 DEF IsCommand
<1>4. job[w].pc \in {"give_up", "intervene"} => IsCommand(w)
  BY TypeParts DEF JobsOK
<1>5. Finish(w) => JobsOK'
  BY <1>1, MoveTypes
<1>6. \A terminal \in BOOLEAN :
        IsCommand(w) /\ (MarkProcessed(job[w].ev) \/ Reschedule(job[w].ev, terminal)) => CommandsOK'
  BY <1>3, UpdateTypes
<1>7. CASE AcknowledgeCommand(w)
  BY <1>5, <1>6, <1>7, TypeParts, UntouchedParts, Zenon DEF AcknowledgeCommand
<1>8. CASE ReconcileReturns(w)
  <2>1. AgentsOK'
    BY <1>2, <1>8, TypeParts DEF ReconcileReturns, AgentsOK, AgentState
  <2> QED
    BY <1>5, <1>8, <2>1, TypeParts, UntouchedParts DEF ReconcileReturns
<1>9. CASE RetryCommand(w)
  <2>1. (job[w].tries >= MaxRetry) \in BOOLEAN
    OBVIOUS
  <2> QED
    BY <1>5, <1>6, <1>9, <2>1, TypeParts, UntouchedParts, Zenon DEF RetryCommand
<1>10. CASE RetriesExhausted(w)
  <2>1. {"give_up", "intervene"} \subseteq Label
    BY DEF Label
  <2>2. JobsOK'
    BY <1>1, <1>5, <1>10, <2>1, MoveTypes DEF RetriesExhausted
  <2> QED
    BY <1>10, <2>2, TypeParts, UntouchedParts DEF RetriesExhausted
<1>11. CASE GiveUpCommand(w)
  BY <1>4, <1>5, <1>6, <1>11, TypeParts, UntouchedParts, Zenon DEF GiveUpCommand, At
<1>12. CASE ManualIntervention(w)
  <2>1. CommandsOK' /\ RowsOK'
    BY <1>2, <1>4, <1>6, <1>12, NamedRowTypes, UntouchedParts, Zenon DEF ManualIntervention, At
  <2> QED
    BY <1>5, <1>12, <2>1, TypeParts, UntouchedParts DEF ManualIntervention
<1> QED
  BY <1>7, <1>8, <1>9, <1>10, <1>11, <1>12 DEF SettleStep

\* Claiming a command, the reconciler and failures keep the types.
LEMMA OtherTypes ==
    ASSUME TypeOK, NEW w \in Worker
    PROVE  /\ \A e \in EventId : ClaimCommand(w, e) => TypeOK'
           /\ \A s \in Session : Reconcile(w, s) => TypeOK'
           /\ DatabaseFails(w) \/ WorkerCrash(w) => TypeOK'
<1>1. ASSUME NEW e \in EventId, ClaimCommand(w, e)
      PROVE  TypeOK'
  <2> DEFINE pc == IF outbox[e].type = "provision" THEN "load" ELSE "revoke"
  <2> DEFINE j == [pc |-> pc, ev |-> e, type |-> outbox[e].type, s |-> outbox[e].session,
                   ver |-> 0, tries |-> outbox[e].retry]
  <2>1. outbox[e] \in OutboxRow /\ outbox[e].session \in Session
    BY <1>1, TypeParts DEF CommandsOK, ClaimCommand, ClaimPending
  <2>2. pc \in Label /\ pc \notin {"give_up", "intervene"}
    BY DEF Label
  <2>3. job' = [job EXCEPT ![w] = j]
    BY <1>1 DEF ClaimCommand
  <2> HIDE DEF pc
  <2>4. j \in Job /\ j.s \in Session /\ j.pc = pc
    BY <2>1, <2>2, BoundsAssumption DEF Job, OutboxRow
  <2> HIDE DEF j
  <2>5. JobsOK'
    BY <2>2, <2>3, <2>4, JobUpdateTypes, Zenon
  <2>6. CommandsOK'
    BY <1>1, UpdateTypes, Zenon DEF ClaimCommand
  <2> QED
    BY <1>1, <2>5, <2>6, TypeParts, UntouchedParts DEF ClaimCommand
<1>2. ASSUME NEW s \in Session, Reconcile(w, s)
      PROVE  TypeOK'
  <2>1. IdleJob \in Job /\ "revoke" \in Label
    BY MaxRetryAssumption, BoundsAssumption DEF IdleJob, Job, Label, CommandType
  <2>2. /\ [IdleJob EXCEPT !.pc = "revoke", !.s = s] \in Job
        /\ [IdleJob EXCEPT !.pc = "revoke", !.s = s].s = s
        /\ [IdleJob EXCEPT !.pc = "revoke", !.s = s].pc = "revoke"
    BY <2>1, Zenon DEF Job
  <2>3. job' = [job EXCEPT ![w] = [IdleJob EXCEPT !.pc = "revoke", !.s = s]]
    BY <1>2 DEF Reconcile
  <2>4. JobsOK'
    BY <2>2, <2>3, JobUpdateTypes, Zenon
  <2>5. AgentsOK'
    BY <1>2, AgentTypes DEF Reconcile, AgentsOK
  <2> QED
    BY <1>2, <2>4, <2>5, TypeParts, UntouchedParts DEF Reconcile
<1>3. ASSUME DatabaseFails(w) \/ WorkerCrash(w)
      PROVE  TypeOK'
  <2>1. job[w].pc # "idle" /\ CountFault
    BY <1>3 DEF DatabaseFails, WorkerCrash, At
  <2>2. {"lease", "recheck", "persist_err", "err"} \subseteq Label \ {"give_up", "intervene"}
    BY DEF Label
  <2>3. FaultsOK'
    BY <2>1, <2>2, FaultTypes
  <2>4. JobsOK'
    BY <1>3, <2>1, <2>2, MoveTypes DEF DatabaseFails, WorkerCrash
  <2> QED
    BY <1>3, <2>3, <2>4, TypeParts, UntouchedParts DEF DatabaseFails, WorkerCrash
<1> QED
  BY <1>1, <1>2, <1>3

\* The initial state has the types ...
LEMMA TypeInit == Init => TypeOK
<1> HAVE Init
<1>1. Settled \in OutboxRow /\ Settled.status \notin ActiveStatus
  BY MaxRetryAssumption DEF Settled, OutboxRow, CommandType, ActiveStatus
<1>2. IdleJob \in Job /\ IdleJob.pc = "idle"
  BY MaxRetryAssumption, BoundsAssumption DEF IdleJob, Job, Label, CommandType
<1>3. CommandsOK
  BY <1>1 DEF Init, OutboxInit, CommandsOK, IsActive
<1>4. JobsOK
  BY <1>2 DEF Init, JobsOK
<1>5. RowsOK /\ AgentsOK /\ AuthorityOK /\ FaultsOK
  BY BoundsAssumption DEF Init, SessionsInit, RowsOK, AgentsOK, AuthorityOK, FaultsOK,
     AgentState, CatalogState
<1> QED
  BY <1>3, <1>4, <1>5, TypeParts

\* ... and every step keeps them.
LEMMA TypeNext ==
    ASSUME TypeOK, [Next]_vars
    PROVE  TypeOK'
<1>1. CASE UNCHANGED vars
  BY <1>1, TypeParts, UntouchedParts DEF vars, rows, authority
<1>2. CASE Next
  BY <1>2, HandlerTypes, ProvisionTypes, RevokeTypes, SettleTypes, OtherTypes
     DEF Next, WorkerStep
<1> QED
  BY <1>1, <1>2

\* Every row, job and agent has its type, active commands and busy workers
\* always refer to a session, and only a claimed command is given up.
THEOREM TypeCorrect == Spec => []TypeOK
BY TypeInit, TypeNext, PTL DEF Spec

-----------------------------------------------------------------------------
\* Safety.

\* A session never goes back to a status before its revocation, and keeps a
\* resolved status.
StatusForward ==
    \A s \in Session :
        /\ status[s] # "none" => status'[s] # "none"
        /\ status[s] \notin BeforeRevoke => status'[s] \notin BeforeRevoke
        /\ status[s] \in Resolved => status'[s] = status[s]

\* The row updates are compare-and-set updates that only go forwards.
LEMMA UpdatesForward ==
    ASSUME TypeOK, NEW s \in Session
    PROVE  /\ InsertProvisioning(s) => StatusForward
           /\ \A v : \/ MarkDirectRunning(s, v)
                     \/ MarkProvisionFailed(s, v)
                     \/ MarkProvisionRevokeFailed(s, v)
                     => StatusForward
           /\ BeginRevoke(s) => StatusForward
           /\ \A to \in {"closed", "expired"} : MarkClosed(s, to) => StatusForward
           /\ MarkManualIntervention(s) => StatusForward
           /\ Move(s, {"running", "revoking", "revoke_failed", "manual_intervention"},
                   "revoke_failed") => StatusForward
           /\ RevokeLocally(s) => StatusForward
           /\ UNCHANGED status => StatusForward
<1> USE DEF TypeOK, StatusForward, BeforeRevoke, Resolved
<1>1. InsertProvisioning(s) => StatusForward
  BY DEF InsertProvisioning
<1>2. \A v : \/ MarkDirectRunning(s, v)
             \/ MarkProvisionFailed(s, v)
             \/ MarkProvisionRevokeFailed(s, v)
             => StatusForward
  BY DEF MarkDirectRunning, MarkProvisionFailed, MarkProvisionRevokeFailed, LeaveProvisioning, Owns
<1>3. BeginRevoke(s) => StatusForward
  BY DEF BeginRevoke, Move
<1>4. \A to \in {"closed", "expired"} : MarkClosed(s, to) => StatusForward
  BY DEF MarkClosed, Move
<1>5. MarkManualIntervention(s) => StatusForward
  BY DEF MarkManualIntervention, Move
<1>6. Move(s, {"running", "revoking", "revoke_failed", "manual_intervention"}, "revoke_failed")
        => StatusForward
  BY DEF Move
<1>7. UNCHANGED status => StatusForward
  OBVIOUS
<1>8. RevokeLocally(s) => StatusForward
  <2> HIDE DEF StatusForward
  <2> QED
    BY <1>2, <1>3, <1>7 DEF RevokeLocally, rows
<1> QED
  BY <1>1, <1>2, <1>3, <1>4, <1>5, <1>6, <1>7, <1>8

\* Every step of the specification goes forwards.
LEMMA NextForward ==
    ASSUME TypeOK, [Next]_vars
    PROVE  StatusForward
<1>1. UNCHANGED status => StatusForward
  BY DEF StatusForward
<1>2. CASE UNCHANGED vars
  BY <1>1, <1>2 DEF vars
<1>3. ASSUME NEW s \in Session, HandlerStep(s)
      PROVE  StatusForward
  BY <1>3, UpdatesForward DEF HandlerStep, FinalApproval, CancelAccessRequest, ForceCloseSession,
     CloseSession, ReapExpired, ReapProvisioning, Disable, Enable, EnqueueRevocation,
     EnqueueingEnds, Expire, AgentEnds, rows
<1>4. ASSUME NEW w \in Worker, NEW e \in EventId, ClaimCommand(w, e)
      PROVE  StatusForward
  BY <1>1, <1>4 DEF ClaimCommand, rows
<1>5. ASSUME NEW w \in Worker, NEW s \in Session, Reconcile(w, s)
      PROVE  StatusForward
  BY <1>1, <1>5 DEF Reconcile, rows
<1>6. ASSUME NEW w \in Worker, DatabaseFails(w) \/ WorkerCrash(w)
      PROVE  StatusForward
  BY <1>1, <1>6 DEF DatabaseFails, WorkerCrash, rows
<1>7. ASSUME NEW w \in Worker, ProvisionStep(w)
      PROVE  StatusForward
  <2>1. CASE CompleteProvision(w) \/ FailProvision(w) \/ FailProvisionRevokeFailed(w)
    <3>1. job[w].s \in Session
      BY <2>1 DEF TypeOK, CompleteProvision, FailProvision, FailProvisionRevokeFailed, At
    <3> QED
      BY <2>1, <3>1, UpdatesForward DEF CompleteProvision, FailProvision,
         FailProvisionRevokeFailed, rows
  <2>2. CASE ~(CompleteProvision(w) \/ FailProvision(w) \/ FailProvisionRevokeFailed(w))
    BY <1>1, <1>7, <2>2 DEF ProvisionStep, LoadProvision, ClaimProvisioning,
       ClaimProvisioningOnGateway, ClaimMissed, CreateStarts, CreateReturns, CreateFails,
       CompleteTooLate, CheckLease, Compensate, rows
  <2> QED
    BY <2>1, <2>2
<1>8. ASSUME NEW w \in Worker, RevokeStep(w)
      PROVE  StatusForward
  <2>1. job[w].s \in Session
    BY <1>8 DEF TypeOK, RevokeStep, BeginRevokeSession, CloseGatewaySession, SettleRevoke,
       RecheckRevoke, PersistRevokeFailure, At
  <2> QED
    BY <1>8, <2>1, UpdatesForward DEF RevokeStep, BeginRevokeSession, CloseGatewaySession,
       SettleRevoke, RecheckRevoke, PersistRevokeFailure, rows
<1>9. ASSUME NEW w \in Worker, SettleStep(w)
      PROVE  StatusForward
  <2>1. job[w].pc = "intervene" => job[w].s \in Session
    BY DEF TypeOK
  <2> QED
    BY <1>1, <1>9, <2>1, UpdatesForward, Zenon DEF SettleStep, AcknowledgeCommand, ReconcileReturns,
       RetryCommand, RetriesExhausted, GiveUpCommand, ManualIntervention, rows, At
<1> QED
  BY <1>2, <1>3, <1>4, <1>5, <1>6, <1>7, <1>8, <1>9 DEF Next, WorkerStep

\* No late worker or handler undoes a revocation or changes a resolved session.
THEOREM NeverRevivedHolds == Spec => NeverRevived
<1>1. TypeOK /\ [Next]_vars =>
        [\A s \in Session :
          /\ status[s] \notin {"none", "provisioning", "running"}
                => status'[s] \notin {"none", "provisioning", "running"}
          /\ status[s] \in Resolved => status'[s] = status[s]]_vars
  BY NextForward DEF StatusForward, BeforeRevoke
<1> QED
  BY <1>1, TypeCorrect, PTL DEF Spec, NeverRevived

-----------------------------------------------------------------------------
\* An active command was active before, or fills a slot that nobody held and
\* belongs to an existing session, which a revoke command finds revoked.
CommandsForward ==
    \A e \in EventId : IsActive(e)' =>
        \/ /\ IsActive(e)
           /\ outbox'[e].session = outbox[e].session
           /\ outbox'[e].type = outbox[e].type
        \/ /\ ~IsActive(e) /\ e \notin Held
           /\ outbox'[e].session \in Session
           /\ status'[outbox'[e].session] # "none"
           /\ outbox'[e].type = "revoke" => status'[outbox'[e].session] \notin BeforeRevoke

\* The revoke commands of every session stay the same.
RevokesKept == \A s \in Session : ActiveCommands(s, "revoke")' = ActiveCommands(s, "revoke")

\* What the properties say about revoke commands.
RevokeInv ==
    /\ TypeOK
    /\ JobsMatchCommands
    /\ CommandsMatchSessions
    /\ AgentsHaveSessions
    /\ RevokeJobsSettleLast
    /\ RevokeNeverLost
    /\ AtMostOneRevoke
    /\ InterventionIsQuiet

RevokeProps == RevokeNeverLost /\ AtMostOneRevoke /\ InterventionIsQuiet

\* A step that leaves the revoke commands alone keeps the properties if it
\* moves no session into a status they speak of.
LEMMA KeptProps ==
    ASSUME RevokeProps, RevokesKept,
           \A s \in Session :
              \/ status'[s] = status[s]
              \/ status'[s] \notin {"revoking", "revoke_failed", "manual_intervention"}
    PROVE  RevokeProps'
BY DEF RevokeProps, RevokesKept, RevokeNeverLost, AtMostOneRevoke, InterventionIsQuiet

\* A step that leaves the outbox alone.
LEMMA UnchangedCommands ==
    ASSUME TypeOK, UNCHANGED outbox
    PROVE  CommandsForward /\ RevokesKept
BY DEF CommandsForward, RevokesKept, ActiveCommands, IsActive

\* Queueing a provision command (FinalApproval, ReapProvisioning).
LEMMA ProvisionCommands ==
    ASSUME TypeOK, NEW s \in Session, status'[s] # "none",
           Create(Held, s, "provision") \/ CreateIfNoActive(Held, s, "provision")
    PROVE  CommandsForward /\ RevokesKept
<1>1. CASE UNCHANGED outbox
  BY <1>1, UnchangedCommands
<1>2. CASE Create(Held, s, "provision")
  <2>0. "provision" \in CommandType
    BY DEF CommandType
  <2>1. PICK e \in EventId :
          /\ ~IsActive(e) /\ e \notin Held
          /\ outbox'[e] = [status |-> "pending", type |-> "provision", session |-> s, retry |-> 0]
          /\ \A f \in EventId : f # e => outbox'[f] = outbox[f]
    BY <1>2, <2>0, CreateFacts
  <2>2. outbox'[e].type = "provision" /\ outbox'[e].session = s
    BY <2>1
  <2>3. CommandsForward
    BY <2>1, <2>2 DEF CommandsForward, IsActive
  <2>4. RevokesKept
    BY <2>1, <2>2 DEF RevokesKept, ActiveCommands, IsActive
  <2> QED
    BY <2>3, <2>4
<1> QED
  BY <1>1, <1>2 DEF CreateIfNoActive

\* Queueing a revoke command in the transaction that revokes the session.
LEMMA RevokeCommands ==
    ASSUME TypeOK, RevokeProps, CommandsMatchSessions, NEW s \in Session,
           status'[s] \notin BeforeRevoke \cup {"manual_intervention"},
           \A r \in Session : r # s => status'[r] = status[r],
           \/ QueueRevoke(s)
           \/ Create(Held, s, "revoke") /\ status[s] = "provisioning"
    PROVE  CommandsForward /\ RevokeProps'
<1>1. CASE UNCHANGED outbox /\ ActiveCommands(s, "revoke") # {}
  <2>1. CommandsForward /\ RevokesKept
    BY <1>1, UnchangedCommands
  <2> QED
    BY <1>1, <2>1 DEF RevokeProps, RevokesKept, RevokeNeverLost, AtMostOneRevoke,
       InterventionIsQuiet
<1>2. CASE Create(Held, s, "revoke") /\ ActiveCommands(s, "revoke") = {}
  <2>0. "revoke" \in CommandType
    BY DEF CommandType
  <2>1. PICK e \in EventId :
          /\ ~IsActive(e) /\ e \notin Held
          /\ outbox'[e] = [status |-> "pending", type |-> "revoke", session |-> s, retry |-> 0]
          /\ \A f \in EventId : f # e => outbox'[f] = outbox[f]
    BY <1>2, <2>0, CreateFacts
  <2>2. outbox'[e].type = "revoke" /\ outbox'[e].session = s /\ outbox'[e].status = "pending"
    BY <2>1
  <2>3. CommandsForward
    BY <2>1, <2>2 DEF CommandsForward, IsActive, BeforeRevoke
  <2>4. ActiveCommands(s, "revoke")' = {e}
    BY <1>2, <2>1, <2>2 DEF ActiveCommands, IsActive, ActiveStatus
  <2>5. \A r \in Session : r # s => ActiveCommands(r, "revoke")' = ActiveCommands(r, "revoke")
    BY <2>1, <2>2 DEF ActiveCommands, IsActive
  <2>6. RevokeProps'
    BY <2>4, <2>5 DEF RevokeProps, RevokeNeverLost, AtMostOneRevoke, InterventionIsQuiet
  <2> QED
    BY <2>3, <2>6
<1>3. status[s] = "provisioning" => ActiveCommands(s, "revoke") = {}
  BY DEF CommandsMatchSessions, ActiveCommands, BeforeRevoke
<1> QED
  BY <1>1, <1>2, <1>3 DEF QueueRevoke, CreateIfNoActive

-----------------------------------------------------------------------------
\* What JobsMatchCommands and RevokeJobsSettleLast say of one worker.
Knowledge(w) ==
    /\ job[w].pc = "idle" => job[w] = IdleJob
    /\ job[w].pc # "idle" => status[job[w].s] # "none"
    /\ job[w].pc \in ProvisionLabel => job[w].type = "provision"
    /\ job[w].pc \in RevokeLabel \/ ~IsCommand(w) => job[w].type = "revoke"
    /\ IsCommand(w) /\ IsActive(job[w].ev) =>
         /\ outbox[job[w].ev].session = job[w].s
         /\ outbox[job[w].ev].type = job[w].type
    /\ job[w].type = "revoke" =>
         /\ IsCommand(w) => status[job[w].s] \notin BeforeRevoke
         /\ job[w].pc = "ok" => status[job[w].s] \in Resolved
         /\ job[w].pc \in {"unresolved", "give_up"} /\ IsCommand(w) =>
              status[job[w].s] \in Resolved \/ ~IsActive(job[w].ev)

AllKnow == \A w \in Worker : Knowledge(w)

\* The knowledge of all workers is what the two invariants about jobs say.
LEMMA KnowledgeParts ==
    /\ AllKnow <=> JobsMatchCommands /\ RevokeJobsSettleLast
    /\ AllKnow' <=> JobsMatchCommands' /\ RevokeJobsSettleLast'
BY DEF AllKnow, Knowledge, JobsMatchCommands, RevokeJobsSettleLast

\* The next values of the command and the session of a worker that goes on:
\* the slot of its command is not reused, and its session goes forwards.
LEMMA WorldForward ==
    ASSUME TypeOK, StatusForward, CommandsForward, NEW w \in Worker, job[w].pc # "idle"
    PROVE  /\ job[w].s \in Session
           /\ status[job[w].s] # "none" => status'[job[w].s] # "none"
           /\ status[job[w].s] \notin BeforeRevoke => status'[job[w].s] \notin BeforeRevoke
           /\ status[job[w].s] \in Resolved => status'[job[w].s] \in Resolved
           /\ IsCommand(w) => job[w].ev \in EventId
           /\ IsCommand(w) /\ outbox'[job[w].ev].status \in ActiveStatus =>
                /\ IsActive(job[w].ev)
                /\ outbox'[job[w].ev].session = outbox[job[w].ev].session
                /\ outbox'[job[w].ev].type = outbox[job[w].ev].type
<1>1. job[w].s \in Session /\ job[w].ev \in EventId \cup {NoEvent}
  BY DEF TypeOK, Job
<1>2. /\ status[job[w].s] # "none" => status'[job[w].s] # "none"
      /\ status[job[w].s] \notin BeforeRevoke => status'[job[w].s] \notin BeforeRevoke
      /\ status[job[w].s] \in Resolved => status'[job[w].s] \in Resolved
  BY <1>1 DEF StatusForward
<1>3. IsCommand(w) => job[w].ev \in EventId
  BY <1>1 DEF IsCommand
<1>4. job[w].ev \in Held
  BY DEF Held
<1>5. ASSUME IsCommand(w), outbox'[job[w].ev].status \in ActiveStatus
      PROVE  /\ IsActive(job[w].ev)
             /\ outbox'[job[w].ev].session = outbox[job[w].ev].session
             /\ outbox'[job[w].ev].type = outbox[job[w].ev].type
  BY <1>3, <1>4, <1>5 DEF CommandsForward, IsActive
<1> QED
  BY <1>1, <1>2, <1>3, <1>5

\* A worker that is not concerned by a step keeps what it knows.
LEMMA OthersKnow ==
    ASSUME TypeOK, StatusForward, CommandsForward,
           NEW w \in Worker, Knowledge(w), job'[w] = job[w]
    PROVE  Knowledge(w)'
<1>1. CASE job[w].pc = "idle"
  BY <1>1 DEF Knowledge, IsCommand, IdleJob, ProvisionLabel, RevokeLabel
<1>2. CASE job[w].pc # "idle"
  BY <1>2, WorldForward DEF Knowledge, IsCommand, IsActive
<1> QED
  BY <1>1, <1>2

\* The worker goes to another label with the same command and session.
MovesTo(w, label) ==
    /\ job'[w].pc = label
    /\ job'[w].ev = job[w].ev
    /\ job'[w].type = job[w].type
    /\ job'[w].s = job[w].s
    /\ \A x \in Worker : x # w => job'[x] = job[x]

\* The forms in which an action changes the label of its worker.
LEMMA GotoMoves ==
    ASSUME TypeOK, NEW w \in Worker
    PROVE  /\ \A label : Goto(w, label) \/ Return(w, label) => MovesTo(w, label)
           /\ \A label, n : job' = [job EXCEPT ![w] = [job[w] EXCEPT !.pc = label, !.ver = n]]
                => MovesTo(w, label)
<1>1. job \in [Worker -> Job] /\ job[w] \in Job
  BY DEF TypeOK
<1>2. ASSUME NEW label, Goto(w, label) \/ Return(w, label)
      PROVE  MovesTo(w, label)
  BY <1>1, <1>2, Zenon DEF Goto, Return, Job, MovesTo
<1>3. ASSUME NEW label, NEW n,
             job' = [job EXCEPT ![w] = [job[w] EXCEPT !.pc = label, !.ver = n]]
      PROVE  MovesTo(w, label)
  BY <1>1, <1>3 DEF Job, MovesTo
<1> QED
  BY <1>2, <1>3, Zenon

\* A worker that goes to another label knows what the label stands for.
LEMMA MoverKnows ==
    ASSUME TypeOK, StatusForward, CommandsForward,
           NEW w \in Worker, Knowledge(w), job[w].pc # "idle",
           NEW label \in Label, label # "idle", MovesTo(w, label),
           label \in ProvisionLabel => job[w].type = "provision",
           label \in RevokeLabel => job[w].type = "revoke",
           label = "ok" /\ job[w].type = "revoke" => status'[job[w].s] \in Resolved,
           label \in {"unresolved", "give_up"} /\ IsCommand(w) =>
              status'[job[w].s] \in Resolved \/ ~IsActive(job[w].ev)
    PROVE  Knowledge(w)'
BY WorldForward DEF Knowledge, IsCommand, IsActive, MovesTo

\* Only the moving worker's knowledge needs an argument.
LEMMA AllKnowNext ==
    ASSUME TypeOK, AllKnow, StatusForward, CommandsForward, NEW w \in Worker,
           \A x \in Worker : x # w => job'[x] = job[x],
           Knowledge(w)'
    PROVE  AllKnow'
BY OthersKnow DEF AllKnow

\* A worker that has become idle knows nothing, which is enough.
LEMMA FinishKnows ==
    ASSUME TypeOK, NEW w \in Worker, Finish(w)
    PROVE  Knowledge(w)'
<1>1. job'[w] = IdleJob
  BY DEF Finish, TypeOK
<1> QED
  BY <1>1 DEF Knowledge, IsCommand, IdleJob, ProvisionLabel, RevokeLabel

\* Becoming idle disturbs nobody.
LEMMA FinishAllKnow ==
    ASSUME TypeOK, AllKnow, StatusForward, CommandsForward, NEW w \in Worker, Finish(w)
    PROVE  AllKnow'
BY FinishKnows, AllKnowNext, Zenon DEF Finish, TypeOK

\* Steps of ProvisionSession.
LEMMA ProvisionAllKnow ==
    ASSUME TypeOK, AllKnow, StatusForward, CommandsForward,
           NEW w \in Worker, job[w].pc \in ProvisionLabel,
           NEW label \in ProvisionLabel \cup {"ok", "err"},
           MovesTo(w, label)
    PROVE  AllKnow'
<1>1. Knowledge(w) /\ job[w].type = "provision" /\ job[w].pc # "idle"
  BY DEF AllKnow, Knowledge, ProvisionLabel
<1>2. label \in Label /\ label # "idle" /\ label \notin RevokeLabel
  BY DEF Label, ProvisionLabel, RevokeLabel
<1>3. label \notin {"unresolved", "give_up"}
  BY DEF ProvisionLabel
<1>4. Knowledge(w)'
  BY <1>1, <1>2, <1>3, MoverKnows
<1> QED
  BY <1>4, AllKnowNext DEF MovesTo

\* Steps of RevokeSession that do not settle anything yet.
LEMMA RevokeAllKnow ==
    ASSUME TypeOK, AllKnow, StatusForward, CommandsForward,
           NEW w \in Worker, job[w].pc \in RevokeLabel,
           NEW label \in {"close", "settle", "recheck", "persist", "persist_err", "err",
                          "ok", "unresolved"},
           MovesTo(w, label),
           label = "ok" => status'[job[w].s] \in Resolved,
           label = "unresolved" /\ IsCommand(w) =>
              status'[job[w].s] \in Resolved \/ ~IsActive(job[w].ev)
    PROVE  AllKnow'
<1>1. Knowledge(w) /\ job[w].type = "revoke" /\ job[w].pc # "idle"
  BY DEF AllKnow, Knowledge, RevokeLabel
<1>2. label \in Label /\ label # "idle" /\ label \notin ProvisionLabel /\ label # "give_up"
  BY DEF Label, ProvisionLabel, RevokeLabel
<1>4. Knowledge(w)'
  BY <1>1, <1>2, MoverKnows
<1> QED
  BY <1>4, AllKnowNext DEF MovesTo

-----------------------------------------------------------------------------
\* What has to be shown of a step.
Kept == CommandsForward /\ RevokeProps' /\ AllKnow'

\* The inductive invariant in terms of the workers' knowledge.
LEMMA InvParts ==
    RevokeInv <=>
      TypeOK /\ AllKnow /\ CommandsMatchSessions /\ AgentsHaveSessions /\ RevokeProps
BY KnowledgeParts DEF RevokeInv, RevokeProps

\* The same after a step.
LEMMA InvPartsNext ==
    RevokeInv' <=>
      TypeOK' /\ AllKnow' /\ CommandsMatchSessions' /\ AgentsHaveSessions' /\ RevokeProps'
BY KnowledgeParts DEF RevokeInv, RevokeProps

\* A step that changes neither the outbox nor a status.
LEMMA QuietStep ==
    ASSUME RevokeInv, UNCHANGED <<outbox, status>>
    PROVE  StatusForward /\ CommandsForward /\ RevokeProps'
<1>1. StatusForward /\ CommandsForward /\ RevokesKept
  BY InvParts, UnchangedCommands DEF StatusForward
<1> QED
  BY <1>1, InvParts, KeptProps

\* The transition shared by cancellation, force-close and RevokeSession.
LEMMA RevokeLocallyStep ==
    ASSUME RevokeInv, NEW s \in Session, RevokeLocally(s)
    PROVE  /\ StatusForward /\ CommandsForward /\ RevokeProps'
           /\ status'[s] \notin BeforeRevoke \cup {"manual_intervention"}
<1> USE InvParts
<1>1. StatusForward
  BY UpdatesForward
<1>2. status \in [Session -> SessionStatus \cup {"none"}]
  BY DEF TypeOK
<1>3. CASE status[s] = "provisioning" /\ version[s] = 0 /\ MarkProvisionFailed(s, 0)
             /\ UNCHANGED outbox
  <2>1. status' = [status EXCEPT ![s] = "failed"]
    BY <1>3 DEF MarkProvisionFailed, LeaveProvisioning
  <2>2. CommandsForward /\ RevokesKept
    BY <1>3, UnchangedCommands
  <2>3. RevokeProps'
    BY <1>2, <2>1, <2>2, KeptProps
  <2> QED
    BY <1>1, <1>2, <2>1, <2>2, <2>3 DEF BeforeRevoke
<1>4. CASE MarkProvisionRevokeFailed(s, version[s]) /\ QueueRevoke(s)
  <2>1. status' = [status EXCEPT ![s] = "revoke_failed"]
    BY <1>4 DEF MarkProvisionRevokeFailed, LeaveProvisioning
  <2>2. status'[s] \notin BeforeRevoke \cup {"manual_intervention"}
    BY <1>2, <2>1 DEF BeforeRevoke
  <2>3. \A r \in Session : r # s => status'[r] = status[r]
    BY <1>2, <2>1
  <2> QED
    BY <1>1, <1>4, <2>2, <2>3, RevokeCommands
<1>5. CASE BeginRevoke(s) /\ QueueRevoke(s)
  <2>1. status' = [status EXCEPT ![s] = "revoking"]
    BY <1>5 DEF BeginRevoke, Move
  <2>2. status'[s] \notin BeforeRevoke \cup {"manual_intervention"}
    BY <1>2, <2>1 DEF BeforeRevoke
  <2>3. \A r \in Session : r # s => status'[r] = status[r]
    BY <1>2, <2>1
  <2> QED
    BY <1>1, <1>5, <2>2, <2>3, RevokeCommands
<1>6. CASE status[s] = "revoking" /\ UNCHANGED rows /\ QueueRevoke(s)
  <2>1. status' = status
    BY <1>6 DEF rows
  <2>2. status'[s] \notin BeforeRevoke \cup {"manual_intervention"}
    BY <1>6, <2>1 DEF BeforeRevoke
  <2> QED
    BY <1>1, <1>6, <2>1, <2>2, RevokeCommands
<1> QED
  BY <1>3, <1>4, <1>5, <1>6 DEF RevokeLocally

\* Users, administrators and the recovery loop.
LEMMA HandlerKept ==
    ASSUME RevokeInv, NEW s \in Session, HandlerStep(s)
    PROVE  Kept
<1> USE InvParts
<1>1. status \in [Session -> SessionStatus \cup {"none"}]
  BY DEF TypeOK
<1>2. StatusForward
  <2>1. [Next]_vars
    BY DEF Next
  <2> QED
    BY <2>1, NextForward
<1>3. UNCHANGED job
  BY DEF HandlerStep, FinalApproval, CancelAccessRequest, ForceCloseSession, CloseSession,
     ReapExpired, ReapProvisioning, Disable, Enable, EnqueueRevocation, EnqueueingEnds,
     Expire, AgentEnds
<1>4. SUFFICES CommandsForward /\ RevokeProps'
  BY <1>2, <1>3, OthersKnow DEF Kept, AllKnow
<1>5. CASE FinalApproval(s)
  <2>1. status' = [status EXCEPT ![s] = "provisioning"]
    BY <1>5 DEF FinalApproval, InsertProvisioning
  <2>2. status'[s] # "none"
    BY <1>1, <2>1
  <2>3. CommandsForward /\ RevokesKept
    BY <1>5, <2>2, ProvisionCommands DEF FinalApproval
  <2> QED
    BY <1>1, <2>1, <2>3, KeptProps
<1>6. CASE CancelAccessRequest(s) \/ ForceCloseSession(s)
  BY <1>6, RevokeLocallyStep DEF CancelAccessRequest, ForceCloseSession
<1>7. CASE CloseSession(s) \/ ReapExpired(s) \/ EnqueueRevocation(s)
  BY <1>7, RevokeLocallyStep DEF CloseSession, ReapExpired, EnqueueRevocation, RevokeLocally
<1>8. CASE ReapProvisioning(s)
  <2>1. status' = status /\ status'[s] # "none"
    BY <1>8 DEF ReapProvisioning, rows
  <2>2. CommandsForward /\ RevokesKept
    BY <1>8, <2>1, ProvisionCommands DEF ReapProvisioning
  <2> QED
    BY <2>1, <2>2, KeptProps
<1>9. CASE Disable(s) \/ Enable(s) \/ EnqueueingEnds(s) \/ Expire(s) \/ AgentEnds(s)
  BY <1>9, QuietStep DEF Disable, Enable, EnqueueingEnds, Expire, AgentEnds, rows
<1> QED
  BY <1>5, <1>6, <1>7, <1>8, <1>9 DEF HandlerStep

\* ProvisionSession.
LEMMA ProvisionKept ==
    ASSUME RevokeInv, NEW w \in Worker, ProvisionStep(w)
    PROVE  Kept
<1> DEFINE s == job[w].s
<1> USE InvParts
<1>1. status \in [Session -> SessionStatus \cup {"none"}]
  BY DEF TypeOK
<1>2. StatusForward
  <2>1. [Next]_vars
    BY DEF Next, WorkerStep
  <2> QED
    BY <2>1, NextForward
<1>3. job[w].pc \in ProvisionLabel
  BY DEF ProvisionStep, At, LoadProvision, ClaimProvisioning, ClaimMissed, CreateStarts,
     CreateReturns, CreateFails, CompleteProvision, CompleteTooLate, CheckLease, Compensate,
     FailProvision, FailProvisionRevokeFailed, ProvisionLabel
<1>4. s \in Session
  BY <1>3 DEF TypeOK, ProvisionLabel
<1>5. \E label \in ProvisionLabel \cup {"ok", "err"} : MovesTo(w, label)
  BY GotoMoves, Zenon DEF ProvisionStep, LoadProvision, ClaimProvisioning, ClaimMissed, CreateStarts,
     CreateReturns, CreateFails, CompleteProvision, CompleteTooLate, CheckLease, Compensate,
     FailProvision, FailProvisionRevokeFailed, ProvisionLabel, Reply
<1>6. SUFFICES CommandsForward /\ RevokeProps'
  BY <1>2, <1>3, <1>5, ProvisionAllKnow DEF Kept
<1> HIDE DEF s
<1>7. CASE UNCHANGED <<outbox, status>>
  BY <1>7, QuietStep
<1>8. ASSUME MarkProvisionFailed(s, job[w].ver) \/ MarkDirectRunning(s, job[w].ver),
             UNCHANGED outbox
      PROVE  CommandsForward /\ RevokeProps'
  <2>1. \E to \in {"failed", "running"} : status' = [status EXCEPT ![s] = to]
    BY <1>8 DEF MarkProvisionFailed, MarkDirectRunning, LeaveProvisioning
  <2>2. CommandsForward /\ RevokesKept
    BY <1>8, UnchangedCommands
  <2> QED
    BY <1>1, <1>4, <2>1, <2>2, KeptProps
<1>9. ASSUME MarkProvisionRevokeFailed(s, job[w].ver),
             QueueRevoke(s) \/ Create(Held, s, "revoke")
      PROVE  CommandsForward /\ RevokeProps'
  <2>1. status[s] = "provisioning" /\ status' = [status EXCEPT ![s] = "revoke_failed"]
    BY <1>9 DEF MarkProvisionRevokeFailed, LeaveProvisioning, Owns
  <2>2. /\ status'[s] \notin BeforeRevoke \cup {"manual_intervention"}
        /\ \A r \in Session : r # s => status'[r] = status[r]
    BY <1>1, <1>4, <2>1 DEF BeforeRevoke
  <2> QED
    BY <1>4, <1>9, <2>1, <2>2, RevokeCommands
<1>10. CASE CompleteProvision(w)
  BY <1>8, <1>9, <1>10 DEF CompleteProvision, s
<1>11. CASE FailProvision(w)
  BY <1>7, <1>8, <1>11 DEF FailProvision, s, rows
<1>12. CASE FailProvisionRevokeFailed(w)
  BY <1>7, <1>9, <1>12 DEF FailProvisionRevokeFailed, s, rows
<1> QED
  BY <1>7, <1>10, <1>11, <1>12 DEF ProvisionStep, LoadProvision, ClaimProvisioning,
     ClaimProvisioningOnGateway, ClaimMissed, CreateStarts, CreateReturns, CreateFails,
     CompleteTooLate, CheckLease, Compensate, rows

\* RevokeSession.
LEMMA RevokeKept ==
    ASSUME RevokeInv, NEW w \in Worker, RevokeStep(w)
    PROVE  Kept
<1> DEFINE s == job[w].s
<1> USE InvParts
<1>1. status \in [Session -> SessionStatus \cup {"none"}]
  BY DEF TypeOK
<1>2. StatusForward
  <2>1. [Next]_vars
    BY DEF Next, WorkerStep
  <2> QED
    BY <2>1, NextForward
<1>3. job[w].pc \in RevokeLabel
  BY DEF RevokeStep, At, BeginRevokeSession, CloseGatewaySession, SettleRevoke, RecheckRevoke,
     PersistRevokeFailure, RevokeLabel
<1>4. s \in Session /\ Knowledge(w) /\ job[w].type = "revoke"
  BY <1>3 DEF TypeOK, RevokeLabel, AllKnow, Knowledge
<1>5. IsCommand(w) => status[s] \notin BeforeRevoke
  BY <1>4 DEF Knowledge
<1> HIDE DEF s
<1>6. CASE BeginRevokeSession(w)
  <2>1. CASE status[s] \in Resolved /\ UNCHANGED <<rows, outbox>>
    <3>1. CommandsForward /\ RevokeProps'
      BY <2>1, QuietStep DEF rows
    <3>2. status'[s] \in Resolved /\ status'[s] # "revoking"
      BY <2>1 DEF rows, Resolved
    <3>3. MovesTo(w, "ok")
      BY <1>6, <3>2, GotoMoves, Zenon DEF BeginRevokeSession, s
    <3> QED
      BY <1>2, <1>3, <3>1, <3>2, <3>3, RevokeAllKnow DEF Kept, s
  <2>2. CASE RevokeLocally(s)
    <3>1. /\ CommandsForward /\ RevokeProps'
          /\ status'[s] \notin BeforeRevoke \cup {"manual_intervention"}
      BY <1>4, <2>2, RevokeLocallyStep
    <3>2. PICK label \in {"close", "ok", "unresolved"} :
            /\ MovesTo(w, label)
            /\ label = "ok" => status'[s] \in Resolved
            /\ label = "unresolved" => status'[s] # "revoking" /\ status'[s] \notin Resolved
      BY <1>6, GotoMoves, Zenon DEF BeginRevokeSession, s
    <3>3. label = "unresolved" => ~IsCommand(w)
      BY <1>1, <1>4, <1>5, <2>2, <3>2 DEF RevokeLocally, BeforeRevoke, BeginRevoke, Move, rows
    <3> QED
      BY <1>2, <1>3, <3>1, <3>2, <3>3, RevokeAllKnow DEF Kept, s
  <2> QED
    BY <1>6, <2>1, <2>2 DEF BeginRevokeSession, s
<1>7. CASE CloseGatewaySession(w)
  <2>1. CommandsForward /\ RevokeProps'
    BY <1>7, QuietStep DEF CloseGatewaySession, rows
  <2>2. PICK label \in {"settle", "persist"} : MovesTo(w, label)
    BY <1>7, GotoMoves, Zenon DEF CloseGatewaySession
  <2> QED
    BY <1>2, <1>3, <2>1, <2>2, RevokeAllKnow DEF Kept
<1>8. CASE SettleRevoke(w)
  <2>1. CommandsForward /\ RevokesKept
    BY <1>8, UnchangedCommands DEF SettleRevoke
  <2>2. /\ \A r \in Session : status'[r] = status[r] \/ status'[r] \in {"closed", "expired"}
        /\ \E label \in {"ok", "recheck"} :
              MovesTo(w, label) /\ (label = "ok" => status'[s] \in Resolved)
    <3>1. CASE \E to \in {"closed", "expired"} : MarkClosed(s, to) /\ Reply(w, "recheck")
      <4>1. PICK to \in {"closed", "expired"} : MarkClosed(s, to)
        BY <3>1
      <4>2. status' = [status EXCEPT ![s] = to]
        BY <4>1 DEF MarkClosed, Move
      <4>3. status'[s] \in Resolved
        BY <1>1, <1>4, <4>2 DEF Resolved
      <4>4. MovesTo(w, "ok") \/ MovesTo(w, "recheck")
        BY <3>1, GotoMoves, Zenon DEF Reply
      <4> QED
        BY <1>1, <1>4, <4>2, <4>3, <4>4
    <3>2. CASE /\ Goto(w, IF status[s] \in Resolved THEN "ok" ELSE "recheck")
               /\ UNCHANGED rows
      BY <3>2, GotoMoves, Zenon DEF rows
    <3> QED
      BY <1>8, <3>1, <3>2 DEF SettleRevoke, s
  <2>3. RevokeProps'
    BY <2>1, <2>2, KeptProps
  <2> QED
    BY <1>2, <1>3, <2>1, <2>2, <2>3, RevokeAllKnow DEF Kept, s
<1>9. CASE RecheckRevoke(w)
  <2>1. CommandsForward /\ RevokeProps'
    BY <1>9, QuietStep DEF RecheckRevoke, rows
  <2>2. status' = status
    BY <1>9 DEF RecheckRevoke, rows
  <2>3. PICK label \in {"ok", "unresolved", "persist_err"} :
          /\ MovesTo(w, label)
          /\ label = "ok" => status[s] \in Resolved
          /\ label = "unresolved" => status[s] = "manual_intervention"
    BY <1>9, GotoMoves, Zenon DEF RecheckRevoke, s
  <2>4. label = "unresolved" /\ IsCommand(w) => ~IsActive(job[w].ev)
    <3>1. IsCommand(w) => job[w].ev \in EventId
      BY DEF TypeOK, Job, IsCommand
    <3> QED
      BY <1>4, <2>3, <3>1 DEF RevokeProps, InterventionIsQuiet, ActiveCommands, Knowledge, s
  <2> QED
    BY <1>2, <1>3, <2>1, <2>2, <2>3, <2>4, RevokeAllKnow DEF Kept, s
<1>10. CASE PersistRevokeFailure(w)
  <2>1. CASE status[s] \in Resolved /\ UNCHANGED <<rows, outbox>>
    <3>1. CommandsForward /\ RevokeProps' /\ status'[s] \in Resolved
      BY <2>1, QuietStep DEF rows
    <3>2. PICK label \in {"ok", "err"} : MovesTo(w, label)
      BY <1>10, GotoMoves, Zenon DEF PersistRevokeFailure
    <3> QED
      BY <1>2, <1>3, <3>1, <3>2, RevokeAllKnow DEF Kept, s
  <2>2. CASE /\ Move(s, {"running", "revoking", "revoke_failed", "manual_intervention"},
                     "revoke_failed")
             /\ QueueRevoke(s)
             /\ Return(w, "err")
    <3>1. status' = [status EXCEPT ![s] = "revoke_failed"]
      BY <2>2 DEF Move
    <3>2. /\ status'[s] \notin BeforeRevoke \cup {"manual_intervention"}
          /\ \A r \in Session : r # s => status'[r] = status[r]
      BY <1>1, <1>4, <3>1 DEF BeforeRevoke
    <3>3. CommandsForward /\ RevokeProps'
      BY <1>4, <2>2, <3>2, RevokeCommands
    <3>4. MovesTo(w, "err")
      BY <2>2, GotoMoves, Zenon
    <3> QED
      BY <1>2, <1>3, <3>3, <3>4, RevokeAllKnow DEF Kept
  <2> QED
    BY <1>10, <2>1, <2>2 DEF PersistRevokeFailure, s
<1> QED
  BY <1>6, <1>7, <1>8, <1>9, <1>10 DEF RevokeStep

\* Claiming and rescheduling leave the commands what they are.
LEMMA UpdatedCommands ==
    ASSUME TypeOK, NEW e \in EventId,
           ClaimPending(e) \/ Reschedule(e, FALSE)
    PROVE  CommandsForward /\ RevokesKept
<1>1. /\ \A f \in EventId : f # e => outbox'[f] = outbox[f]
      /\ IsActive(e)' => /\ IsActive(e)
                         /\ outbox'[e].session = outbox[e].session
                         /\ outbox'[e].type = outbox[e].type
  BY UpdateFacts, Zenon
<1>2. IsActive(e) => IsActive(e)'
  BY Zenon DEF TypeOK, OutboxRow, IsActive, ActiveStatus, ClaimPending, Reschedule, Retried
<1>3. CommandsForward
  BY <1>1 DEF CommandsForward, IsActive
<1>4. RevokesKept
  BY <1>1, <1>2 DEF RevokesKept, ActiveCommands, IsActive
<1> QED
  BY <1>3, <1>4

\* A command may be settled when it is no revoke command, when its session is
\* resolved, or when it has been settled before.
LEMMA SettledCommands ==
    ASSUME RevokeInv, NEW w \in Worker, IsCommand(w), job[w].pc # "idle",
           MarkProcessed(job[w].ev) \/ Reschedule(job[w].ev, TRUE),
           \/ job[w].type = "provision"
           \/ status[job[w].s] \in Resolved
           \/ ~IsActive(job[w].ev),
           UNCHANGED status
    PROVE  CommandsForward /\ RevokeProps'
<1> USE InvParts
<1>0. job[w].ev \in EventId
  BY DEF TypeOK, Job, IsCommand
<1>1. PICK e \in EventId : e = job[w].ev /\ Knowledge(w)
  BY <1>0 DEF AllKnow
<1>2. IsActive(e) => /\ outbox[e].session = job[w].s
                     /\ outbox[e].type = job[w].type
  BY <1>1 DEF Knowledge
<1>3. MarkProcessed(e) \/ Reschedule(e, TRUE)
  BY <1>1, Zenon
<1>4. IsActive(e) => job[w].type = "provision" \/ status[job[w].s] \in Resolved
  BY <1>1
<1>5. /\ \A f \in EventId : f # e => outbox'[f] = outbox[f]
      /\ IsActive(e)' => /\ IsActive(e)
                         /\ outbox'[e].session = outbox[e].session
                         /\ outbox'[e].type = outbox[e].type
  BY <1>1, <1>3, UpdateFacts, Zenon
<1>6. CommandsForward
  BY <1>5 DEF CommandsForward, IsActive
<1>7. \A r \in Session : ActiveCommands(r, "revoke")' \subseteq ActiveCommands(r, "revoke")
  BY <1>5 DEF ActiveCommands, IsActive
<1>8. ~IsActive(e) => UNCHANGED outbox
  BY <1>3 DEF MarkProcessed, Reschedule, IsActive, ActiveStatus
<1>9. \A r \in Session : status[r] \notin Resolved =>
        ActiveCommands(r, "revoke") \subseteq ActiveCommands(r, "revoke")'
  <2>1. CASE IsActive(e)
    BY <1>1, <1>2, <1>4, <1>5, <2>1 DEF ActiveCommands, IsActive
  <2>2. CASE ~IsActive(e)
    BY <1>8, <2>2 DEF ActiveCommands, IsActive
  <2> QED
    BY <2>1, <2>2
<1>10. RevokeNeverLost'
  BY <1>9 DEF RevokeProps, RevokeNeverLost, Resolved
<1>11. AtMostOneRevoke' /\ InterventionIsQuiet'
  BY <1>7 DEF RevokeProps, AtMostOneRevoke, InterventionIsQuiet
<1> QED
  BY <1>6, <1>10, <1>11 DEF RevokeProps

\* Settling a command after its dispatch.
LEMMA SettleKept ==
    ASSUME RevokeInv, NEW w \in Worker, SettleStep(w)
    PROVE  Kept
<1> DEFINE s == job[w].s
<1> USE InvParts
<1>1. status \in [Session -> SessionStatus \cup {"none"}]
  BY DEF TypeOK
<1>2. StatusForward
  <2>1. [Next]_vars
    BY DEF Next, WorkerStep
  <2> QED
    BY <2>1, NextForward
<1>3. job[w].pc # "idle"
  BY Zenon DEF SettleStep, At, AcknowledgeCommand, ReconcileReturns, RetryCommand, RetriesExhausted,
     GiveUpCommand, ManualIntervention
<1>4. /\ s \in Session /\ Knowledge(w)
      /\ job[w].type \in {"provision", "revoke"}
      /\ IsCommand(w) => job[w].ev \in EventId
      /\ job[w].pc \in {"give_up", "intervene"} => IsCommand(w)
  BY <1>3 DEF TypeOK, AllKnow, Job, IsCommand, CommandType
<1>5. CommandsForward /\ Finish(w) => AllKnow'
  BY <1>2, FinishAllKnow
<1> HIDE DEF s
<1>6. CASE AcknowledgeCommand(w)
  <2>1. \/ job[w].type = "provision"
        \/ status[job[w].s] \in Resolved
        \/ ~IsActive(job[w].ev)
    BY <1>4, <1>6 DEF AcknowledgeCommand, Knowledge
  <2>2. CommandsForward /\ RevokeProps'
    BY <1>3, <1>6, <2>1, SettledCommands, Zenon DEF AcknowledgeCommand, rows
  <2> QED
    BY <1>5, <1>6, <2>2 DEF AcknowledgeCommand, Kept
<1>7. CASE ReconcileReturns(w)
  <2>1. CommandsForward /\ RevokeProps'
    BY <1>7, QuietStep DEF ReconcileReturns, rows
  <2> QED
    BY <1>5, <1>7, <2>1 DEF ReconcileReturns, Kept
<1>8. CASE RetryCommand(w)
  <2>1. CommandsForward /\ RevokeProps'
    <3>1. CASE job[w].tries >= MaxRetry
      <4>1. job[w].type = "provision" /\ Reschedule(job[w].ev, TRUE)
        BY <1>4, <1>8, <3>1, Zenon DEF RetryCommand
      <4> QED
        BY <1>3, <1>8, <4>1, SettledCommands, Zenon DEF RetryCommand, rows
    <3>2. CASE ~(job[w].tries >= MaxRetry)
      <4>1. Reschedule(job[w].ev, FALSE) /\ status' = status
        BY <1>8, <3>2, Zenon DEF RetryCommand, Reschedule, rows
      <4>2. CommandsForward /\ RevokesKept
        BY <1>4, <1>8, <4>1, UpdatedCommands, Zenon DEF RetryCommand
      <4> QED
        BY <4>1, <4>2, KeptProps
    <3> QED
      BY <3>1, <3>2
  <2> QED
    BY <1>5, <1>8, <2>1 DEF RetryCommand, Kept
<1>9. CASE RetriesExhausted(w)
  <2>1. CommandsForward /\ RevokeProps'
    BY <1>9, QuietStep DEF RetriesExhausted, rows
  <2>2. status' = status /\ IsCommand(w) /\ job[w].type = "revoke"
    BY <1>9 DEF RetriesExhausted, rows
  <2>3. CASE Finish(w)
    BY <1>5, <2>1, <2>3 DEF Kept
  <2>4. CASE \E label \in {"give_up", "intervene"} :
               /\ Goto(w, label)
               /\ label = "give_up" => status[s] \in Terminal
    <3>1. PICK label \in {"give_up", "intervene"} :
            MovesTo(w, label) /\ (label = "give_up" => status[s] \in Terminal)
      BY <2>4, GotoMoves, Zenon
    <3>2. status[s] = "manual_intervention" => ~IsActive(job[w].ev)
      BY <1>4, <2>2 DEF RevokeProps, InterventionIsQuiet, ActiveCommands, Knowledge, s
    <3>3. label = "give_up" => status'[job[w].s] \in Resolved \/ ~IsActive(job[w].ev)
      BY <2>2, <3>1, <3>2 DEF Terminal, s
    <3>4. label \in Label /\ label # "idle" /\ label \notin ProvisionLabel
      BY <3>1 DEF Label, ProvisionLabel
    <3>5. Knowledge(w)'
      BY <1>2, <1>3, <1>4, <2>1, <2>2, <3>1, <3>3, <3>4, MoverKnows
    <3> QED
      BY <1>2, <2>1, <3>1, <3>5, AllKnowNext DEF Kept, MovesTo
  <2> QED
    BY <1>9, <2>3, <2>4 DEF RetriesExhausted, s
<1>10. CASE GiveUpCommand(w)
  <2>1. \/ job[w].type = "provision"
        \/ status[job[w].s] \in Resolved
        \/ ~IsActive(job[w].ev)
    BY <1>4, <1>10 DEF GiveUpCommand, Knowledge, At
  <2>2. CommandsForward /\ RevokeProps'
    BY <1>3, <1>4, <1>10, <2>1, SettledCommands, Zenon DEF GiveUpCommand, rows, At
  <2> QED
    BY <1>5, <1>10, <2>2 DEF GiveUpCommand, Kept
<1>11. CASE ManualIntervention(w)
  <2>1. CASE UNCHANGED <<rows, outbox>>
    <3>1. CommandsForward /\ RevokeProps'
      BY <2>1, QuietStep DEF rows
    <3> QED
      BY <1>5, <1>11, <3>1 DEF ManualIntervention, Kept
  <2>2. CASE /\ outbox[job[w].ev].status = "processing"
             /\ MarkManualIntervention(s) /\ Reschedule(job[w].ev, TRUE)
    <3>0. PICK e \in EventId, r \in Session : e = job[w].ev /\ r = s
      BY <1>4, <1>11 DEF ManualIntervention, At
    <3>1. /\ IsActive(e) /\ job[w].type = "revoke"
          /\ outbox[e].session = r /\ outbox[e].type = "revoke"
      BY <1>4, <1>11, <2>2, <3>0 DEF ManualIntervention, At, Knowledge, RevokeLabel, IsActive,
         ActiveStatus, s
    <3>2. ActiveCommands(r, "revoke") = {e}
      BY <3>0, <3>1 DEF RevokeProps, AtMostOneRevoke, ActiveCommands
    <3>3. outbox' = [outbox EXCEPT ![e] = Settled]
      BY <2>2, <3>0 DEF Reschedule
    <3>4. outbox \in [EventId -> OutboxRow]
      BY DEF TypeOK
    <3>5. /\ \A f \in EventId : f # e => outbox'[f] = outbox[f]
          /\ ~IsActive(e)'
      BY <3>1, <3>3, <3>4 DEF IsActive, Settled, ActiveStatus
    <3>6. CommandsForward
      BY <3>5 DEF CommandsForward, IsActive
    <3>7. ActiveCommands(r, "revoke")' = {}
      BY <3>2, <3>5 DEF ActiveCommands, IsActive
    <3>8. \A q \in Session : q # r => ActiveCommands(q, "revoke")' = ActiveCommands(q, "revoke")
      BY <3>1, <3>5 DEF ActiveCommands, IsActive
    <3>9. status' = [status EXCEPT ![r] = "manual_intervention"]
      BY <2>2, <3>0 DEF MarkManualIntervention, Move
    <3>10. RevokeProps'
      BY <1>1, <3>7, <3>8, <3>9 DEF RevokeProps, RevokeNeverLost, AtMostOneRevoke,
         InterventionIsQuiet
    <3> QED
      BY <1>5, <1>11, <3>6, <3>10 DEF ManualIntervention, Kept
  <2> QED
    BY <1>11, <2>1, <2>2, Zenon DEF ManualIntervention, s
<1> QED
  BY <1>6, <1>7, <1>8, <1>9, <1>10, <1>11 DEF SettleStep

\* Claims, the reconciler and failures.
LEMMA OtherKept ==
    ASSUME RevokeInv, NEW w \in Worker
    PROVE  /\ \A e \in EventId : ClaimCommand(w, e) => Kept
           /\ \A s \in Session : Reconcile(w, s) => Kept
           /\ DatabaseFails(w) \/ WorkerCrash(w) => Kept
<1> USE InvParts
<1>1. job \in [Worker -> Job]
  BY DEF TypeOK
<1>2. ASSUME NEW e \in EventId, ClaimCommand(w, e)
      PROVE  Kept
  <2>1. CommandsForward /\ RevokesKept /\ status' = status /\ StatusForward
    BY <1>2, UpdatedCommands, Zenon DEF ClaimCommand, rows, StatusForward
  <2>2. RevokeProps'
    BY <2>1, KeptProps
  <2>3. /\ outbox[e] \in OutboxRow /\ IsActive(e)
        /\ outbox'[e].session = outbox[e].session /\ outbox'[e].type = outbox[e].type
    BY <1>2 DEF ClaimCommand, ClaimPending, TypeOK, OutboxRow
  <2>4. /\ job'[w].pc = IF outbox[e].type = "provision" THEN "load" ELSE "revoke"
        /\ job'[w].ev = e
        /\ job'[w].type = outbox[e].type
        /\ job'[w].s = outbox[e].session
        /\ \A x \in Worker : x # w => job'[x] = job[x]
    BY <1>1, <1>2 DEF ClaimCommand
  <2>5. /\ status[outbox[e].session] # "none"
        /\ outbox[e].type = "revoke" => status[outbox[e].session] \notin BeforeRevoke
    BY <2>3 DEF CommandsMatchSessions
  <2>6. outbox[e].type \in {"provision", "revoke"}
    BY <2>3 DEF OutboxRow, CommandType
  <2>7. Knowledge(w)'
    BY <2>1, <2>3, <2>4, <2>5, <2>6, NoEventAssumption DEF Knowledge, IsCommand, ProvisionLabel,
       RevokeLabel
  <2> QED
    BY <2>1, <2>2, <2>4, <2>7, AllKnowNext DEF Kept
<1>3. ASSUME NEW s \in Session, Reconcile(w, s)
      PROVE  Kept
  <2>1. StatusForward /\ CommandsForward /\ RevokeProps' /\ status' = status
    BY <1>3, QuietStep DEF Reconcile, rows
  <2>2. /\ job'[w] = [IdleJob EXCEPT !.pc = "revoke", !.s = s]
        /\ \A x \in Worker : x # w => job'[x] = job[x]
    BY <1>1, <1>3 DEF Reconcile
  <2>3. /\ job'[w].pc = "revoke" /\ job'[w].ev = NoEvent
        /\ job'[w].type = "revoke" /\ job'[w].s = s
    BY <2>2 DEF IdleJob
  <2>4. status[s] # "none"
    BY <1>3 DEF Reconcile, AgentsHaveSessions
  <2>5. Knowledge(w)'
    BY <2>1, <2>3, <2>4 DEF Knowledge, IsCommand, ProvisionLabel
  <2> QED
    BY <2>1, <2>2, <2>5, AllKnowNext DEF Kept
<1>4. ASSUME DatabaseFails(w) \/ WorkerCrash(w)
      PROVE  Kept
  <2>1. StatusForward /\ CommandsForward /\ RevokeProps'
    BY <1>4, QuietStep DEF DatabaseFails, WorkerCrash, rows
  <2>2. CASE WorkerCrash(w)
    BY <2>1, <2>2, FinishAllKnow DEF WorkerCrash, Kept
  <2>3. CASE DatabaseFails(w)
    <3>1. CASE job[w].pc \in ProvisionLabel
      <4>1. PICK label \in {"lease", "err"} : MovesTo(w, label)
        BY <2>3, <3>1, GotoMoves, Zenon DEF DatabaseFails, At, ProvisionLabel
      <4>2. label \in ProvisionLabel \cup {"ok", "err"}
        BY <4>1 DEF ProvisionLabel
      <4> QED
        BY <2>1, <3>1, <4>1, <4>2, ProvisionAllKnow DEF Kept
    <3>2. CASE job[w].pc \in RevokeLabel
      <4>1. PICK label \in {"recheck", "persist_err", "err"} : MovesTo(w, label)
        BY <2>3, <3>2, GotoMoves, Zenon DEF DatabaseFails, At, RevokeLabel
      <4> QED
        BY <2>1, <3>2, <4>1, RevokeAllKnow DEF Kept
    <3> QED
      BY <2>3, <3>1, <3>2 DEF DatabaseFails, ProvisionLabel, RevokeLabel
  <2> QED
    BY <1>4, <2>2, <2>3
<1> QED
  BY <1>2, <1>3, <1>4

\* Agents appear only for sessions that some worker was asked to provision.
LEMMA AgentsKept ==
    ASSUME RevokeInv, [Next]_vars
    PROVE  AgentsHaveSessions'
<1> USE InvParts
<1>1. StatusForward
  BY NextForward
<1>2. /\ agent \in [Session -> AgentState]
      /\ \A w \in Worker : job[w].pc # "idle" =>
            job[w].s \in Session /\ status[job[w].s] # "none"
  BY DEF TypeOK, AllKnow, Knowledge
<1>3. CASE UNCHANGED agent
  BY <1>1, <1>3 DEF AgentsHaveSessions, StatusForward
<1>4. ASSUME NEW s \in Session, status[s] # "none",
             \A r \in Session : r # s => agent'[r] = agent[r]
      PROVE  AgentsHaveSessions'
  BY <1>1, <1>4 DEF AgentsHaveSessions, StatusForward
<1>5. ASSUME NEW s \in Session,
             \/ AgentLaunch(s) \/ AgentClosed(s) \/ AgentCloseFailed(s)
             \/ agent' = [agent EXCEPT ![s] = "acked"]
             \/ agent' = [agent EXCEPT ![s] = "ended"]
      PROVE  \A r \in Session : r # s => agent'[r] = agent[r]
  BY <1>2, <1>5 DEF AgentLaunch, AgentClosed, AgentCloseFailed
<1>6. ASSUME NEW s \in Session, AgentEnds(s)
      PROVE  AgentsHaveSessions'
  <2>1. status[s] # "none"
    BY <1>6 DEF AgentEnds, AgentsHaveSessions
  <2> QED
    BY <1>4, <1>5, <1>6, <2>1 DEF AgentEnds
<1>7. ASSUME NEW w \in Worker, NEW s \in Session, Reconcile(w, s)
      PROVE  AgentsHaveSessions'
  <2>1. status[s] # "none"
    BY <1>7 DEF Reconcile, AgentsHaveSessions
  <2> QED
    BY <1>4, <1>5, <1>7, <2>1 DEF Reconcile
<1>8. ASSUME NEW w \in Worker,
             CreateStarts(w) \/ Compensate(w) \/ CloseGatewaySession(w) \/ ReconcileReturns(w)
      PROVE  AgentsHaveSessions'
  <2>1. job[w].pc # "idle"
    BY <1>8 DEF CreateStarts, Compensate, CloseGatewaySession, ReconcileReturns, At
  <2>2. PICK s \in Session : s = job[w].s /\ status[s] # "none"
    BY <1>2, <2>1
  <2>3. UNCHANGED agent \/ AgentLaunch(s) \/ AgentClosed(s) \/ AgentCloseFailed(s)
        \/ agent' = [agent EXCEPT ![s] = "acked"]
    BY <1>8, <2>2 DEF CreateStarts, Compensate, CloseGatewaySession, ReconcileReturns
  <2> QED
    BY <1>3, <1>4, <1>5, <2>2, <2>3
<1>9. CASE UNCHANGED vars
  BY <1>3, <1>9 DEF vars
<1>10. ASSUME NEW s \in Session, HandlerStep(s)
       PROVE  AgentsHaveSessions'
  BY <1>3, <1>6, <1>10 DEF HandlerStep, FinalApproval, CancelAccessRequest, ForceCloseSession,
     CloseSession, ReapExpired, ReapProvisioning, Disable, Enable, EnqueueRevocation,
     EnqueueingEnds, Expire
<1>11. ASSUME NEW w \in Worker, WorkerStep(w)
       PROVE  AgentsHaveSessions'
  BY <1>3, <1>8, <1>11, Zenon DEF WorkerStep, ProvisionStep, RevokeStep, SettleStep, LoadProvision,
     ClaimProvisioning, ClaimMissed, CreateReturns, CreateFails, CompleteProvision,
     CompleteTooLate, CheckLease, FailProvision, FailProvisionRevokeFailed, BeginRevokeSession,
     SettleRevoke, RecheckRevoke, PersistRevokeFailure, AcknowledgeCommand, RetryCommand,
     RetriesExhausted, GiveUpCommand, ManualIntervention
<1>12. ASSUME NEW w \in Worker,
              DatabaseFails(w) \/ WorkerCrash(w) \/ \E e \in EventId : ClaimCommand(w, e)
       PROVE  AgentsHaveSessions'
  BY <1>3, <1>12 DEF DatabaseFails, WorkerCrash, ClaimCommand
<1> QED
  BY <1>7, <1>9, <1>10, <1>11, <1>12 DEF Next

\* A new command finds the session that it was written for.
LEMMA CommandsKept ==
    ASSUME TypeOK, CommandsMatchSessions, StatusForward, CommandsForward
    PROVE  CommandsMatchSessions'
<1>1. \A e \in EventId : IsActive(e) => outbox[e].session \in Session
  BY DEF TypeOK
<1> QED
  BY <1>1 DEF CommandsMatchSessions, StatusForward, CommandsForward

\* The inductive invariant.
THEOREM RevokeInvariant == Spec => []RevokeInv
<1>1. Init => RevokeInv
  <2> HAVE Init
  <2>1. TypeOK
    BY TypeInit
  <2>2. \A e \in EventId : ~IsActive(e)
    BY DEF Init, OutboxInit, IsActive, Settled, ActiveStatus
  <2>3. \A w \in Worker : job[w] = IdleJob
    BY DEF Init
  <2>4. AllKnow
    <3> SUFFICES ASSUME NEW w \in Worker PROVE Knowledge(w)
      BY Zenon DEF AllKnow
    <3>1. job[w] = IdleJob
      BY <2>3, Zenon
    <3>2. /\ job[w].pc = "idle" /\ job[w].type = "revoke" /\ job[w].ev = NoEvent
      BY <3>1, SMT DEF IdleJob
    <3>3. ~IsCommand(w) /\ job[w].pc \notin ProvisionLabel
      BY <3>2, SMT DEF IsCommand, ProvisionLabel
    <3> QED
      BY <3>1, <3>2, <3>3, SMT DEF Knowledge
  <2>5. CommandsMatchSessions /\ RevokeProps /\ AgentsHaveSessions
    BY <2>2 DEF Init, SessionsInit, CommandsMatchSessions, RevokeProps, RevokeNeverLost,
       AtMostOneRevoke, InterventionIsQuiet, ActiveCommands, AgentsHaveSessions
  <2> QED
    BY <2>1, <2>4, <2>5, InvParts
<1>2. RevokeInv /\ [Next]_vars => RevokeInv'
  <2> SUFFICES ASSUME RevokeInv, [Next]_vars
               PROVE  RevokeInv'
    OBVIOUS
  <2>1. TypeOK' /\ StatusForward /\ AgentsHaveSessions'
    BY InvParts, TypeNext, NextForward, AgentsKept
  <2>2. Kept
    <3>1. CASE UNCHANGED vars
      <4>1. CommandsForward /\ RevokeProps'
        BY <3>1, QuietStep DEF vars
      <4>2. AllKnow'
        BY <2>1, <3>1, <4>1, InvParts, OthersKnow DEF vars, AllKnow
      <4> QED
        BY <4>1, <4>2 DEF Kept
    <3>2. CASE Next
      BY <3>2, HandlerKept, ProvisionKept, RevokeKept, SettleKept, OtherKept DEF Next, WorkerStep
    <3> QED
      BY <3>1, <3>2
  <2>3. CommandsMatchSessions'
    BY <2>1, <2>2, InvParts, CommandsKept DEF Kept
  <2> QED
    BY <2>1, <2>2, <2>3, InvPartsNext DEF Kept
<1> QED
  BY <1>1, <1>2, PTL DEF Spec

\* A session that is being revoked always has a revoke command to finish it.
THEOREM RevokeNeverLostHolds == Spec => []RevokeNeverLost
<1>1. RevokeInv => RevokeNeverLost
  BY DEF RevokeInv
<1> QED
  BY <1>1, RevokeInvariant, PTL

\* A session never has two revoke commands at a time.
THEOREM AtMostOneRevokeHolds == Spec => []AtMostOneRevoke
<1>1. RevokeInv => AtMostOneRevoke
  BY DEF RevokeInv
<1> QED
  BY <1>1, RevokeInvariant, PTL

\* No revoke command is left for a session that was handed to an operator.
THEOREM InterventionIsQuietHolds == Spec => []InterventionIsQuiet
<1>1. RevokeInv => InterventionIsQuiet
  BY DEF RevokeInv
<1> QED
  BY <1>1, RevokeInvariant, PTL

-----------------------------------------------------------------------------
(***************************************************************************)
(* What AccessService promises to applicants, administrators and the       *)
(* runtime, from the invariant above.                                      *)
(***************************************************************************)
\* Cancellation moves the session in the transaction that cancels the request,
\* and no later step moves it back.
CancelledInv == \A s \in Session : cancelled[s] => status[s] \notin BeforeRevoke

\* The transition shared by cancellation, force-close and RevokeSession leaves
\* no session starting or running.
LEMMA RevokeLocallyLeaves ==
    ASSUME TypeOK, NEW s \in Session, RevokeLocally(s)
    PROVE  status'[s] \notin BeforeRevoke
BY DEF RevokeLocally, TypeOK, MarkProvisionFailed, MarkProvisionRevokeFailed, LeaveProvisioning,
   BeginRevoke, Move, rows, BeforeRevoke

\* CancelAccessRequest is the only step that cancels a request.
LEMMA CancelledBy ==
    ASSUME TypeOK, [Next]_vars
    PROVE  \A s \in Session : cancelled'[s] => cancelled[s] \/ CancelAccessRequest(s)
<1>1. cancelled \in [Session -> BOOLEAN]
  BY DEF TypeOK
<1>2. CASE UNCHANGED cancelled
  BY <1>2
<1>3. ASSUME NEW s \in Session, HandlerStep(s)
      PROVE  UNCHANGED cancelled \/ CancelAccessRequest(s)
  BY <1>3 DEF HandlerStep, FinalApproval, ForceCloseSession, CloseSession, ReapExpired,
     ReapProvisioning, Disable, Enable, EnqueueRevocation, EnqueueingEnds, Expire, AgentEnds,
     authority
<1>4. ASSUME NEW s \in Session, CancelAccessRequest(s), NEW r \in Session, cancelled'[r]
      PROVE  cancelled[r] \/ CancelAccessRequest(r)
  BY <1>1, <1>4, Zenon DEF CancelAccessRequest
<1>5. ASSUME NEW w \in Worker, WorkerStep(w) \/ DatabaseFails(w) \/ WorkerCrash(w)
      PROVE  UNCHANGED cancelled
  BY <1>5, Zenon DEF WorkerStep, ProvisionStep, RevokeStep, SettleStep, LoadProvision,
     ClaimProvisioning, ClaimMissed, CreateStarts, CreateReturns, CreateFails,
     CompleteProvision, CompleteTooLate, CheckLease, Compensate, FailProvision,
     FailProvisionRevokeFailed, BeginRevokeSession, CloseGatewaySession, SettleRevoke,
     RecheckRevoke, PersistRevokeFailure, AcknowledgeCommand, ReconcileReturns, RetryCommand,
     RetriesExhausted, GiveUpCommand, ManualIntervention, DatabaseFails, WorkerCrash, authority
<1>6. ASSUME NEW w \in Worker,
             (\E e \in EventId : ClaimCommand(w, e)) \/ (\E s \in Session : Reconcile(w, s))
      PROVE  UNCHANGED cancelled
  BY <1>6, Zenon DEF ClaimCommand, Reconcile, authority
<1> QED
  BY <1>2, <1>3, <1>4, <1>5, <1>6 DEF Next, vars

\* A cancelled request has no session that is starting or running.
THEOREM CancelledNeverRunsHolds == Spec => []CancelledNeverRuns
<1>1. Init => CancelledInv
  BY DEF Init, CancelledInv
<1>2. TypeOK /\ CancelledInv /\ [Next]_vars => CancelledInv'
  <2> SUFFICES ASSUME TypeOK, CancelledInv, [Next]_vars, NEW s \in Session, cancelled'[s]
               PROVE  status'[s] \notin BeforeRevoke
    BY DEF CancelledInv
  <2>1. CASE cancelled[s]
    BY <2>1, NextForward DEF CancelledInv, StatusForward
  <2>2. CASE CancelAccessRequest(s)
    BY <2>2, RevokeLocallyLeaves DEF CancelAccessRequest
  <2> QED
    BY <2>1, <2>2, CancelledBy
<1>3. CancelledInv => CancelledNeverRuns
  BY DEF CancelledInv, CancelledNeverRuns, BeforeRevoke
<1> QED
  BY <1>1, <1>2, <1>3, TypeCorrect, PTL DEF Spec

-----------------------------------------------------------------------------
\* Disabling the applicant, the asset, its region or its gateway.

\* A session starts to run only in CompleteProvision, which has read the
\* catalogue in the same transaction; no other step makes it running.
LEMMA RunningBy ==
    ASSUME TypeOK, [Next]_vars, NEW s \in Session, status'[s] = "running", status[s] # "running"
    PROVE  catalog[s] = "enabled" /\ UNCHANGED catalog
<1>1. status \in [Session -> SessionStatus \cup {"none"}]
  BY DEF TypeOK
<1>2. CASE UNCHANGED status
  BY <1>2
<1>3. ASSUME NEW r \in Session, NEW to, status' = [status EXCEPT ![r] = to], to # "running"
      PROVE  FALSE
  BY <1>1, <1>3
<1>4. ASSUME NEW r \in Session,
             \/ InsertProvisioning(r) \/ RevokeLocally(r) \/ BeginRevoke(r)
             \/ (\E v : MarkProvisionFailed(r, v) \/ MarkProvisionRevokeFailed(r, v))
             \/ (\E to \in {"closed", "expired"} : MarkClosed(r, to))
             \/ MarkManualIntervention(r)
             \/ Move(r, {"running", "revoking", "revoke_failed", "manual_intervention"},
                     "revoke_failed")
      PROVE  FALSE
  BY <1>2, <1>3, <1>4 DEF InsertProvisioning, RevokeLocally, BeginRevoke, MarkProvisionFailed,
     MarkProvisionRevokeFailed, LeaveProvisioning, MarkClosed, MarkManualIntervention, Move, rows
<1>5. ASSUME NEW r \in Session, HandlerStep(r)
      PROVE  FALSE
  BY <1>2, <1>4, <1>5 DEF HandlerStep, FinalApproval, CancelAccessRequest, ForceCloseSession,
     CloseSession, ReapExpired, ReapProvisioning, Disable, Enable, EnqueueRevocation,
     EnqueueingEnds, Expire, AgentEnds, rows
<1>6. ASSUME NEW w \in Worker, WorkerStep(w)
      PROVE  CompleteProvision(w)
  <2>1. job[w].pc # "idle" => job[w].s \in Session
    BY DEF TypeOK
  <2>2. ProvisionStep(w) => CompleteProvision(w)
    BY <1>2, <1>4, <2>1 DEF ProvisionStep, LoadProvision, ClaimProvisioning,
       ClaimProvisioningOnGateway, ClaimMissed, CreateStarts, CreateReturns, CreateFails,
       CompleteTooLate, CheckLease, Compensate, FailProvision, FailProvisionRevokeFailed, rows, At
  <2>3. ~RevokeStep(w)
    BY <1>2, <1>4, <2>1 DEF RevokeStep, BeginRevokeSession, CloseGatewaySession, SettleRevoke,
       RecheckRevoke, PersistRevokeFailure, rows, At
  <2>4. ~SettleStep(w)
    BY <1>2, <1>4, <2>1, Zenon DEF SettleStep, AcknowledgeCommand, ReconcileReturns, RetryCommand,
       RetriesExhausted, GiveUpCommand, ManualIntervention, rows, At
  <2> QED
    BY <1>6, <2>2, <2>3, <2>4 DEF WorkerStep
<1>7. ASSUME NEW w \in Worker, CompleteProvision(w)
      PROVE  catalog[s] = "enabled" /\ UNCHANGED catalog
  <2>1. PICK r \in Session : r = job[w].s
    BY <1>7 DEF CompleteProvision, At, TypeOK
  <2>2. /\ UNCHANGED catalog
        /\ \/ \E v : MarkProvisionRevokeFailed(r, v)
           \/ catalog[r] = "enabled" /\ \E v : MarkDirectRunning(r, v)
    BY <1>7, <2>1 DEF CompleteProvision, authority
  <2>3. CASE catalog[r] = "enabled" /\ \E v : MarkDirectRunning(r, v)
    <3>1. status' = [status EXCEPT ![r] = "running"]
      BY <2>3 DEF MarkDirectRunning, LeaveProvisioning
    <3>2. r = s
      BY <1>1, <3>1
    <3> QED
      BY <2>2, <2>3, <3>2
  <2> QED
    BY <1>4, <2>2, <2>3
<1>8. ASSUME NEW w \in Worker,
             \/ DatabaseFails(w) \/ WorkerCrash(w)
             \/ (\E e \in EventId : ClaimCommand(w, e)) \/ (\E r \in Session : Reconcile(w, r))
      PROVE  FALSE
  BY <1>2, <1>8, Zenon DEF DatabaseFails, WorkerCrash, ClaimCommand, Reconcile, rows
<1> QED
  BY <1>2, <1>5, <1>6, <1>7, <1>8 DEF Next, vars

\* The enqueueing ends only when its query finds no session to revoke.
LEMMA DisabledBy ==
    ASSUME TypeOK, [Next]_vars, NEW s \in Session, catalog'[s] = "disabled"
    PROVE  catalog[s] = "disabled" \/ EnqueueingEnds(s)
<1>1. catalog \in [Session -> CatalogState]
  BY DEF TypeOK
<1>2. CASE UNCHANGED catalog
  BY <1>2
<1>3. ASSUME NEW r \in Session, HandlerStep(r)
      PROVE  UNCHANGED catalog \/ Disable(r) \/ Enable(r) \/ EnqueueingEnds(r)
  BY <1>3 DEF HandlerStep, FinalApproval, CancelAccessRequest, ForceCloseSession, CloseSession,
     ReapExpired, ReapProvisioning, EnqueueRevocation, Expire, AgentEnds, authority
<1>4. ASSUME NEW r \in Session, Disable(r) \/ Enable(r)
      PROVE  catalog[s] = "disabled"
  BY <1>1, <1>4 DEF Disable, Enable
<1>5. ASSUME NEW r \in Session, EnqueueingEnds(r)
      PROVE  catalog[s] = "disabled" \/ EnqueueingEnds(s)
  BY <1>1, <1>5, Zenon DEF EnqueueingEnds
<1>6. ASSUME NEW w \in Worker, WorkerStep(w) \/ DatabaseFails(w) \/ WorkerCrash(w)
      PROVE  UNCHANGED catalog
  BY <1>6, Zenon DEF WorkerStep, ProvisionStep, RevokeStep, SettleStep, LoadProvision,
     ClaimProvisioning, ClaimMissed, CreateStarts, CreateReturns, CreateFails,
     CompleteProvision, CompleteTooLate, CheckLease, Compensate, FailProvision,
     FailProvisionRevokeFailed, BeginRevokeSession, CloseGatewaySession, SettleRevoke,
     RecheckRevoke, PersistRevokeFailure, AcknowledgeCommand, ReconcileReturns, RetryCommand,
     RetriesExhausted, GiveUpCommand, ManualIntervention, DatabaseFails, WorkerCrash, authority
<1>7. ASSUME NEW w \in Worker,
             (\E e \in EventId : ClaimCommand(w, e)) \/ (\E r \in Session : Reconcile(w, r))
      PROVE  UNCHANGED catalog
  BY <1>7, Zenon DEF ClaimCommand, Reconcile, authority
<1> QED
  BY <1>2, <1>3, <1>4, <1>5, <1>6, <1>7 DEF Next, vars

\* Once a disable has enqueued its revocations, nothing that depends on the
\* disabled row runs: a running session would have been listed, since it has
\* no revoke command yet, and a starting one finds the row disabled.
THEOREM DisabledNeverRunsHolds == Spec => []DisabledNeverRuns
<1>1. Init => DisabledNeverRuns
  BY DEF Init, SessionsInit, DisabledNeverRuns
<1>2. RevokeInv /\ DisabledNeverRuns /\ [Next]_vars => DisabledNeverRuns'
  <2> SUFFICES ASSUME RevokeInv, DisabledNeverRuns, [Next]_vars, NEW s \in Session,
                      catalog'[s] = "disabled", status'[s] = "running"
               PROVE  FALSE
    BY DEF DisabledNeverRuns
  <2>1. TypeOK /\ CommandsMatchSessions
    BY DEF RevokeInv
  <2>2. status[s] = "running"
    BY <2>1, RunningBy
  <2>3. EnqueueingEnds(s)
    BY <2>1, <2>2, DisabledBy DEF DisabledNeverRuns
  <2>4. ActiveCommands(s, "revoke") = {}
    BY <2>1, <2>2 DEF CommandsMatchSessions, ActiveCommands, BeforeRevoke
  <2> QED
    BY <2>2, <2>3, <2>4 DEF EnqueueingEnds, ListedForRevocation
<1> QED
  BY <1>1, <1>2, RevokeInvariant, PTL DEF Spec

-----------------------------------------------------------------------------
\* The agent behind a session that is reported closed.

Gone == {"closed", "acked"}

\* The runtime's close is final: a tombstone is never launched again, and only
\* the reconciler turns it into an acknowledged one.
LEMMA AgentsForward ==
    ASSUME TypeOK, [Next]_vars, NEW s \in Session
    PROVE  /\ agent[s] \in Gone => agent'[s] \in Gone
           /\ agent'[s] = "acked" =>
                \/ agent[s] = "acked"
                \/ \E w \in Worker : /\ job[w].s = s /\ At(w, "ok") /\ ~IsCommand(w)
                                     /\ UNCHANGED status
<1> DEFINE Acks == \E w \in Worker : /\ job[w].s = s /\ At(w, "ok") /\ ~IsCommand(w)
                                     /\ UNCHANGED status
           Goal == /\ agent[s] \in Gone => agent'[s] \in Gone
                   /\ agent'[s] = "acked" => agent[s] = "acked" \/ Acks
<1>1. agent \in [Session -> AgentState]
  BY DEF TypeOK
<1>2. UNCHANGED agent => Goal
  OBVIOUS
<1>3. ASSUME NEW r \in Session, AgentLaunch(r) \/ AgentClosed(r) \/ AgentCloseFailed(r)
      PROVE  Goal
  BY <1>1, <1>3 DEF AgentLaunch, AgentClosed, AgentCloseFailed, Gone
<1>4. ASSUME NEW r \in Session, AgentEnds(r)
      PROVE  Goal
  BY <1>1, <1>4 DEF AgentEnds, Gone
<1>5. ASSUME NEW w \in Worker, ReconcileReturns(w)
      PROVE  Goal
  <2>1. PICK r \in Session : r = job[w].s
    BY <1>5 DEF ReconcileReturns, TypeOK
  <2>2. CASE At(w, "ok") /\ agent' = [agent EXCEPT ![r] = "acked"]
    <3>1. r = s => Acks
      BY <1>5, <2>1, <2>2, Zenon DEF ReconcileReturns, rows
    <3> QED
      BY <1>1, <2>2, <3>1 DEF Gone
  <2> QED
    BY <1>2, <1>5, <2>1, <2>2 DEF ReconcileReturns
<1> HIDE DEF Goal
<1>6. ASSUME NEW w \in Worker, CreateStarts(w) \/ Compensate(w) \/ CloseGatewaySession(w)
      PROVE  Goal
  <2>1. PICK r \in Session : r = job[w].s
    BY <1>6 DEF CreateStarts, Compensate, CloseGatewaySession, At, TypeOK
  <2>2. UNCHANGED agent \/ AgentLaunch(r) \/ AgentClosed(r) \/ AgentCloseFailed(r)
    BY <1>6, <2>1 DEF CreateStarts, Compensate, CloseGatewaySession
  <2> QED
    BY <1>2, <1>3, <2>2
<1>7. ASSUME NEW w \in Worker, NEW r \in Session, Reconcile(w, r)
      PROVE  Goal
  BY <1>3, <1>7 DEF Reconcile
<1>8. ASSUME NEW r \in Session, HandlerStep(r)
      PROVE  Goal
  BY <1>2, <1>4, <1>8 DEF HandlerStep, FinalApproval, CancelAccessRequest, ForceCloseSession,
     CloseSession, ReapExpired, ReapProvisioning, Disable, Enable, EnqueueRevocation,
     EnqueueingEnds, Expire
<1>9. ASSUME NEW w \in Worker, WorkerStep(w)
      PROVE  Goal
  BY <1>2, <1>5, <1>6, <1>9, Zenon DEF WorkerStep, ProvisionStep, RevokeStep, SettleStep, LoadProvision,
     ClaimProvisioning, ClaimMissed, CreateReturns, CreateFails, CompleteProvision,
     CompleteTooLate, CheckLease, FailProvision, FailProvisionRevokeFailed, BeginRevokeSession,
     SettleRevoke, RecheckRevoke, PersistRevokeFailure, AcknowledgeCommand, RetryCommand,
     RetriesExhausted, GiveUpCommand, ManualIntervention
<1>10. ASSUME NEW w \in Worker,
              DatabaseFails(w) \/ WorkerCrash(w) \/ \E e \in EventId : ClaimCommand(w, e)
       PROVE  Goal
  BY <1>2, <1>10 DEF DatabaseFails, WorkerCrash, ClaimCommand
<1>11. UNCHANGED vars => Goal
  BY <1>2 DEF vars
<1>12. Goal
  BY <1>7, <1>8, <1>9, <1>10, <1>11 DEF Next
<1> QED
  BY <1>12 DEF Goal

\* Only the closing transaction of RevokeSession reports a session closed.
LEMMA ClosedBy ==
    ASSUME TypeOK, [Next]_vars, NEW s \in Session,
           status'[s] \in {"closed", "expired"}, status[s] \notin {"closed", "expired"}
    PROVE  /\ \E w \in Worker : job[w].s = s /\ At(w, "settle")
           /\ UNCHANGED agent
<1>1. status \in [Session -> SessionStatus \cup {"none"}]
  BY DEF TypeOK
<1>2. CASE UNCHANGED status
  BY <1>2
<1>3. ASSUME NEW r \in Session, NEW to, status' = [status EXCEPT ![r] = to],
             to \notin {"closed", "expired"}
      PROVE  FALSE
  BY <1>1, <1>3
<1>4. ASSUME NEW r \in Session,
             \/ InsertProvisioning(r) \/ RevokeLocally(r) \/ BeginRevoke(r)
             \/ (\E v : \/ MarkProvisionFailed(r, v) \/ MarkProvisionRevokeFailed(r, v)
                       \/ MarkDirectRunning(r, v))
             \/ MarkManualIntervention(r)
             \/ Move(r, {"running", "revoking", "revoke_failed", "manual_intervention"},
                     "revoke_failed")
      PROVE  FALSE
  BY <1>2, <1>3, <1>4 DEF InsertProvisioning, RevokeLocally, BeginRevoke, MarkProvisionFailed,
     MarkProvisionRevokeFailed, MarkDirectRunning, LeaveProvisioning, MarkManualIntervention,
     Move, rows
<1>5. ASSUME NEW r \in Session, HandlerStep(r)
      PROVE  FALSE
  BY <1>2, <1>4, <1>5 DEF HandlerStep, FinalApproval, CancelAccessRequest, ForceCloseSession,
     CloseSession, ReapExpired, ReapProvisioning, Disable, Enable, EnqueueRevocation,
     EnqueueingEnds, Expire, AgentEnds, rows
<1>6. ASSUME NEW w \in Worker, WorkerStep(w)
      PROVE  SettleRevoke(w)
  <2>1. job[w].pc # "idle" => job[w].s \in Session
    BY DEF TypeOK
  <2>2. ~ProvisionStep(w)
    BY <1>2, <1>4, <2>1 DEF ProvisionStep, LoadProvision, ClaimProvisioning,
       ClaimProvisioningOnGateway, ClaimMissed, CreateStarts, CreateReturns, CreateFails,
       CompleteProvision, CompleteTooLate, CheckLease, Compensate, FailProvision,
       FailProvisionRevokeFailed, rows, At
  <2>3. RevokeStep(w) => SettleRevoke(w)
    BY <1>2, <1>4, <2>1 DEF RevokeStep, BeginRevokeSession, CloseGatewaySession, RecheckRevoke,
       PersistRevokeFailure, rows, At
  <2>4. ~SettleStep(w)
    BY <1>2, <1>4, <2>1, Zenon DEF SettleStep, AcknowledgeCommand, ReconcileReturns, RetryCommand,
       RetriesExhausted, GiveUpCommand, ManualIntervention, rows, At
  <2> QED
    BY <1>6, <2>2, <2>3, <2>4 DEF WorkerStep
<1>7. ASSUME NEW w \in Worker, SettleRevoke(w)
      PROVE  job[w].s = s /\ At(w, "settle") /\ UNCHANGED agent
  BY <1>1, <1>2, <1>7 DEF SettleRevoke, MarkClosed, Move, rows
<1>8. ASSUME NEW w \in Worker,
             \/ DatabaseFails(w) \/ WorkerCrash(w)
             \/ (\E e \in EventId : ClaimCommand(w, e)) \/ (\E r \in Session : Reconcile(w, r))
      PROVE  FALSE
  BY <1>2, <1>8, Zenon DEF DatabaseFails, WorkerCrash, ClaimCommand, Reconcile, rows
<1> QED
  BY <1>2, <1>5, <1>6, <1>7, <1>8 DEF Next, vars

\* The closing transaction follows a confirmed close of the agent, which stays
\* closed; and the reconciler acknowledges only a resolved session.
AgentInv ==
    /\ \A w \in Worker : At(w, "settle") => agent[job[w].s] \in Gone
    /\ ClosedMeansAgentGone
    /\ AcknowledgedIsResolved

\* A worker reaches the closing transaction only by a confirmed close.
LEMMA SettledBy ==
    ASSUME TypeOK, [Next]_vars, NEW w \in Worker, At(w, "settle")'
    PROVE  /\ job[w].pc # "idle" /\ job[w].s \in Session /\ job'[w].s = job[w].s
           /\ At(w, "settle") \/ agent'[job[w].s] \in Gone
<1>1. job \in [Worker -> Job] /\ agent \in [Session -> AgentState] /\ job[w] \in Job
  BY DEF TypeOK
<1>2. job[w].pc # "idle" => job[w].s \in Session
  BY DEF TypeOK
<1>3. CASE job'[w] = job[w]
  BY <1>2, <1>3 DEF At
<1>4. ASSUME NEW x \in Worker, NEW label, MovesTo(x, label), label # "settle"
      PROVE  job'[w] = job[w]
  BY <1>4 DEF MovesTo, At
<1>5. ASSUME NEW x \in Worker, Finish(x)
      PROVE  job'[w] = job[w]
  BY <1>1, <1>5 DEF Finish, IdleJob, At
<1>6. ASSUME NEW s \in Session, HandlerStep(s)
      PROVE  job'[w] = job[w]
  BY <1>6 DEF HandlerStep, FinalApproval, CancelAccessRequest, ForceCloseSession, CloseSession,
     ReapExpired, ReapProvisioning, Disable, Enable, EnqueueRevocation, EnqueueingEnds, Expire,
     AgentEnds
<1>7. ASSUME NEW x \in Worker, NEW e \in EventId, ClaimCommand(x, e)
      PROVE  job'[w] = job[w]
  BY <1>1, <1>7 DEF ClaimCommand, At
<1>8. ASSUME NEW x \in Worker, NEW s \in Session, Reconcile(x, s)
      PROVE  job'[w] = job[w]
  <2>1. job'[x] = [IdleJob EXCEPT !.pc = "revoke", !.s = s] /\ (x # w => job'[w] = job[w])
    BY <1>1, <1>8 DEF Reconcile
  <2>2. job'[x].pc = "revoke"
    BY <2>1 DEF IdleJob
  <2> QED
    BY <2>1, <2>2, Zenon DEF At
<1>9. ASSUME NEW x \in Worker, ProvisionStep(x)
      PROVE  job'[w] = job[w]
  <2>1. \E label \in ProvisionLabel \cup {"ok", "err"} : MovesTo(x, label)
    BY <1>9, GotoMoves, Zenon DEF ProvisionStep, LoadProvision, ClaimProvisioning, ClaimMissed,
       CreateStarts, CreateReturns, CreateFails, CompleteProvision, CompleteTooLate, CheckLease,
       Compensate, FailProvision, FailProvisionRevokeFailed, ProvisionLabel, Reply
  <2> QED
    BY <1>4, <2>1 DEF ProvisionLabel
<1>10. ASSUME NEW x \in Worker,
              \/ BeginRevokeSession(x) \/ SettleRevoke(x) \/ RecheckRevoke(x)
              \/ PersistRevokeFailure(x) \/ DatabaseFails(x)
       PROVE  job'[w] = job[w]
  <2>1. \E label \in Label : MovesTo(x, label) /\ label # "settle"
    BY <1>10, GotoMoves, Zenon DEF BeginRevokeSession, SettleRevoke, RecheckRevoke,
       PersistRevokeFailure, DatabaseFails, Reply, Label
  <2> QED
    BY <1>4, <2>1
<1>11. ASSUME NEW x \in Worker, SettleStep(x) \/ WorkerCrash(x)
       PROVE  job'[w] = job[w]
  <2>1. Finish(x) \/ \E label \in {"give_up", "intervene"} : MovesTo(x, label)
    BY <1>11, GotoMoves, Zenon DEF SettleStep, AcknowledgeCommand, ReconcileReturns, RetryCommand,
       RetriesExhausted, GiveUpCommand, ManualIntervention, WorkerCrash
  <2> QED
    BY <1>4, <1>5, <2>1
<1>12. ASSUME NEW x \in Worker, CloseGatewaySession(x)
       PROVE  \/ job'[w] = job[w]
              \/ /\ job[w].pc # "idle" /\ job'[w].s = job[w].s
                 /\ agent'[job[w].s] \in Gone
  <2>1. PICK s \in Session : s = job[x].s
    BY <1>12 DEF CloseGatewaySession, At, TypeOK
  <2>2. CASE AgentClosed(s) /\ MovesTo(x, "settle")
    <3>1. agent'[s] \in Gone
      BY <1>1, <2>2 DEF AgentClosed, Gone
    <3> QED
      BY <1>12, <2>1, <2>2, <3>1 DEF MovesTo, CloseGatewaySession, At
  <2>3. CASE MovesTo(x, "persist")
    BY <1>4, <2>3
  <2> QED
    BY <1>12, <2>1, <2>2, <2>3, GotoMoves, Zenon DEF CloseGatewaySession
<1>13. CASE UNCHANGED vars
  BY <1>3, <1>13 DEF vars
<1> QED
  BY <1>2, <1>3, <1>6, <1>7, <1>8, <1>9, <1>10, <1>11, <1>12, <1>13
     DEF Next, WorkerStep, RevokeStep, At

\* The inductive step and its consequences.
LEMMA AgentInvariant == Spec => []AgentInv
<1>1. Init => AgentInv
  BY DEF Init, SessionsInit, AgentInv, ClosedMeansAgentGone, AcknowledgedIsResolved, At, IdleJob
<1>2. RevokeInv /\ AgentInv /\ [Next]_vars => AgentInv'
  <2> SUFFICES ASSUME RevokeInv, AgentInv, [Next]_vars
               PROVE  AgentInv'
    OBVIOUS
  <2>1. TypeOK /\ RevokeJobsSettleLast /\ JobsMatchCommands
    BY DEF RevokeInv
  <2>2. StatusForward
    BY <2>1, NextForward
  <2>3. ASSUME NEW w \in Worker, At(w, "settle")'
        PROVE  agent'[job'[w].s] \in Gone
    <3>1. PICK s \in Session : s = job[w].s
      BY <2>1, <2>3, SettledBy
    <3>2. job'[w].s = s /\ (At(w, "settle") \/ agent'[s] \in Gone)
      BY <2>1, <2>3, <3>1, SettledBy
    <3>3. CASE At(w, "settle")
      BY <2>1, <3>1, <3>2, <3>3, AgentsForward DEF AgentInv
    <3> QED
      BY <3>2, <3>3
  <2>4. ASSUME NEW s \in Session, status'[s] \in {"closed", "expired"}
        PROVE  agent'[s] \in Gone
    <3>1. CASE status[s] \in {"closed", "expired"}
      BY <2>1, <3>1, AgentsForward DEF AgentInv, ClosedMeansAgentGone, Gone
    <3>2. CASE status[s] \notin {"closed", "expired"}
      BY <2>1, <2>4, <3>2, ClosedBy DEF AgentInv
    <3> QED
      BY <3>1, <3>2
  <2>5. ASSUME NEW s \in Session, agent'[s] = "acked"
        PROVE  status'[s] \in Resolved
    <3>1. CASE agent[s] = "acked"
      BY <2>2, <3>1 DEF AgentInv, AcknowledgedIsResolved, StatusForward
    <3>2. ASSUME NEW w \in Worker, job[w].s = s, At(w, "ok"), ~IsCommand(w), UNCHANGED status
          PROVE  status'[s] \in Resolved
      BY <2>1, <3>2 DEF RevokeJobsSettleLast, JobsMatchCommands, At
    <3> QED
      BY <2>1, <2>5, <3>1, <3>2, AgentsForward
  <2> QED
    BY <2>3, <2>4, <2>5 DEF AgentInv, ClosedMeansAgentGone, AcknowledgedIsResolved, Gone, At
<1> QED
  BY <1>1, <1>2, RevokeInvariant, PTL DEF Spec

\* A session is reported closed or expired only when its agent is gone for good.
THEOREM ClosedMeansAgentGoneHolds == Spec => []ClosedMeansAgentGone
<1>1. AgentInv => ClosedMeansAgentGone
  BY DEF AgentInv
<1> QED
  BY <1>1, AgentInvariant, PTL

\* The reconciler acknowledges only the closure of a resolved session.
THEOREM AcknowledgedIsResolvedHolds == Spec => []AcknowledgedIsResolved
<1>1. AgentInv => AcknowledgedIsResolved
  BY DEF AgentInv
<1> QED
  BY <1>1, AgentInvariant, PTL

-----------------------------------------------------------------------------
\* The provisioning lease.

\* A worker that owns an attempt after a step owned it before.
KeepsAttempts ==
    \A w \in Worker : Attempting(w)' =>
        Attempting(w) /\ job'[w].s = job[w].s /\ job'[w].ver = job[w].ver

AttemptLabel == {"launch", "wait", "final", "lease", "compensate", "fail_revoke"}

\* The forms in which an action changes a job, ClaimProvisioning excepted.
LEMMA JobForms ==
    ASSUME TypeOK, NEW w \in Worker
    PROVE  /\ Finish(w) => KeepsAttempts
           /\ \A label : Return(w, label) /\ label \notin AttemptLabel => KeepsAttempts
           /\ \A label : Goto(w, label) /\ (label \in AttemptLabel => Attempting(w)) => KeepsAttempts
           /\ \A j : job' = [job EXCEPT ![w] = j] /\ j.pc \notin AttemptLabel => KeepsAttempts
<1>1. job \in [Worker -> Job] /\ job[w] \in Job
  BY DEF TypeOK
<1> USE DEF KeepsAttempts, Attempting, AttemptLabel
<1>2. ASSUME NEW j, job' = [job EXCEPT ![w] = j], j.pc \notin AttemptLabel
      PROVE  KeepsAttempts
  BY <1>1, <1>2
<1>3. Finish(w) => KeepsAttempts
  BY <1>1 DEF Finish, IdleJob
<1>4. ASSUME NEW label, Return(w, label), label \notin AttemptLabel
      PROVE  KeepsAttempts
  <2>1. [job[w] EXCEPT !.pc = label, !.ver = 0].pc = label
    BY <1>1 DEF Job
  <2> QED
    BY <1>2, <1>4, <2>1 DEF Return
<1>5. ASSUME NEW label, Goto(w, label), label \in AttemptLabel => Attempting(w)
      PROVE  KeepsAttempts
  BY <1>1, <1>5 DEF Goto, Job
<1> QED
  BY <1>2, <1>3, <1>4, <1>5

\* Only ClaimProvisioning starts an attempt.
LEMMA AttemptsKept ==
    ASSUME TypeOK, [Next]_vars, \A w \in Worker : ~ClaimProvisioning(w)
    PROVE  KeepsAttempts
<1>1. UNCHANGED job => KeepsAttempts
  BY DEF KeepsAttempts, Attempting
<1>2. ASSUME NEW s \in Session, HandlerStep(s)
      PROVE  KeepsAttempts
  BY <1>1, <1>2 DEF HandlerStep, FinalApproval, CancelAccessRequest, ForceCloseSession,
     CloseSession, ReapExpired, ReapProvisioning, Disable, Enable, EnqueueRevocation,
     EnqueueingEnds, Expire, AgentEnds
<1>3. ASSUME NEW w \in Worker, NEW e \in EventId, ClaimCommand(w, e)
      PROVE  KeepsAttempts
  <2>1. /\ job'[w].pc \in {"load", "revoke"}
        /\ \A x \in Worker : x # w => job'[x] = job[x]
    BY <1>3 DEF ClaimCommand, TypeOK
  <2> QED
    BY <2>1 DEF KeepsAttempts, Attempting
<1>4. ASSUME NEW w \in Worker, NEW s \in Session, Reconcile(w, s)
      PROVE  KeepsAttempts
  <2>1. [IdleJob EXCEPT !.pc = "revoke", !.s = s].pc = "revoke"
    BY DEF IdleJob
  <2> QED
    BY <1>4, <2>1, JobForms, Zenon DEF Reconcile, AttemptLabel
<1>5. ASSUME NEW w \in Worker, LoadProvision(w)
      PROVE  KeepsAttempts
  <2>1. \A label : [job[w] EXCEPT !.pc = label, !.ver = version[job[w].s]].pc = label
    BY DEF TypeOK, Job
  <2> QED
    BY <1>5, <2>1, JobForms, Zenon DEF LoadProvision, AttemptLabel
<1>6. ASSUME NEW w \in Worker, ProvisionStep(w), ~LoadProvision(w)
      PROVE  KeepsAttempts
  BY <1>6, JobForms DEF ProvisionStep, ClaimMissed, CreateStarts, CreateReturns, CreateFails,
     CompleteProvision, CompleteTooLate, CheckLease, Compensate, FailProvision,
     FailProvisionRevokeFailed, Reply, AttemptLabel, Attempting, At
<1>7. ASSUME NEW w \in Worker, RevokeStep(w)
      PROVE  KeepsAttempts
  BY <1>7, JobForms DEF RevokeStep, BeginRevokeSession, CloseGatewaySession, SettleRevoke,
     RecheckRevoke, PersistRevokeFailure, Reply, AttemptLabel
<1>8. ASSUME NEW w \in Worker, SettleStep(w) \/ WorkerCrash(w) \/ DatabaseFails(w)
      PROVE  KeepsAttempts
  BY <1>8, JobForms, Zenon DEF SettleStep, AcknowledgeCommand, ReconcileReturns, RetryCommand,
     RetriesExhausted, GiveUpCommand, ManualIntervention, WorkerCrash, DatabaseFails,
     AttemptLabel, Attempting, At
<1> QED
  BY <1>1, <1>2, <1>3, <1>4, <1>5, <1>6, <1>7, <1>8 DEF Next, WorkerStep, vars

\* While a session stays in provisioning, only ClaimProvisioning changes its
\* version.
LEMMA VersionKept ==
    ASSUME TypeOK, [Next]_vars, \A w \in Worker : ~ClaimProvisioning(w),
           NEW s \in Session, status[s] # "none", status'[s] = "provisioning"
    PROVE  status[s] = "provisioning" /\ version'[s] = version[s]
<1> DEFINE Goal == status'[s] = "provisioning" =>
                     status[s] = "provisioning" /\ version'[s] = version[s]
<1>1. /\ status \in [Session -> SessionStatus \cup {"none"}]
      /\ version \in [Session -> 0 .. MaxClaims]
  BY DEF TypeOK
<1>2. UNCHANGED rows => Goal
  BY DEF rows
<1>3. ASSUME NEW r \in Session,
             \/ InsertProvisioning(r) \/ BeginRevoke(r) \/ MarkManualIntervention(r)
             \/ (\E v : \/ MarkProvisionFailed(r, v) \/ MarkProvisionRevokeFailed(r, v)
                       \/ MarkDirectRunning(r, v))
             \/ (\E to \in {"closed", "expired"} : MarkClosed(r, to))
             \/ Move(r, {"running", "revoking", "revoke_failed", "manual_intervention"},
                     "revoke_failed")
      PROVE  Goal
  BY <1>1, <1>3 DEF InsertProvisioning, BeginRevoke, MarkManualIntervention, MarkProvisionFailed,
     MarkProvisionRevokeFailed, MarkDirectRunning, LeaveProvisioning, MarkClosed, Move
<1> HIDE DEF Goal
<1>4. ASSUME NEW r \in Session, RevokeLocally(r)
      PROVE  Goal
  BY <1>2, <1>3, <1>4 DEF RevokeLocally
<1>5. ASSUME NEW r \in Session, HandlerStep(r)
      PROVE  Goal
  BY <1>2, <1>3, <1>4, <1>5 DEF HandlerStep, FinalApproval, CancelAccessRequest,
     ForceCloseSession, CloseSession, ReapExpired, ReapProvisioning, Disable, Enable,
     EnqueueRevocation, EnqueueingEnds, Expire, AgentEnds
<1>6. ASSUME NEW w \in Worker, WorkerStep(w)
      PROVE  Goal
  <2>1. job[w].pc # "idle" => job[w].s \in Session
    BY DEF TypeOK
  <2>2. ProvisionStep(w) => Goal
    BY <1>2, <1>3, <2>1 DEF ProvisionStep, LoadProvision, ClaimMissed, CreateStarts,
       CreateReturns, CreateFails, CompleteProvision, CompleteTooLate, CheckLease, Compensate,
       FailProvision, FailProvisionRevokeFailed, At, rows
  <2>3. RevokeStep(w) => Goal
    BY <1>2, <1>3, <1>4, <2>1 DEF RevokeStep, BeginRevokeSession, CloseGatewaySession,
       SettleRevoke, RecheckRevoke, PersistRevokeFailure, At, rows
  <2>4. SettleStep(w) => Goal
    BY <1>2, <1>3, <2>1, Zenon DEF SettleStep, AcknowledgeCommand, ReconcileReturns, RetryCommand,
       RetriesExhausted, GiveUpCommand, ManualIntervention, At, rows
  <2> QED
    BY <1>6, <2>2, <2>3, <2>4 DEF WorkerStep
<1>7. ASSUME NEW w \in Worker,
             \/ DatabaseFails(w) \/ WorkerCrash(w)
             \/ (\E e \in EventId : ClaimCommand(w, e)) \/ (\E r \in Session : Reconcile(w, r))
      PROVE  Goal
  BY <1>2, <1>7, Zenon DEF DatabaseFails, WorkerCrash, ClaimCommand, Reconcile
<1>8. UNCHANGED vars => Goal
  BY <1>2 DEF vars, rows
<1>9. Goal
  BY <1>5, <1>6, <1>7, <1>8 DEF Next
<1> QED
  BY <1>9 DEF Goal

\* The claim gives its worker a version that no other attempt has.
LEMMA ClaimNumbers ==
    ASSUME TypeOK, AttemptsAreNumbered, NEW w \in Worker, ClaimProvisioning(w)
    PROVE  AttemptsAreNumbered'
<1>1. PICK s \in Session, v \in Nat : s = job[w].s /\ v = job[w].ver
  BY BoundsAssumption DEF ClaimProvisioning, At, TypeOK, Job
<1>2. /\ status[s] = "provisioning" /\ version[s] = v
      /\ status' = status
      /\ version' = [version EXCEPT ![s] = v + 1]
  BY <1>1 DEF ClaimProvisioning, ClaimProvisioningOnGateway, Owns
<1>3. /\ job'[w].s = s /\ job'[w].ver = v + 1
      /\ \A x \in Worker : x # w => job'[x] = job[x]
  BY <1>1 DEF ClaimProvisioning, TypeOK, Job
<1>4. version'[s] = v + 1 /\ \A r \in Session : r # s => version'[r] = version[r]
  BY <1>2 DEF TypeOK
<1>5. \A x \in Worker : /\ Attempting(x) => job[x].s \in Session
                        /\ job[x].ver \in Nat
  BY BoundsAssumption DEF Attempting, TypeOK, Job
<1>6. \A x \in Worker : x # w => (Attempting(x)' <=> Attempting(x))
  BY <1>3 DEF Attempting
<1>7. \A x \in Worker : x # w /\ Attempting(x)' /\ job'[x].s = s => job'[x].ver <= v
  BY <1>2, <1>3, <1>6 DEF AttemptsAreNumbered
<1>8. ASSUME NEW x \in Worker, Attempting(x)', status'[job'[x].s] = "provisioning"
      PROVE  /\ job'[x].ver <= version'[job'[x].s]
             /\ \A y \in Worker : Attempting(y)' /\ job'[y].s = job'[x].s /\ job'[y].ver = job'[x].ver
                   => y = x
  <2>1. CASE x = w
    BY <1>3, <1>4, <1>5, <1>7, <2>1
  <2>2. CASE x # w
    <3>1. /\ Attempting(x) /\ job'[x] = job[x] /\ status[job[x].s] = "provisioning"
          /\ job[x].ver <= version[job[x].s] /\ job[x].s \in Session
      BY <1>2, <1>3, <1>5, <1>6, <1>8, <2>2 DEF AttemptsAreNumbered
    <3>2. job'[x].ver <= version'[job'[x].s]
      BY <1>2, <1>4, <1>5, <3>1
    <3>3. ASSUME NEW y \in Worker, Attempting(y)', job'[y].s = job'[x].s, job'[y].ver = job'[x].ver
          PROVE  y = x
      <4>1. CASE y = w
        BY <1>3, <1>5, <1>7, <1>8, <2>2, <3>1, <3>3, <4>1
      <4>2. CASE y # w
        BY <1>3, <1>6, <3>1, <3>3, <4>2 DEF AttemptsAreNumbered
      <4> QED
        BY <4>1, <4>2
    <3> QED
      BY <3>2, <3>3
  <2> QED
    BY <2>1, <2>2
<1> QED
  BY <1>8 DEF AttemptsAreNumbered

\* Two workers never own the provisioning attempt of one session at the same
\* time: the version tells them apart.
THEOREM LeaseIsExclusiveHolds == Spec => []LeaseIsExclusive
<1>1. Init => AttemptsAreNumbered
  BY DEF Init, AttemptsAreNumbered, Attempting, IdleJob
<1>2. RevokeInv /\ AttemptsAreNumbered /\ [Next]_vars => AttemptsAreNumbered'
  <2> SUFFICES ASSUME RevokeInv, AttemptsAreNumbered, [Next]_vars
               PROVE  AttemptsAreNumbered'
    OBVIOUS
  <2>1. TypeOK /\ JobsMatchCommands
    BY DEF RevokeInv
  <2>2. CASE \E w \in Worker : ClaimProvisioning(w)
    BY <2>1, <2>2, ClaimNumbers
  <2>3. CASE \A w \in Worker : ~ClaimProvisioning(w)
    <3>1. KeepsAttempts
      BY <2>1, <2>3, AttemptsKept
    <3>2. \A w \in Worker : Attempting(w) => job[w].s \in Session /\ status[job[w].s] # "none"
      BY <2>1 DEF Attempting, TypeOK, JobsMatchCommands
    <3>3. ASSUME NEW w \in Worker, Attempting(w)', status'[job'[w].s] = "provisioning"
          PROVE  /\ Attempting(w) /\ job'[w].s = job[w].s /\ job'[w].ver = job[w].ver
                 /\ status[job[w].s] = "provisioning"
                 /\ version'[job'[w].s] = version[job[w].s]
      <4>1. PICK s \in Session : s = job[w].s /\ status[s] # "none" /\ status'[s] = "provisioning"
        BY <3>1, <3>2, <3>3 DEF KeepsAttempts
      <4>2. status[s] = "provisioning" /\ version'[s] = version[s]
        BY <2>1, <2>3, <4>1, VersionKept
      <4> QED
        BY <3>1, <3>3, <4>1, <4>2 DEF KeepsAttempts
    <3> QED
      BY <3>1, <3>3 DEF AttemptsAreNumbered, KeepsAttempts
  <2> QED
    BY <2>2, <2>3
<1>3. AttemptsAreNumbered => LeaseIsExclusive
  BY DEF AttemptsAreNumbered, LeaseIsExclusive, Owns
<1> QED
  BY <1>1, <1>2, <1>3, RevokeInvariant, PTL DEF Spec

\* However revocations are asked for, retried and given up, the outbox holds
\* exactly the revoke command the session needs.
THEOREM RevokeCommandsFitHolds == Spec => []RevokeCommandsFit
BY RevokeNeverLostHolds, AtMostOneRevokeHolds, InterventionIsQuietHolds, PTL
   DEF RevokeCommandsFit

\* RevokeSession and the reconciler: the row and the agent agree about the end.
THEOREM ClosureIsTrueHolds == Spec => []ClosureIsTrue
BY ClosedMeansAgentGoneHolds, AcknowledgedIsResolvedHolds, PTL DEF ClosureIsTrue

\* CancelAccessRequest and the disabling of catalogue rows end the access.
THEOREM WithdrawnNeverRunsHolds == Spec => []WithdrawnNeverRuns
BY CancelledNeverRunsHolds, DisabledNeverRunsHolds, PTL DEF WithdrawnNeverRuns
=============================================================================
