--------------------------- MODULE AccessRequests ---------------------------
(***************************************************************************)
(* Access requests and their approvals: internal/service/access.go         *)
(* (createAccessRequest, CancelAccessRequest, DecideApproval,              *)
(* ReapApprovalExpired), workflows.go, workflow_progress.go and the        *)
(* repositories behind them.                                               *)
(*                                                                         *)
(* A request is named by its idempotency key, a unique column.  A call     *)
(* reads outside its transaction first; its steps interleave with those of *)
(* other calls, and the transaction that ends it is one step, because it   *)
(* holds the rows it decides on locked.                                    *)
(***************************************************************************)
EXTENDS Integers, Sequences, FiniteSets, FiniteSetsExt

CONSTANTS User, Admin,    \* all users, and those holding role:manage
          Key,            \* idempotency keys
          Target,         \* pairs of an asset and one of its ports
          MaxTTL,         \* the longest duration; a caller's 0 asks for the default
          Submissions,    \* the sets of submissions that clients make
          Selector,       \* label selectors, owner rules included
          Workflows,      \* the definitions administrators choose from
          DemoMode,       \* the deployment approves every request itself
          Call, NoKey,
          MaxEdits(_)     \* bound: configuration changes in a behaviour with these submissions

\* The body of a creation: test is the administrators' own endpoint.
Submission == [key : Key, user : User, target : Target, ttl : Nat, test : BOOLEAN]

ASSUME InputsAssumption ==
    /\ Admin \subseteq User
    /\ \A S \in Submissions : S \subseteq Submission /\ MaxEdits(S) \in Nat
ASSUME BoundAssumption == MaxTTL \in Nat \ {0}
ASSUME UserAssumption == IsFiniteSet(User)

\* Definition.Validate: a workflow has one to ten steps.
Level == 1 .. 10

ASSUME WorkflowAssumption ==
    \A w \in Workflows :
        \E n \in Level : w \in [1 .. n -> [mode : {"any", "all"}, selector : Selector]]

VARIABLES inputs,     \* the submissions of this behaviour, sent and retried
          request,    \* request[k]: the row of access_requests, or NoRequest
          votes,      \* votes[k]: the decided approvals, as <<level, user, decision>>
          session,    \* session[k]: the session the request led to
          overdue,    \* overdue[k]: approval_expires_at has passed
          workflow,   \* the workflow of the assets: a sequence of steps
          matching,   \* matching[x]: active approvers that selector x matches now
          enabled,    \* enabled[t]: the asset is enabled
          call,       \* call[c]: a request in progress
          edits

config == <<inputs, workflow, matching, enabled, edits>>
vars == <<inputs, request, votes, session, overdue, workflow, matching, enabled, call, edits>>

RequestStatus == {"pending_approval", "approved", "rejected", "cancelled", "approval_expired"}

Ended == {"rejected", "cancelled", "approval_expired"}

Decision == {"approved", "rejected"}

NoRequest == [status |-> "none"]

Idle == [pc |-> "idle"]

\* FindActiveByApplicantAssetPort: every status but the resolved ones.
ActiveSession == {"live", "revoking"}

Init ==
    /\ inputs \in Submissions
    /\ request = [k \in Key |-> NoRequest]
    /\ votes = [k \in Key |-> {}]
    /\ session = [k \in Key |-> "none"]
    /\ overdue = [k \in Key |-> FALSE]
    /\ workflow \in Workflows
    /\ matching = [x \in Selector |-> User]
    /\ enabled = [t \in Target |-> TRUE]
    /\ call = [c \in Call |-> Idle]
    /\ edits = 0

-----------------------------------------------------------------------------
\* Approval chains.

Exists(k) == request[k] # NoRequest

Levels(k) == DOMAIN request[k].steps

ApproversIn(vs, l) == {u \in User : <<l, u, "approved">> \in vs}

Approvers(k, l) == ApproversIn(votes[k], l)

Voted(k, l) == {u \in User : \E d \in Decision : <<l, u, d>> \in votes[k]}

CompleteIn(steps, vs, l) == Cardinality(ApproversIn(vs, l)) >= steps[l].required

LevelComplete(k, l) == CompleteIn(request[k].steps, votes[k], l)

\* Mutant of nextApprovalLevel: the chain ends after its first level.
NextOfFirst(steps, vs) == IF CompleteIn(steps, vs, 1) THEN 0 ELSE 1

\* The lowest level below its threshold; 0 when the chain is complete.
nextApprovalLevel(steps, vs) ==
    LET open == {l \in DOMAIN steps : ~ CompleteIn(steps, vs, l)}
    IN IF open = {} THEN 0 ELSE Min(open)

CurrentLevel(k) == nextApprovalLevel(request[k].steps, votes[k])

\* selectApprovalWorkflow and materializeApproval: the snapshot of each step,
\* defined when every step retains a candidate other than the applicant.
Candidates(step, u) == matching[step.selector] \ {u}

Materializable(u) == \A l \in DOMAIN workflow : Candidates(workflow[l], u) # {}

materializeApproval(u) ==
    [l \in DOMAIN workflow |->
        [selector |-> workflow[l].selector,
         candidates |-> Candidates(workflow[l], u),
         required |-> IF workflow[l].mode = "all"
                      THEN Cardinality(Candidates(workflow[l], u)) ELSE 1]]

\* The snapshot's members vote, as long as its selector still matches them.
validateWorkflowVoter(k, l, u) ==
    /\ ~ overdue[k]
    /\ u \in request[k].steps[l].candidates
    /\ u \in matching[request[k].steps[l].selector]

\* What DecideApproval requires before and again inside its transaction.
Decidable(k, l, u) ==
    /\ Exists(k)
    /\ request[k].status = "pending_approval"
    /\ request[k].applicant # u
    /\ u \in request[k].steps[l].candidates \ Voted(k, l)
    /\ l = CurrentLevel(k)

-----------------------------------------------------------------------------
\* Creating a request.

Goto(c, label) == call' = [call EXCEPT ![c].pc = label]

\* The call answers its client: with request k of the store, or an error.
Answer(c, reply) == call' = [call EXCEPT ![c].pc = "answered", ![c].reply = reply]

Receive(c) ==
    /\ call[c].pc = "answered"
    /\ call' = [call EXCEPT ![c] = Idle]
    /\ UNCHANGED <<request, votes, session, overdue, config>>

CreateCall(i, ttl, mode) ==
    [pc |-> "lookup", key |-> i.key, user |-> i.user, target |-> i.target, ttl |-> ttl,
     mode |-> mode, reply |-> NoKey]

\* CreateAccessRequest and CreateTestAccessRequest, with a valid input.
CreateAccessRequest(c, i) ==
    /\ call[c] = Idle
    /\ \/ /\ ~ i.test
          /\ call' = [call EXCEPT ![c] = IF DemoMode THEN CreateCall(i, MaxTTL, "demo")
                                         ELSE CreateCall(i, i.ttl, "required")]
       \/ /\ i.test /\ i.user \in Admin /\ i.ttl \in 1 .. MaxTTL
          /\ call' = [call EXCEPT ![c] = CreateCall(i, i.ttl, "admin_test")]
    /\ UNCHANGED <<request, votes, session, overdue, config>>

Granted(ttl) == IF ttl = 0 THEN 1 ELSE ttl

\* Mutant of sameRequestPayload: only the target is compared.
SameTarget(k, c) == request[k].applicant = call[c].user /\ request[k].target = call[c].target

sameRequestPayload(k, c) ==
    /\ request[k].applicant = call[c].user
    /\ request[k].target = call[c].target
    /\ call[c].ttl # 0 => request[k].ttl = call[c].ttl

SameRequest(k, c) == sameRequestPayload(k, c) /\ request[k].mode = call[c].mode

\* A key that exists answers the call: the stored request if it is the same.
AnswerStored(c) ==
    LET k == call[c].key IN Answer(c, IF SameRequest(k, c) THEN k ELSE NoKey)

LookupKey(c) ==
    /\ call[c].pc = "lookup"
    /\ IF Exists(call[c].key) THEN AnswerStored(c) ELSE Goto(c, "check")
    /\ UNCHANGED <<request, votes, session, overdue, config>>

HasActive(u, t) ==
    \E k \in Key : /\ session[k] \in ActiveSession
                   /\ request[k].applicant = u /\ request[k].target = t

\* Catalogue, duration and active-session checks, none of them under a lock.
CheckRequest(c) ==
    /\ call[c].pc = "check"
    /\ IF /\ enabled[call[c].target]
          /\ Granted(call[c].ttl) <= MaxTTL
          /\ ~ HasActive(call[c].user, call[c].target)
       THEN Goto(c, "commit")
       ELSE Answer(c, NoKey)
    /\ UNCHANGED <<request, votes, session, overdue, config>>

AutoApproved(c) == call[c].mode \in {"admin_test", "demo"}

\* The transaction's own checks, before the rows are inserted.
MayCommit(c) ==
    /\ AutoApproved(c) \/ Materializable(call[c].user)
    /\ enabled[call[c].target]

\* AccessRequestRepository.Create fails on a stored key; with automatic
\* approval an active session is the same conflict, found first.
Conflicts(c) ==
    \/ AutoApproved(c) /\ HasActive(call[c].user, call[c].target)
    \/ MayCommit(c) /\ Exists(call[c].key)

InsertRequest(c) ==
    request' = [request EXCEPT ![call[c].key] =
        [status |-> IF AutoApproved(c) THEN "approved" ELSE "pending_approval",
         applicant |-> call[c].user, target |-> call[c].target,
         ttl |-> Granted(call[c].ttl), mode |-> call[c].mode,
         steps |-> IF AutoApproved(c) THEN <<>> ELSE materializeApproval(call[c].user)]]

CommitRequest(c) ==
    /\ call[c].pc = "commit"
    /\ \/ /\ Conflicts(c)
          /\ Goto(c, "conflict")
          /\ UNCHANGED <<request, session>>
       \/ /\ ~ Conflicts(c) /\ ~ MayCommit(c)
          /\ Answer(c, NoKey)
          /\ UNCHANGED <<request, session>>
       \/ /\ ~ Conflicts(c) /\ MayCommit(c)
          /\ InsertRequest(c)
          /\ session' = [session EXCEPT ![call[c].key] = IF AutoApproved(c) THEN "live" ELSE "none"]
          /\ Answer(c, call[c].key)
    /\ UNCHANGED <<votes, overdue, config>>

\* The loser of a race for the key answers like a retry.
ConflictLookup(c) ==
    /\ call[c].pc = "conflict"
    /\ IF Exists(call[c].key) THEN AnswerStored(c) ELSE Answer(c, NoKey)
    /\ UNCHANGED <<request, votes, session, overdue, config>>

-----------------------------------------------------------------------------
\* Deciding, cancelling and expiring.

DecideApproval(c, k, l, u, d) ==
    /\ call[c] = Idle
    /\ Exists(k) /\ l \in Levels(k)
    /\ Decidable(k, l, u)
    /\ call' = [call EXCEPT ![c] = [pc |-> "decide", key |-> k, level |-> l, user |-> u, decision |-> d]]
    /\ UNCHANGED <<request, votes, session, overdue, config>>

SetStatus(k, to) == request' = [request EXCEPT ![k].status = to]

\* Mutant of FinalApproval: no look for another active session under the lock.
FinalApprovalUnchecked(k) ==
    /\ enabled[request[k].target]
    /\ SetStatus(k, "approved")
    /\ session' = [session EXCEPT ![k] = "live"]

\* The last vote creates the session and its command in the same transaction.
FinalApproval(k) ==
    /\ ~ HasActive(request[k].applicant, request[k].target)
    /\ enabled[request[k].target]
    /\ SetStatus(k, "approved")
    /\ session' = [session EXCEPT ![k] = "live"]

\* The chain is complete once this vote is counted.
LastVote(k, l, u) ==
    nextApprovalLevel(request[k].steps, votes[k] \cup {<<l, u, "approved">>}) = 0

\* The transaction: everything is read again under the request's row lock.
DecideLocked(k, l, u, d) ==
    /\ validateWorkflowVoter(k, l, u)
    /\ Decidable(k, l, u)
    /\ votes' = [votes EXCEPT ![k] = @ \cup {<<l, u, d>>}]
    /\ \/ d = "rejected" /\ SetStatus(k, "rejected") /\ UNCHANGED session
       \/ d = "approved" /\ LastVote(k, l, u) /\ FinalApproval(k)
       \/ d = "approved" /\ ~ LastVote(k, l, u) /\ UNCHANGED <<request, session>>

CommitDecision(c) ==
    /\ call[c].pc = "decide"
    /\ DecideLocked(call[c].key, call[c].level, call[c].user, call[c].decision)
    /\ call' = [call EXCEPT ![c] = Idle]
    /\ UNCHANGED <<overdue, config>>

\* A check fails, or the transaction rolls back.
AbandonDecision(c) ==
    /\ call[c].pc = "decide"
    /\ call' = [call EXCEPT ![c] = Idle]
    /\ UNCHANGED <<request, votes, session, overdue, config>>

\* Request first, then its session: the session's side is AccessService's.
CancelAccessRequest(k) ==
    /\ Exists(k)
    /\ SetStatus(k, IF request[k].status \in Ended THEN request[k].status ELSE "cancelled")
    /\ session' = [session EXCEPT ![k] = IF @ = "live" THEN "revoking" ELSE @]
    /\ UNCHANGED <<votes, overdue, config, call>>

\* Mutant of ReapApprovalExpired: a request that has a vote is passed over.
ReapNothingVoted(k) ==
    /\ Exists(k) /\ overdue[k] /\ request[k].status = "pending_approval" /\ votes[k] = {}
    /\ SetStatus(k, "approval_expired")
    /\ UNCHANGED <<votes, session, overdue, config, call>>

ReapApprovalExpired(k) ==
    /\ Exists(k) /\ overdue[k] /\ request[k].status = "pending_approval"
    /\ SetStatus(k, "approval_expired")
    /\ UNCHANGED <<votes, session, overdue, config, call>>

\* The session of another module's lifecycle: closed, expired or failed.
SessionEnds(k) ==
    /\ session[k] \in ActiveSession
    /\ session' = [session EXCEPT ![k] = "resolved"]
    /\ UNCHANGED <<request, votes, overdue, config, call>>

DeadlinePasses(k) ==
    /\ Exists(k) /\ request[k].mode = "required" /\ ~ overdue[k]
    /\ overdue' = [overdue EXCEPT ![k] = TRUE]
    /\ UNCHANGED <<request, votes, session, config, call>>

\* SaveWorkflow, SaveOwnership, label and role changes, asset status changes.
EditConfiguration ==
    /\ edits < MaxEdits(inputs)
    /\ edits' = edits + 1
    /\ \/ workflow' \in Workflows \ {workflow} /\ UNCHANGED <<matching, enabled>>
       \/ \E x \in Selector, u \in User :
             /\ matching' = [matching EXCEPT ![x] = SymDiff(@, {u})]
             /\ UNCHANGED <<workflow, enabled>>
       \/ \E t \in Target :
             /\ enabled' = [enabled EXCEPT ![t] = ~ @]
             /\ UNCHANGED <<workflow, matching>>
    /\ UNCHANGED <<inputs, request, votes, session, overdue, call>>

Next ==
    \/ \E c \in Call :
          \/ \E i \in inputs : CreateAccessRequest(c, i)
          \/ \E k \in Key, u \in User, l \in Level, d \in Decision : DecideApproval(c, k, l, u, d)
          \/ LookupKey(c) \/ CheckRequest(c) \/ CommitRequest(c) \/ ConflictLookup(c)
          \/ Receive(c) \/ CommitDecision(c) \/ AbandonDecision(c)
    \/ \E k \in Key :
          \/ CancelAccessRequest(k) \/ ReapApprovalExpired(k)
          \/ SessionEnds(k) \/ DeadlinePasses(k)
    \/ EditConfiguration

Spec == Init /\ [][Next]_vars

\* Deadlines pass, and the worker's recovery loop keeps calling the reaper.
FairSpec ==
    /\ Spec
    /\ \A k \in Key : WF_vars(DeadlinePasses(k)) /\ WF_vars(ReapApprovalExpired(k))

-----------------------------------------------------------------------------
\* What the console shows.

\* workflowView: an overdue request is shown as expired before the reaper ran.
ShownStatus(k) ==
    IF request[k].status = "pending_approval" /\ overdue[k]
    THEN "approval_expired" ELSE request[k].status

workflowStages(k, l) ==
    IF \E u \in User : <<l, u, "rejected">> \in votes[k] THEN "rejected"
    ELSE IF LevelComplete(k, l) THEN "approved"
    ELSE IF ShownStatus(k) = "approval_expired" THEN "expired"
    ELSE IF ShownStatus(k) = "cancelled" THEN "cancelled"
    ELSE IF ShownStatus(k) # "pending_approval" THEN "skipped"
    ELSE IF l = CurrentLevel(k) THEN "pending" ELSE "waiting"

\* Mutant of ListPendingByApprover: no look at the levels before.
ListPendingAnyLevel(u) ==
    {kl \in Key \X Level :
        LET k == kl[1] l == kl[2] IN
        /\ Exists(k) /\ request[k].status = "pending_approval" /\ ~ overdue[k]
        /\ l \in Levels(k) /\ u \in request[k].steps[l].candidates \ Voted(k, l)
        /\ ~ LevelComplete(k, l)}

\* The SQL of the approver's work list.
ListPendingByApprover(u) ==
    {kl \in Key \X Level :
        LET k == kl[1] l == kl[2] IN
        /\ Exists(k) /\ request[k].status = "pending_approval" /\ ~ overdue[k]
        /\ l \in Levels(k) /\ u \in request[k].steps[l].candidates \ Voted(k, l)
        /\ ~ LevelComplete(k, l)
        /\ ~ \E p \in Levels(k) : p < l /\ ~ LevelComplete(k, p)}

-----------------------------------------------------------------------------
\* Properties.

\* A session exists only behind a complete chain: each level of the snapshot
\* reached its own threshold with votes of its candidates, none of them the
\* applicant, whatever was edited, cancelled or raced in between
\* (DecideApproval re-reads everything under the request's lock).
SessionNeedsEveryLevel ==
    \A k \in Key : session[k] # "none" /\ request[k].mode = "required" =>
        \A l \in Levels(k) :
            /\ Cardinality(Approvers(k, l)) >= request[k].steps[l].required
            /\ Approvers(k, l) \subseteq request[k].steps[l].candidates
            /\ request[k].applicant \notin Approvers(k, l)

\* One applicant never holds two unresolved sessions on the same port, although
\* calls check for one before they hold any lock (LockApplicantAssetPort).
OneActivePerTarget ==
    \A j, k \in Key :
        /\ session[j] \in ActiveSession /\ session[k] \in ActiveSession
        /\ request[j].applicant = request[k].applicant
        /\ request[j].target = request[k].target
        => j = k

\* A successful answer names a stored request with the caller's own payload, in
\* particular for the loser of two concurrent creations with one key.
AnswerIsOwnRequest ==
    \A c \in Call : call[c].pc = "answered" /\ call[c].reply # NoKey =>
        LET k == call[c].reply IN
        /\ k = call[c].key /\ Exists(k)
        /\ request[k].applicant = call[c].user
        /\ request[k].target = call[c].target
        /\ request[k].mode = call[c].mode
        /\ call[c].ttl \in {0, request[k].ttl}

\* The votes of u that are open by the service's own computation of the level.
OpenVotes(u) ==
    {kl \in Key \X Level :
        /\ Exists(kl[1]) /\ kl[2] \in Levels(kl[1])
        /\ ~ overdue[kl[1]] /\ Decidable(kl[1], kl[2], u)}

\* The votes that the transaction of a decision takes from u.
AcceptedVotes(u) ==
    {kl \in Key \X Level :
        /\ Exists(kl[1]) /\ kl[2] \in Levels(kl[1])
        /\ validateWorkflowVoter(kl[1], kl[2], u) /\ Decidable(kl[1], kl[2], u)}

\* The console tells the truth.  The SQL work list shows an approver exactly the
\* votes that the service's own computation of the current level leaves open; the
\* service accepts all of them but those of a voter whose labels or roles have
\* changed since the request was made, which the list does not look at; one stage is
\* shown as pending exactly while the request can be decided, and all of them as
\* approved exactly once there is a session.
ConsoleAgrees ==
    /\ \A u \in User :
        /\ ListPendingByApprover(u) = OpenVotes(u)
        /\ AcceptedVotes(u) =
              {kl \in ListPendingByApprover(u) : u \in matching[request[kl[1]].steps[kl[2]].selector]}
    /\ \A k \in Key : Exists(k) /\ request[k].mode = "required" =>
        LET Shown(st) == {l \in Levels(k) : workflowStages(k, l) = st} IN
        /\ (Cardinality(Shown("pending")) = 1) <=> (ShownStatus(k) = "pending_approval")
        /\ ShownStatus(k) = "pending_approval" =>
              \A l \in Shown("waiting"), m \in Shown("pending") : m < l
        /\ (Shown("approved") = Levels(k)) <=> (session[k] # "none")

\* No request waits for approvals for ever.
PendingEnds ==
    \A k \in Key : request[k].status = "pending_approval" ~> request[k].status # "pending_approval"
=============================================================================
