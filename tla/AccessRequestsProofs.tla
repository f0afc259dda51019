------------------------ MODULE AccessRequestsProofs ------------------------
(***************************************************************************)
(* Proofs about AccessRequests, for every set of users, keys, workflows    *)
(* and submissions.                                                        *)
(***************************************************************************)
EXTENDS AccessRequests, TLAPS, FiniteSetTheorems

USE ZenonT(5), SMTT(10), SMTT(30)

-----------------------------------------------------------------------------
\* The inductive invariant.

Mode == {"required", "admin_test", "demo"}

Step == [selector : Selector, candidates : SUBSET User, required : Nat]

\* The snapshots of a workflow; an automatic approval has none.
Chain == UNION {[1 .. n -> Step] : n \in 0 .. 10}

Row == [status : RequestStatus, applicant : User, target : Target, ttl : Nat, mode : Mode,
        steps : Chain]

Creating ==
    [pc : {"lookup", "check", "commit", "conflict", "answered"}, key : Key, user : User,
     target : Target, ttl : Nat, mode : Mode, reply : Key \cup {NoKey}]

Deciding == [pc : {"decide"}, key : Key, level : Level, user : User, decision : Decision]

SessionStatus == ActiveSession \cup {"none", "resolved"}

RequestTypes ==
    /\ inputs \subseteq Submission
    /\ request \in [Key -> Row \cup {NoRequest}]
    /\ votes \in [Key -> SUBSET (Level \X User \X Decision)]
    /\ session \in [Key -> SessionStatus]
    /\ workflow \in Workflows
    /\ matching \in [Selector -> SUBSET User]
    /\ call \in [Call -> {Idle} \cup Creating \cup Deciding]

ChainComplete(steps, vs) == \A l \in DOMAIN steps : CompleteIn(steps, vs, l)

\* The applicant is in no snapshot, and no threshold is met by nobody.
SnapshotIsSound(r) ==
    \A l \in DOMAIN r.steps :
        r.applicant \notin r.steps[l].candidates /\ r.steps[l].required >= 1

\* Votes are cast by the candidates of their level.
VotesAreSound(r, vs) ==
    \A l \in Level, u \in User, d \in Decision :
        <<l, u, d>> \in vs => l \in DOMAIN r.steps /\ u \in r.steps[l].candidates

NoRejection(vs) == \A l \in Level, u \in User : <<l, u, "rejected">> \notin vs

\* How a request's status, its votes and its session depend on each other: a
\* chain is complete exactly when there is a session, and a rejection ends it.
StatusIsSound(r, vs, s) ==
    /\ r.status = "pending_approval" => r.mode = "required" /\ s = "none"
    /\ r.status = "pending_approval" => NoRejection(vs)
    /\ s # "none" => NoRejection(vs)
    /\ r.mode = "required" => ((s # "none") <=> ChainComplete(r.steps, vs))

RequestIsSound(r, vs, s) ==
    IF r = NoRequest THEN vs = {} /\ s = "none"
    ELSE SnapshotIsSound(r) /\ VotesAreSound(r, vs) /\ StatusIsSound(r, vs, s)

RequestInv ==
    /\ RequestTypes
    /\ \A k \in Key : RequestIsSound(request[k], votes[k], session[k])
    /\ OneActivePerTarget
    /\ AnswerIsOwnRequest

-----------------------------------------------------------------------------
\* Lemmas about the operators.

\* A non-empty set of levels has a lowest one.
LEMMA LowestLevel ==
    ASSUME NEW S \in SUBSET Level, S # {}
    PROVE  Min(S) \in S /\ \A l \in S : Min(S) <= l
<1>1. S \subseteq Nat /\ S # {}
  BY DEF Level
<1>2. PICK m \in S : \A l \in S : <<l, m>> \notin OpToRel(<, Nat)
  BY <1>1, NatLessThanWellFounded, WFMin, Zenon
<1>3. ASSUME NEW l \in S
      PROVE  m =< l
  <2>1. l \in Nat /\ m \in Nat
    BY <1>1
  <2>2. l < m => <<l, m>> \in OpToRel(<, Nat)
    BY <2>1 DEF OpToRel
  <2>3. ~ (l < m)
    BY <1>2, <2>2, Zenon
  <2> QED
    BY <2>1, <2>3
<1> QED
  BY <1>3 DEF Min

\* nextApprovalLevel: 0 says that every level is complete, and any other value
\* is the one open level with no open level before it.
LEMMA NextApprovalLevel ==
    ASSUME NEW steps, NEW vs, DOMAIN steps \subseteq Level
    PROVE  /\ nextApprovalLevel(steps, vs) = 0 <=> ChainComplete(steps, vs)
           /\ nextApprovalLevel(steps, vs) \in DOMAIN steps \cup {0}
           /\ \A l \in DOMAIN steps :
                 l = nextApprovalLevel(steps, vs) <=>
                    /\ ~ CompleteIn(steps, vs, l)
                    /\ \A p \in DOMAIN steps : p < l => CompleteIn(steps, vs, p)
<1> DEFINE open == {l \in DOMAIN steps : ~ CompleteIn(steps, vs, l)}
<1>1. CASE open = {}
  <2>1. nextApprovalLevel(steps, vs) = 0 /\ ChainComplete(steps, vs)
    BY <1>1 DEF nextApprovalLevel, ChainComplete
  <2>2. \A l \in DOMAIN steps : l # 0 /\ CompleteIn(steps, vs, l)
    BY <1>1 DEF Level
  <2> QED
    BY <2>1, <2>2
<1>2. CASE open # {}
  <2>1. Min(open) \in open /\ \A l \in open : Min(open) <= l
    BY <1>2, LowestLevel
  <2>2. nextApprovalLevel(steps, vs) = Min(open)
    BY <1>2 DEF nextApprovalLevel
  <2>3. open \subseteq Level /\ ~ ChainComplete(steps, vs)
    BY <1>2 DEF ChainComplete
  <2>4. Min(open) # 0
    BY <2>1, <2>3 DEF Level
  <2>5. ASSUME NEW l \in DOMAIN steps
        PROVE  l = Min(open) <=>
                 /\ ~ CompleteIn(steps, vs, l)
                 /\ \A p \in DOMAIN steps : p < l => CompleteIn(steps, vs, p)
    <3>1. ASSUME l = Min(open), NEW p \in DOMAIN steps, p < l
          PROVE  CompleteIn(steps, vs, p)
      <4>1. p \in Level /\ l \in Level
        OBVIOUS
      <4>2. p \notin open
        BY <2>1, <3>1, <4>1 DEF Level
      <4> QED
        BY <4>2
    <3>2. ASSUME l # Min(open), ~ CompleteIn(steps, vs, l)
          PROVE  Min(open) \in DOMAIN steps /\ Min(open) < l /\ ~ CompleteIn(steps, vs, Min(open))
      <4>1. l \in Level /\ Min(open) \in Level /\ l \in open
        BY <2>1, <2>3, <3>2
      <4>2. Min(open) <= l
        BY <2>1, <4>1
      <4> QED
        BY <2>1, <3>2, <4>1, <4>2 DEF Level
    <3> QED
      BY <2>1, <3>1, <3>2
  <2> QED
    BY <2>1, <2>2, <2>3, <2>4, <2>5
<1> QED
  BY <1>1, <1>2

\* An automatically approved request has no levels.
LEMMA EmptyChain == <<>> \in Chain /\ DOMAIN <<>> = {}
<1>1. <<>> \in [1 .. 0 -> Step]
  OBVIOUS
<1> QED
  BY <1>1 DEF Chain

LEMMA ChainLevels ==
    ASSUME NEW steps \in Chain
    PROVE  DOMAIN steps \subseteq Level /\ \A l \in DOMAIN steps : steps[l] \in Step
<1>1. PICK n \in 0 .. 10 : steps \in [1 .. n -> Step]
  BY DEF Chain
<1> QED
  BY <1>1 DEF Level

\* materializeApproval takes a snapshot of every step, without the applicant,
\* and with a threshold that nobody's silence meets.
LEMMA Materialized ==
    ASSUME RequestTypes, NEW u \in User, Materializable(u)
    PROVE  /\ materializeApproval(u) \in Chain
           /\ DOMAIN materializeApproval(u) # {}
           /\ \A l \in DOMAIN materializeApproval(u) :
                 /\ u \notin materializeApproval(u)[l].candidates
                 /\ materializeApproval(u)[l].required >= 1
<1>1. PICK n \in Level : workflow \in [1 .. n -> [mode : {"any", "all"}, selector : Selector]]
  BY WorkflowAssumption DEF RequestTypes
<1>2. ASSUME NEW l \in 1 .. n
      PROVE  /\ Candidates(workflow[l], u) \in SUBSET User
             /\ Candidates(workflow[l], u) # {}
             /\ u \notin Candidates(workflow[l], u)
             /\ Cardinality(Candidates(workflow[l], u)) \in Nat \ {0}
  <2>1. workflow[l].selector \in Selector
    BY <1>1
  <2>2. Candidates(workflow[l], u) \in SUBSET User /\ u \notin Candidates(workflow[l], u)
    BY <2>1 DEF Candidates, RequestTypes
  <2>3. Candidates(workflow[l], u) # {}
    BY <1>1 DEF Materializable
  <2>4. IsFiniteSet(Candidates(workflow[l], u))
    BY <2>2, UserAssumption, FS_Subset
  <2>5. Cardinality(Candidates(workflow[l], u)) \in Nat
    BY <2>4, FS_CardinalityType
  <2>6. Cardinality(Candidates(workflow[l], u)) # 0
    BY <2>3, <2>4, FS_EmptySet
  <2> QED
    BY <2>2, <2>3, <2>5, <2>6
<1>3. ASSUME NEW l \in 1 .. n
      PROVE  /\ materializeApproval(u)[l] \in Step
             /\ u \notin materializeApproval(u)[l].candidates
             /\ materializeApproval(u)[l].required >= 1
  <2>1. workflow[l].selector \in Selector /\ l \in DOMAIN workflow
    BY <1>1
  <2>2. materializeApproval(u)[l] =
           [selector |-> workflow[l].selector,
            candidates |-> Candidates(workflow[l], u),
            required |-> IF workflow[l].mode = "all"
                         THEN Cardinality(Candidates(workflow[l], u)) ELSE 1]
    BY <2>1 DEF materializeApproval
  <2> QED
    BY <1>2, <2>1, <2>2 DEF Step
<1>4. materializeApproval(u) \in [1 .. n -> Step]
  <2>1. materializeApproval(u) = [l \in 1 .. n |-> materializeApproval(u)[l]]
    BY <1>1 DEF materializeApproval
  <2> QED
    BY <1>3, <2>1
<1>5. n \in 0 .. 10 /\ 1 \in 1 .. n
  BY DEF Level
<1> QED
  BY <1>3, <1>4, <1>5, Zenon DEF Chain

-----------------------------------------------------------------------------
\* Types.

LEMMA RequestTypesInit == Init => RequestTypes
BY InputsAssumption DEF Init, RequestTypes, SessionStatus

\* What an action that changes only its own call leaves behind.
LEMMA CallStepTypes ==
    ASSUME RequestTypes, NEW c \in Call, NEW r \in {Idle} \cup Creating \cup Deciding,
           call' = [call EXCEPT ![c] = r],
           UNCHANGED <<request, votes, session, overdue, config>>
    PROVE  RequestTypes'
BY DEF RequestTypes, config

LEMMA CreatingCall ==
    ASSUME RequestTypes, NEW c \in Call,
           call[c].pc \in {"lookup", "check", "commit", "conflict", "answered"}
    PROVE  call[c] \in Creating
BY DEF RequestTypes, Idle, Deciding

LEMMA DecidingCall ==
    ASSUME RequestTypes, NEW c \in Call, call[c].pc = "decide"
    PROVE  call[c] \in Deciding
BY DEF RequestTypes, Idle, Creating

LEMMA StoredRow ==
    ASSUME RequestTypes, NEW k \in Key, Exists(k)
    PROVE  /\ request[k] \in Row
           /\ Levels(k) \subseteq Level
           /\ \A l \in Levels(k) : request[k].steps[l] \in Step
<1>1. request[k] \in Row
  BY DEF RequestTypes, Exists
<1> QED
  BY <1>1, ChainLevels DEF Row, Levels

\* Goto and Answer, seen as an assignment of one record.
LEMMA GotoCall ==
    ASSUME RequestTypes, NEW c \in Call, call[c] \in Creating,
           NEW label \in {"lookup", "check", "commit", "conflict", "answered"}, Goto(c, label)
    PROVE  \E r \in Creating :
              /\ call' = [call EXCEPT ![c] = r]
              /\ r = [call[c] EXCEPT !.pc = label]
<1>1. [call[c] EXCEPT !.pc = label] \in Creating
  BY DEF Creating
<1> QED
  BY <1>1, Zenon DEF Goto

LEMMA AnswerCall ==
    ASSUME RequestTypes, NEW c \in Call, call[c] \in Creating,
           NEW reply \in Key \cup {NoKey}, Answer(c, reply)
    PROVE  \E r \in Creating :
              /\ call' = [call EXCEPT ![c] = r]
              /\ r = [call[c] EXCEPT !.pc = "answered", !.reply = reply]
<1>1. [call[c] EXCEPT !.pc = "answered", !.reply = reply] \in Creating
  BY Zenon DEF Creating
<1> QED
  BY <1>1, Zenon DEF Answer

-----------------------------------------------------------------------------
\* What the steps have in common.

OwnAnswer(c) ==
    call[c].pc = "answered" /\ call[c].reply # NoKey =>
        LET k == call[c].reply IN
        /\ k = call[c].key /\ Exists(k)
        /\ request[k].applicant = call[c].user
        /\ request[k].target = call[c].target
        /\ request[k].mode = call[c].mode
        /\ call[c].ttl \in {0, request[k].ttl}

\* A stored request keeps what its client asked for.
RowsPersist ==
    \A k \in Key : Exists(k) =>
        /\ Exists(k)'
        /\ request'[k].applicant = request[k].applicant
        /\ request'[k].target = request[k].target
        /\ request'[k].mode = request[k].mode
        /\ request'[k].ttl = request[k].ttl

LEMMA AnswersKept ==
    ASSUME RequestTypes, AnswerIsOwnRequest, RowsPersist,
           \A c \in Call : call'[c] = call[c] \/ OwnAnswer(c)'
    PROVE  AnswerIsOwnRequest'
<1>1. ASSUME NEW c \in Call, call'[c] = call[c]
      PROVE  OwnAnswer(c)'
  <2>1. SUFFICES ASSUME call[c].pc = "answered", call[c].reply # NoKey
                 PROVE  OwnAnswer(c)'
    BY <1>1 DEF OwnAnswer
  <2>2. call[c] \in Creating
    BY <2>1, CreatingCall
  <2>3. /\ call[c].reply = call[c].key /\ Exists(call[c].key)
        /\ request[call[c].key].applicant = call[c].user
        /\ request[call[c].key].target = call[c].target
        /\ request[call[c].key].mode = call[c].mode
        /\ call[c].ttl \in {0, request[call[c].key].ttl}
    BY <2>1 DEF AnswerIsOwnRequest
  <2>4. call[c].key \in Key
    BY <2>2 DEF Creating
  <2> QED
    BY <1>1, <2>3, <2>4 DEF RowsPersist, OwnAnswer, Exists
<1> QED
  BY <1>1 DEF AnswerIsOwnRequest, OwnAnswer

\* A step that leaves the requests, votes and sessions alone.
LEMMA QuietStep ==
    ASSUME RequestInv, UNCHANGED <<request, votes, session>>, RequestTypes',
           \A c \in Call : call'[c] = call[c] \/ OwnAnswer(c)'
    PROVE  RequestInv'
<1>1. RowsPersist
  BY DEF RowsPersist, Exists
<1>2. AnswerIsOwnRequest'
  BY <1>1, AnswersKept DEF RequestInv
<1>3. OneActivePerTarget'
  BY DEF RequestInv, OneActivePerTarget
<1>4. \A k \in Key : RequestIsSound(request'[k], votes'[k], session'[k])
  BY DEF RequestInv
<1> QED
  BY <1>2, <1>3, <1>4 DEF RequestInv

\* A step that gives one call the record r.
LEMMA CallStep ==
    ASSUME RequestInv, NEW c \in Call, NEW r \in {Idle} \cup Creating \cup Deciding,
           call' = [call EXCEPT ![c] = r],
           UNCHANGED <<request, votes, session, overdue, config>>,
           OwnAnswer(c)'
    PROVE  RequestInv'
<1>1. RequestTypes'
  BY CallStepTypes, Zenon DEF RequestInv
<1>2. \A b \in Call : call'[b] = call[b] \/ OwnAnswer(b)'
  BY DEF RequestInv, RequestTypes
<1> QED
  BY <1>1, <1>2, QuietStep

LEMMA CallAt ==
    ASSUME RequestTypes, NEW c \in Call, NEW r, call' = [call EXCEPT ![c] = r]
    PROVE  call'[c] = r
BY DEF RequestTypes

\* SetStatus changes one column of one row.
LEMMA StatusStep ==
    ASSUME RequestTypes, NEW k \in Key, Exists(k), NEW to \in RequestStatus, SetStatus(k, to)
    PROVE  /\ request' \in [Key -> Row \cup {NoRequest}]
           /\ request'[k] = [request[k] EXCEPT !.status = to]
           /\ request'[k] \in Row
           /\ \A j \in Key \ {k} : request'[j] = request[j]
           /\ RowsPersist
<1>1. request[k] \in Row
  BY StoredRow
<1>2. [request[k] EXCEPT !.status = to] \in Row
  BY <1>1 DEF Row
<1>3. /\ request' = [request EXCEPT ![k] = [request[k] EXCEPT !.status = to]]
      /\ request \in [Key -> Row \cup {NoRequest}]
  BY DEF SetStatus, RequestTypes
<1>4. /\ request'[k] = [request[k] EXCEPT !.status = to]
      /\ \A j \in Key \ {k} : request'[j] = request[j]
      /\ request' \in [Key -> Row \cup {NoRequest}]
  BY <1>2, <1>3
<1>5. request'[k] # NoRequest
  BY <1>2, <1>4 DEF Row, NoRequest, RequestStatus
<1>6. RowsPersist
  BY <1>1, <1>4, <1>5 DEF RowsPersist, Exists, Row
<1> QED
  BY <1>2, <1>4, <1>6

\* A row whose status alone changes keeps its snapshot and its votes.
LEMMA StatusOnly ==
    ASSUME NEW r \in Row, NEW to \in RequestStatus, NEW vs, NEW s,
           RequestIsSound(r, vs, s)
    PROVE  LET q == [r EXCEPT !.status = to] IN
           /\ q # NoRequest
           /\ q.status = to /\ q.mode = r.mode /\ q.steps = r.steps /\ q.applicant = r.applicant
           /\ q.target = r.target
           /\ SnapshotIsSound(q) /\ VotesAreSound(q, vs)
           /\ StatusIsSound(r, vs, s)
<1> DEFINE q == [r EXCEPT !.status = to]
<1>1. /\ q.status = to /\ q.mode = r.mode /\ q.steps = r.steps /\ q.applicant = r.applicant
      /\ q.target = r.target
  BY DEF Row
<1>2. q # NoRequest /\ r # NoRequest
  BY <1>1 DEF Row, NoRequest, RequestStatus
<1> QED
  BY <1>1, <1>2 DEF RequestIsSound, SnapshotIsSound, VotesAreSound

\* A step that changes the row, the votes or the session of one key.
LEMMA OneKeyStep ==
    ASSUME RequestInv, RequestTypes', RowsPersist, NEW k \in Key,
           \A j \in Key \ {k} :
              request'[j] = request[j] /\ votes'[j] = votes[j] /\ session'[j] = session[j],
           RequestIsSound(request'[k], votes'[k], session'[k]),
           \/ session'[k] \notin ActiveSession
           \/ session[k] \in ActiveSession
           \/ ~ HasActive(request'[k].applicant, request'[k].target),
           \A c \in Call : call'[c] = call[c] \/ OwnAnswer(c)'
    PROVE  RequestInv'
<1>1. AnswerIsOwnRequest'
  BY AnswersKept DEF RequestInv
<1>2. \A j \in Key : RequestIsSound(request'[j], votes'[j], session'[j])
  BY DEF RequestInv
<1>3. ASSUME NEW j \in Key \ {k}, session'[j] \in ActiveSession, session'[k] \in ActiveSession
      PROVE  ~ (/\ request'[j].applicant = request'[k].applicant
                /\ request'[j].target = request'[k].target)
  <2>1. CASE session[k] \in ActiveSession
    <3>1. session[k] # "none"
      BY <2>1 DEF ActiveSession
    <3>2. Exists(k)
      BY <3>1 DEF RequestInv, RequestIsSound, Exists
    <3> QED
      BY <1>3, <2>1, <3>2 DEF RowsPersist, RequestInv, OneActivePerTarget
  <2>2. CASE ~ HasActive(request'[k].applicant, request'[k].target)
    BY <1>3, <2>2 DEF HasActive
  <2> QED
    BY <1>3, <2>1, <2>2
<1>4. ASSUME NEW i \in Key \ {k}, NEW j \in Key \ {k},
             session'[i] \in ActiveSession, session'[j] \in ActiveSession,
             request'[i].applicant = request'[j].applicant,
             request'[i].target = request'[j].target
      PROVE  i = j
  BY <1>4 DEF RequestInv, OneActivePerTarget
<1>5. OneActivePerTarget'
  BY <1>3, <1>4 DEF OneActivePerTarget
<1> QED
  BY <1>1, <1>2, <1>5 DEF RequestInv

-----------------------------------------------------------------------------
\* One lemma per action.

LEMMA CreateStep ==
    ASSUME RequestInv, NEW c \in Call, NEW i \in inputs, CreateAccessRequest(c, i)
    PROVE  RequestInv'
<1>1. i \in Submission
  BY DEF RequestInv, RequestTypes
<1>2. \E ttl \in Nat, mode \in Mode : call' = [call EXCEPT ![c] = CreateCall(i, ttl, mode)]
  BY <1>1, BoundAssumption DEF CreateAccessRequest, Submission, Mode
<1>3. PICK ttl \in Nat, mode \in Mode : call' = [call EXCEPT ![c] = CreateCall(i, ttl, mode)]
  BY <1>2, Zenon
<1>4. CreateCall(i, ttl, mode) \in Creating
  BY <1>1 DEF CreateCall, Creating, Submission
<1>5. CreateCall(i, ttl, mode).pc = "lookup"
  BY DEF CreateCall
<1>6. OwnAnswer(c)'
  BY <1>3, <1>5, CallAt, Zenon DEF OwnAnswer, RequestInv
<1> QED
  BY <1>3, <1>4, <1>6, CallStep, Zenon DEF CreateAccessRequest

LEMMA ReceiveStep ==
    ASSUME RequestInv, NEW c \in Call, Receive(c)
    PROVE  RequestInv'
<1>1. call'[c] = Idle
  BY CallAt, Zenon DEF Receive, RequestInv
<1>2. OwnAnswer(c)'
  BY <1>1 DEF Idle, OwnAnswer
<1> QED
  BY <1>2, CallStep, Zenon DEF Receive

LEMMA DecideStep ==
    ASSUME RequestInv, NEW c \in Call, NEW k \in Key, NEW l \in Level, NEW u \in User,
           NEW d \in Decision, DecideApproval(c, k, l, u, d)
    PROVE  RequestInv'
<1> DEFINE r == [pc |-> "decide", key |-> k, level |-> l, user |-> u, decision |-> d]
<1>1. r \in Deciding /\ r.pc = "decide"
  BY DEF Deciding
<1>2. call' = [call EXCEPT ![c] = r]
  BY DEF DecideApproval
<1>3. OwnAnswer(c)'
  BY <1>1, <1>2, CallAt, Zenon DEF OwnAnswer, RequestInv
<1> QED
  BY <1>1, <1>2, <1>3, CallStep, Zenon DEF DecideApproval

LEMMA AbandonStep ==
    ASSUME RequestInv, NEW c \in Call, AbandonDecision(c)
    PROVE  RequestInv'
<1>1. OwnAnswer(c)'
  BY CallAt DEF AbandonDecision, Idle, OwnAnswer, RequestInv
<1> QED
  BY <1>1, CallStep, Zenon DEF AbandonDecision

\* A call that moves on, or is refused, answers nothing of its own.
LEMMA GotoStep ==
    ASSUME RequestInv, NEW c \in Call, call[c] \in Creating,
           NEW label \in {"check", "commit", "conflict"}, Goto(c, label),
           UNCHANGED <<request, votes, session, overdue, config>>
    PROVE  RequestInv'
<1>1. PICK r \in Creating : call' = [call EXCEPT ![c] = r] /\ r = [call[c] EXCEPT !.pc = label]
  BY GotoCall DEF RequestInv
<1>2. r.pc = label
  BY <1>1 DEF Creating
<1>3. OwnAnswer(c)'
  BY <1>1, <1>2, CallAt, Zenon DEF OwnAnswer, RequestInv
<1> QED
  BY <1>1, <1>3, CallStep, Zenon

LEMMA RefuseStep ==
    ASSUME RequestInv, NEW c \in Call, call[c] \in Creating, Answer(c, NoKey),
           UNCHANGED <<request, votes, session, overdue, config>>
    PROVE  RequestInv'
<1>1. PICK r \in Creating : /\ call' = [call EXCEPT ![c] = r]
                            /\ r = [call[c] EXCEPT !.pc = "answered", !.reply = NoKey]
  BY AnswerCall, Zenon DEF RequestInv
<1>2. r.reply = NoKey
  BY <1>1 DEF Creating
<1>3. OwnAnswer(c)'
  BY <1>1, <1>2, CallAt, Zenon DEF OwnAnswer, RequestInv
<1> QED
  BY <1>1, <1>3, CallStep, Zenon

\* SameRequest compares everything that the answer promises.
LEMMA StoredStep ==
    ASSUME RequestInv, NEW c \in Call, call[c] \in Creating, Exists(call[c].key),
           AnswerStored(c), UNCHANGED <<request, votes, session, overdue, config>>
    PROVE  RequestInv'
<1>1. CASE ~ SameRequest(call[c].key, c)
  BY <1>1, RefuseStep DEF AnswerStored
<1>2. CASE SameRequest(call[c].key, c)
  <2>1. call[c].key \in Key /\ Answer(c, call[c].key)
    BY <1>2 DEF AnswerStored, Creating
  <2>2. PICK r \in Creating : /\ call' = [call EXCEPT ![c] = r]
                              /\ r = [call[c] EXCEPT !.pc = "answered", !.reply = call[c].key]
    BY <2>1, AnswerCall, Zenon DEF RequestInv
  <2>3. /\ r.reply = call[c].key /\ r.key = call[c].key /\ r.user = call[c].user
        /\ r.target = call[c].target /\ r.mode = call[c].mode /\ r.ttl = call[c].ttl
    BY <2>2 DEF Creating
  <2>4. call'[c] = r
    BY <2>2, CallAt, Zenon DEF RequestInv
  <2>5. OwnAnswer(c)'
    BY <1>2, <2>3, <2>4 DEF OwnAnswer, SameRequest, sameRequestPayload, Exists
  <2> QED
    BY <2>2, <2>5, CallStep, Zenon
<1> QED
  BY <1>1, <1>2

LEMMA LookupStep ==
    ASSUME RequestInv, NEW c \in Call, LookupKey(c)
    PROVE  RequestInv'
<1>1. call[c] \in Creating
  BY CreatingCall DEF LookupKey, RequestInv
<1> QED
  BY <1>1, StoredStep, GotoStep DEF LookupKey

LEMMA CheckStep ==
    ASSUME RequestInv, NEW c \in Call, CheckRequest(c)
    PROVE  RequestInv'
<1>1. call[c] \in Creating
  BY CreatingCall DEF CheckRequest, RequestInv
<1> QED
  BY <1>1, RefuseStep, GotoStep DEF CheckRequest

LEMMA ConflictStep ==
    ASSUME RequestInv, NEW c \in Call, ConflictLookup(c)
    PROVE  RequestInv'
<1>1. call[c] \in Creating
  BY CreatingCall DEF ConflictLookup, RequestInv
<1> QED
  BY <1>1, StoredStep, RefuseStep DEF ConflictLookup

\* The inserted row: a pending chain that nobody has voted on, or a request
\* approved without one.
LEMMA InsertedRow ==
    ASSUME RequestTypes, NEW c \in Call, call[c] \in Creating, MayCommit(c), InsertRequest(c)
    PROVE  LET k == call[c].key r == request'[call[c].key] IN
           /\ request' \in [Key -> Row \cup {NoRequest}]
           /\ r \in Row
           /\ \A j \in Key \ {k} : request'[j] = request[j]
           /\ r.applicant = call[c].user /\ r.target = call[c].target
           /\ r.mode = call[c].mode /\ r.ttl = Granted(call[c].ttl)
           /\ RequestIsSound(r, {}, IF AutoApproved(c) THEN "live" ELSE "none")
<1> DEFINE k == call[c].key
           steps == IF AutoApproved(c) THEN <<>> ELSE materializeApproval(call[c].user)
           r == [status |-> IF AutoApproved(c) THEN "approved" ELSE "pending_approval",
                 applicant |-> call[c].user, target |-> call[c].target,
                 ttl |-> Granted(call[c].ttl), mode |-> call[c].mode, steps |-> steps]
<1>1. /\ k \in Key /\ call[c].user \in User /\ call[c].target \in Target
      /\ call[c].ttl \in Nat /\ call[c].mode \in Mode
  BY DEF Creating
<1>2. steps \in Chain
  <2>1. CASE AutoApproved(c)
    BY <2>1, EmptyChain
  <2>2. CASE ~ AutoApproved(c)
    BY <1>1, <2>2, Materialized DEF MayCommit
  <2> QED
    BY <2>1, <2>2
<1>3. r \in Row
  BY <1>1, <1>2 DEF Row, RequestStatus, Granted
<1>4. /\ request' \in [Key -> Row \cup {NoRequest}] /\ request'[k] = r
      /\ \A j \in Key \ {k} : request'[j] = request[j]
  BY <1>1, <1>3 DEF InsertRequest, RequestTypes
<1>5. r # NoRequest
  BY DEF NoRequest
<1>6. SnapshotIsSound(r) /\ VotesAreSound(r, {})
  <2>1. \A l \in DOMAIN steps : /\ call[c].user \notin steps[l].candidates
                                /\ steps[l].required >= 1
    <3>1. CASE AutoApproved(c)
      BY <3>1, EmptyChain
    <3>2. CASE ~ AutoApproved(c)
      BY <1>1, <3>2, Materialized DEF MayCommit
    <3> QED
      BY <3>1, <3>2
  <2> QED
    BY <2>1 DEF SnapshotIsSound, VotesAreSound
<1>7. StatusIsSound(r, {}, IF AutoApproved(c) THEN "live" ELSE "none")
  <2>1. NoRejection({})
    BY DEF NoRejection
  <2>2. CASE AutoApproved(c)
    <3>1. r.mode # "required" /\ r.status = "approved"
      BY <2>2 DEF AutoApproved
    <3> QED
      BY <2>1, <2>2, <3>1 DEF StatusIsSound
  <2>3. CASE ~ AutoApproved(c)
    <3>1. r.mode = "required" /\ r.status = "pending_approval" /\ r.steps = steps
      BY <1>1, <2>3 DEF AutoApproved, Mode
    <3>2. PICK l \in DOMAIN steps : steps[l].required >= 1
      BY <1>1, <2>3, Materialized DEF MayCommit
    <3>3. Cardinality(ApproversIn({}, l)) = 0
      <4>1. ApproversIn({}, l) = {}
        BY DEF ApproversIn
      <4> QED
        BY <4>1, FS_EmptySet
    <3>4. steps[l] \in Step
      BY <1>2, ChainLevels
    <3>5. ~ CompleteIn(steps, {}, l)
      BY <3>2, <3>3, <3>4 DEF CompleteIn, Step
    <3>6. ~ ChainComplete(steps, {})
      BY <3>5 DEF ChainComplete
    <3> QED
      BY <2>1, <2>3, <3>1, <3>6 DEF StatusIsSound
  <2> QED
    BY <2>2, <2>3
<1>8. RequestIsSound(r, {}, IF AutoApproved(c) THEN "live" ELSE "none")
  BY <1>5, <1>6, <1>7 DEF RequestIsSound
<1> QED
  BY <1>3, <1>4, <1>8

LEMMA CommitStep ==
    ASSUME RequestInv, NEW c \in Call, CommitRequest(c)
    PROVE  RequestInv'
<1>1. call[c] \in Creating
  BY CreatingCall DEF CommitRequest, RequestInv
<1>2. CASE Conflicts(c) /\ Goto(c, "conflict") /\ UNCHANGED <<request, session>>
  BY <1>1, <1>2, GotoStep DEF CommitRequest
<1>3. CASE Answer(c, NoKey) /\ UNCHANGED <<request, session>>
  BY <1>1, <1>3, RefuseStep DEF CommitRequest
<1>4. CASE /\ ~ Conflicts(c) /\ MayCommit(c) /\ InsertRequest(c)
           /\ session' = [session EXCEPT ![call[c].key] = IF AutoApproved(c) THEN "live" ELSE "none"]
           /\ Answer(c, call[c].key)
  <2> DEFINE to == IF AutoApproved(c) THEN "live" ELSE "none"
  <2>1. PICK k \in Key : k = call[c].key
    BY <1>1 DEF Creating
  <2>2. ~ Exists(k) /\ votes[k] = {} /\ session[k] = "none"
    BY <1>4, <2>1 DEF Conflicts, RequestInv, RequestIsSound, Exists
  <2>3. PICK r \in Row :
           /\ r = request'[k]
           /\ request' \in [Key -> Row \cup {NoRequest}]
           /\ \A j \in Key \ {k} : request'[j] = request[j]
           /\ r.applicant = call[c].user /\ r.target = call[c].target
           /\ r.mode = call[c].mode /\ r.ttl = Granted(call[c].ttl)
           /\ RequestIsSound(r, {}, to)
    BY <1>1, <1>4, <2>1, InsertedRow DEF RequestInv
  <2>4. r # NoRequest
    BY DEF Row, NoRequest, RequestStatus
  <2>5. RowsPersist
    BY <2>2, <2>3, <2>4 DEF RowsPersist, Exists
  <2>6. PICK a \in Creating : /\ call' = [call EXCEPT ![c] = a]
                              /\ a = [call[c] EXCEPT !.pc = "answered", !.reply = k]
    BY <1>1, <1>4, <2>1, AnswerCall, Zenon DEF RequestInv
  <2>7. /\ a.reply = k /\ a.key = k /\ a.user = call[c].user
        /\ a.target = call[c].target /\ a.mode = call[c].mode /\ a.ttl = call[c].ttl
    BY <1>1, <2>1, <2>6 DEF Creating
  <2>8. call'[c] = a /\ \A b \in Call \ {c} : call'[b] = call[b]
    BY <2>6 DEF RequestInv, RequestTypes
  <2>9. OwnAnswer(c)'
    BY <2>1, <2>3, <2>4, <2>7, <2>8 DEF OwnAnswer, Exists, Granted
  <2>10. /\ session' \in [Key -> SessionStatus] /\ session'[k] = to
         /\ \A j \in Key \ {k} : session'[j] = session[j]
    BY <1>4, <2>1 DEF RequestInv, RequestTypes, SessionStatus, ActiveSession
  <2>11. RequestTypes'
    BY <2>3, <2>6, <2>10 DEF CommitRequest, RequestInv, RequestTypes, config
  <2>12. RequestIsSound(request'[k], votes'[k], session'[k])
    BY <2>2, <2>3, <2>10 DEF CommitRequest
  <2>13. session'[k] \notin ActiveSession \/ ~ HasActive(request'[k].applicant, request'[k].target)
    BY <1>4, <2>3, <2>10 DEF Conflicts, ActiveSession
  <2>14. \A j \in Key \ {k} :
            request'[j] = request[j] /\ votes'[j] = votes[j] /\ session'[j] = session[j]
    BY <2>3, <2>10 DEF CommitRequest
  <2>15. \A b \in Call : call'[b] = call[b] \/ OwnAnswer(b)'
    BY <2>8, <2>9
  <2> QED
    BY <2>5, <2>11, <2>12, <2>13, <2>14, <2>15, OneKeyStep
<1> QED
  BY <1>2, <1>3, <1>4 DEF CommitRequest

\* The vote of a decidable request, at each of its three outcomes.
LEMMA DecideLockedStep ==
    ASSUME RequestInv, NEW k \in Key, NEW l \in Level, NEW u \in User, NEW d \in Decision,
           DecideLocked(k, l, u, d), call' \in [Call -> {Idle} \cup Creating \cup Deciding],
           UNCHANGED <<overdue, config>>,
           \A c \in Call : call'[c] = call[c] \/ OwnAnswer(c)'
    PROVE  RequestInv'
<1> DEFINE vs == votes[k] \cup {<<l, u, d>>}
           steps == request[k].steps
<1>1. /\ Exists(k) /\ request[k].status = "pending_approval"
      /\ u \in steps[l].candidates /\ l = CurrentLevel(k)
  BY DEF DecideLocked, Decidable
<1>2. /\ request[k] \in Row /\ Levels(k) \subseteq Level
      /\ \A m \in Levels(k) : steps[m] \in Step
  BY <1>1, StoredRow DEF RequestInv
<1>3. l \in DOMAIN steps
  <2>1. l # 0
    BY DEF Level
  <2> QED
    BY <1>1, <1>2, <2>1, NextApprovalLevel DEF CurrentLevel, Levels
<1>4. /\ votes' \in [Key -> SUBSET (Level \X User \X Decision)] /\ votes'[k] = vs
      /\ \A j \in Key \ {k} : votes'[j] = votes[j]
  <2>1. votes' = [votes EXCEPT ![k] = vs]
    BY DEF DecideLocked
  <2>2. votes \in [Key -> SUBSET (Level \X User \X Decision)]
    BY DEF RequestInv, RequestTypes
  <2> QED
    BY <2>1, <2>2
<1>5. RequestIsSound(request[k], votes[k], session[k])
  BY DEF RequestInv
<1>6. /\ SnapshotIsSound(request[k]) /\ VotesAreSound(request[k], votes[k])
      /\ StatusIsSound(request[k], votes[k], session[k])
  BY <1>1, <1>5 DEF RequestIsSound, Exists
<1>7. VotesAreSound(request[k], vs)
  BY <1>1, <1>3, <1>6 DEF VotesAreSound
<1>8. /\ request[k].mode = "required" /\ session[k] = "none" /\ NoRejection(votes[k])
      /\ ~ ChainComplete(steps, votes[k])
  BY <1>1, <1>6 DEF StatusIsSound
<1>9. "rejected" \in RequestStatus /\ "approved" \in RequestStatus
  BY DEF RequestStatus
<1>10. CASE d = "rejected" /\ SetStatus(k, "rejected") /\ UNCHANGED session
  <2>1. /\ request' \in [Key -> Row \cup {NoRequest}]
        /\ request'[k] = [request[k] EXCEPT !.status = "rejected"]
        /\ \A j \in Key \ {k} : request'[j] = request[j]
        /\ RowsPersist
    BY <1>1, <1>10, StatusStep, Zenon DEF RequestInv, RequestStatus
  <2>2. /\ request'[k] # NoRequest /\ request'[k].status = "rejected"
        /\ request'[k].mode = "required" /\ request'[k].steps = steps
        /\ SnapshotIsSound(request'[k])
    BY <1>2, <1>5, <1>8, <1>9, <2>1, StatusOnly
  <2>3. VotesAreSound(request'[k], vs)
    BY <1>7, <2>2 DEF VotesAreSound
  <2>4. \A m \in DOMAIN steps : ApproversIn(vs, m) = ApproversIn(votes[k], m)
    BY <1>10 DEF ApproversIn
  <2>5. ~ ChainComplete(steps, vs)
    BY <1>8, <2>4, Zenon DEF ChainComplete, CompleteIn
  <2>6. StatusIsSound(request'[k], vs, "none")
    BY <2>2, <2>5 DEF StatusIsSound
  <2>7. RequestIsSound(request'[k], votes'[k], session'[k])
    BY <1>4, <1>8, <1>10, <2>2, <2>3, <2>6 DEF RequestIsSound
  <2>8. RequestTypes'
    BY <1>4, <1>10, <2>1 DEF RequestInv, RequestTypes, config
  <2>9. session'[k] \notin ActiveSession
    BY <1>8, <1>10 DEF ActiveSession
  <2> QED
    BY <1>4, <1>10, <2>1, <2>7, <2>8, <2>9, OneKeyStep, Zenon
<1>11. CASE d = "approved" /\ LastVote(k, l, u) /\ FinalApproval(k)
  <2>1. /\ request' \in [Key -> Row \cup {NoRequest}]
        /\ request'[k] = [request[k] EXCEPT !.status = "approved"]
        /\ \A j \in Key \ {k} : request'[j] = request[j]
        /\ RowsPersist
    BY <1>1, <1>11, StatusStep, Zenon DEF FinalApproval, RequestInv, RequestStatus
  <2>2. /\ request'[k] # NoRequest /\ request'[k].status = "approved"
        /\ request'[k].mode = "required" /\ request'[k].steps = steps
        /\ request'[k].applicant = request[k].applicant
        /\ request'[k].target = request[k].target
        /\ SnapshotIsSound(request'[k])
    BY <1>2, <1>5, <1>8, <1>9, <2>1, StatusOnly
  <2>3. VotesAreSound(request'[k], vs)
    BY <1>7, <2>2 DEF VotesAreSound
  <2>4. NoRejection(vs)
    BY <1>8, <1>11, Zenon DEF NoRejection
  <2>5. ChainComplete(steps, vs)
    BY <1>2, <1>11, NextApprovalLevel DEF LastVote, Levels
  <2>6. StatusIsSound(request'[k], vs, "live")
    BY <2>2, <2>4, <2>5 DEF StatusIsSound
  <2>7. /\ session' \in [Key -> SessionStatus] /\ session'[k] = "live"
        /\ \A j \in Key \ {k} : session'[j] = session[j]
    BY <1>11 DEF FinalApproval, RequestInv, RequestTypes, SessionStatus, ActiveSession
  <2>8. RequestIsSound(request'[k], votes'[k], session'[k])
    BY <1>4, <2>2, <2>3, <2>6, <2>7 DEF RequestIsSound
  <2>9. RequestTypes'
    BY <1>4, <2>1, <2>7 DEF RequestInv, RequestTypes, config
  <2>10. ~ HasActive(request'[k].applicant, request'[k].target)
    BY <1>11, <2>2 DEF FinalApproval
  <2> QED
    BY <1>4, <2>1, <2>7, <2>8, <2>9, <2>10, OneKeyStep, Zenon
<1>12. CASE d = "approved" /\ ~ LastVote(k, l, u) /\ UNCHANGED <<request, session>>
  <2>1. NoRejection(vs)
    BY <1>8, <1>12, Zenon DEF NoRejection
  <2>2. ~ ChainComplete(steps, vs)
    BY <1>2, <1>12, NextApprovalLevel DEF LastVote, Levels
  <2>3. StatusIsSound(request[k], vs, "none")
    BY <1>8, <2>1, <2>2 DEF StatusIsSound
  <2>4. RequestIsSound(request'[k], votes'[k], session'[k])
    BY <1>1, <1>4, <1>6, <1>7, <1>8, <1>12, <2>3 DEF RequestIsSound, Exists
  <2>5. RequestTypes'
    BY <1>4, <1>12 DEF RequestInv, RequestTypes, config
  <2>6. RowsPersist
    BY <1>12 DEF RowsPersist, Exists
  <2>7. session'[k] \notin ActiveSession
    BY <1>8, <1>12 DEF ActiveSession
  <2> QED
    BY <1>4, <1>12, <2>4, <2>5, <2>6, <2>7, OneKeyStep, Zenon
<1> QED
  BY <1>10, <1>11, <1>12 DEF DecideLocked

LEMMA CommitDecisionStep ==
    ASSUME RequestInv, NEW c \in Call, CommitDecision(c)
    PROVE  RequestInv'
<1>1. call[c] \in Deciding
  BY DecidingCall DEF CommitDecision, RequestInv
<1>2. PICK k \in Key, l \in Level, u \in User, d \in Decision : DecideLocked(k, l, u, d)
  BY <1>1 DEF CommitDecision, Deciding
<1>3. call' \in [Call -> {Idle} \cup Creating \cup Deciding]
  BY DEF CommitDecision, RequestInv, RequestTypes
<1>4. \A b \in Call : call'[b] = call[b] \/ call'[b] = Idle
  BY DEF CommitDecision, RequestInv, RequestTypes
<1>5. \A b \in Call : call'[b] = call[b] \/ OwnAnswer(b)'
  BY <1>4 DEF OwnAnswer, Idle
<1> QED
  BY <1>2, <1>3, <1>5, DecideLockedStep DEF CommitDecision

LEMMA CancelStep ==
    ASSUME RequestInv, NEW k \in Key, CancelAccessRequest(k)
    PROVE  RequestInv'
<1> DEFINE to == IF request[k].status \in Ended THEN request[k].status ELSE "cancelled"
<1>1. Exists(k) /\ request[k] \in Row /\ to \in RequestStatus /\ to # "pending_approval"
  BY StoredRow DEF CancelAccessRequest, RequestInv, Ended, RequestStatus
<1>2. /\ request' \in [Key -> Row \cup {NoRequest}]
      /\ request'[k] = [request[k] EXCEPT !.status = to]
      /\ \A j \in Key \ {k} : request'[j] = request[j]
      /\ RowsPersist
  BY <1>1, StatusStep DEF CancelAccessRequest, RequestInv
<1>3. RequestIsSound(request[k], votes[k], session[k])
  BY DEF RequestInv
<1>4. /\ request'[k] # NoRequest /\ request'[k].status = to
      /\ request'[k].mode = request[k].mode /\ request'[k].steps = request[k].steps
      /\ SnapshotIsSound(request'[k]) /\ VotesAreSound(request'[k], votes[k])
      /\ StatusIsSound(request[k], votes[k], session[k])
  BY <1>1, <1>2, <1>3, StatusOnly
<1>5. /\ session' \in [Key -> SessionStatus]
      /\ session'[k] # "none" <=> session[k] # "none"
      /\ session'[k] \in ActiveSession => session[k] \in ActiveSession
      /\ \A j \in Key \ {k} : session'[j] = session[j]
  BY DEF CancelAccessRequest, RequestInv, RequestTypes, SessionStatus, ActiveSession
<1>6. StatusIsSound(request'[k], votes[k], session'[k])
  BY <1>1, <1>4, <1>5 DEF StatusIsSound
<1>7. RequestIsSound(request'[k], votes'[k], session'[k])
  BY <1>4, <1>6 DEF RequestIsSound, CancelAccessRequest
<1>8. RequestTypes'
  BY <1>2, <1>5 DEF CancelAccessRequest, RequestInv, RequestTypes, config
<1> QED
  BY <1>2, <1>5, <1>7, <1>8, OneKeyStep DEF CancelAccessRequest

LEMMA ReapStep ==
    ASSUME RequestInv, NEW k \in Key, ReapApprovalExpired(k)
    PROVE  RequestInv'
<1>1. Exists(k) /\ request[k] \in Row
  BY StoredRow DEF ReapApprovalExpired, RequestInv
<1>2. /\ request' \in [Key -> Row \cup {NoRequest}]
      /\ request'[k] = [request[k] EXCEPT !.status = "approval_expired"]
      /\ \A j \in Key \ {k} : request'[j] = request[j]
      /\ RowsPersist
  BY <1>1, StatusStep, Zenon DEF ReapApprovalExpired, RequestInv, RequestStatus
<1>3. RequestIsSound(request[k], votes[k], session[k])
  BY DEF RequestInv
<1>4. "approval_expired" \in RequestStatus
  BY DEF RequestStatus
<1>5. /\ request'[k] # NoRequest /\ request'[k].status = "approval_expired"
      /\ request'[k].mode = request[k].mode /\ request'[k].steps = request[k].steps
      /\ SnapshotIsSound(request'[k]) /\ VotesAreSound(request'[k], votes[k])
      /\ StatusIsSound(request[k], votes[k], session[k])
  BY <1>1, <1>2, <1>3, <1>4, StatusOnly
<1>6. StatusIsSound(request'[k], votes[k], session[k])
  BY <1>5 DEF StatusIsSound
<1>7. RequestIsSound(request'[k], votes'[k], session'[k])
  BY <1>5, <1>6 DEF RequestIsSound, ReapApprovalExpired
<1>8. RequestTypes'
  BY <1>2 DEF ReapApprovalExpired, RequestInv, RequestTypes, config
<1>9. session'[k] \notin ActiveSession \/ session[k] \in ActiveSession
  BY DEF ReapApprovalExpired
<1> QED
  BY <1>2, <1>7, <1>8, <1>9, OneKeyStep DEF ReapApprovalExpired

LEMMA SessionEndsStep ==
    ASSUME RequestInv, NEW k \in Key, SessionEnds(k)
    PROVE  RequestInv'
<1>1. /\ session' \in [Key -> SessionStatus] /\ session'[k] = "resolved"
      /\ session[k] # "none"
      /\ \A j \in Key \ {k} : session'[j] = session[j]
  BY DEF SessionEnds, RequestInv, RequestTypes, SessionStatus, ActiveSession
<1>2. RequestIsSound(request[k], votes[k], session[k])
  BY DEF RequestInv
<1>3. RequestIsSound(request'[k], votes'[k], session'[k])
  BY <1>1, <1>2 DEF RequestIsSound, StatusIsSound, SessionEnds
<1>4. RequestTypes'
  BY <1>1 DEF SessionEnds, RequestInv, RequestTypes, config
<1>5. RowsPersist
  BY DEF SessionEnds, RowsPersist, Exists
<1>6. session'[k] \notin ActiveSession
  BY <1>1 DEF ActiveSession
<1> QED
  BY <1>1, <1>3, <1>4, <1>5, <1>6, OneKeyStep DEF SessionEnds

LEMMA DeadlineStep ==
    ASSUME RequestInv, NEW k \in Key, DeadlinePasses(k)
    PROVE  RequestInv'
<1>1. RequestTypes'
  BY DEF DeadlinePasses, RequestInv, RequestTypes, config
<1> QED
  BY <1>1, QuietStep DEF DeadlinePasses

LEMMA EditStep ==
    ASSUME RequestInv, EditConfiguration
    PROVE  RequestInv'
<1>1. workflow' \in Workflows /\ matching' \in [Selector -> SUBSET User]
  <2>1. CASE workflow' \in Workflows \ {workflow} /\ UNCHANGED <<matching, enabled>>
    BY <2>1 DEF RequestInv, RequestTypes
  <2>2. ASSUME NEW x \in Selector, NEW u \in User,
               matching' = [matching EXCEPT ![x] = SymDiff(@, {u})], UNCHANGED workflow
        PROVE  workflow' \in Workflows /\ matching' \in [Selector -> SUBSET User]
    <3>1. SymDiff(matching[x], {u}) \in SUBSET User
      BY DEF SymDiff, RequestInv, RequestTypes
    <3> QED
      BY <2>2, <3>1, Zenon DEF RequestInv, RequestTypes
  <2>3. CASE UNCHANGED <<workflow, matching>>
    BY <2>3 DEF RequestInv, RequestTypes
  <2> QED
    BY <2>1, <2>2, <2>3, Zenon DEF EditConfiguration
<1>2. RequestTypes'
  BY <1>1 DEF EditConfiguration, RequestInv, RequestTypes
<1> QED
  BY <1>2, QuietStep DEF EditConfiguration

LEMMA RequestInvInit == Init => RequestInv
<1> SUFFICES ASSUME Init PROVE RequestInv
  OBVIOUS
<1>1. RequestTypes
  BY RequestTypesInit
<1>2. \A k \in Key : RequestIsSound(request[k], votes[k], session[k])
  BY DEF Init, RequestIsSound
<1>3. OneActivePerTarget
  BY DEF Init, OneActivePerTarget, ActiveSession
<1>4. AnswerIsOwnRequest
  BY DEF Init, AnswerIsOwnRequest, Idle
<1> QED
  BY <1>1, <1>2, <1>3, <1>4 DEF RequestInv

LEMMA RequestInvNext == RequestInv /\ [Next]_vars => RequestInv'
<1> SUFFICES ASSUME RequestInv, [Next]_vars
             PROVE  RequestInv'
  OBVIOUS
<1>1. CASE UNCHANGED vars
  <2>1. RequestTypes'
    BY <1>1 DEF vars, RequestInv, RequestTypes
  <2> QED
    BY <1>1, <2>1, QuietStep DEF vars
<1>2. CASE Next
  BY <1>2, CreateStep, DecideStep, LookupStep, CheckStep, CommitStep, ConflictStep,
     ReceiveStep, CommitDecisionStep, AbandonStep, CancelStep, ReapStep, SessionEndsStep,
     DeadlineStep, EditStep DEF Next
<1> QED
  BY <1>1, <1>2

LEMMA RequestInvariance == Spec => []RequestInv
BY RequestInvInit, RequestInvNext, PTL DEF Spec

-----------------------------------------------------------------------------
\* What the console shows follows from the invariant.

\* The work list's SQL and DecideApproval agree on the current level.
LEMMA WorkListAgrees ==
    ASSUME RequestInv, NEW u \in User, NEW k \in Key, NEW l \in Level
    PROVE  <<k, l>> \in ListPendingByApprover(u) <=>
              /\ Exists(k) /\ l \in Levels(k)
              /\ ~ overdue[k] /\ Decidable(k, l, u)
<1>1. <<k, l>> \in ListPendingByApprover(u) <=>
        /\ Exists(k) /\ request[k].status = "pending_approval" /\ ~ overdue[k]
        /\ l \in Levels(k) /\ u \in request[k].steps[l].candidates \ Voted(k, l)
        /\ ~ LevelComplete(k, l)
        /\ ~ \E p \in Levels(k) : p < l /\ ~ LevelComplete(k, p)
  BY DEF ListPendingByApprover
<1>2. SUFFICES ASSUME Exists(k), l \in Levels(k)
               PROVE  <<k, l>> \in ListPendingByApprover(u) <=>
                        ~ overdue[k] /\ Decidable(k, l, u)
  BY <1>1
<1>3. l = CurrentLevel(k) <=>
        /\ ~ LevelComplete(k, l)
        /\ \A p \in Levels(k) : p < l => LevelComplete(k, p)
  BY <1>2, StoredRow, NextApprovalLevel DEF RequestInv, Levels, CurrentLevel, LevelComplete
<1>4. u \in request[k].steps[l].candidates => request[k].applicant # u
  BY <1>2 DEF RequestInv, RequestIsSound, SnapshotIsSound, Exists, Levels
<1> QED
  BY <1>1, <1>2, <1>3, <1>4 DEF Decidable

LEMMA StagesAgree ==
    ASSUME RequestInv, NEW k \in Key, Exists(k), request[k].mode = "required"
    PROVE  LET Shown(st) == {l \in Levels(k) : workflowStages(k, l) = st} IN
           /\ (Cardinality(Shown("pending")) = 1) <=> (ShownStatus(k) = "pending_approval")
           /\ ShownStatus(k) = "pending_approval" =>
                 \A l \in Shown("waiting"), m \in Shown("pending") : m < l
           /\ (Shown("approved") = Levels(k)) <=> (session[k] # "none")
<1> DEFINE Shown(st) == {l \in Levels(k) : workflowStages(k, l) = st}
<1>1. /\ VotesAreSound(request[k], votes[k])
      /\ StatusIsSound(request[k], votes[k], session[k])
  BY DEF RequestInv, RequestIsSound, Exists
<1>2. Levels(k) \subseteq Level
  BY StoredRow DEF RequestInv
<1>3. ChainComplete(request[k].steps, votes[k]) <=> \A l \in Levels(k) : LevelComplete(k, l)
  BY DEF ChainComplete, Levels, LevelComplete
<1>4. /\ CurrentLevel(k) \in Levels(k) \cup {0}
      /\ CurrentLevel(k) = 0 <=> \A l \in Levels(k) : LevelComplete(k, l)
      /\ \A l \in Levels(k) : l = CurrentLevel(k) <=>
            /\ ~ LevelComplete(k, l)
            /\ \A p \in Levels(k) : p < l => LevelComplete(k, p)
  BY <1>2, <1>3, NextApprovalLevel DEF Levels, CurrentLevel, LevelComplete
<1>5. ASSUME ShownStatus(k) = "pending_approval"
      PROVE  /\ Shown("pending") = {CurrentLevel(k)}
             /\ \A l \in Shown("waiting") : CurrentLevel(k) < l
  <2>1. request[k].status = "pending_approval" /\ ~ overdue[k]
    BY <1>5 DEF ShownStatus
  <2>2. session[k] = "none" /\ NoRejection(votes[k])
    BY <1>1, <2>1 DEF StatusIsSound
  <2>3. CurrentLevel(k) \in Levels(k) /\ CurrentLevel(k) # 0
    BY <1>1, <1>3, <1>4, <2>2 DEF StatusIsSound
  <2>4. ASSUME NEW l \in Levels(k)
        PROVE  workflowStages(k, l) =
                 IF LevelComplete(k, l) THEN "approved"
                 ELSE IF l = CurrentLevel(k) THEN "pending" ELSE "waiting"
    <3>1. ~ \E u \in User : <<l, u, "rejected">> \in votes[k]
      BY <1>2, <2>2, Zenon DEF NoRejection
    <3> QED
      BY <1>5, <3>1 DEF workflowStages
  <2>5. Shown("pending") = {CurrentLevel(k)}
    BY <1>4, <2>3, <2>4
  <2>6. ASSUME NEW l \in Shown("waiting")
        PROVE  CurrentLevel(k) < l
    <3>1. l \in Levels(k) /\ ~ LevelComplete(k, l) /\ l # CurrentLevel(k)
      BY <2>4
    <3>2. PICK p \in Levels(k) : p < l /\ ~ LevelComplete(k, p)
      BY <1>4, <3>1
    <3>3. l \in Nat /\ CurrentLevel(k) \in Nat
      BY <1>2, <2>3, <3>1 DEF Level
    <3>4. ~ (l < CurrentLevel(k))
      BY <1>4, <2>3, <3>1
    <3> QED
      BY <3>1, <3>3, <3>4
  <2> QED
    BY <2>5, <2>6
<1>6. ASSUME ShownStatus(k) # "pending_approval"
      PROVE  Shown("pending") = {}
  BY <1>6 DEF workflowStages
<1>7. (Cardinality(Shown("pending")) = 1) <=> (ShownStatus(k) = "pending_approval")
  BY <1>5, <1>6, FS_EmptySet, FS_Singleton, Zenon
<1>8. (Shown("approved") = Levels(k)) <=> (session[k] # "none")
  <2>1. ASSUME session[k] # "none"
        PROVE  Shown("approved") = Levels(k)
    <3>1. NoRejection(votes[k]) /\ \A l \in Levels(k) : LevelComplete(k, l)
      BY <1>1, <1>3, <2>1 DEF StatusIsSound
    <3>2. \A l \in Levels(k) : workflowStages(k, l) = "approved"
      BY <1>2, <3>1, Zenon DEF workflowStages, NoRejection
    <3> QED
      BY <3>2
  <2>2. ASSUME session[k] = "none"
        PROVE  Shown("approved") # Levels(k)
    <3>1. PICK l \in Levels(k) : ~ LevelComplete(k, l)
      BY <1>1, <1>3, <2>2 DEF StatusIsSound
    <3>2. workflowStages(k, l) # "approved"
      BY <3>1 DEF workflowStages
    <3> QED
      BY <3>2
  <2> QED
    BY <2>1, <2>2
<1> QED
  BY <1>5, <1>7, <1>8

-----------------------------------------------------------------------------
\* The theorems.

\* A session exists only behind a complete chain of approvals of the snapshot's
\* candidates, none of them the applicant (DecideApproval, materializeApproval).
THEOREM SessionsAreApproved == Spec => []SessionNeedsEveryLevel
<1>1. RequestInv => SessionNeedsEveryLevel
  <2> SUFFICES ASSUME RequestInv, NEW k \in Key, session[k] # "none",
                      request[k].mode = "required", NEW l \in Levels(k)
               PROVE  /\ Cardinality(Approvers(k, l)) >= request[k].steps[l].required
                      /\ Approvers(k, l) \subseteq request[k].steps[l].candidates
                      /\ request[k].applicant \notin Approvers(k, l)
    BY DEF SessionNeedsEveryLevel
  <2>1. /\ SnapshotIsSound(request[k]) /\ VotesAreSound(request[k], votes[k])
        /\ StatusIsSound(request[k], votes[k], session[k]) /\ Exists(k)
    BY DEF RequestInv, RequestIsSound, Exists
  <2>2. l \in Level
    BY <2>1, StoredRow DEF RequestInv
  <2>3. Cardinality(Approvers(k, l)) >= request[k].steps[l].required
    BY <2>1 DEF StatusIsSound, ChainComplete, CompleteIn, Approvers, Levels
  <2>4. Approvers(k, l) \subseteq request[k].steps[l].candidates
    BY <2>1, <2>2, Zenon DEF VotesAreSound, Approvers, ApproversIn, Decision
  <2> QED
    BY <2>1, <2>3, <2>4 DEF SnapshotIsSound, Levels
<1> QED
  BY <1>1, RequestInvariance, PTL

\* One applicant never holds two unresolved sessions on the same port
\* (LockApplicantAssetPort and FindActiveByApplicantAssetPort).
THEOREM ActiveSessionsAreUnique == Spec => []OneActivePerTarget
<1>1. RequestInv => OneActivePerTarget
  BY DEF RequestInv
<1> QED
  BY <1>1, RequestInvariance, PTL

\* A successful answer of createAccessRequest names a stored request with the
\* caller's own payload, also for the loser of a race for the key.
THEOREM RetriesAreIdempotent == Spec => []AnswerIsOwnRequest
<1>1. RequestInv => AnswerIsOwnRequest
  BY DEF RequestInv
<1> QED
  BY <1>1, RequestInvariance, PTL

\* The SQL work list, the console's stages and DecideApproval agree on every
\* request (ListPendingByApprover, workflowStages, nextApprovalLevel): of the votes
\* listed the service refuses only those that validateWorkflowVoter refuses because
\* the selector of the level no longer matches the voter.
THEOREM ConsoleIsRight == Spec => []ConsoleAgrees
<1>1. RequestInv => ConsoleAgrees
  <2> SUFFICES ASSUME RequestInv PROVE ConsoleAgrees
    OBVIOUS
  <2>1. ASSUME NEW u \in User
        PROVE  ListPendingByApprover(u) = OpenVotes(u)
    <3>1. ListPendingByApprover(u) \subseteq Key \X Level /\ OpenVotes(u) \subseteq Key \X Level
      BY DEF ListPendingByApprover, OpenVotes
    <3>2. ASSUME NEW kl \in Key \X Level
          PROVE  kl \in ListPendingByApprover(u) <=> kl \in OpenVotes(u)
      <4>1. PICK k \in Key, l \in Level : kl = <<k, l>>
        OBVIOUS
      <4>2. kl[1] = k /\ kl[2] = l
        BY <4>1
      <4>3. kl \in OpenVotes(u) <=> /\ Exists(k) /\ l \in Levels(k)
                                    /\ ~ overdue[k] /\ Decidable(k, l, u)
        BY <4>2 DEF OpenVotes
      <4> QED
        BY <4>1, <4>3, WorkListAgrees
    <3> QED
      BY <3>1, <3>2
  <2>2. ASSUME NEW u \in User
        PROVE  AcceptedVotes(u) =
                 {kl \in OpenVotes(u) : u \in matching[request[kl[1]].steps[kl[2]].selector]}
    BY DEF AcceptedVotes, OpenVotes, validateWorkflowVoter, Decidable
  <2> QED
    BY <2>1, <2>2, StagesAgree DEF ConsoleAgrees
<1> QED
  BY <1>1, RequestInvariance, PTL
=============================================================================
